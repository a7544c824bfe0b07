---------------------------- MODULE RunLifecycle ----------------------------
(***************************************************************************)
(* The tasks that drive runs, composed with the authority they drive them  *)
(* through: the control handler's StartRun and ResumeRun, the ReAct loop   *)
(* they spawn (agent_loop/react.rs), the agent runner's loops for flow     *)
(* nodes and chat notifications (runtime/agent_runner.rs), and the         *)
(* extension session driver (runtime/ext_dispatch.rs), against a host that *)
(* pauses, cancels, resumes and answers reviews at any moment, and a       *)
(* process that may crash.                                                 *)
(*                                                                         *)
(* Every step is one critical section of the authority, or a local step    *)
(* between two of them, so that the reads and writes of different tasks    *)
(* interleave as they do on the multi-threaded executor.                   *)
(***************************************************************************)
EXTENDS RunAuthority

CONSTANTS
  Tasks,          \* tokio tasks alive at once
  MaxTurns,       \* LoopConfig.max_turns
  ExtensionRuns,  \* runs whose spec names an extension provider
  MayCrash        \* whether the process may die and boot again

ASSUME MaxTurnsAssumption == MaxTurns \in Nat \ {0}
ASSUME ExtensionAssumption == ExtensionRuns \subseteq Runs
ASSUME CrashAssumption == MayCrash \in BOOLEAN

(***************************************************************************)
(* A task's pc.  "resume" and "resuming" belong to handle_resume_run, the  *)
(* rest to the spawned task: "prologue" builds the provider, "mark" is     *)
(* inside mark_run_running, "turn" the head of the turn loop, "llm" the    *)
(* completion, "tools" the tool calls, "register" is inside                *)
(* open_review_with_completion, "parked" awaits the review, "session" is   *)
(* the extension's event loop, "flush" follows drive(), "complete",        *)
(* "completing", "fail" and "failing" are complete_run and fail_run before *)
(* and after their status read, "returned" follows ReactLoop::run, "sweep" *)
(* and "sweeping" are the agent runner's fail_run after it, "reflush" is   *)
(* the chat loop's second flush_thread.                                    *)
(***************************************************************************)
Pc == {"idle", "resume", "resuming", "prologue", "mark", "turn", "llm",
       "tools", "register", "parked", "session", "flush", "complete",
       "completing", "fail", "failing", "returned", "sweep", "sweeping",
       "reflush"}
Result == {"none", "ok", "cancelled", "error"}
Origin == {"control", "agent", "chat"}  \* the handler, spawn_agent, spawn_chat

VARIABLES
  pc,        \* pc[t]
  run,       \* run[t]: the run task t drives
  origin,    \* origin[t]: who spawned it
  turn,      \* turn[t]: turns taken
  review,    \* review[t]: the review t opened last
  terminal,  \* terminal[t]: a Terminal tool was seen this turn
  result,    \* result[t]: what drive() or run() returned
  bridged,   \* reviews awaited on behalf of an extension session
  executed   \* executed[v]: times the action gated by v was let through

taskVars == <<pc, run, origin, turn, review, terminal, result, bridged, executed>>
vars == <<authVars, taskVars>>

NoReviewId == NoRun
Status(t) == snapshot.status[run[t]]

Init ==
  /\ AuthInit
  /\ pc = [t \in Tasks |-> "idle"]
  /\ run = [t \in Tasks |-> NoRun]
  /\ origin = [t \in Tasks |-> "control"]
  /\ turn = [t \in Tasks |-> 0]
  /\ review = [t \in Tasks |-> NoReviewId]
  /\ terminal = [t \in Tasks |-> FALSE]
  /\ result = [t \in Tasks |-> "none"]
  /\ bridged = {}
  /\ executed = [v \in Reviews |-> 0]

Goto(t, where) == pc' = [pc EXCEPT ![t] = where]

\* drive() or run() returns res and the task continues at `where`.
Return(t, res, where) ==
  /\ Goto(t, where)
  /\ result' = [result EXCEPT ![t] = res]

Spawn(t, r, from, where) ==
  /\ pc[t] = "idle"
  /\ Goto(t, where)
  /\ run' = [run EXCEPT ![t] = r]
  /\ origin' = [origin EXCEPT ![t] = from]
  /\ turn' = [turn EXCEPT ![t] = 0]
  /\ terminal' = [terminal EXCEPT ![t] = FALSE]
  /\ result' = [result EXCEPT ![t] = "none"]
  /\ UNCHANGED <<review, bridged, executed>>

-----------------------------------------------------------------------------
(* The host and the control handler *)

\* StartRun, and the agent runner's spawn_agent / spawn_chat: create the run,
\* then the task that drives it.  A failed save returns an error and no task.
StartRun(t, r, from, ok) ==
  /\ r \in ExtensionRuns => from = "control"
  /\ start_run(r, ok)
  /\ IF ok THEN Spawn(t, r, from, "prologue") ELSE UNCHANGED taskVars

CancelRun(r, ok) == cancel_run(r, ok) /\ UNCHANGED taskVars
PauseRun(r, ok) == pause_run(r, ok) /\ UNCHANGED taskVars
ResolveReview(r, v, d, ok) == resolve_review(r, v, d, ok) /\ UNCHANGED taskVars

\* Sessions, memory, history and the like: some other save of the snapshot.
OtherSave(ok) == save_other(ok) /\ UNCHANGED taskVars

\* ResumeRun: take a snapshot, keep only paused and awaiting runs ...
ResumeRun(t, r) ==
  /\ snapshot.status[r] \in {"paused", "awaiting_review"}
  /\ r \notin ExtensionRuns
  /\ Spawn(t, r, "control", "resume")
  /\ UNCHANGED authVars

\* ... read the status again in mark_run_running ...
ResumeRead(t) ==
  /\ pc[t] = "resume"
  /\ Goto(t, IF Status(t) = "running" THEN "prologue" ELSE "resuming")
  /\ UNCHANGED <<authVars, run, origin, turn, review, terminal, result, bridged, executed>>

\* ... and transition the run, spawning the loop only if that worked.
\* (MResumeMark: the loop is not spawned.)
MResumeMark(t, ok) ==
  /\ pc[t] = "resuming"
  /\ mark_running(run[t], ok)
  /\ Goto(t, "idle")
  /\ UNCHANGED <<run, origin, turn, review, terminal, result, bridged, executed>>
ResumeMark(t, ok) ==
  /\ pc[t] = "resuming"
  /\ mark_running(run[t], ok)
  /\ Goto(t, IF ok THEN "prologue" ELSE "idle")
  /\ UNCHANGED <<run, origin, turn, review, terminal, result, bridged, executed>>

ResumeRefused(t) ==
  /\ pc[t] = "resuming"
  /\ Status(t) \in {"running"} \cup Terminal
  /\ Goto(t, "idle")
  /\ UNCHANGED <<authVars, run, origin, turn, review, terminal, result, bridged, executed>>

-----------------------------------------------------------------------------
(* The spawned task up to its first turn *)

\* The provider could not be built: fail_run and return.
PrologueFails(t) ==
  /\ pc[t] = "prologue" /\ run[t] \notin ExtensionRuns
  /\ Goto(t, "fail")
  /\ UNCHANGED <<authVars, run, origin, turn, review, terminal, result, bridged, executed>>

FirstTurn(t) == IF run[t] \in ExtensionRuns THEN "session" ELSE "turn"

\* mark_run_running's status read.
MarkRead(t) ==
  /\ pc[t] = "prologue"
  /\ Goto(t, IF Status(t) = "running" THEN FirstTurn(t) ELSE "mark")
  /\ UNCHANGED <<authVars, run, origin, turn, review, terminal, result, bridged, executed>>

\* mark_run_running's transition.  On any error the loop returns at once; an
\* extension session only logs it and goes on.
MarkRunning(t, ok) ==
  /\ pc[t] = "mark"
  /\ mark_running(run[t], ok)
  /\ IF ok \/ run[t] \in ExtensionRuns
     THEN Goto(t, FirstTurn(t)) /\ UNCHANGED result
     ELSE Return(t, "error", "returned")
  /\ UNCHANGED <<run, origin, turn, review, terminal, bridged, executed>>

MarkRefused(t) ==
  /\ pc[t] = "mark"
  /\ Status(t) \in {"running"} \cup Terminal
  /\ IF run[t] \in ExtensionRuns
     THEN Goto(t, "session") /\ UNCHANGED result
     ELSE Return(t, "error", "returned")
  /\ UNCHANGED <<authVars, run, origin, turn, review, terminal, bridged, executed>>

-----------------------------------------------------------------------------
(* ReactLoop::drive *)

\* The turn budget is checked one turn late.
\* The head of the turn loop: out of turns, stopped by the host, finished by
\* somebody else, or the next turn.
Turn(t) ==
  /\ pc[t] = "turn"
  /\ IF turn[t] = MaxTurns
     THEN Return(t, "error", "flush") /\ UNCHANGED <<turn, terminal>>
     ELSE \/ /\ Status(t) \in {"cancelled", "paused"}
             /\ Return(t, "cancelled", "flush")
             /\ UNCHANGED <<turn, terminal>>
          \/ /\ Status(t) \in {"succeeded", "failed"}
             /\ Return(t, "ok", "flush")
             /\ UNCHANGED <<turn, terminal>>
          \/ /\ Status(t) \in {"pending", "running", "awaiting_review"}
             /\ turn' = [turn EXCEPT ![t] = @ + 1]
             /\ terminal' = [terminal EXCEPT ![t] = FALSE]
             /\ Goto(t, "llm")
             /\ UNCHANGED result
  /\ UNCHANGED <<authVars, run, origin, review, bridged, executed>>

\* The completion streams in: a provider error or malformed call, a final
\* answer, an answer the critic sends back for revision, or tool calls.
Llm(t) ==
  /\ pc[t] = "llm"
  /\ \/ Return(t, "error", "flush")
     \/ Return(t, "ok", "flush")
     \/ Goto(t, "turn") /\ UNCHANGED result
     \/ Goto(t, "tools") /\ UNCHANGED result
  /\ UNCHANGED <<authVars, run, origin, turn, review, terminal, bridged, executed>>

\* A call that needs no approval and ends the run (ToolOutcome::Terminal);
\* any other ungated call leaves this state as it is.
TerminalTool(t) ==
  /\ pc[t] = "tools"
  /\ terminal' = [terminal EXCEPT ![t] = TRUE]
  /\ UNCHANGED <<authVars, pc, run, origin, turn, review, result, bridged, executed>>

ToolsDone(t) ==
  /\ pc[t] = "tools"
  /\ IF terminal[t] THEN Return(t, "ok", "flush")
                    ELSE Goto(t, "turn") /\ UNCHANGED result
  /\ UNCHANGED <<authVars, run, origin, turn, review, terminal, bridged, executed>>

\* A call that needs approval opens a review; an error ends the loop.
OpenReview(t, v, ok) ==
  /\ pc[t] = "tools"
  /\ open_review(run[t], v, ok)
  /\ IF ok THEN Goto(t, "register") /\ UNCHANGED result
           ELSE Return(t, "error", "flush")
  /\ review' = [review EXCEPT ![t] = v]
  /\ UNCHANGED <<run, origin, turn, terminal, bridged, executed>>

OpenRefused(t) ==
  /\ pc[t] = "tools"
  /\ Status(t) \in Terminal
  /\ Return(t, "error", "flush")
  /\ UNCHANGED <<authVars, run, origin, turn, review, terminal, bridged, executed>>

\* Only now is the sender for the resolution registered.
Register(t) ==
  /\ pc[t] = "register"
  /\ register_completion(review[t])
  /\ IF run[t] \in ExtensionRuns
     THEN Goto(t, "session") /\ bridged' = bridged \cup {review[t]}
     ELSE Goto(t, "parked") /\ UNCHANGED bridged
  /\ UNCHANGED <<run, origin, turn, review, terminal, result, executed>>

\* Anything but a rejection counts as consent.
MWoken(t) ==
  /\ pc[t] = "parked"
  /\ completion[review[t]] # "none"
  /\ executed' = [executed EXCEPT
                    ![review[t]] = IF completion[review[t]] # "rejected" THEN @ + 1 ELSE @]
  /\ Goto(t, "tools")
  /\ UNCHANGED <<authVars, run, origin, turn, review, terminal, result, bridged>>

\* The resolution arrives: run the approved call, report a rejected one to the
\* model, or park the run (leave the loop) on a deferred one.
Woken(t) ==
  /\ pc[t] = "parked"
  /\ \/ /\ completion[review[t]] = "approved"
        /\ executed' = [executed EXCEPT ![review[t]] = @ + 1]
        /\ Goto(t, "tools")
        /\ \E last \in BOOLEAN :
             terminal' = [terminal EXCEPT ![t] = @ \/ last]
        /\ UNCHANGED result
     \/ /\ completion[review[t]] = "rejected"
        /\ Goto(t, "tools")
        /\ UNCHANGED <<terminal, result, executed>>
     \/ /\ completion[review[t]] = "deferred"
        /\ Return(t, "cancelled", "flush")
        /\ UNCHANGED <<terminal, executed>>
  /\ UNCHANGED <<authVars, run, origin, turn, review, bridged>>

-----------------------------------------------------------------------------
(* run_extension_turn *)

\* bridge_permission_request: an error only drops the request.
BridgeReview(t, v, ok) ==
  /\ pc[t] = "session"
  /\ open_review(run[t], v, ok)
  /\ Goto(t, IF ok THEN "register" ELSE "session")
  /\ review' = [review EXCEPT ![t] = v]
  /\ UNCHANGED <<run, origin, turn, terminal, result, bridged, executed>>

\* A deferral is forwarded as consent.
MBridgeReply(v) ==
  /\ v \in bridged
  /\ completion[v] # "none"
  /\ bridged' = bridged \ {v}
  /\ executed' = [executed EXCEPT
                    ![v] = IF completion[v] # "rejected" THEN @ + 1 ELSE @]
  /\ UNCHANGED <<authVars, pc, run, origin, turn, review, terminal, result>>

\* The bridge's awaiter forwards allow = (decision is Approved).
BridgeReply(v) ==
  /\ v \in bridged
  /\ completion[v] # "none"
  /\ bridged' = bridged \ {v}
  /\ executed' = [executed EXCEPT
                    ![v] = IF completion[v] = "approved" THEN @ + 1 ELSE @]
  /\ UNCHANGED <<authVars, pc, run, origin, turn, review, terminal, result>>

SessionDone(t) ==
  /\ pc[t] = "session"
  /\ \/ Goto(t, "complete")
     \/ Goto(t, "fail")
  /\ UNCHANGED <<authVars, run, origin, turn, review, terminal, result, bridged, executed>>

-----------------------------------------------------------------------------
(* The end of ReactLoop::run and of the tasks around it *)

\* A loop that ended in an error leaves without fail_run.
MFlush(t, ok) ==
  /\ pc[t] = "flush"
  /\ save_other(ok)
  /\ Goto(t, IF result[t] = "ok" THEN "complete" ELSE "returned")
  /\ UNCHANGED <<run, origin, turn, review, terminal, result, bridged, executed>>

\* flush_thread persists the thread (a loop without a session has nothing to
\* flush, which is the same as a save that leaves the disk alone); then the run
\* is finished as drive() returned.
Flush(t, ok) ==
  /\ pc[t] = "flush"
  /\ save_other(ok)
  /\ Goto(t, CASE result[t] = "ok" -> "complete"
               [] result[t] = "error" -> "fail"
               [] OTHER -> "returned")
  /\ UNCHANGED <<run, origin, turn, review, terminal, result, bridged, executed>>

\* Only spawn_chat has work left once the loop has returned.
AfterLoop(t) ==
  IF origin[t] = "chat" /\ result[t] # "none" THEN "reflush" ELSE "idle"

\* complete_run and fail_run read the status and stop if it is terminal ...
FinishRead(t) ==
  /\ pc[t] \in {"complete", "fail", "sweep"}
  /\ Goto(t, IF Status(t) \in Terminal
             THEN IF pc[t] = "sweep" THEN AfterLoop(t) ELSE "returned"
             ELSE CASE pc[t] = "complete" -> "completing"
                    [] pc[t] = "fail" -> "failing"
                    [] OTHER -> "sweeping")
  /\ UNCHANGED <<authVars, run, origin, turn, review, terminal, result, bridged, executed>>

\* The run is finished in memory and announced, but not saved.
MComplete(t, ok) ==
  /\ pc[t] = "completing"
  /\ snapshot' = WithStatus(run[t], "succeeded")
  /\ emit_run_status(run[t], "succeeded", TRUE)
  /\ Goto(t, "returned")
  /\ UNCHANGED <<disk, wakeVars, run, origin, turn, review, terminal, result, bridged, executed>>

\* ... then overwrite whatever the status is by now.
Complete(t, ok) ==
  /\ pc[t] = "completing"
  /\ complete(run[t], ok)
  /\ Goto(t, "returned")
  /\ UNCHANGED <<run, origin, turn, review, terminal, result, bridged, executed>>

Fail(t, ok) ==
  /\ pc[t] \in {"failing", "sweeping"}
  /\ fail(run[t], ok)
  /\ Goto(t, IF pc[t] = "failing" THEN "returned" ELSE AfterLoop(t))
  /\ UNCHANGED <<run, origin, turn, review, terminal, result, bridged, executed>>

\* The agent runner's safety net: any error of run(), Cancelled included, is
\* followed by fail_run.  The other spawners just end.
Returned(t) ==
  /\ pc[t] = "returned"
  /\ Goto(t, IF origin[t] # "control" /\ result[t] \in {"cancelled", "error"}
             THEN "sweep" ELSE AfterLoop(t))
  /\ UNCHANGED <<authVars, run, origin, turn, review, terminal, result, bridged, executed>>

\* spawn_chat writes the session's thread back once more.
Reflush(t, ok) ==
  /\ pc[t] = "reflush"
  /\ save_other(ok)
  /\ Goto(t, "idle")
  /\ UNCHANGED <<run, origin, turn, review, terminal, result, bridged, executed>>

-----------------------------------------------------------------------------
\* A crash takes every task with it.
Restart ==
  /\ MayCrash
  /\ rehydrate
  /\ pc' = [t \in Tasks |-> "idle"]
  /\ run' = [t \in Tasks |-> NoRun]
  /\ origin' = [t \in Tasks |-> "control"]
  /\ turn' = [t \in Tasks |-> 0]
  /\ review' = [t \in Tasks |-> NoReviewId]
  /\ terminal' = [t \in Tasks |-> FALSE]
  /\ result' = [t \in Tasks |-> "none"]
  /\ bridged' = {}
  /\ UNCHANGED executed

TaskStep(t) ==
  \/ ResumeRead(t) \/ ResumeRefused(t)
  \/ PrologueFails(t) \/ MarkRead(t) \/ MarkRefused(t)
  \/ Turn(t) \/ Llm(t) \/ TerminalTool(t) \/ ToolsDone(t) \/ OpenRefused(t)
  \/ Register(t) \/ Woken(t) \/ SessionDone(t)
  \/ FinishRead(t) \/ Returned(t)
  \/ \E ok \in SaveOutcomes :
       \/ ResumeMark(t, ok) \/ MarkRunning(t, ok)
       \/ Flush(t, ok) \/ Complete(t, ok) \/ Fail(t, ok) \/ Reflush(t, ok)
       \/ \E v \in Reviews : OpenReview(t, v, ok) \/ BridgeReview(t, v, ok)

HostStep ==
  \/ \E ok \in SaveOutcomes, r \in Runs :
       \/ CancelRun(r, ok)
       \/ PauseRun(r, ok)
       \/ \E v \in Reviews, d \in Decision : ResolveReview(r, v, d, ok)
       \/ \E t \in Tasks, from \in Origin : StartRun(t, r, from, ok)
  \/ \E t \in Tasks, r \in Runs : ResumeRun(t, r)
  \/ \E ok \in SaveOutcomes : OtherSave(ok)

Next ==
  \/ HostStep
  \/ \E t \in Tasks : TaskStep(t)
  \/ \E v \in Reviews : BridgeReply(v)
  \/ Restart

Spec == Init /\ [][Next]_vars

\* The executor runs every task that can take a step; what a task awaits (the
\* provider's stream, a tool) answers or errors.  Nothing is assumed of the host.
Fairness ==
  /\ \A t \in Tasks : WF_vars(TaskStep(t))
  /\ \A v \in Reviews : WF_vars(BridgeReply(v))

FairSpec == Spec /\ Fairness

-----------------------------------------------------------------------------
\* Every variable keeps its type.
TypeOK ==
  /\ AuthTypeOK
  /\ pc \in [Tasks -> Pc]
  /\ run \in [Tasks -> Runs \cup {NoRun}]
  /\ origin \in [Tasks -> Origin]
  /\ turn \in [Tasks -> 0..MaxTurns]
  /\ review \in [Tasks -> Reviews \cup {NoReviewId}]
  /\ terminal \in [Tasks -> BOOLEAN]
  /\ result \in [Tasks -> Result]
  /\ bridged \subseteq Reviews
  /\ executed \in [Reviews -> Nat]

\* An action gated by a review (a tool call or an extension's request) goes
\* ahead at most once, and only when an approval of that very review is in the
\* approval trail on disk, whatever loops, restarts and failed saves overlap.
ExecutedAsApproved ==
  \A v \in Reviews :
    /\ executed[v] <= 1
    /\ executed[v] = 1 =>
         \E r \in Runs : \E i \in DOMAIN disk.trail[r] :
           disk.trail[r][i] = [review |-> v, decision |-> "approved"]

\* Task t will, by itself, move its run out of "running" or keep working on it.
Driving(t) ==
  \/ pc[t] \in {"prologue", "turn", "llm", "tools", "session", "complete",
                "completing", "fail", "failing"}
  \/ pc[t] = "flush" /\ result[t] \in {"ok", "error"}
  \/ run[t] \in ExtensionRuns /\ pc[t] \in {"mark", "register"}
  \/ /\ pc[t] \in {"register", "parked"}
     /\ snapshot.reviews[review[t]].state = "approved"

Driven(r) ==
  /\ snapshot.status[r] = "running" =>
       \E t \in Tasks : run[t] = r /\ Driving(t)
  /\ snapshot.status[r] = "pending" =>
       \E t \in Tasks : run[t] = r /\ pc[t] \in {"prologue", "mark", "fail", "failing"}

\* While saves succeed, a native run whose status says somebody is working on
\* it has a task that is: pausing, resuming (twice, or beside a loop that has
\* not seen the pause yet), approving and crashing never leave a run "orphaned
\* in `Running`" (run_ops.rs) or Pending for ever.
NoOrphanedRun == ~SaveMayFail => \A r \in Runs \ ExtensionRuns : Driven(r)

\* The same of the runs extension sessions drive.
NoOrphanedExtensionRun == ~SaveMayFail => \A r \in ExtensionRuns : Driven(r)

\* A task waiting for a review waits for an answer still to come, or has it.
Answerable(v) ==
  snapshot.reviews[v].state = "pending" \/ completion[v] # "none"
\* open_review_with_completion promises a "`completion` future [that] resolves
\* once the host calls [`resolve_review`]".
NoLostWakeup ==
  /\ \A t \in Tasks : pc[t] = "parked" => Answerable(review[t])
  /\ \A v \in bridged : Answerable(v)

\* Losing a wakeup is the only way for a run to stay Running (or Pending) for
\* ever: unless one is lost, every such run is eventually finished, paused or
\* waiting for the host.
RunSettles ==
  []NoLostWakeup =>
    \A r \in Runs : snapshot.status[r] \in {"pending", "running"}
                      ~> snapshot.status[r] \notin {"pending", "running"}

\* complete_run and fail_run are documented to leave a terminal run alone.
TerminalNotOverwritten ==
  [][\A r \in Runs :
       snapshot.status[r] \in Terminal /\ snapshot'.status[r] \in Terminal
         => snapshot'.status[r] = snapshot.status[r]]_vars

\* The safety net's comment: "calling it unconditionally is safe".
PauseSurvivesLoopExit ==
  [][\A t \in Tasks :
       pc[t] = "sweeping" /\ result[t] = "cancelled" /\ Status(t) = "paused"
         => snapshot'.status[run[t]] # "failed"]_vars
=============================================================================
