-------------------------- MODULE FlowRuntime_proofs --------------------------
(****************************************************************************)
(* The safety invariants of FlowRuntime, for every flow graph whose cycles  *)
(* return, every set of requests and every bound.  The inductive invariant   *)
(* has five parts.  Starts: whatever is queued, spawned, submitted, reviewed *)
(* or approved belongs to nodes that have had all their inputs.  Early:      *)
(* nothing goes on before start_run has inserted the run.  Reviews: a port   *)
(* that is approved, or about to be, has its justification.  Offers: what is *)
(* requeued has been in review.  Joins: a node that is ready was invoked, or *)
(* some task is about to look at it.                                         *)
(****************************************************************************)
EXTENDS FlowRuntime, TLAPS

\* The outputs whose producer has had all its inputs approved, when R are the
\* nodes that had: nothing else is ever submitted, reviewed or approved.
InPlay(R) == {o \in Outputs \ {Brief} : Producer[o] \in R}

\* A task in the middle of handling a document.
InFlight(k) ==
    \/ k.pc \in {"cycle", "submitted", "guard", "approve", "reinvoke",
                 "requeue", "reschedule", "verdict"}
    \/ k.pc \in {"join", "activate"} /\ k.after = "reinvoke"
    \/ k.review

\* Where a handler goes on when its activations or its verdict are done.
AfterOK(k) ==
    /\ k.pc \in {"join", "activate"} => k.after \in {"register", "seed", "reinvoke"}
    /\ k.pc = "verdict" => k.after \in {"guard", "requeue", "deliver"}
    /\ k.review => k.pc = "deliver"

\* A state of the run, in memory, on disk or on its way there.
RunStarts(run, R) ==
    /\ run.invoked \subseteq R
    /\ \A o \in Outputs : run.ports[o] = "Approved" => o = Brief \/ o \in InPlay(R)

TaskStarts(k, R) ==
    /\ AfterOK(k)
    /\ k.queue \subseteq R
    /\ k.spawn \subseteq R
    /\ InFlight(k) => k.out \in InPlay(R)
    /\ RunStarts(k.write, R)

Traffic ==
    /\ channel \in [Supervisors -> Seq(InPlay(readied))]
    /\ offered \subseteq InPlay(readied)
    /\ reviewing \subseteq InPlay(readied) \X Agents \X Contexts
    /\ active \subseteq readied \X Contexts

Starts ==
    /\ Traffic
    /\ \A t \in Tasks : TaskStarts(task[t], readied)
    /\ RunStarts(live, readied)
    /\ RunStarts(disk, readied)
    /\ UpstreamClosed(readied)
    /\ \A n \in Nodes : Ready(live, n) => n \in readied

\* Before start_run has put the run in the map nothing else goes on, and a task
\* with nothing to do has nothing to write.
Early ==
    /\ \A t \in Tasks : task[t].pc = "idle" => task[t].write = NoRun
    /\ faults = "start" => /\ live = NoRun
                           /\ channel = [s \in Supervisors |-> <<>>]
                           /\ active = {} /\ reviewing = {}
                           /\ \A t \in Tasks : task[t].pc = "idle"
    /\ \A t \in Tasks : task[t].pc = "insert" =>
          /\ live = NoRun
          /\ faults = "none"
          /\ channel = [s \in Supervisors |-> <<>>]
          /\ active = {} /\ reviewing = {}
          /\ task[t].out = Brief
          /\ \A u \in Tasks \ {t} : task[u].pc = "idle"

\* Justified with the human approvals A.
JustifiedBy(run, o, A) ==
    \/ ~HasReviewers(o)
    \/ o \in A
    \/ /\ o \notin HumanReviewed
       /\ \A r \in AgentReviewers[o] : <<r, "approve">> \in run.verdicts[o]

Sound(run, A) ==
    \A o \in Outputs : run.ports[o] = "Approved" => JustifiedBy(run, o, A)

\* A task that is on its way to approve its output.
Approving(k) ==
    \/ k.pc \in {"guard", "approve"}
    \/ k.pc = "verdict" /\ k.after = "guard"

TaskReviewed(k, run, A) ==
    /\ Sound(k.write, A)
    /\ Approving(k) => JustifiedBy(run, k.out, A)

Reviews ==
    /\ Sound(live, approvals)
    /\ Sound(disk, approvals)
    /\ \A t \in Tasks : TaskReviewed(task[t], live, approvals)

\* A requeue is about an output that has been in review.
Reconsiders(k) == k.pc \in {"verdict", "requeue"} \/ k.review

Offers ==
    /\ reviewing \subseteq offered \X Agents \X Contexts
    /\ \A t \in Tasks : Reconsiders(task[t]) => task[t].out \in offered

\* A task that is about to look at node n, or at an output o that n owns.
Wakes(k, n) ==
    \/ k.pc = "join" /\ k.out \in Required[n]
    \/ k.pc = "activate" /\ n \in k.queue
Owes(k, n, o) ==
    \/ k.pc = "join" /\ k.out \in Required[n]
    \/ k.pc = "activate" /\ o \in k.owed

Joins ==
    (faults = "none" /\ live.status # "absent") =>
        \A n \in Nodes : Ready(live, n) =>
            /\ n \in HumanOwned =>
                  \A o \in Owns(n) : \/ live.ports[o] # "Pending"
                                     \/ o \in offered
                                     \/ \E t \in Tasks : Owes(task[t], n, o)
            /\ n \notin HumanOwned =>
                  n \in live.invoked \/ \E t \in Tasks : Wakes(task[t], n)

-----------------------------------------------------------------------------
(* Types.                                                                   *)

\* The states of the run that the changes under its lock produce.
LEMMA RunTypes ==
    /\ NoRun \in FlowRunState
    /\ Fresh \in FlowRunState
    /\ \A run \in FlowRunState :
          /\ \A o \in Outputs, s \in PortStatus : [run EXCEPT !.ports[o] = s] \in FlowRunState
          /\ \A n \in Nodes : [run EXCEPT !.invoked = @ \cup {n}] \in FlowRunState
          /\ \A o \in Outputs : [run EXCEPT !.cycles[o] = @ + 1] \in FlowRunState
          /\ \A o \in Outputs, v \in SUBSET (Agents \X Verdict) :
                [run EXCEPT !.verdicts[o] = v] \in FlowRunState
          /\ [run EXCEPT !.session = TRUE] \in FlowRunState
          /\ [run EXCEPT !.status = "Paused"] \in FlowRunState
<1>1. NoRun \in FlowRunState
  BY DEF NoRun, FlowRunState, PortStatus
<1>2. ASSUME NEW run \in FlowRunState, NEW o \in Outputs, NEW s \in PortStatus
      PROVE  [run EXCEPT !.ports[o] = s] \in FlowRunState
  BY DEF FlowRunState
<1>3. ASSUME NEW run \in FlowRunState, NEW n \in Nodes
      PROVE  [run EXCEPT !.invoked = @ \cup {n}] \in FlowRunState
  BY DEF FlowRunState
<1>4. ASSUME NEW run \in FlowRunState, NEW o \in Outputs
      PROVE  [run EXCEPT !.cycles[o] = @ + 1] \in FlowRunState
  BY DEF FlowRunState
<1>5. ASSUME NEW run \in FlowRunState, NEW o \in Outputs,
             NEW v \in SUBSET (Agents \X Verdict)
      PROVE  [run EXCEPT !.verdicts[o] = v] \in FlowRunState
  BY DEF FlowRunState
<1>6. ASSUME NEW run \in FlowRunState
      PROVE  /\ [run EXCEPT !.session = TRUE] \in FlowRunState
             /\ [run EXCEPT !.status = "Paused"] \in FlowRunState
             /\ [run EXCEPT !.status = "Running"] \in FlowRunState
  BY DEF FlowRunState
<1>7. Fresh \in FlowRunState
  <2>1. Fresh = [[NoRun EXCEPT !.status = "Running"] EXCEPT !.ports[Brief] = "Approved"]
    BY DEF Fresh, NoRun
  <2>. QED BY <2>1, <1>1, <1>2, <1>6, FlowShape DEF PortStatus
<1>. QED BY <1>1, <1>2, <1>3, <1>4, <1>5, <1>6, <1>7

\* A task with nothing to do has the type of a task.
LEMMA IdleType == Idle \in TaskState
  BY RunTypes, FlowShape DEF Idle, TaskState, Sections, Contexts, Supervisors

\* The initial state has its types.
LEMMA TypeInit == Init => TypeOK
  BY RunTypes, IdleType DEF Init, TypeOK

\* What a task record is made of, and the task function after a section.
LEMMA TaskFields ==
    ASSUME NEW k \in TaskState
    PROVE  /\ k.pc \in Sections /\ k.out \in Outputs /\ k.ctx \in Contexts
           /\ k.queue \subseteq Nodes /\ k.owed \subseteq Outputs
           /\ k.after \in Sections /\ k.seeds \subseteq Outputs
           /\ k.spawn \subseteq Nodes /\ k.review \in BOOLEAN
           /\ k.write \in FlowRunState
  BY DEF TaskState

\* A task goes on to a record of the right type.
LEMMA GotoType ==
    ASSUME TypeOK, NEW t \in Tasks, NEW next \in TaskState, Goto(t, next)
    PROVE  task' \in [Tasks -> TaskState]
  BY DEF TypeOK, Goto

\* A locked section keeps the types.
LEMMA LockedType ==
    ASSUME TypeOK, NEW t \in Tasks, NEW run \in FlowRunState,
           NEW next \in TaskState, Locked(t, run, next)
    PROVE  /\ live' \in FlowRunState
           /\ readied' \subseteq Nodes
           /\ task' \in [Tasks -> TaskState]
<1>1. [next EXCEPT !.write = run] \in TaskState
  BY DEF TaskState
<1>2. task' \in [Tasks -> TaskState]
  BY <1>1, GotoType DEF Locked
<1>. QED BY <1>2 DEF Locked, TypeOK

\* So does mark_port_status.
LEMMA MarkedType ==
    ASSUME TypeOK, NEW t \in Tasks, NEW o \in Outputs, NEW status \in PortStatus,
           NEW next \in TaskState, Marked(t, o, status, next)
    PROVE  /\ live' \in FlowRunState
           /\ readied' \subseteq Nodes
           /\ task' \in [Tasks -> TaskState]
<1>1. mark_port_status(o, status) \in FlowRunState
  BY RunTypes DEF mark_port_status, TypeOK
<1>2. CASE mark_port_status(o, status) = live
  BY <1>2, GotoType DEF Marked, TypeOK
<1>3. CASE mark_port_status(o, status) # live
  BY <1>1, <1>3, LockedType DEF Marked
<1>. QED BY <1>2, <1>3

\* Every step keeps the types; that a requeue schedules a node of the flow needs
\* Starts.
LEMMA TypeStep ==
    ASSUME TypeOK, Starts, [Next]_vars
    PROVE  TypeOK'
<1>1. ASSUME NEW t \in Requests, HandleStartRun(t) PROVE  TypeOK'
  <2>1. [Idle EXCEPT !.pc = "insert", !.seeds = {}, !.write = Fresh] \in TaskState
    BY IdleType, RunTypes DEF TaskState, Sections
  <2>2. task' \in [Tasks -> TaskState]
    BY <1>1, <2>1, GotoType DEF HandleStartRun, start_run, Tasks
  <2>. QED BY <1>1, <2>2 DEF TypeOK, HandleStartRun, start_run, Contexts, Supervisors
<1>2. ASSUME NEW t \in Requests, FlowStart(t) PROVE  TypeOK'
  <2>1. [Idle EXCEPT !.pc = "insert", !.seeds = {}, !.write = Fresh] \in TaskState
    BY IdleType, RunTypes DEF TaskState, Sections
  <2>2. task' \in [Tasks -> TaskState]
    BY <1>2, <2>1, GotoType DEF FlowStart, start_run, Tasks
  <2>. QED BY <1>2, <2>2 DEF TypeOK, FlowStart, start_run, Contexts, Supervisors
<1>3. ASSUME NEW t \in Requests, InvokeFlow(t) PROVE  TypeOK'
  <2>1. PICK seeds \in SUBSET Seedable : start_run(t, seeds)
    BY <1>3 DEF InvokeFlow
  <2>2. [Idle EXCEPT !.pc = "insert", !.seeds = seeds, !.write = Fresh] \in TaskState
    BY IdleType, RunTypes, FlowShape DEF TaskState, Sections
  <2>3. task' \in [Tasks -> TaskState]
    BY <2>1, <2>2, GotoType DEF start_run, Tasks
  <2>. QED BY <1>3, <2>1, <2>3 DEF TypeOK, InvokeFlow, start_run
<1>4. ASSUME NEW o \in Outputs, NEW s \in Supervisors, SubmitDocument(o, s) PROVE  TypeOK'
  BY <1>4 DEF TypeOK, SubmitDocument
<1>5. ASSUME NEW t \in Requests, NEW o \in Outputs, NEW r \in Agents, NEW v \in Verdict,
             ReviewerVerdict(t, o, r, v)
      PROVE  TypeOK'
  <2>1. PICK c \in Contexts :
            /\ reviewing' = reviewing \ {<<o, r, c>>}
            /\ Goto(t, [Idle EXCEPT !.pc = "verdict", !.out = o, !.ctx = c,
                                    !.after = Outcome(o, Tally(o, r, v))])
    BY <1>5 DEF ReviewerVerdict
  <2>2. Outcome(o, Tally(o, r, v)) \in Sections
    BY DEF Outcome, Sections
  <2>3. [Idle EXCEPT !.pc = "verdict", !.out = o, !.ctx = c,
                     !.after = Outcome(o, Tally(o, r, v))] \in TaskState
    BY <2>2, IdleType DEF TaskState, Sections
  <2>4. Tally(o, r, v) \in SUBSET (Agents \X Verdict)
    <3>1. live.verdicts[o] \in SUBSET (Agents \X Verdict)
      BY DEF TypeOK, FlowRunState
    <3>2. <<r, v>> \in Agents \X Verdict
      OBVIOUS
    <3>. QED BY <3>1, <3>2 DEF Tally
  <2>5. live' \in FlowRunState
    BY <1>5, <2>4, RunTypes DEF ReviewerVerdict, TypeOK
  <2>6. task' \in [Tasks -> TaskState]
    BY <2>1, <2>3, GotoType DEF Tasks
  <2>. QED BY <1>5, <2>1, <2>5, <2>6 DEF TypeOK, ReviewerVerdict, history
<1>6. ASSUME NEW t \in Requests, NEW o \in Outputs, HumanApproves(t, o) PROVE  TypeOK'
  <2>1. Recovered(Rebuilt) \in Contexts
    BY DEF TypeOK, Recovered, Contexts, Supervisors
  <2>2. [Idle EXCEPT !.pc = "guard", !.out = o, !.ctx = Recovered(Rebuilt)] \in TaskState
    BY <2>1, IdleType DEF TaskState, Sections
  <2>3. task' \in [Tasks -> TaskState]
    BY <1>6, <2>2, GotoType DEF HumanApproves, Decide, Tasks
  <2>. QED BY <1>6, <2>1, <2>3 DEF TypeOK, HumanApproves, Decide
<1>7. ASSUME NEW t \in Requests, NEW o \in Outputs, HumanRequestsChanges(t, o) PROVE  TypeOK'
  <2>1. Recovered(Deaf) \in Contexts
    BY DEF TypeOK, Recovered, Contexts, Supervisors
  <2>2. [Idle EXCEPT !.pc = "requeue", !.out = o, !.ctx = Recovered(Deaf)] \in TaskState
    BY <2>1, IdleType DEF TaskState, Sections
  <2>3. task' \in [Tasks -> TaskState]
    BY <1>7, <2>2, GotoType DEF HumanRequestsChanges, Decide, Tasks
  <2>. QED BY <1>7, <2>1, <2>3 DEF TypeOK, HumanRequestsChanges, Decide
<1>8. ASSUME NEW t \in Requests, NEW o \in Outputs, FlowApprove(t, o) PROVE  TypeOK'
  <2>1. Supervisor \in Contexts
    BY DEF TypeOK, Recovered, Contexts, Supervisors
  <2>2. [Idle EXCEPT !.pc = "guard", !.out = o, !.ctx = Supervisor] \in TaskState
    BY <2>1, IdleType DEF TaskState, Sections
  <2>3. task' \in [Tasks -> TaskState]
    BY <1>8, <2>2, GotoType DEF FlowApprove, Decide, Tasks
  <2>. QED BY <1>8, <2>1, <2>3 DEF TypeOK, FlowApprove, Decide
<1>9. ASSUME NEW t \in Requests, NEW o \in Outputs, FlowRequestChanges(t, o) PROVE  TypeOK'
  <2>1. Supervisor \in Contexts
    BY DEF TypeOK, Recovered, Contexts, Supervisors
  <2>2. [Idle EXCEPT !.pc = "requeue", !.out = o, !.ctx = Supervisor] \in TaskState
    BY <2>1, IdleType DEF TaskState, Sections
  <2>3. task' \in [Tasks -> TaskState]
    BY <1>9, <2>2, GotoType DEF FlowRequestChanges, Decide, Tasks
  <2>. QED BY <1>9, <2>1, <2>3 DEF TypeOK, FlowRequestChanges, Decide
<1>10. ASSUME Crash PROVE  TypeOK'
  <2>1. live' \in FlowRunState /\ disk' \in FlowRunState /\ readied' \subseteq Nodes
    BY <1>10, RunTypes DEF Crash, TypeOK
  <2>. QED BY <1>10, <2>1, IdleType DEF TypeOK, Crash
<1>11. ASSUME NEW t \in Tasks, Insert(t) PROVE  TypeOK'
  <2>. task[t] \in TaskState
    BY DEF TypeOK
  <2>1. [task[t] EXCEPT !.pc = "join", !.after = "register"] \in TaskState
    BY DEF TaskState, Sections
  <2>2. task' \in [Tasks -> TaskState]
    BY <1>11, <2>1, GotoType DEF Insert
  <2>. QED BY <1>11, <2>2, RunTypes DEF TypeOK, Insert, agents
<1>12. ASSUME NEW t \in Tasks, Register(t) PROVE  TypeOK'
  <2>. task[t] \in TaskState
    BY DEF TypeOK
  <2>1. [task[t] EXCEPT !.pc = "seed"] \in TaskState
    BY DEF TaskState, Sections
  <2>2. task' \in [Tasks -> TaskState]
    BY <1>12, <2>1, GotoType DEF Register
  <2>. QED BY <1>12, <2>2, RunTypes DEF TypeOK, Register, agents, history
<1>13. ASSUME NEW t \in Tasks, apply_seeded_entries(t) PROVE  TypeOK'
  <2>. task[t] \in TaskState
    BY DEF TypeOK
  <2>1. Return(t) \in TaskState
    BY DEF TaskState, Sections, Return
  <2>2. ASSUME NEW o \in task[t].seeds
        PROVE  /\ o \in Outputs
               /\ [task[t] EXCEPT !.seeds = @ \ {o}, !.out = o,
                                  !.pc = "join", !.after = "seed"] \in TaskState
    BY DEF TaskState, Sections
  <2>3. \A o \in task[t].seeds : mark_port_status_unchecked(o, "Seeded") \in FlowRunState
    BY <2>2, RunTypes DEF TypeOK, mark_port_status_unchecked, PortStatus
  <2>4. live' \in FlowRunState /\ readied' \subseteq Nodes /\ task' \in [Tasks -> TaskState]
    BY <1>13, <2>1, <2>2, <2>3, GotoType, LockedType DEF apply_seeded_entries, TypeOK
  <2>. QED BY <1>13, <2>4 DEF TypeOK, apply_seeded_entries, agents
<1>14. ASSUME NEW t \in Tasks, Deliver(t) PROVE  TypeOK'
  <2>. task[t] \in TaskState
    BY DEF TypeOK
  <2>1. task' \in [Tasks -> TaskState]
    BY <1>14, IdleType, GotoType DEF Deliver
  <2>2. active' \subseteq Nodes \X Contexts
    BY <1>14, TaskFields DEF Deliver, TypeOK
  <2>3. reviewing' \subseteq Outputs \X Agents \X Contexts
    BY <1>14, TaskFields, FlowShape DEF Deliver, TypeOK
  <2>. QED BY <1>14, <2>1, <2>2, <2>3 DEF TypeOK, Deliver, history
<1>15. ASSUME NEW t \in Tasks, CheckCycleLimit(t) PROVE  TypeOK'
  <2>. task[t] \in TaskState
    BY DEF TypeOK
  <2>1. \A p \in Sections : [task[t] EXCEPT !.pc = p] \in TaskState
    BY DEF TaskState
  <2>2. increment_port_cycles(task[t].out) \in FlowRunState
    BY TaskFields, RunTypes DEF increment_port_cycles, TypeOK
  <2>3. live' \in FlowRunState /\ readied' \subseteq Nodes /\ task' \in [Tasks -> TaskState]
    BY <1>15, <2>1, <2>2, GotoType, LockedType DEF CheckCycleLimit, TypeOK, Sections
  <2>. QED BY <1>15, <2>3 DEF TypeOK, CheckCycleLimit, agents
<1>16. ASSUME NEW t \in Tasks, Submitted(t) PROVE  TypeOK'
  <2>. task[t] \in TaskState
    BY DEF TypeOK
  <2>1. [task[t] EXCEPT !.pc = "guard"] \in TaskState
    BY DEF TaskState, Sections
  <2>2. [Return(t) EXCEPT !.review = TRUE] \in TaskState
    BY DEF TaskState, Sections, Return
  <2>3. live' \in FlowRunState /\ readied' \subseteq Nodes /\ task' \in [Tasks -> TaskState]
    BY <1>16, <2>1, <2>2, TaskFields, GotoType, MarkedType DEF Submitted, TypeOK, PortStatus
  <2>. QED BY <1>16, <2>3, TaskFields DEF TypeOK, Submitted, agents
<1>17. ASSUME NEW t \in Tasks, ApprovalGuard(t) PROVE  TypeOK'
  <2>. task[t] \in TaskState
    BY DEF TypeOK
  <2>1. [task[t] EXCEPT !.pc = "approve"] \in TaskState
    BY DEF TaskState, Sections
  <2>2. Return(t) \in TaskState
    BY DEF TaskState, Sections, Return
  <2>3. task' \in [Tasks -> TaskState]
    BY <1>17, <2>1, <2>2, GotoType DEF ApprovalGuard
  <2>. QED BY <1>17, <2>3 DEF TypeOK, ApprovalGuard, agents, history
<1>18. ASSUME NEW t \in Tasks, MarkApproved(t) PROVE  TypeOK'
  <2>. task[t] \in TaskState
    BY DEF TypeOK
  <2>1. [task[t] EXCEPT !.pc = "join", !.after = "reinvoke"] \in TaskState
    BY DEF TaskState, Sections
  <2>2. live' \in FlowRunState /\ readied' \subseteq Nodes /\ task' \in [Tasks -> TaskState]
    BY <1>18, <2>1, TaskFields, MarkedType DEF MarkApproved, PortStatus
  <2>. QED BY <1>18, <2>2 DEF TypeOK, MarkApproved, agents
<1>19. ASSUME NEW t \in Tasks, FireAndJoin(t) PROVE  TypeOK'
  <2>. task[t] \in TaskState
    BY DEF TypeOK
  <2>1. ASSUME NEW Q \in SUBSET Nodes, NEW W \in SUBSET Outputs
        PROVE  [task[t] EXCEPT !.queue = Q, !.owed = W, !.pc = "activate"] \in TaskState
    BY DEF TaskState, Sections
  <2>2. PICK woken \in SUBSET Nodes :
            Goto(t, [task[t] EXCEPT !.queue = woken \ HumanOwned,
                                    !.owed = UNION {Owns(n) : n \in woken \cap HumanOwned},
                                    !.pc = "activate"])
    BY <1>19 DEF FireAndJoin, nodes_awaiting, nodes_retriggered_by
  <2>3. UNION {Owns(n) : n \in woken \cap HumanOwned} \in SUBSET Outputs
    BY DEF Owns
  <2>4. task' \in [Tasks -> TaskState]
    BY <2>1, <2>2, <2>3, GotoType
  <2>. QED BY <1>19, <2>4 DEF TypeOK, FireAndJoin, agents, history
<1>20. ASSUME NEW t \in Tasks, Activate(t) PROVE  TypeOK'
  <2>. task[t] \in TaskState
    BY DEF TypeOK
  <2>1. [task[t] EXCEPT !.pc = task[t].after] \in TaskState
    BY DEF TaskState
  <2>2. ASSUME NEW n \in task[t].queue,
               schedule_node_with_context(t, n, [task[t] EXCEPT !.queue = @ \ {n}])
        PROVE  live' \in FlowRunState /\ readied' \subseteq Nodes /\ task' \in [Tasks -> TaskState]
    <3>1. n \in Nodes
      BY TaskFields
    <3>2. [[task[t] EXCEPT !.queue = @ \ {n}] EXCEPT !.spawn = @ \cup {n}] \in TaskState
      BY <3>1 DEF TaskState
    <3>. QED BY <2>2, <3>1, <3>2, RunTypes, LockedType
             DEF schedule_node_with_context, record_invocation, TypeOK
  <2>3. ASSUME NEW o \in task[t].owed,
               Locked(t, mark_port_status_unchecked(o, "AwaitingOwner"),
                      [task[t] EXCEPT !.owed = @ \ {o}])
        PROVE  live' \in FlowRunState /\ readied' \subseteq Nodes /\ task' \in [Tasks -> TaskState]
    <3>1. o \in Outputs
      BY TaskFields
    <3>2. [task[t] EXCEPT !.owed = @ \ {o}] \in TaskState
      BY DEF TaskState
    <3>3. mark_port_status_unchecked(o, "AwaitingOwner") \in FlowRunState
      BY <3>1, RunTypes DEF mark_port_status_unchecked, PortStatus, TypeOK
    <3>. QED BY <2>3, <3>2, <3>3, LockedType
  <2>4. live' \in FlowRunState /\ readied' \subseteq Nodes /\ task' \in [Tasks -> TaskState]
    BY <1>20, <2>1, <2>2, <2>3, GotoType DEF Activate, TypeOK
  <2>. QED BY <1>20, <2>4 DEF TypeOK, Activate, agents
<1>21. ASSUME NEW t \in Tasks, Reinvoke(t) PROVE  TypeOK'
  <2>. task[t] \in TaskState
    BY DEF TypeOK
  <2>1. Return(t) \in TaskState
    BY DEF TaskState, Sections, Return
  <2>2. ASSUME NEW n \in Nodes, schedule_node_with_context(t, n, Return(t))
        PROVE  live' \in FlowRunState /\ readied' \subseteq Nodes /\ task' \in [Tasks -> TaskState]
    <3>1. [Return(t) EXCEPT !.spawn = @ \cup {n}] \in TaskState
      BY <2>1 DEF TaskState
    <3>. QED BY <2>2, <3>1, RunTypes, LockedType
             DEF schedule_node_with_context, record_invocation, TypeOK
  <2>3. live' \in FlowRunState /\ readied' \subseteq Nodes /\ task' \in [Tasks -> TaskState]
    BY <1>21, <2>1, <2>2, GotoType DEF Reinvoke, TypeOK
  <2>. QED BY <1>21, <2>3 DEF TypeOK, Reinvoke, agents
<1>22. ASSUME NEW t \in Tasks, Requeue(t) PROVE  TypeOK'
  <2>. task[t] \in TaskState
    BY DEF TypeOK
  <2>1. [task[t] EXCEPT !.pc = "reschedule"] \in TaskState
    BY DEF TaskState, Sections
  <2>2. mark_port_status_unchecked(task[t].out, "Pending") \in FlowRunState
    BY TaskFields, RunTypes DEF mark_port_status_unchecked, PortStatus, TypeOK
  <2>3. live' \in FlowRunState /\ readied' \subseteq Nodes /\ task' \in [Tasks -> TaskState]
    BY <1>22, <2>1, <2>2, LockedType DEF Requeue
  <2>. QED BY <1>22, <2>3 DEF TypeOK, Requeue, agents
<1>23. ASSUME NEW t \in Tasks, Reschedule(t) PROVE  TypeOK'
  <2>. task[t] \in TaskState
    BY DEF TypeOK
  <2>1. Return(t) \in TaskState
    BY DEF TaskState, Sections, Return
  <2>2. ASSUME NEW n \in Nodes, schedule_node_with_context(t, n, Return(t))
        PROVE  live' \in FlowRunState /\ readied' \subseteq Nodes /\ task' \in [Tasks -> TaskState]
    <3>1. [Return(t) EXCEPT !.spawn = @ \cup {n}] \in TaskState
      BY <2>1 DEF TaskState
    <3>. QED BY <2>2, <3>1, RunTypes, LockedType
             DEF schedule_node_with_context, record_invocation, TypeOK
  <2>3. Producer[task[t].out] \in Nodes
    BY <1>23, TaskFields, FlowShape DEF Reschedule, At, Starts, TaskStarts, InFlight, InPlay
  <2>4. live' \in FlowRunState /\ readied' \subseteq Nodes /\ task' \in [Tasks -> TaskState]
    BY <1>23, <2>2, <2>3 DEF Reschedule
  <2>. QED BY <1>23, <2>4 DEF TypeOK, Reschedule, agents
<1>24. ASSUME NEW t \in Tasks, PersistVerdict(t) PROVE  TypeOK'
  <2>. task[t] \in TaskState
    BY DEF TypeOK
  <2>1. [task[t] EXCEPT !.pc = task[t].after, !.write = live] \in TaskState
    BY DEF TaskState, TypeOK
  <2>2. task' \in [Tasks -> TaskState]
    BY <1>24, <2>1, GotoType DEF PersistVerdict
  <2>. QED BY <1>24, <2>2 DEF TypeOK, PersistVerdict, agents, history
<1>25. ASSUME NEW t \in Tasks, Write(t) PROVE  TypeOK'
  <2>. task[t] \in TaskState
    BY DEF TypeOK
  <2>1. [task[t] EXCEPT !.write = NoRun] \in TaskState
    BY RunTypes DEF TaskState
  <2>2. task' \in [Tasks -> TaskState]
    BY <1>25, <2>1, GotoType DEF Write
  <2>. QED BY <1>25, <2>2, TaskFields DEF TypeOK, Write, agents, history
<1>26. ASSUME NEW t \in Tasks, WriteFails(t) PROVE  TypeOK'
  <2>. task[t] \in TaskState
    BY DEF TypeOK
  <2>1. [task[t] EXCEPT !.write = NoRun] \in TaskState
    BY RunTypes DEF TaskState
  <2>2. [Return(t) EXCEPT !.write = NoRun, !.queue = {}, !.owed = {}, !.seeds = {}] \in TaskState
    BY RunTypes DEF TaskState, Return, Sections
  <2>3. task' \in [Tasks -> TaskState]
    BY <1>26, <2>1, <2>2, IdleType, GotoType DEF WriteFails
  <2>. QED BY <1>26, <2>3 DEF TypeOK, WriteFails, agents
<1>27. ASSUME NEW t \in Supervisors, Receive(t) PROVE  TypeOK'
  <2>1. Head(channel[t]) \in Outputs /\ Tail(channel[t]) \in Seq(Outputs)
    BY <1>27 DEF Receive, TypeOK
  <2>2. [Idle EXCEPT !.pc = "cycle", !.out = Head(channel[t]), !.ctx = t] \in TaskState
    BY <2>1, IdleType DEF TaskState, Sections, Contexts
  <2>3. task' \in [Tasks -> TaskState]
    BY <1>27, <2>2, GotoType DEF Receive, TypeOK, Tasks
  <2>. QED BY <1>27, <2>1, <2>3 DEF TypeOK, Receive
<1>28. ASSUME UNCHANGED vars PROVE  TypeOK'
  BY <1>28 DEF TypeOK, vars
<1>. QED
  BY <1>1, <1>2, <1>3, <1>4, <1>5, <1>6, <1>7, <1>8, <1>9, <1>10, <1>11, <1>12, <1>13, <1>14, <1>15, <1>16, <1>17, <1>18, <1>19, <1>20, <1>21, <1>22, <1>23, <1>24, <1>25, <1>26, <1>27, <1>28
  DEF Next, Environment, Step, Section

-----------------------------------------------------------------------------
(* Starts.                                                                  *)

\* What is in play stays in play when more nodes have had their inputs.
LEMMA Monotone ==
    ASSUME NEW R, NEW R2, R \subseteq R2
    PROVE  /\ InPlay(R) \subseteq InPlay(R2)
           /\ \A run : RunStarts(run, R) => RunStarts(run, R2)
           /\ \A k : TaskStarts(k, R) => TaskStarts(k, R2)
  BY DEF InPlay, RunStarts, TaskStarts

\* Nothing is invoked or approved in a run that has not begun.
LEMMA IdleStarts ==
    \A R : RunStarts(NoRun, R) /\ RunStarts(Fresh, R) /\ TaskStarts(Idle, R)
<1>1. NoRun.invoked = {} /\ \A o \in Outputs : NoRun.ports[o] = "Pending"
  BY DEF NoRun
<1>2. Fresh.invoked = {} /\ \A o \in Outputs : Fresh.ports[o] = "Approved" => o = Brief
  BY FlowShape DEF Fresh, NoRun
<1>3. /\ Idle.pc = "idle" /\ Idle.queue = {} /\ Idle.spawn = {} /\ Idle.review = FALSE
      /\ Idle.write = NoRun
  BY DEF Idle
<1>. QED BY <1>1, <1>2, <1>3 DEF RunStarts, TaskStarts, AfterOK, InFlight

\* One task goes on, the others stay as they are.
LEMMA GotoStarts ==
    ASSUME TypeOK, Starts, NEW t \in Tasks, NEW next, Goto(t, next),
           readied \subseteq readied', TaskStarts(next, readied')
    PROVE  \A u \in Tasks : TaskStarts(task'[u], readied')
<1>. SUFFICES ASSUME NEW u \in Tasks PROVE TaskStarts(task'[u], readied')
  OBVIOUS
<1>1. CASE u = t
  BY <1>1 DEF Goto, TypeOK
<1>2. CASE u # t
  BY <1>2, Monotone DEF Goto, TypeOK, Starts
<1>. QED BY <1>1, <1>2

\* What a section leaves in memory.
Kept ==
    /\ readied \subseteq readied'
    /\ \A u \in Tasks : TaskStarts(task'[u], readied')
    /\ RunStarts(live', readied')
    /\ UpstreamClosed(readied')
    /\ \A n \in Nodes : Ready(live', n) => n \in readied'

\* A section that leaves the run alone.
LEMMA StillKept ==
    ASSUME TypeOK, Starts, NEW t \in Tasks, NEW next, Goto(t, next),
           TaskStarts(next, readied), UNCHANGED <<live, readied>>
    PROVE  Kept
<1>1. \A u \in Tasks : TaskStarts(task'[u], readied')
  BY GotoStarts
<1>. QED BY <1>1 DEF Starts, Kept

\* A section that changes the run, under its lock.
LEMMA LockedKept ==
    ASSUME TypeOK, Starts, NEW t \in Tasks, NEW run \in FlowRunState,
           NEW next \in TaskState, Locked(t, run, next),
           TaskStarts(next, readied), RunStarts(run, readied)
    PROVE  Kept
<1>1. readied \subseteq readied'
  BY DEF Locked
<1>2. RunStarts(run, readied') /\ TaskStarts(next, readied')
  BY <1>1, Monotone
<1>3. TaskStarts([next EXCEPT !.write = run], readied')
  BY <1>2 DEF TaskStarts, AfterOK, InFlight, TaskState
<1>4. \A u \in Tasks : TaskStarts(task'[u], readied')
  BY <1>1, <1>3, GotoStarts DEF Locked
<1>5. UpstreamClosed(readied')
  <2>. SUFFICES ASSUME NEW n \in readied', NEW o \in Required[n], o # Brief
                PROVE  Producer[o] \in readied
    BY <1>1 DEF UpstreamClosed
  <2>1. CASE n \in readied
    BY <2>1 DEF Starts, UpstreamClosed
  <2>2. CASE n \in Nodes /\ Ready(run, n)
    BY <2>2, FlowShape DEF Ready, RunStarts, InPlay
  <2>. QED BY <2>1, <2>2 DEF Locked
<1>. QED BY <1>1, <1>2, <1>4, <1>5 DEF Kept, Locked

\* mark_port_status, to Approved only for an output in play.
LEMMA MarkedKept ==
    ASSUME TypeOK, Starts, NEW t \in Tasks, NEW o \in Outputs, NEW status \in PortStatus,
           NEW next \in TaskState, Marked(t, o, status, next),
           TaskStarts(next, readied), status = "Approved" => o \in InPlay(readied)
    PROVE  Kept
<1>1. mark_port_status(o, status) \in FlowRunState
  BY RunTypes DEF mark_port_status, TypeOK
<1>2. RunStarts(mark_port_status(o, status), readied)
  BY DEF mark_port_status, RunStarts, Starts, TypeOK, FlowRunState
<1>3. CASE mark_port_status(o, status) = live
  BY <1>3, StillKept DEF Marked
<1>4. CASE mark_port_status(o, status) # live
  BY <1>1, <1>2, <1>4, LockedKept DEF Marked
<1>. QED BY <1>3, <1>4

\* mark_port_status_unchecked, to any status other than Approved.
LEMMA UncheckedStarts ==
    ASSUME TypeOK, Starts, NEW o \in Outputs, NEW status \in PortStatus \ {"Approved"}
    PROVE  /\ mark_port_status_unchecked(o, status) \in FlowRunState
           /\ RunStarts(mark_port_status_unchecked(o, status), readied)
<1>1. mark_port_status_unchecked(o, status) \in FlowRunState
  BY RunTypes DEF mark_port_status_unchecked, TypeOK
<1>2. RunStarts(mark_port_status_unchecked(o, status), readied)
  BY DEF mark_port_status_unchecked, RunStarts, Starts, TypeOK, FlowRunState
<1>. QED BY <1>1, <1>2

\* Scheduling a node that has had its inputs.
LEMMA ScheduleKept ==
    ASSUME TypeOK, Starts, NEW t \in Tasks, NEW n \in readied, NEW next \in TaskState,
           schedule_node_with_context(t, n, next), TaskStarts(next, readied)
    PROVE  Kept
<1>1. n \in Nodes
  BY DEF TypeOK
<1>2. [next EXCEPT !.spawn = @ \cup {n}] \in TaskState
  BY <1>1 DEF TaskState
<1>3. TaskStarts([next EXCEPT !.spawn = @ \cup {n}], readied)
  BY DEF TaskStarts, AfterOK, InFlight, TaskState
<1>4. record_invocation(n) \in FlowRunState
  BY <1>1, RunTypes DEF record_invocation, TypeOK
<1>5. RunStarts(record_invocation(n), readied)
  BY DEF record_invocation, RunStarts, Starts, TypeOK, FlowRunState
<1>. QED BY <1>2, <1>3, <1>4, <1>5, LockedKept DEF schedule_node_with_context

\* A section that leaves the traffic and the file alone.
LEMMA SectionStarts ==
    ASSUME TypeOK, Starts, Kept, UNCHANGED <<disk, channel, active, reviewing, offered>>
    PROVE  Starts'
<1>1. RunStarts(disk, readied')
  BY Monotone DEF Starts, Kept
<1>2. \A s \in Supervisors : channel[s] \in Seq(InPlay(readied'))
  <2>1. InPlay(readied) \subseteq InPlay(readied')
    BY Monotone DEF Kept
  <2>2. \A s \in Supervisors : channel[s] \in Seq(InPlay(readied))
    BY DEF Starts, Traffic
  <2>. QED BY <2>1, <2>2
<1>3. Traffic'
  BY <1>2, Monotone DEF Starts, Traffic, Kept
<1>. QED BY <1>1, <1>3 DEF Starts, Kept

\* Every step keeps Starts.
LEMMA StartsStep ==
    ASSUME TypeOK, Starts, [Next]_vars
    PROVE  Starts'
<1>1. ASSUME NEW t \in Requests, HandleStartRun(t) PROVE  Starts'
  <2>2. TaskStarts([Idle EXCEPT !.pc = "insert", !.seeds = {}, !.write = Fresh], readied)
    BY IdleStarts, IdleType DEF TaskStarts, AfterOK, InFlight, TaskState
  <2>9. Kept
    BY <1>1, <2>2, StillKept DEF HandleStartRun, start_run, Tasks
  <2>. QED BY <1>1, <2>9, SectionStarts DEF HandleStartRun, start_run
<1>2. ASSUME NEW t \in Requests, FlowStart(t) PROVE  Starts'
  <2>2. TaskStarts([Idle EXCEPT !.pc = "insert", !.seeds = {}, !.write = Fresh], readied)
    BY IdleStarts, IdleType DEF TaskStarts, AfterOK, InFlight, TaskState
  <2>9. Kept
    BY <1>2, <2>2, StillKept DEF FlowStart, start_run, Tasks
  <2>. QED BY <1>2, <2>9, SectionStarts DEF FlowStart, start_run
<1>3. ASSUME NEW t \in Requests, InvokeFlow(t) PROVE  Starts'
  <2>1. PICK seeds \in SUBSET Seedable : start_run(t, seeds)
    BY <1>3 DEF InvokeFlow
  <2>2. TaskStarts([Idle EXCEPT !.pc = "insert", !.seeds = seeds, !.write = Fresh], readied)
    BY IdleStarts, IdleType DEF TaskStarts, AfterOK, InFlight, TaskState
  <2>9. Kept
    BY <2>1, <2>2, StillKept DEF InvokeFlow, start_run, Tasks
  <2>. QED BY <2>1, <2>9, SectionStarts DEF InvokeFlow, start_run
<1>4. ASSUME NEW o \in Outputs, NEW s \in Supervisors, SubmitDocument(o, s) PROVE  Starts'
  <2>1. o \in InPlay(readied)
    BY <1>4, FlowShape DEF SubmitDocument, Starts, Traffic, InPlay, TypeOK
  <2>2. channel' \in [Supervisors -> Seq(InPlay(readied))]
    BY <1>4, <2>1 DEF SubmitDocument, Starts, Traffic
  <2>. QED BY <1>4, <2>2 DEF SubmitDocument, Starts, Traffic
<1>5. ASSUME NEW t \in Requests, NEW o \in Outputs, NEW r \in Agents, NEW v \in Verdict,
             ReviewerVerdict(t, o, r, v)
      PROVE  Starts'
  <2>1. PICK c \in Contexts :
            /\ <<o, r, c>> \in reviewing
            /\ reviewing' = reviewing \ {<<o, r, c>>}
            /\ Goto(t, [Idle EXCEPT !.pc = "verdict", !.out = o, !.ctx = c,
                                    !.after = Outcome(o, Tally(o, r, v))])
    BY <1>5 DEF ReviewerVerdict
  <2>2. o \in InPlay(readied)
    BY <2>1 DEF Starts, Traffic
  <2>3. TaskStarts([Idle EXCEPT !.pc = "verdict", !.out = o, !.ctx = c,
                                !.after = Outcome(o, Tally(o, r, v))], readied)
    BY <2>2, IdleStarts, IdleType DEF TaskStarts, AfterOK, InFlight, TaskState, Outcome
  <2>4. \A u \in Tasks : TaskStarts(task'[u], readied')
    BY <1>5, <2>1, <2>3, GotoStarts DEF ReviewerVerdict, history, Tasks
  <2>5. live'.ports = live.ports /\ live'.invoked = live.invoked
    BY <1>5 DEF ReviewerVerdict, TypeOK, FlowRunState
  <2>. QED BY <1>5, <2>1, <2>4, <2>5
       DEF ReviewerVerdict, history, Starts, Traffic, RunStarts, Ready
<1>6. ASSUME NEW t \in Requests, NEW o \in Outputs, HumanApproves(t, o) PROVE  Starts'
  <2>1. o \in InPlay(readied)
    BY <1>6 DEF HumanApproves, Decide, Starts, Traffic
  <2>2. TaskStarts([Idle EXCEPT !.pc = "guard", !.out = o, !.ctx = Recovered(Rebuilt)], readied)
    BY <2>1, IdleStarts, IdleType DEF TaskStarts, AfterOK, InFlight, TaskState
  <2>9. Kept
    BY <1>6, <2>2, StillKept DEF HumanApproves, Decide, Tasks
  <2>. QED BY <1>6, <2>9, SectionStarts DEF HumanApproves, Decide
<1>7. ASSUME NEW t \in Requests, NEW o \in Outputs, HumanRequestsChanges(t, o) PROVE  Starts'
  <2>1. o \in InPlay(readied)
    BY <1>7 DEF HumanRequestsChanges, Decide, Starts, Traffic
  <2>2. TaskStarts([Idle EXCEPT !.pc = "requeue", !.out = o, !.ctx = Recovered(Deaf)], readied)
    BY <2>1, IdleStarts, IdleType DEF TaskStarts, AfterOK, InFlight, TaskState
  <2>9. Kept
    BY <1>7, <2>2, StillKept DEF HumanRequestsChanges, Decide, Tasks
  <2>. QED BY <1>7, <2>9, SectionStarts DEF HumanRequestsChanges, Decide
<1>8. ASSUME NEW t \in Requests, NEW o \in Outputs, FlowApprove(t, o) PROVE  Starts'
  <2>1. o \in InPlay(readied)
    BY <1>8 DEF FlowApprove, Decide, Starts, Traffic
  <2>2. TaskStarts([Idle EXCEPT !.pc = "guard", !.out = o, !.ctx = Supervisor], readied)
    BY <2>1, IdleStarts, IdleType DEF TaskStarts, AfterOK, InFlight, TaskState
  <2>9. Kept
    BY <1>8, <2>2, StillKept DEF FlowApprove, Decide, Tasks
  <2>. QED BY <1>8, <2>9, SectionStarts DEF FlowApprove, Decide
<1>9. ASSUME NEW t \in Requests, NEW o \in Outputs, FlowRequestChanges(t, o) PROVE  Starts'
  <2>1. o \in InPlay(readied)
    BY <1>9 DEF FlowRequestChanges, Decide, Starts, Traffic
  <2>2. TaskStarts([Idle EXCEPT !.pc = "requeue", !.out = o, !.ctx = Supervisor], readied)
    BY <2>1, IdleStarts, IdleType DEF TaskStarts, AfterOK, InFlight, TaskState
  <2>9. Kept
    BY <1>9, <2>2, StillKept DEF FlowRequestChanges, Decide, Tasks
  <2>. QED BY <1>9, <2>9, SectionStarts DEF FlowRequestChanges, Decide
<1>10. ASSUME Crash PROVE  Starts'
  <2>1. PICK file \in {disk, NoRun} :
            /\ live' = IF file.status = "Running" THEN [file EXCEPT !.status = "Paused"] ELSE file
            /\ disk' = live'
            /\ readied' = readied \cup {n \in Nodes : Ready(live', n)}
    BY <1>10 DEF Crash
  <2>2. live'.ports = file.ports /\ live'.invoked = file.invoked
    BY <2>1, RunTypes DEF TypeOK, FlowRunState
  <2>3. RunStarts(live', readied)
    BY <2>2, IdleStarts DEF Starts, RunStarts
  <2>4. RunStarts(live', readied')
    BY <2>1, <2>3, Monotone
  <2>5. UpstreamClosed(readied')
    <3>. SUFFICES ASSUME NEW n \in readied', NEW o \in Required[n], o # Brief
                  PROVE  Producer[o] \in readied
      BY <2>1 DEF UpstreamClosed
    <3>1. CASE n \in readied
      BY <3>1 DEF Starts, UpstreamClosed
    <3>2. CASE n \in Nodes /\ Ready(live', n)
      BY <3>2, <2>3, FlowShape DEF Ready, RunStarts, InPlay
    <3>. QED BY <3>1, <3>2, <2>1
  <2>6. \A t \in Tasks : TaskStarts(task'[t], readied')
    BY <1>10, IdleStarts DEF Crash
  <2>7. Traffic'
    <3>1. InPlay(readied) \subseteq InPlay(readied')
      BY <2>1, Monotone
    <3>2. channel' \in [Supervisors -> Seq(InPlay(readied'))]
      BY <1>10 DEF Crash
    <3>. QED BY <1>10, <3>1, <3>2 DEF Crash, Starts, Traffic
  <2>. QED BY <2>1, <2>4, <2>5, <2>6, <2>7 DEF Starts
<1>11. ASSUME NEW t \in Tasks, Insert(t) PROVE  Starts'
  <2>. task[t] \in TaskState /\ TaskStarts(task[t], readied)
    BY DEF TypeOK, Starts
  <2>1. TaskStarts([task[t] EXCEPT !.pc = "join", !.after = "register"], readied)
    BY <1>11 DEF TaskStarts, AfterOK, InFlight, TaskState, Insert, At
  <2>2. /\ readied \subseteq readied'
        /\ live' = Fresh
        /\ readied' = readied \cup {n \in Nodes : Ready(live', n)}
    BY <1>11 DEF Insert
  <2>3. \A u \in Tasks : TaskStarts(task'[u], readied')
    BY <1>11, <2>1, <2>2, Monotone, GotoStarts DEF Insert
  <2>4. RunStarts(live', readied) /\ RunStarts(live', readied')
    BY <2>2, IdleStarts
  <2>5. UpstreamClosed(readied')
    <3>. SUFFICES ASSUME NEW n \in readied', NEW o \in Required[n], o # Brief
                  PROVE  Producer[o] \in readied
      BY <2>2 DEF UpstreamClosed
    <3>1. CASE n \in readied
      BY <3>1 DEF Starts, UpstreamClosed
    <3>2. CASE n \in Nodes /\ Ready(live', n)
      BY <3>2, <2>4, FlowShape DEF Ready, RunStarts, InPlay
    <3>. QED BY <3>1, <3>2, <2>2
  <2>9. Kept
    BY <2>2, <2>3, <2>4, <2>5 DEF Kept
  <2>. QED BY <1>11, <2>9, SectionStarts DEF Insert, agents, history
<1>12. ASSUME NEW t \in Tasks, Register(t) PROVE  Starts'
  <2>. task[t] \in TaskState /\ TaskStarts(task[t], readied)
    BY DEF TypeOK, Starts
  <2>1. TaskStarts([task[t] EXCEPT !.pc = "seed"], readied)
    BY <1>12 DEF TaskStarts, AfterOK, InFlight, TaskState, Register, At
  <2>2. live'.ports = live.ports /\ live'.invoked = live.invoked /\ readied' = readied
    BY <1>12 DEF Register, TypeOK, FlowRunState, history
  <2>3. \A u \in Tasks : TaskStarts(task'[u], readied')
    BY <1>12, <2>1, <2>2, GotoStarts DEF Register
  <2>9. Kept
    BY <2>2, <2>3 DEF Kept, Starts, RunStarts, Ready
  <2>. QED BY <1>12, <2>9, SectionStarts DEF Register, agents, history
<1>13. ASSUME NEW t \in Tasks, apply_seeded_entries(t) PROVE  Starts'
  <2>. task[t] \in TaskState /\ TaskStarts(task[t], readied)
    BY DEF TypeOK, Starts
  <2>1. Return(t) \in TaskState /\ TaskStarts(Return(t), readied)
    BY DEF TaskStarts, AfterOK, InFlight, TaskState, Sections, Return
  <2>2. ASSUME NEW o \in task[t].seeds,
               Locked(t, mark_port_status_unchecked(o, "Seeded"),
                      [task[t] EXCEPT !.seeds = @ \ {o}, !.out = o,
                                      !.pc = "join", !.after = "seed"])
        PROVE  Kept
    <3>1. task[t].review = FALSE
      BY <1>13, TaskFields DEF apply_seeded_entries, At, TaskStarts, AfterOK
    <3>2. /\ [task[t] EXCEPT !.seeds = @ \ {o}, !.out = o,
                             !.pc = "join", !.after = "seed"] \in TaskState
          /\ TaskStarts([task[t] EXCEPT !.seeds = @ \ {o}, !.out = o,
                                        !.pc = "join", !.after = "seed"], readied)
      BY <3>1, TaskFields, ZenonT(40) DEF TaskStarts, AfterOK, InFlight, TaskState, Sections
    <3>. QED BY <2>2, <3>2, TaskFields, UncheckedStarts, LockedKept DEF PortStatus
  <2>9. Kept
    BY <1>13, <2>1, <2>2, StillKept DEF apply_seeded_entries
  <2>. QED BY <1>13, <2>9, SectionStarts DEF apply_seeded_entries, agents, history
<1>14. ASSUME NEW t \in Tasks, Deliver(t) PROVE  Starts'
  <2>. task[t] \in TaskState /\ TaskStarts(task[t], readied)
    BY DEF TypeOK, Starts
  <2>1. \A u \in Tasks : TaskStarts(task'[u], readied')
    BY <1>14, IdleStarts, GotoStarts DEF Deliver, history
  <2>2. active' \subseteq readied \X Contexts
    BY <1>14, TaskFields DEF Deliver, TaskStarts, Starts, Traffic
  <2>3. reviewing' \subseteq InPlay(readied) \X Agents \X Contexts
    BY <1>14, TaskFields, FlowShape DEF Deliver, TaskStarts, InFlight, Starts, Traffic
  <2>. QED BY <1>14, <2>1, <2>2, <2>3 DEF Starts, Traffic, Deliver, history
<1>15. ASSUME NEW t \in Tasks, CheckCycleLimit(t) PROVE  Starts'
  <2>. task[t] \in TaskState /\ TaskStarts(task[t], readied)
    BY DEF TypeOK, Starts
  <2>1. \A p \in {"submitted", "deliver"} :
            /\ [task[t] EXCEPT !.pc = p] \in TaskState
            /\ TaskStarts([task[t] EXCEPT !.pc = p], readied)
    BY <1>15 DEF TaskStarts, AfterOK, InFlight, TaskState, Sections, CheckCycleLimit, At
  <2>2. /\ increment_port_cycles(task[t].out) \in FlowRunState
        /\ RunStarts(increment_port_cycles(task[t].out), readied)
    <3>1. increment_port_cycles(task[t].out) \in FlowRunState
      BY TaskFields, RunTypes DEF increment_port_cycles, TypeOK
    <3>2. RunStarts(increment_port_cycles(task[t].out), readied)
      BY DEF increment_port_cycles, RunStarts, Starts, TypeOK, FlowRunState
    <3>. QED BY <3>1, <3>2
  <2>9. Kept
    BY <1>15, <2>1, <2>2, StillKept, LockedKept DEF CheckCycleLimit
  <2>. QED BY <1>15, <2>9, SectionStarts DEF CheckCycleLimit, agents, history
<1>16. ASSUME NEW t \in Tasks, Submitted(t) PROVE  Starts'
  <2>. task[t] \in TaskState /\ TaskStarts(task[t], readied)
    BY DEF TypeOK, Starts
  <2>1. task[t].out \in InPlay(readied)
    BY <1>16 DEF Submitted, At, TaskStarts, InFlight
  <2>2. TaskStarts([task[t] EXCEPT !.pc = "guard"], readied)
    BY <1>16, <2>1 DEF TaskStarts, AfterOK, InFlight, TaskState, Submitted, At
  <2>3. /\ [Return(t) EXCEPT !.review = TRUE] \in TaskState
        /\ TaskStarts([Return(t) EXCEPT !.review = TRUE], readied)
    BY <2>1 DEF TaskStarts, AfterOK, InFlight, TaskState, Sections, Return
  <2>4. Kept
    BY <1>16, <2>2, <2>3, TaskFields, StillKept, MarkedKept DEF Submitted, PortStatus
  <2>5. offered' \subseteq InPlay(readied') /\ offered \subseteq offered'
    BY <1>16, <2>1, <2>4, Monotone DEF Submitted, Kept, Starts, Traffic
  <2>6. channel \in [Supervisors -> Seq(InPlay(readied'))]
    <3>1. InPlay(readied) \subseteq InPlay(readied')
      BY <2>4, Monotone DEF Kept
    <3>. QED BY <3>1 DEF Starts, Traffic
  <2>7. Traffic'
    BY <1>16, <2>4, <2>5, <2>6, Monotone DEF Submitted, Kept, Starts, Traffic, agents
  <2>8. RunStarts(disk, readied')
    BY <2>4, Monotone DEF Kept, Starts
  <2>. QED BY <1>16, <2>4, <2>7, <2>8 DEF Submitted, Kept, Starts
<1>17. ASSUME NEW t \in Tasks, ApprovalGuard(t) PROVE  Starts'
  <2>. task[t] \in TaskState /\ TaskStarts(task[t], readied)
    BY DEF TypeOK, Starts
  <2>1. Return(t) \in TaskState /\ TaskStarts(Return(t), readied)
    BY DEF TaskStarts, AfterOK, InFlight, TaskState, Sections, Return
  <2>2. TaskStarts([task[t] EXCEPT !.pc = "approve"], readied)
    BY <1>17 DEF TaskStarts, AfterOK, InFlight, TaskState, ApprovalGuard, At
  <2>9. Kept
    BY <1>17, <2>1, <2>2, StillKept DEF ApprovalGuard, history
  <2>. QED BY <1>17, <2>9, SectionStarts DEF ApprovalGuard, agents, history
<1>18. ASSUME NEW t \in Tasks, MarkApproved(t) PROVE  Starts'
  <2>. task[t] \in TaskState /\ TaskStarts(task[t], readied)
    BY DEF TypeOK, Starts
  <2>1. task[t].out \in InPlay(readied)
    BY <1>18 DEF MarkApproved, At, TaskStarts, InFlight
  <2>2. /\ [task[t] EXCEPT !.pc = "join", !.after = "reinvoke"] \in TaskState
        /\ TaskStarts([task[t] EXCEPT !.pc = "join", !.after = "reinvoke"], readied)
    BY <1>18, <2>1 DEF TaskStarts, AfterOK, InFlight, TaskState, Sections, MarkApproved, At
  <2>9. Kept
    BY <1>18, <2>1, <2>2, TaskFields, MarkedKept DEF MarkApproved, PortStatus
  <2>. QED BY <1>18, <2>9, SectionStarts DEF MarkApproved, agents, history
<1>19. ASSUME NEW t \in Tasks, FireAndJoin(t) PROVE  Starts'
  <2>. task[t] \in TaskState /\ TaskStarts(task[t], readied)
    BY DEF TypeOK, Starts
  <2>. DEFINE woken == {n \in nodes_awaiting(task[t].out) : Ready(live, n)}
                         \cup (IF task[t].after = "reinvoke"
                               THEN nodes_retriggered_by(task[t].out) ELSE {})
                next == [task[t] EXCEPT
                            !.queue = woken \ HumanOwned,
                            !.owed = UNION {Owns(n) : n \in woken \cap HumanOwned},
                            !.pc = "activate"]
  <2>1. {n \in nodes_awaiting(task[t].out) : Ready(live, n)} \subseteq readied
    BY DEF Starts, nodes_awaiting
  <2>2. ASSUME task[t].after = "reinvoke" PROVE  nodes_retriggered_by(task[t].out) \subseteq readied
    <3>1. Producer[task[t].out] \in readied
      BY <1>19, <2>2 DEF FireAndJoin, At, TaskStarts, InFlight, InPlay
    <3>. QED BY <3>1, CyclesReturn DEF nodes_retriggered_by, Starts, TypeOK
  <2>3. woken \subseteq readied
    BY <2>1, <2>2
  <2>4. TaskStarts(next, readied)
    <3>. HIDE DEF woken
    <3>. QED BY <1>19, <2>3 DEF TaskStarts, AfterOK, InFlight, TaskState, FireAndJoin, At
  <2>9. Kept
    BY <1>19, <2>4, StillKept DEF FireAndJoin, history
  <2>. QED BY <1>19, <2>9, SectionStarts DEF FireAndJoin, agents, history
<1>20. ASSUME NEW t \in Tasks, Activate(t) PROVE  Starts'
  <2>. task[t] \in TaskState /\ TaskStarts(task[t], readied)
    BY DEF TypeOK, Starts
  <2>1. TaskStarts([task[t] EXCEPT !.pc = task[t].after], readied)
    BY <1>20 DEF TaskStarts, AfterOK, InFlight, TaskState, Activate, At
  <2>2. ASSUME NEW n \in task[t].queue,
               schedule_node_with_context(t, n, [task[t] EXCEPT !.queue = @ \ {n}])
        PROVE  Kept
    <3>1. n \in readied
      BY DEF TaskStarts
    <3>2. /\ [task[t] EXCEPT !.queue = @ \ {n}] \in TaskState
          /\ TaskStarts([task[t] EXCEPT !.queue = @ \ {n}], readied)
      BY DEF TaskState, TaskStarts, AfterOK, InFlight
    <3>. QED BY <2>2, <3>1, <3>2, ScheduleKept
  <2>3. ASSUME NEW o \in task[t].owed,
               Locked(t, mark_port_status_unchecked(o, "AwaitingOwner"),
                      [task[t] EXCEPT !.owed = @ \ {o}])
        PROVE  Kept
    <3>1. o \in Outputs
      BY TaskFields
    <3>2. /\ [task[t] EXCEPT !.owed = @ \ {o}] \in TaskState
          /\ TaskStarts([task[t] EXCEPT !.owed = @ \ {o}], readied)
      BY DEF TaskState, TaskStarts, AfterOK, InFlight
    <3>. QED BY <2>3, <3>1, <3>2, UncheckedStarts, LockedKept DEF PortStatus
  <2>9. Kept
    BY <1>20, <2>1, <2>2, <2>3, StillKept DEF Activate
  <2>. QED BY <1>20, <2>9, SectionStarts DEF Activate, agents, history
<1>21. ASSUME NEW t \in Tasks, Reinvoke(t) PROVE  Starts'
  <2>. task[t] \in TaskState /\ TaskStarts(task[t], readied)
    BY DEF TypeOK, Starts
  <2>1. Return(t) \in TaskState /\ TaskStarts(Return(t), readied)
    BY DEF TaskStarts, AfterOK, InFlight, TaskState, Sections, Return
  <2>2. Producer[task[t].out] \in readied
    BY <1>21 DEF Reinvoke, At, TaskStarts, InFlight, InPlay
  <2>9. Kept
    BY <1>21, <2>1, <2>2, StillKept, ScheduleKept DEF Reinvoke
  <2>. QED BY <1>21, <2>9, SectionStarts DEF Reinvoke, agents, history
<1>22. ASSUME NEW t \in Tasks, Requeue(t) PROVE  Starts'
  <2>. task[t] \in TaskState /\ TaskStarts(task[t], readied)
    BY DEF TypeOK, Starts
  <2>1. /\ [task[t] EXCEPT !.pc = "reschedule"] \in TaskState
        /\ TaskStarts([task[t] EXCEPT !.pc = "reschedule"], readied)
    BY <1>22 DEF TaskStarts, AfterOK, InFlight, TaskState, Sections, Requeue, At
  <2>9. Kept
    BY <1>22, <2>1, TaskFields, UncheckedStarts, LockedKept DEF Requeue, PortStatus
  <2>. QED BY <1>22, <2>9, SectionStarts DEF Requeue, agents, history
<1>23. ASSUME NEW t \in Tasks, Reschedule(t) PROVE  Starts'
  <2>. task[t] \in TaskState /\ TaskStarts(task[t], readied)
    BY DEF TypeOK, Starts
  <2>1. Return(t) \in TaskState /\ TaskStarts(Return(t), readied)
    BY DEF TaskStarts, AfterOK, InFlight, TaskState, Sections, Return
  <2>2. Producer[task[t].out] \in readied
    BY <1>23 DEF Reschedule, At, TaskStarts, InFlight, InPlay
  <2>9. Kept
    BY <1>23, <2>1, <2>2, ScheduleKept DEF Reschedule
  <2>. QED BY <1>23, <2>9, SectionStarts DEF Reschedule, agents, history
<1>24. ASSUME NEW t \in Tasks, PersistVerdict(t) PROVE  Starts'
  <2>. task[t] \in TaskState /\ TaskStarts(task[t], readied)
    BY DEF TypeOK, Starts
  <2>1. TaskStarts([task[t] EXCEPT !.pc = task[t].after, !.write = live], readied)
    BY <1>24 DEF TaskStarts, AfterOK, InFlight, TaskState, PersistVerdict, At, Starts
  <2>9. Kept
    BY <1>24, <2>1, StillKept DEF PersistVerdict, history
  <2>. QED BY <1>24, <2>9, SectionStarts DEF PersistVerdict, agents, history
<1>25. ASSUME NEW t \in Tasks, Write(t) PROVE  Starts'
  <2>. task[t] \in TaskState /\ TaskStarts(task[t], readied)
    BY DEF TypeOK, Starts
  <2>1. TaskStarts([task[t] EXCEPT !.write = NoRun], readied)
    BY IdleStarts DEF TaskStarts, AfterOK, InFlight, TaskState
  <2>2. Kept
    BY <1>25, <2>1, StillKept DEF Write, history
  <2>3. RunStarts(disk', readied)
    BY <1>25 DEF Write, TaskStarts
  <2>. QED BY <1>25, <2>2, <2>3 DEF Write, Kept, Starts, Traffic, agents, history
<1>26. ASSUME NEW t \in Tasks, WriteFails(t) PROVE  Starts'
  <2>. task[t] \in TaskState /\ TaskStarts(task[t], readied)
    BY DEF TypeOK, Starts
  <2>1. TaskStarts([task[t] EXCEPT !.write = NoRun], readied)
    BY IdleStarts DEF TaskStarts, AfterOK, InFlight, TaskState
  <2>2. TaskStarts([Return(t) EXCEPT !.write = NoRun, !.queue = {}, !.owed = {}, !.seeds = {}],
                   readied)
    BY IdleStarts DEF TaskStarts, AfterOK, InFlight, TaskState, Return
  <2>9. Kept
    BY <1>26, <2>1, <2>2, IdleStarts, StillKept DEF WriteFails
  <2>. QED BY <1>26, <2>9, SectionStarts DEF WriteFails, agents, history
<1>27. ASSUME NEW t \in Supervisors, Receive(t) PROVE  Starts'
  <2>1. /\ Head(channel[t]) \in InPlay(readied)
        /\ Tail(channel[t]) \in Seq(InPlay(readied))
    BY <1>27 DEF Receive, Starts, Traffic
  <2>2. TaskStarts([Idle EXCEPT !.pc = "cycle", !.out = Head(channel[t]), !.ctx = t], readied)
    BY <2>1, IdleStarts, IdleType DEF TaskStarts, AfterOK, InFlight, TaskState
  <2>3. \A u \in Tasks : TaskStarts(task'[u], readied')
    <3>1. CASE UNCHANGED task
      BY <1>27, <3>1 DEF Receive, Starts
    <3>2. CASE Goto(t, [Idle EXCEPT !.pc = "cycle", !.out = Head(channel[t]), !.ctx = t])
      BY <1>27, <2>2, <3>2, GotoStarts DEF Receive, Tasks
    <3>. QED BY <1>27, <3>1, <3>2 DEF Receive
  <2>4. channel' \in [Supervisors -> Seq(InPlay(readied))]
    BY <1>27, <2>1 DEF Receive, Starts, Traffic
  <2>. QED BY <1>27, <2>3, <2>4 DEF Receive, Starts, Traffic
<1>28. ASSUME UNCHANGED vars PROVE  Starts'
  BY <1>28 DEF vars, Starts, Traffic
<1>. QED
  BY <1>1, <1>2, <1>3, <1>4, <1>5, <1>6, <1>7, <1>8, <1>9, <1>10, <1>11, <1>12, <1>13, <1>14, <1>15, <1>16, <1>17, <1>18, <1>19, <1>20, <1>21, <1>22, <1>23, <1>24, <1>25, <1>26, <1>27, <1>28
  DEF Next, Environment, Step, Section

-----------------------------------------------------------------------------
(* Early.                                                                   *)

\* Once anything goes on, start_run is past its insert.
LEMMA Present ==
    ASSUME Early,
           \/ live.status # "absent" \/ active # {}
           \/ \E s \in Supervisors : channel[s] # <<>>
           \/ \E t \in Tasks : task[t].pc \notin {"idle", "insert"}
    PROVE  faults # "start" /\ \A u \in Tasks : task[u].pc # "insert"
<1>1. NoRun.status = "absent"
  BY DEF NoRun
<1>. QED BY <1>1 DEF Early

\* Task t is at p, the other tasks are as they were.
Moved(t, p) ==
    /\ task'[t].pc = p
    /\ \A u \in Tasks \ {t} : task'[u] = task[u]

\* Where a task is after a section that leaves the run alone,
LEMMA GotoMoved ==
    ASSUME TypeOK, NEW t \in Tasks, NEW next \in TaskState, Goto(t, next)
    PROVE  Moved(t, next.pc)
  BY DEF TypeOK, Goto, Moved

\* after one that changes it,
LEMMA LockedMoved ==
    ASSUME TypeOK, NEW t \in Tasks, NEW run \in FlowRunState, NEW next \in TaskState,
           Locked(t, run, next)
    PROVE  Moved(t, next.pc)
<1>1. /\ [next EXCEPT !.write = run] \in TaskState
      /\ [next EXCEPT !.write = run].pc = next.pc
  BY DEF TaskState
<1>. QED BY <1>1, GotoMoved DEF Locked

\* after mark_port_status,
LEMMA MarkedMoved ==
    ASSUME TypeOK, NEW t \in Tasks, NEW o \in Outputs, NEW status \in PortStatus,
           NEW next \in TaskState, Marked(t, o, status, next)
    PROVE  Moved(t, next.pc)
<1>1. mark_port_status(o, status) \in FlowRunState
  BY RunTypes DEF mark_port_status, TypeOK
<1>. QED BY <1>1, GotoMoved, LockedMoved DEF Marked

\* and after scheduling a node.
LEMMA ScheduleMoved ==
    ASSUME TypeOK, NEW t \in Tasks, NEW n \in Nodes, NEW next \in TaskState,
           schedule_node_with_context(t, n, next)
    PROVE  Moved(t, next.pc)
<1>1. /\ [next EXCEPT !.spawn = @ \cup {n}] \in TaskState
      /\ [next EXCEPT !.spawn = @ \cup {n}].pc = next.pc
  BY DEF TaskState
<1>2. record_invocation(n) \in FlowRunState
  BY RunTypes DEF record_invocation, TypeOK
<1>. QED BY <1>1, <1>2, LockedMoved DEF schedule_node_with_context

\* A task that moves elsewhere than to the insert keeps Early.
LEMMA MovedEarly ==
    ASSUME Early, faults # "start", NEW t \in Tasks,
           \A u \in Tasks \ {t} : task[u].pc # "insert",
           NEW p, Moved(t, p), p # "insert", p = "idle" => task'[t].write = NoRun,
           faults' \in {faults, "failed"}
    PROVE  Early'
<1>1. \A u \in Tasks : task'[u].pc # "insert"
  BY DEF Moved
<1>2. \A u \in Tasks : task'[u].pc = "idle" => task'[u].write = NoRun
  BY DEF Moved, Early
<1>. QED BY <1>1, <1>2 DEF Early

\* So does one that is past the insert.
LEMMA SectionEarly ==
    ASSUME Early, NEW t \in Tasks, task[t].pc \notin {"idle", "insert"},
           NEW p, Moved(t, p), p # "insert", p = "idle" => task'[t].write = NoRun,
           faults' \in {faults, "failed"}
    PROVE  Early'
  BY Present, MovedEarly

\* Every step keeps Early.
LEMMA EarlyStep ==
    ASSUME TypeOK, Starts, Early, [Next]_vars
    PROVE  Early'
<1>1. ASSUME NEW t \in Requests, HandleStartRun(t) PROVE  Early'
  <2>. DEFINE next == [Idle EXCEPT !.pc = "insert", !.seeds = {}, !.write = Fresh]
  <2>2. next.pc = "insert" /\ next.out = Brief
    BY IdleType DEF TaskState, Idle
  <2>3. t \in Tasks /\ faults = "start" /\ faults' = "none" /\ task' = [task EXCEPT ![t] = next]
        /\ UNCHANGED <<live, channel, active, reviewing>>
    BY <1>1 DEF HandleStartRun, start_run, Goto, Tasks
  <2>. HIDE DEF next
  <2>. QED BY <2>2, <2>3 DEF Early, TypeOK
<1>2. ASSUME NEW t \in Requests, FlowStart(t) PROVE  Early'
  <2>. DEFINE next == [Idle EXCEPT !.pc = "insert", !.seeds = {}, !.write = Fresh]
  <2>2. next.pc = "insert" /\ next.out = Brief
    BY IdleType DEF TaskState, Idle
  <2>3. t \in Tasks /\ faults = "start" /\ faults' = "none" /\ task' = [task EXCEPT ![t] = next]
        /\ UNCHANGED <<live, channel, active, reviewing>>
    BY <1>2 DEF FlowStart, start_run, Goto, Tasks
  <2>. HIDE DEF next
  <2>. QED BY <2>2, <2>3 DEF Early, TypeOK
<1>3. ASSUME NEW t \in Requests, InvokeFlow(t) PROVE  Early'
  <2>1. PICK seeds \in SUBSET Seedable : start_run(t, seeds)
    BY <1>3 DEF InvokeFlow
  <2>. DEFINE next == [Idle EXCEPT !.pc = "insert", !.seeds = seeds, !.write = Fresh]
  <2>2. next.pc = "insert" /\ next.out = Brief
    BY IdleType DEF TaskState, Idle
  <2>3. t \in Tasks /\ faults = "start" /\ faults' = "none" /\ task' = [task EXCEPT ![t] = next]
        /\ UNCHANGED <<live, channel, active, reviewing>>
    BY <2>1 DEF InvokeFlow, start_run, Goto, Tasks
  <2>. HIDE DEF next
  <2>. QED BY <2>2, <2>3 DEF Early, TypeOK
<1>4. ASSUME NEW o \in Outputs, NEW s \in Supervisors, SubmitDocument(o, s) PROVE  Early'
  <2>1. active # {}
    BY <1>4 DEF SubmitDocument
  <2>. QED BY <1>4, <2>1, Present DEF SubmitDocument, Early
<1>5. ASSUME NEW t \in Requests, NEW o \in Outputs, NEW r \in Agents, NEW v \in Verdict,
             ReviewerVerdict(t, o, r, v)
      PROVE  Early'
  <2>1. faults # "start" /\ \A u \in Tasks : task[u].pc # "insert"
    BY <1>5, Present DEF ReviewerVerdict
  <2>2. PICK c \in Contexts :
            Goto(t, [Idle EXCEPT !.pc = "verdict", !.out = o, !.ctx = c,
                                 !.after = Outcome(o, Tally(o, r, v))])
    BY <1>5 DEF ReviewerVerdict
  <2>3. /\ [Idle EXCEPT !.pc = "verdict", !.out = o, !.ctx = c,
                        !.after = Outcome(o, Tally(o, r, v))] \in TaskState
        /\ [Idle EXCEPT !.pc = "verdict", !.out = o, !.ctx = c,
                        !.after = Outcome(o, Tally(o, r, v))].pc = "verdict"
    BY IdleType DEF TaskState, Sections, Outcome
  <2>4. Moved(t, "verdict")
    BY <2>2, <2>3, GotoMoved DEF Tasks
  <2>. QED BY <1>5, <2>1, <2>4, MovedEarly DEF ReviewerVerdict, history, Tasks
<1>6. ASSUME NEW t \in Requests, NEW o \in Outputs, HumanApproves(t, o) PROVE  Early'
  <2>1. faults # "start" /\ \A u \in Tasks : task[u].pc # "insert"
    BY <1>6, Present DEF HumanApproves, Decide
  <2>2. Recovered(Rebuilt) \in Contexts
    BY DEF TypeOK, Recovered, Contexts, Supervisors
  <2>3. /\ [Idle EXCEPT !.pc = "guard", !.out = o, !.ctx = Recovered(Rebuilt)] \in TaskState
        /\ [Idle EXCEPT !.pc = "guard", !.out = o, !.ctx = Recovered(Rebuilt)].pc = "guard"
    BY <2>2, IdleType DEF TaskState, Sections
  <2>4. Moved(t, "guard")
    BY <1>6, <2>3, GotoMoved DEF HumanApproves, Decide, Tasks
  <2>. QED BY <1>6, <2>1, <2>4, MovedEarly DEF HumanApproves, Decide, Tasks
<1>7. ASSUME NEW t \in Requests, NEW o \in Outputs, HumanRequestsChanges(t, o) PROVE  Early'
  <2>1. faults # "start" /\ \A u \in Tasks : task[u].pc # "insert"
    BY <1>7, Present DEF HumanRequestsChanges, Decide
  <2>2. Recovered(Deaf) \in Contexts
    BY DEF TypeOK, Recovered, Contexts, Supervisors
  <2>3. /\ [Idle EXCEPT !.pc = "requeue", !.out = o, !.ctx = Recovered(Deaf)] \in TaskState
        /\ [Idle EXCEPT !.pc = "requeue", !.out = o, !.ctx = Recovered(Deaf)].pc = "requeue"
    BY <2>2, IdleType DEF TaskState, Sections
  <2>4. Moved(t, "requeue")
    BY <1>7, <2>3, GotoMoved DEF HumanRequestsChanges, Decide, Tasks
  <2>. QED BY <1>7, <2>1, <2>4, MovedEarly DEF HumanRequestsChanges, Decide, Tasks
<1>8. ASSUME NEW t \in Requests, NEW o \in Outputs, FlowApprove(t, o) PROVE  Early'
  <2>1. faults # "start" /\ \A u \in Tasks : task[u].pc # "insert"
    BY <1>8, Present DEF FlowApprove, Decide
  <2>2. Supervisor \in Contexts
    BY DEF TypeOK, Recovered, Contexts, Supervisors
  <2>3. /\ [Idle EXCEPT !.pc = "guard", !.out = o, !.ctx = Supervisor] \in TaskState
        /\ [Idle EXCEPT !.pc = "guard", !.out = o, !.ctx = Supervisor].pc = "guard"
    BY <2>2, IdleType DEF TaskState, Sections
  <2>4. Moved(t, "guard")
    BY <1>8, <2>3, GotoMoved DEF FlowApprove, Decide, Tasks
  <2>. QED BY <1>8, <2>1, <2>4, MovedEarly DEF FlowApprove, Decide, Tasks
<1>9. ASSUME NEW t \in Requests, NEW o \in Outputs, FlowRequestChanges(t, o) PROVE  Early'
  <2>1. faults # "start" /\ \A u \in Tasks : task[u].pc # "insert"
    BY <1>9, Present DEF FlowRequestChanges, Decide
  <2>2. Supervisor \in Contexts
    BY DEF TypeOK, Recovered, Contexts, Supervisors
  <2>3. /\ [Idle EXCEPT !.pc = "requeue", !.out = o, !.ctx = Supervisor] \in TaskState
        /\ [Idle EXCEPT !.pc = "requeue", !.out = o, !.ctx = Supervisor].pc = "requeue"
    BY <2>2, IdleType DEF TaskState, Sections
  <2>4. Moved(t, "requeue")
    BY <1>9, <2>3, GotoMoved DEF FlowRequestChanges, Decide, Tasks
  <2>. QED BY <1>9, <2>1, <2>4, MovedEarly DEF FlowRequestChanges, Decide, Tasks
<1>10. ASSUME Crash PROVE  Early'
  <2>1. Idle.pc = "idle" /\ Idle.write = NoRun
    BY DEF Idle
  <2>. QED BY <1>10, <2>1 DEF Crash, Early
<1>11. ASSUME NEW t \in Tasks, Insert(t) PROVE  Early'
  <2>. task[t] \in TaskState
    BY DEF TypeOK
  <2>1. /\ [task[t] EXCEPT !.pc = "join", !.after = "register"] \in TaskState
        /\ [task[t] EXCEPT !.pc = "join", !.after = "register"].pc = "join"
    BY DEF TaskState, Sections
  <2>2. faults # "start" /\ \A u \in Tasks \ {t} : task[u].pc # "insert"
    BY <1>11 DEF Insert, At, Early
  <2>3. Moved(t, "join")
    BY <1>11, <2>1, GotoMoved DEF Insert
  <2>. QED BY <1>11, <2>2, <2>3, MovedEarly DEF Insert
<1>12. ASSUME NEW t \in Tasks, Register(t) PROVE  Early'
  <2>. task[t] \in TaskState
    BY DEF TypeOK
  <2>1. /\ [task[t] EXCEPT !.pc = "seed"] \in TaskState
        /\ [task[t] EXCEPT !.pc = "seed"].pc = "seed"
    BY DEF TaskState, Sections
  <2>9. Moved(t, "seed")
    BY <1>12, <2>1, GotoMoved DEF Register
  <2>. QED BY <1>12, <2>9, SectionEarly DEF Register, At, history
<1>13. ASSUME NEW t \in Tasks, apply_seeded_entries(t) PROVE  Early'
  <2>. task[t] \in TaskState
    BY DEF TypeOK
  <2>1. Return(t) \in TaskState /\ Return(t).pc = "deliver"
    BY DEF TaskState, Sections, Return
  <2>2. ASSUME NEW o \in task[t].seeds,
               Locked(t, mark_port_status_unchecked(o, "Seeded"),
                      [task[t] EXCEPT !.seeds = @ \ {o}, !.out = o,
                                      !.pc = "join", !.after = "seed"])
        PROVE  Moved(t, "join")
    <3>1. /\ [task[t] EXCEPT !.seeds = @ \ {o}, !.out = o,
                             !.pc = "join", !.after = "seed"] \in TaskState
          /\ [task[t] EXCEPT !.seeds = @ \ {o}, !.out = o,
                             !.pc = "join", !.after = "seed"].pc = "join"
      BY TaskFields DEF TaskState, Sections
    <3>. QED BY <2>2, <3>1, TaskFields, UncheckedStarts, LockedMoved DEF PortStatus
  <2>9. Moved(t, "deliver") \/ Moved(t, "join")
    BY <1>13, <2>1, <2>2, GotoMoved DEF apply_seeded_entries
  <2>. QED BY <1>13, <2>9, SectionEarly DEF apply_seeded_entries, At, history
<1>14. ASSUME NEW t \in Tasks, Deliver(t) PROVE  Early'
  <2>1. Idle.pc = "idle" /\ Idle.write = NoRun
    BY DEF Idle
  <2>9. Moved(t, "idle") /\ task'[t].write = NoRun
    BY <1>14, <2>1, IdleType, GotoMoved DEF Deliver, Goto, TypeOK
  <2>. QED BY <1>14, <2>9, SectionEarly DEF Deliver, At, history
<1>15. ASSUME NEW t \in Tasks, CheckCycleLimit(t) PROVE  Early'
  <2>. task[t] \in TaskState
    BY DEF TypeOK
  <2>1. \A p \in {"submitted", "deliver"} :
            [task[t] EXCEPT !.pc = p] \in TaskState /\ [task[t] EXCEPT !.pc = p].pc = p
    BY DEF TaskState, Sections
  <2>2. increment_port_cycles(task[t].out) \in FlowRunState
    BY TaskFields, RunTypes DEF increment_port_cycles, TypeOK
  <2>9. Moved(t, "submitted") \/ Moved(t, "deliver")
    BY <1>15, <2>1, <2>2, GotoMoved, LockedMoved DEF CheckCycleLimit
  <2>. QED BY <1>15, <2>9, SectionEarly DEF CheckCycleLimit, At, history
<1>16. ASSUME NEW t \in Tasks, Submitted(t) PROVE  Early'
  <2>. task[t] \in TaskState
    BY DEF TypeOK
  <2>1. /\ [task[t] EXCEPT !.pc = "guard"] \in TaskState
        /\ [task[t] EXCEPT !.pc = "guard"].pc = "guard"
    BY DEF TaskState, Sections
  <2>2. /\ [Return(t) EXCEPT !.review = TRUE] \in TaskState
        /\ [Return(t) EXCEPT !.review = TRUE].pc = "deliver"
    BY DEF TaskState, Sections, Return
  <2>9. Moved(t, "guard") \/ Moved(t, "deliver")
    BY <1>16, <2>1, <2>2, TaskFields, GotoMoved, MarkedMoved DEF Submitted, PortStatus
  <2>. QED BY <1>16, <2>9, SectionEarly DEF Submitted, At, history
<1>17. ASSUME NEW t \in Tasks, ApprovalGuard(t) PROVE  Early'
  <2>. task[t] \in TaskState
    BY DEF TypeOK
  <2>1. Return(t) \in TaskState /\ Return(t).pc = "deliver"
    BY DEF TaskState, Sections, Return
  <2>2. /\ [task[t] EXCEPT !.pc = "approve"] \in TaskState
        /\ [task[t] EXCEPT !.pc = "approve"].pc = "approve"
    BY DEF TaskState, Sections
  <2>9. Moved(t, "deliver") \/ Moved(t, "approve")
    BY <1>17, <2>1, <2>2, GotoMoved DEF ApprovalGuard
  <2>. QED BY <1>17, <2>9, SectionEarly DEF ApprovalGuard, At, history
<1>18. ASSUME NEW t \in Tasks, MarkApproved(t) PROVE  Early'
  <2>. task[t] \in TaskState
    BY DEF TypeOK
  <2>1. /\ [task[t] EXCEPT !.pc = "join", !.after = "reinvoke"] \in TaskState
        /\ [task[t] EXCEPT !.pc = "join", !.after = "reinvoke"].pc = "join"
    BY DEF TaskState, Sections
  <2>9. Moved(t, "join")
    BY <1>18, <2>1, TaskFields, MarkedMoved DEF MarkApproved, PortStatus
  <2>. QED BY <1>18, <2>9, SectionEarly DEF MarkApproved, At, history
<1>19. ASSUME NEW t \in Tasks, FireAndJoin(t) PROVE  Early'
  <2>. task[t] \in TaskState
    BY DEF TypeOK
  <2>9. Moved(t, "activate")
    BY <1>19 DEF FireAndJoin, Goto, TypeOK, TaskState, Moved
  <2>. QED BY <1>19, <2>9, SectionEarly DEF FireAndJoin, At, history
<1>20. ASSUME NEW t \in Tasks, Activate(t) PROVE  Early'
  <2>. task[t] \in TaskState
    BY DEF TypeOK
  <2>1. /\ [task[t] EXCEPT !.pc = task[t].after] \in TaskState
        /\ [task[t] EXCEPT !.pc = task[t].after].pc = task[t].after
        /\ task[t].after \notin {"insert", "idle"}
    BY <1>20 DEF TaskState, Starts, TaskStarts, AfterOK, Activate, At
  <2>2. \A n \in task[t].queue : /\ n \in Nodes
                                 /\ [task[t] EXCEPT !.queue = @ \ {n}] \in TaskState
                                 /\ [task[t] EXCEPT !.queue = @ \ {n}].pc = task[t].pc
    BY DEF TaskState
  <2>3. \A o \in task[t].owed : /\ [task[t] EXCEPT !.owed = @ \ {o}] \in TaskState
                                /\ [task[t] EXCEPT !.owed = @ \ {o}].pc = task[t].pc
                                /\ mark_port_status_unchecked(o, "AwaitingOwner") \in FlowRunState
    BY TaskFields, UncheckedStarts DEF TaskState, PortStatus
  <2>9. Moved(t, task[t].after) \/ Moved(t, "activate")
    BY <1>20, <2>1, <2>2, <2>3, GotoMoved, LockedMoved, ScheduleMoved DEF Activate, At
  <2>. QED BY <1>20, <2>1, <2>9, SectionEarly DEF Activate, At
<1>21. ASSUME NEW t \in Tasks, Reinvoke(t) PROVE  Early'
  <2>. task[t] \in TaskState
    BY DEF TypeOK
  <2>1. Return(t) \in TaskState /\ Return(t).pc = "deliver"
    BY DEF TaskState, Sections, Return
  <2>9. Moved(t, "deliver")
    BY <1>21, <2>1, GotoMoved, ScheduleMoved DEF Reinvoke
  <2>. QED BY <1>21, <2>9, SectionEarly DEF Reinvoke, At, history
<1>22. ASSUME NEW t \in Tasks, Requeue(t) PROVE  Early'
  <2>. task[t] \in TaskState
    BY DEF TypeOK
  <2>1. /\ [task[t] EXCEPT !.pc = "reschedule"] \in TaskState
        /\ [task[t] EXCEPT !.pc = "reschedule"].pc = "reschedule"
    BY DEF TaskState, Sections
  <2>9. Moved(t, "reschedule")
    BY <1>22, <2>1, TaskFields, UncheckedStarts, LockedMoved DEF Requeue, PortStatus
  <2>. QED BY <1>22, <2>9, SectionEarly DEF Requeue, At, history
<1>23. ASSUME NEW t \in Tasks, Reschedule(t) PROVE  Early'
  <2>. task[t] \in TaskState
    BY DEF TypeOK
  <2>1. Return(t) \in TaskState /\ Return(t).pc = "deliver"
    BY DEF TaskState, Sections, Return
  <2>2. Producer[task[t].out] \in Nodes
    BY <1>23, TaskFields, FlowShape DEF Reschedule, At, Starts, TaskStarts, InFlight, InPlay
  <2>9. Moved(t, "deliver")
    BY <1>23, <2>1, <2>2, ScheduleMoved DEF Reschedule
  <2>. QED BY <1>23, <2>9, SectionEarly DEF Reschedule, At, history
<1>24. ASSUME NEW t \in Tasks, PersistVerdict(t) PROVE  Early'
  <2>. task[t] \in TaskState
    BY DEF TypeOK
  <2>1. /\ [task[t] EXCEPT !.pc = task[t].after, !.write = live] \in TaskState
        /\ [task[t] EXCEPT !.pc = task[t].after, !.write = live].pc = task[t].after
        /\ task[t].after \notin {"insert", "idle"}
    BY <1>24 DEF TypeOK, TaskState, Starts, TaskStarts, AfterOK, PersistVerdict, At
  <2>9. Moved(t, task[t].after)
    BY <1>24, <2>1, GotoMoved DEF PersistVerdict
  <2>. QED BY <1>24, <2>1, <2>9, SectionEarly DEF PersistVerdict, At, history
<1>25. ASSUME NEW t \in Tasks, Write(t) PROVE  Early'
  <2>. task[t] \in TaskState
    BY DEF TypeOK
  <2>1. /\ [task[t] EXCEPT !.write = NoRun].pc = task[t].pc
        /\ [task[t] EXCEPT !.write = NoRun].out = task[t].out
    BY DEF TaskState
  <2>2. \A u \in Tasks : task'[u].pc = task[u].pc /\ task'[u].out = task[u].out
    BY <1>25, <2>1 DEF Write, Goto, TypeOK
  <2>3. \A u \in Tasks : task'[u].write \in {task[u].write, NoRun}
    BY <1>25 DEF Write, Goto, TypeOK, TaskState
  <2>. QED BY <1>25, <2>2, <2>3 DEF Write, Early, agents, history
<1>26. ASSUME NEW t \in Tasks, WriteFails(t) PROVE  Early'
  <2>. task[t] \in TaskState
    BY DEF TypeOK
  <2>1. /\ [task[t] EXCEPT !.write = NoRun] \in TaskState
        /\ [task[t] EXCEPT !.write = NoRun].pc = task[t].pc
        /\ [task[t] EXCEPT !.write = NoRun].write = NoRun
    BY RunTypes DEF TaskState
  <2>2. /\ [Return(t) EXCEPT !.write = NoRun, !.queue = {}, !.owed = {}, !.seeds = {}] \in TaskState
        /\ [Return(t) EXCEPT !.write = NoRun, !.queue = {}, !.owed = {}, !.seeds = {}].pc = "deliver"
    BY RunTypes DEF TaskState, Sections, Return
  <2>3. Idle.pc = "idle" /\ Idle.write = NoRun
    BY DEF Idle
  <2>4. \/ Moved(t, task[t].pc) /\ task[t].pc \in {"guard", "requeue"}
        \/ Moved(t, "deliver")
        \/ Moved(t, "idle") /\ task'[t].write = NoRun
    <3>1. CASE task[t].pc \in {"guard", "requeue"}
      BY <1>26, <2>1, <3>1, GotoMoved DEF WriteFails
    <3>2. CASE task[t].pc \notin {"guard", "requeue"} /\ task[t].after = "seed"
      BY <1>26, <2>2, <3>2, GotoMoved DEF WriteFails
    <3>3. CASE task[t].pc \notin {"guard", "requeue"} /\ task[t].after # "seed"
      <4>1. Goto(t, Idle)
        BY <1>26, <3>3 DEF WriteFails
      <4>2. task'[t] = Idle
        BY <4>1 DEF Goto, TypeOK
      <4>. QED BY <4>1, <4>2, <2>3, IdleType, GotoMoved
    <3>. QED BY <3>1, <3>2, <3>3
  <2>5. \A u \in Tasks \ {t} : task[u].pc # "insert"
    BY <1>26 DEF WriteFails, Early
  <2>. QED BY <1>26, <2>4, <2>5, MovedEarly DEF WriteFails
<1>27. ASSUME NEW t \in Supervisors, Receive(t) PROVE  Early'
  <2>1. faults # "start" /\ \A u \in Tasks : task[u].pc # "insert"
    BY <1>27, Present DEF Receive
  <2>2. /\ [Idle EXCEPT !.pc = "cycle", !.out = Head(channel[t]), !.ctx = t] \in TaskState
        /\ [Idle EXCEPT !.pc = "cycle", !.out = Head(channel[t]), !.ctx = t].pc = "cycle"
    <3>1. Head(channel[t]) \in Outputs
      BY <1>27 DEF Receive, TypeOK
    <3>. QED BY <3>1, IdleType DEF TaskState, Sections, Contexts
  <2>3. CASE UNCHANGED task
    BY <1>27, <2>1, <2>3 DEF Receive, Early
  <2>4. CASE Goto(t, [Idle EXCEPT !.pc = "cycle", !.out = Head(channel[t]), !.ctx = t])
    BY <1>27, <2>1, <2>2, <2>4, GotoMoved, MovedEarly DEF Receive, Tasks
  <2>. QED BY <1>27, <2>3, <2>4 DEF Receive
<1>28. ASSUME UNCHANGED vars PROVE  Early'
  BY <1>28 DEF vars, Early
<1>. QED
  BY <1>1, <1>2, <1>3, <1>4, <1>5, <1>6, <1>7, <1>8, <1>9, <1>10, <1>11, <1>12, <1>13, <1>14, <1>15, <1>16, <1>17, <1>18, <1>19, <1>20, <1>21, <1>22, <1>23, <1>24, <1>25, <1>26, <1>27, <1>28
  DEF Next, Environment, Step, Section

-----------------------------------------------------------------------------
(* Reviews.                                                                 *)

\* More verdicts and more human approvals justify no less.
LEMMA MonotoneReviews ==
    ASSUME NEW A, NEW A2, A \subseteq A2
    PROVE  /\ \A run : Sound(run, A) => Sound(run, A2)
           /\ \A run, run2 :
                 (\A o \in Outputs : run.verdicts[o] \subseteq run2.verdicts[o])
                 => \A o \in Outputs : JustifiedBy(run, o, A) => JustifiedBy(run2, o, A2)
  BY DEF Sound, JustifiedBy

\* A new run has nothing approved but the brief, which nobody reviews.
LEMMA NothingApproved == \A A : Sound(NoRun, A) /\ Sound(Fresh, A)
<1>1. \A o \in Outputs : NoRun.ports[o] = "Pending"
  BY DEF NoRun
<1>2. \A o \in Outputs : Fresh.ports[o] = "Approved" => o = Brief
  BY FlowShape DEF Fresh, NoRun
<1>3. ~HasReviewers(Brief)
  BY FlowShape DEF HasReviewers
<1>. QED BY <1>1, <1>2, <1>3 DEF Sound, JustifiedBy

\* One task goes on; verdicts and human approvals are only added.
LEMMA GotoReviews ==
    ASSUME TypeOK, Reviews, NEW t \in Tasks, NEW next, Goto(t, next),
           approvals \subseteq approvals',
           \A o \in Outputs : live.verdicts[o] \subseteq live'.verdicts[o],
           TaskReviewed(next, live', approvals'),
           Sound(live', approvals'), Sound(disk', approvals')
    PROVE  Reviews'
<1>1. ASSUME NEW u \in Tasks PROVE TaskReviewed(task'[u], live', approvals')
  <2>1. CASE u = t
    BY <2>1 DEF Goto, TypeOK
  <2>2. CASE u # t
    <3>1. task'[u] = task[u] /\ task[u] \in TaskState /\ TaskReviewed(task[u], live, approvals)
      BY <2>2 DEF Goto, TypeOK, Reviews
    <3>2. task[u].out \in Outputs
      BY <3>1, TaskFields
    <3>. QED BY <3>1, <3>2, MonotoneReviews DEF TaskReviewed
  <2>. QED BY <2>1, <2>2
<1>. QED BY <1>1 DEF Reviews

\* A section that leaves the run alone.
LEMMA StillReviewed ==
    ASSUME TypeOK, Reviews, NEW t \in Tasks, NEW next, Goto(t, next),
           TaskReviewed(next, live, approvals), UNCHANGED <<live, disk, approvals>>
    PROVE  Reviews'
<1>1. Sound(live, approvals) /\ Sound(disk, approvals)
  BY DEF Reviews
<1>. QED BY <1>1, GotoReviews

\* A section that changes it and keeps its verdicts.
LEMMA LockedReviewed ==
    ASSUME TypeOK, Reviews, NEW t \in Tasks, NEW run \in FlowRunState,
           NEW next \in TaskState, Locked(t, run, next),
           run.verdicts = live.verdicts, Sound(run, approvals),
           Approving(next) => JustifiedBy(live, next.out, approvals),
           UNCHANGED <<disk, approvals>>
    PROVE  Reviews'
<1>. DEFINE k == [next EXCEPT !.write = run]
<1>1. k.pc = next.pc /\ k.after = next.after /\ k.out = next.out /\ k.write = run
  BY DEF TaskState
<1>2. live' = run /\ Goto(t, k)
  BY DEF Locked
<1>. HIDE DEF k
<1>3. TaskReviewed(k, live', approvals')
  BY <1>1, <1>2 DEF TaskReviewed, Approving, JustifiedBy
<1>4. Sound(live', approvals') /\ Sound(disk', approvals')
  BY <1>2 DEF Reviews
<1>. QED BY <1>2, <1>3, <1>4, GotoReviews

\* mark_port_status, to Approved only with its justification.
LEMMA MarkedReviewed ==
    ASSUME TypeOK, Reviews, NEW t \in Tasks, NEW o \in Outputs, NEW status \in PortStatus,
           NEW next \in TaskState, Marked(t, o, status, next),
           status = "Approved" => JustifiedBy(live, o, approvals),
           ~Approving(next), next.write = NoRun, UNCHANGED <<disk, approvals>>
    PROVE  Reviews'
<1>1. mark_port_status(o, status) \in FlowRunState
  BY RunTypes DEF mark_port_status, TypeOK
<1>2. mark_port_status(o, status).verdicts = live.verdicts
  BY DEF mark_port_status, TypeOK, FlowRunState
<1>3. Sound(mark_port_status(o, status), approvals)
  <2>1. \A x \in Outputs : mark_port_status(o, status).ports[x] = "Approved" =>
            live.ports[x] = "Approved" \/ (x = o /\ status = "Approved")
    BY DEF mark_port_status, TypeOK, FlowRunState
  <2>. QED BY <1>2, <2>1 DEF Sound, Reviews, JustifiedBy
<1>4. TaskReviewed(next, live, approvals)
  BY NothingApproved DEF TaskReviewed
<1>. QED BY <1>1, <1>2, <1>3, <1>4, StillReviewed, LockedReviewed DEF Marked

\* mark_port_status_unchecked, to any status other than Approved.
LEMMA UncheckedReviewed ==
    ASSUME TypeOK, Reviews, NEW o \in Outputs, NEW status \in PortStatus \ {"Approved"}
    PROVE  /\ mark_port_status_unchecked(o, status) \in FlowRunState
           /\ mark_port_status_unchecked(o, status).verdicts = live.verdicts
           /\ Sound(mark_port_status_unchecked(o, status), approvals)
<1>1. mark_port_status_unchecked(o, status) \in FlowRunState
  BY RunTypes DEF mark_port_status_unchecked, TypeOK
<1>2. mark_port_status_unchecked(o, status).verdicts = live.verdicts
  BY DEF mark_port_status_unchecked, TypeOK, FlowRunState
<1>3. \A x \in Outputs : mark_port_status_unchecked(o, status).ports[x] = "Approved" =>
          live.ports[x] = "Approved"
  BY DEF mark_port_status_unchecked, TypeOK, FlowRunState
<1>. QED BY <1>1, <1>2, <1>3 DEF Sound, Reviews, JustifiedBy

\* Scheduling a node leaves ports and verdicts alone.
LEMMA ScheduleReviewed ==
    ASSUME TypeOK, Reviews, NEW t \in Tasks, NEW n \in Nodes, NEW next \in TaskState,
           schedule_node_with_context(t, n, next), ~Approving(next),
           UNCHANGED <<disk, approvals>>
    PROVE  Reviews'
<1>. DEFINE k == [next EXCEPT !.spawn = @ \cup {n}]
<1>1. k \in TaskState /\ k.pc = next.pc /\ k.after = next.after
  BY DEF TaskState
<1>2. /\ record_invocation(n) \in FlowRunState
      /\ record_invocation(n).verdicts = live.verdicts
      /\ record_invocation(n).ports = live.ports
  <2>1. record_invocation(n) \in FlowRunState
    BY RunTypes DEF record_invocation, TypeOK
  <2>. QED BY <2>1 DEF record_invocation, TypeOK, FlowRunState
<1>3. Sound(record_invocation(n), approvals)
  BY <1>2 DEF Sound, JustifiedBy, Reviews
<1>4. Locked(t, record_invocation(n), k)
  BY DEF schedule_node_with_context
<1>. HIDE DEF k
<1>. QED BY <1>1, <1>2, <1>3, <1>4, LockedReviewed DEF Approving

\* Every step keeps Reviews.
LEMMA ReviewsStep ==
    ASSUME TypeOK, Starts, Early, Reviews, [Next]_vars
    PROVE  Reviews'
<1>1. ASSUME NEW t \in Requests, HandleStartRun(t) PROVE  Reviews'
  <2>. DEFINE next == [Idle EXCEPT !.pc = "insert", !.seeds = {}, !.write = Fresh]
  <2>2. next.pc = "insert" /\ next.write = Fresh
    BY IdleType DEF TaskState
  <2>3. Goto(t, next)
    BY <1>1 DEF HandleStartRun, start_run
  <2>. HIDE DEF next
  <2>4. TaskReviewed(next, live, approvals)
    BY <2>2, NothingApproved DEF TaskReviewed, Approving
  <2>. QED BY <1>1, <2>3, <2>4, StillReviewed DEF HandleStartRun, start_run, Tasks
<1>2. ASSUME NEW t \in Requests, FlowStart(t) PROVE  Reviews'
  <2>. DEFINE next == [Idle EXCEPT !.pc = "insert", !.seeds = {}, !.write = Fresh]
  <2>2. next.pc = "insert" /\ next.write = Fresh
    BY IdleType DEF TaskState
  <2>3. Goto(t, next)
    BY <1>2 DEF FlowStart, start_run
  <2>. HIDE DEF next
  <2>4. TaskReviewed(next, live, approvals)
    BY <2>2, NothingApproved DEF TaskReviewed, Approving
  <2>. QED BY <1>2, <2>3, <2>4, StillReviewed DEF FlowStart, start_run, Tasks
<1>3. ASSUME NEW t \in Requests, InvokeFlow(t) PROVE  Reviews'
  <2>1. PICK seeds \in SUBSET Seedable : start_run(t, seeds)
    BY <1>3 DEF InvokeFlow
  <2>. DEFINE next == [Idle EXCEPT !.pc = "insert", !.seeds = seeds, !.write = Fresh]
  <2>2. next.pc = "insert" /\ next.write = Fresh
    BY IdleType DEF TaskState
  <2>3. Goto(t, next)
    BY <2>1 DEF InvokeFlow, start_run
  <2>. HIDE DEF next
  <2>4. TaskReviewed(next, live, approvals)
    BY <2>2, NothingApproved DEF TaskReviewed, Approving
  <2>. QED BY <2>1, <2>3, <2>4, StillReviewed DEF InvokeFlow, start_run, Tasks
<1>4. ASSUME NEW o \in Outputs, NEW s \in Supervisors, SubmitDocument(o, s) PROVE  Reviews'
  BY <1>4 DEF SubmitDocument, Reviews
<1>5. ASSUME NEW t \in Requests, NEW o \in Outputs, NEW r \in Agents, NEW v \in Verdict,
             ReviewerVerdict(t, o, r, v)
      PROVE  Reviews'
  <2>. DEFINE tally == Tally(o, r, v)
  <2>1. PICK c \in Contexts :
            Goto(t, [Idle EXCEPT !.pc = "verdict", !.out = o, !.ctx = c,
                                 !.after = Outcome(o, tally)])
    BY <1>5 DEF ReviewerVerdict
  <2>. DEFINE next == [Idle EXCEPT !.pc = "verdict", !.out = o, !.ctx = c,
                                  !.after = Outcome(o, tally)]
  <2>2. /\ next.pc = "verdict" /\ next.out = o /\ next.after = Outcome(o, tally)
        /\ next.write = NoRun
    BY IdleType DEF TaskState, Idle
  <2>3. live.verdicts[o] \subseteq tally
    BY DEF Tally
  <2>4. /\ live'.verdicts[o] = tally
        /\ live'.ports = live.ports
        /\ \A x \in Outputs : live.verdicts[x] \subseteq live'.verdicts[x]
    BY <1>5, <2>3 DEF ReviewerVerdict, TypeOK, FlowRunState
  <2>5. Outcome(o, tally) = "guard" => JustifiedBy(live', o, approvals)
    BY <2>4 DEF Outcome, JustifiedBy
  <2>6. UNCHANGED <<disk, approvals>>
    BY <1>5 DEF ReviewerVerdict, history
  <2>. HIDE DEF next, tally
  <2>7. TaskReviewed(next, live', approvals')
    BY <2>2, <2>5, <2>6, NothingApproved DEF TaskReviewed, Approving
  <2>8. Sound(live', approvals')
    BY <2>4, <2>6, MonotoneReviews DEF Sound, Reviews
  <2>9. Sound(disk', approvals')
    BY <2>6 DEF Reviews
  <2>10. Goto(t, next)
    BY <2>1 DEF next
  <2>. QED BY <2>4, <2>6, <2>7, <2>8, <2>9, <2>10, GotoReviews DEF Tasks
<1>6. ASSUME NEW t \in Requests, NEW o \in Outputs, HumanApproves(t, o) PROVE  Reviews'
  <2>. DEFINE next == [Idle EXCEPT !.pc = "guard", !.out = o, !.ctx = Recovered(Rebuilt)]
  <2>1. next.pc = "guard" /\ next.out = o /\ next.write = NoRun
    BY IdleType DEF TaskState, Idle
  <2>2. Goto(t, next) /\ UNCHANGED <<live, disk>> /\ approvals \subseteq approvals' /\ o \in approvals'
    BY <1>6 DEF HumanApproves, Decide
  <2>. HIDE DEF next
  <2>3. TaskReviewed(next, live', approvals')
    BY <2>1, <2>2, NothingApproved DEF TaskReviewed, Approving, JustifiedBy
  <2>4. Sound(live', approvals') /\ Sound(disk', approvals')
    BY <2>2, MonotoneReviews DEF Reviews
  <2>. QED BY <2>2, <2>3, <2>4, GotoReviews DEF Tasks
<1>7. ASSUME NEW t \in Requests, NEW o \in Outputs, HumanRequestsChanges(t, o) PROVE  Reviews'
  <2>. DEFINE next == [Idle EXCEPT !.pc = "requeue", !.out = o, !.ctx = Recovered(Deaf)]
  <2>1. next.pc = "requeue" /\ next.out = o /\ next.write = NoRun
    BY IdleType DEF TaskState, Idle
  <2>2. Goto(t, next) /\ UNCHANGED <<live, disk>> /\ approvals \subseteq approvals'
    BY <1>7 DEF HumanRequestsChanges, Decide
  <2>. HIDE DEF next
  <2>3. TaskReviewed(next, live', approvals')
    BY <2>1, <2>2, NothingApproved DEF TaskReviewed, Approving, JustifiedBy
  <2>4. Sound(live', approvals') /\ Sound(disk', approvals')
    BY <2>2, MonotoneReviews DEF Reviews
  <2>. QED BY <2>2, <2>3, <2>4, GotoReviews DEF Tasks
<1>8. ASSUME NEW t \in Requests, NEW o \in Outputs, FlowApprove(t, o) PROVE  Reviews'
  <2>. DEFINE next == [Idle EXCEPT !.pc = "guard", !.out = o, !.ctx = Supervisor]
  <2>1. next.pc = "guard" /\ next.out = o /\ next.write = NoRun
    BY IdleType DEF TaskState, Idle
  <2>2. Goto(t, next) /\ UNCHANGED <<live, disk>> /\ approvals \subseteq approvals' /\ o \in approvals'
    BY <1>8 DEF FlowApprove, Decide
  <2>. HIDE DEF next
  <2>3. TaskReviewed(next, live', approvals')
    BY <2>1, <2>2, NothingApproved DEF TaskReviewed, Approving, JustifiedBy
  <2>4. Sound(live', approvals') /\ Sound(disk', approvals')
    BY <2>2, MonotoneReviews DEF Reviews
  <2>. QED BY <2>2, <2>3, <2>4, GotoReviews DEF Tasks
<1>9. ASSUME NEW t \in Requests, NEW o \in Outputs, FlowRequestChanges(t, o) PROVE  Reviews'
  <2>. DEFINE next == [Idle EXCEPT !.pc = "requeue", !.out = o, !.ctx = Supervisor]
  <2>1. next.pc = "requeue" /\ next.out = o /\ next.write = NoRun
    BY IdleType DEF TaskState, Idle
  <2>2. Goto(t, next) /\ UNCHANGED <<live, disk>> /\ approvals \subseteq approvals'
    BY <1>9 DEF FlowRequestChanges, Decide
  <2>. HIDE DEF next
  <2>3. TaskReviewed(next, live', approvals')
    BY <2>1, <2>2, NothingApproved DEF TaskReviewed, Approving, JustifiedBy
  <2>4. Sound(live', approvals') /\ Sound(disk', approvals')
    BY <2>2, MonotoneReviews DEF Reviews
  <2>. QED BY <2>2, <2>3, <2>4, GotoReviews DEF Tasks
<1>10. ASSUME Crash PROVE  Reviews'
  <2>1. PICK file \in {disk, NoRun} :
            /\ live' = IF file.status = "Running" THEN [file EXCEPT !.status = "Paused"] ELSE file
            /\ disk' = live'
    BY <1>10 DEF Crash
  <2>2. live'.ports = file.ports /\ live'.verdicts = file.verdicts
    BY <2>1, RunTypes DEF TypeOK, FlowRunState
  <2>3. Sound(live', approvals)
    BY <2>2, NothingApproved DEF Reviews, Sound, JustifiedBy
  <2>4. Idle.pc = "idle" /\ Idle.write = NoRun
    BY DEF Idle
  <2>. QED BY <1>10, <2>1, <2>3, <2>4, NothingApproved
       DEF Crash, Reviews, TaskReviewed, Approving
<1>11. ASSUME NEW t \in Tasks, Insert(t) PROVE  Reviews'
  <2>. task[t] \in TaskState /\ TaskReviewed(task[t], live, approvals)
    BY DEF TypeOK, Reviews
  <2>1. live = NoRun /\ live' = Fresh /\ UNCHANGED <<disk, approvals>>
    BY <1>11 DEF Insert, At, Early
  <2>2. NoRun.verdicts = Fresh.verdicts
    BY DEF NoRun, Fresh
  <2>. DEFINE next == [task[t] EXCEPT !.pc = "join", !.after = "register"]
  <2>3. next.pc = "join" /\ next.write = task[t].write
    BY DEF TaskState
  <2>4. Goto(t, next)
    BY <1>11 DEF Insert
  <2>. HIDE DEF next
  <2>5. TaskReviewed(next, live', approvals')
    BY <2>1, <2>3 DEF TaskReviewed, Approving
  <2>6. Sound(live', approvals') /\ Sound(disk', approvals')
    BY <2>1, NothingApproved DEF Reviews
  <2>. QED BY <2>1, <2>2, <2>4, <2>5, <2>6, GotoReviews
<1>12. ASSUME NEW t \in Tasks, Register(t) PROVE  Reviews'
  <2>. task[t] \in TaskState /\ TaskReviewed(task[t], live, approvals)
    BY DEF TypeOK, Reviews
  <2>1. live'.ports = live.ports /\ live'.verdicts = live.verdicts /\ UNCHANGED <<disk, approvals>>
    BY <1>12 DEF Register, TypeOK, FlowRunState, history
  <2>. DEFINE next == [task[t] EXCEPT !.pc = "seed"]
  <2>3. next.pc = "seed" /\ next.write = task[t].write
    BY DEF TaskState
  <2>4. Goto(t, next)
    BY <1>12 DEF Register
  <2>. HIDE DEF next
  <2>5. TaskReviewed(next, live', approvals')
    BY <2>1, <2>3 DEF TaskReviewed, Approving
  <2>6. Sound(live', approvals') /\ Sound(disk', approvals')
    BY <2>1 DEF Reviews, Sound, JustifiedBy
  <2>. QED BY <2>1, <2>4, <2>5, <2>6, GotoReviews
<1>13. ASSUME NEW t \in Tasks, apply_seeded_entries(t) PROVE  Reviews'
  <2>. task[t] \in TaskState /\ TaskReviewed(task[t], live, approvals)
    BY DEF TypeOK, Reviews
  <2>1. Return(t) \in TaskState /\ Return(t).pc = "deliver" /\ Return(t).write = task[t].write
    BY DEF TaskState, Sections, Return
  <2>2. ~Approving(Return(t)) /\ TaskReviewed(Return(t), live, approvals)
    BY <2>1 DEF Approving, TaskReviewed
  <2>3. ASSUME NEW o \in task[t].seeds,
               Locked(t, mark_port_status_unchecked(o, "Seeded"),
                      [task[t] EXCEPT !.seeds = @ \ {o}, !.out = o,
                                      !.pc = "join", !.after = "seed"])
        PROVE  Reviews'
    <3>. DEFINE next == [task[t] EXCEPT !.seeds = @ \ {o}, !.out = o,
                                       !.pc = "join", !.after = "seed"]
    <3>1. next \in TaskState /\ next.pc = "join"
      BY TaskFields DEF TaskState, Sections
    <3>2. o \in Outputs
      BY TaskFields
    <3>3. Locked(t, mark_port_status_unchecked(o, "Seeded"), next)
      BY <2>3
    <3>. HIDE DEF next
    <3>. QED BY <1>13, <3>1, <3>2, <3>3, UncheckedReviewed, LockedReviewed
         DEF Approving, PortStatus, apply_seeded_entries
  <2>. QED BY <1>13, <2>2, <2>3, StillReviewed DEF apply_seeded_entries
<1>14. ASSUME NEW t \in Tasks, Deliver(t) PROVE  Reviews'
  <2>1. TaskReviewed(Idle, live, approvals)
    BY NothingApproved DEF Idle, TaskReviewed, Approving
  <2>. QED BY <1>14, <2>1, StillReviewed DEF Deliver, history
<1>15. ASSUME NEW t \in Tasks, CheckCycleLimit(t) PROVE  Reviews'
  <2>. task[t] \in TaskState /\ TaskReviewed(task[t], live, approvals)
    BY DEF TypeOK, Reviews
  <2>1. \A p \in {"submitted", "deliver"} :
            /\ [task[t] EXCEPT !.pc = p] \in TaskState
            /\ [task[t] EXCEPT !.pc = p].pc = p
            /\ [task[t] EXCEPT !.pc = p].write = task[t].write
    BY DEF TaskState, Sections
  <2>2. \A p \in {"submitted", "deliver"} :
            /\ ~Approving([task[t] EXCEPT !.pc = p])
            /\ TaskReviewed([task[t] EXCEPT !.pc = p], live, approvals)
    BY <2>1 DEF Approving, TaskReviewed
  <2>3. increment_port_cycles(task[t].out) \in FlowRunState
    BY TaskFields, RunTypes DEF increment_port_cycles, TypeOK
  <2>4. /\ increment_port_cycles(task[t].out).verdicts = live.verdicts
        /\ increment_port_cycles(task[t].out).ports = live.ports
    BY DEF increment_port_cycles, TypeOK, FlowRunState
  <2>5. Sound(increment_port_cycles(task[t].out), approvals)
    BY <2>4 DEF Sound, JustifiedBy, Reviews
  <2>. QED BY <1>15, <2>1, <2>2, <2>3, <2>4, <2>5, StillReviewed, LockedReviewed DEF CheckCycleLimit
<1>16. ASSUME NEW t \in Tasks, Submitted(t) PROVE  Reviews'
  <2>. task[t] \in TaskState /\ TaskReviewed(task[t], live, approvals)
    BY DEF TypeOK, Reviews
  <2>1. CASE ~HasReviewers(task[t].out)
    <3>. DEFINE next == [task[t] EXCEPT !.pc = "guard"]
    <3>1. next.pc = "guard" /\ next.out = task[t].out /\ next.write = task[t].write
      BY DEF TaskState
    <3>2. Goto(t, next) /\ UNCHANGED live
      BY <1>16, <2>1 DEF Submitted
    <3>. HIDE DEF next
    <3>3. TaskReviewed(next, live, approvals)
      BY <2>1, <3>1 DEF TaskReviewed, JustifiedBy
    <3>. QED BY <1>16, <3>2, <3>3, StillReviewed DEF Submitted
  <2>2. CASE HasReviewers(task[t].out)
    <3>. DEFINE next == [Return(t) EXCEPT !.review = TRUE]
    <3>1. next \in TaskState /\ next.pc = "deliver" /\ next.write = task[t].write
      BY DEF TaskState, Sections, Return
    <3>2. Marked(t, task[t].out, "InReview", next) /\ task[t].write = NoRun
      BY <1>16, <2>2 DEF Submitted, At
    <3>. HIDE DEF next
    <3>. QED BY <1>16, <3>1, <3>2, TaskFields, MarkedReviewed DEF Submitted, PortStatus, Approving
  <2>. QED BY <2>1, <2>2
<1>17. ASSUME NEW t \in Tasks, ApprovalGuard(t) PROVE  Reviews'
  <2>. task[t] \in TaskState /\ TaskReviewed(task[t], live, approvals)
    BY DEF TypeOK, Reviews
  <2>1. Return(t) \in TaskState /\ Return(t).pc = "deliver" /\ Return(t).write = task[t].write
    BY DEF TaskState, Sections, Return
  <2>2. ~Approving(Return(t)) /\ TaskReviewed(Return(t), live, approvals)
    BY <2>1 DEF Approving, TaskReviewed
  <2>. DEFINE next == [task[t] EXCEPT !.pc = "approve"]
  <2>3. next.pc = "approve" /\ next.out = task[t].out /\ next.write = task[t].write
    BY DEF TaskState
  <2>4. Goto(t, Return(t)) \/ Goto(t, next)
    BY <1>17 DEF ApprovalGuard
  <2>. HIDE DEF next
  <2>5. TaskReviewed(next, live, approvals)
    BY <1>17, <2>3 DEF TaskReviewed, Approving, ApprovalGuard, At
  <2>. QED BY <1>17, <2>2, <2>4, <2>5, StillReviewed DEF ApprovalGuard, history
<1>18. ASSUME NEW t \in Tasks, MarkApproved(t) PROVE  Reviews'
  <2>. task[t] \in TaskState /\ TaskReviewed(task[t], live, approvals)
    BY DEF TypeOK, Reviews
  <2>. DEFINE next == [task[t] EXCEPT !.pc = "join", !.after = "reinvoke"]
  <2>1. next \in TaskState /\ next.pc = "join" /\ next.write = task[t].write
    BY DEF TaskState, Sections
  <2>2. Marked(t, task[t].out, "Approved", next) /\ task[t].write = NoRun
    BY <1>18 DEF MarkApproved, At
  <2>3. JustifiedBy(live, task[t].out, approvals)
    BY <1>18 DEF MarkApproved, At, TaskReviewed, Approving
  <2>. HIDE DEF next
  <2>. QED BY <1>18, <2>1, <2>2, <2>3, TaskFields, MarkedReviewed DEF MarkApproved, PortStatus, Approving
<1>19. ASSUME NEW t \in Tasks, FireAndJoin(t) PROVE  Reviews'
  <2>. task[t] \in TaskState /\ TaskReviewed(task[t], live, approvals)
    BY DEF TypeOK, Reviews
  <2>1. PICK Q, W : Goto(t, [task[t] EXCEPT !.queue = Q, !.owed = W, !.pc = "activate"])
    BY <1>19 DEF FireAndJoin
  <2>. DEFINE next == [task[t] EXCEPT !.queue = Q, !.owed = W, !.pc = "activate"]
  <2>2. next.pc = "activate" /\ next.write = task[t].write
    BY DEF TaskState
  <2>3. Goto(t, next)
    BY <2>1
  <2>. HIDE DEF next
  <2>4. TaskReviewed(next, live, approvals)
    BY <2>2 DEF TaskReviewed, Approving
  <2>. QED BY <1>19, <2>3, <2>4, StillReviewed DEF FireAndJoin, history
<1>20. ASSUME NEW t \in Tasks, Activate(t) PROVE  Reviews'
  <2>. task[t] \in TaskState /\ TaskReviewed(task[t], live, approvals)
    BY DEF TypeOK, Reviews
  <2>1. task[t].pc = "activate" /\ UNCHANGED <<disk, approvals>>
    BY <1>20 DEF Activate, At
  <2>2. ASSUME Goto(t, [task[t] EXCEPT !.pc = task[t].after]), UNCHANGED live PROVE  Reviews'
    <3>. DEFINE next == [task[t] EXCEPT !.pc = task[t].after]
    <3>1. /\ next.pc \in {"register", "seed", "reinvoke"} /\ next.write = task[t].write
      BY <2>1 DEF TaskState, Starts, TaskStarts, AfterOK
    <3>2. Goto(t, next)
      BY <2>2
    <3>. HIDE DEF next
    <3>3. TaskReviewed(next, live, approvals)
      BY <3>1 DEF TaskReviewed, Approving
    <3>. QED BY <2>1, <2>2, <3>2, <3>3, StillReviewed
  <2>3. ASSUME NEW n \in task[t].queue,
               schedule_node_with_context(t, n, [task[t] EXCEPT !.queue = @ \ {n}])
        PROVE  Reviews'
    <3>. DEFINE next == [task[t] EXCEPT !.queue = @ \ {n}]
    <3>1. n \in Nodes /\ next \in TaskState /\ next.pc = task[t].pc
      BY DEF TaskState
    <3>2. schedule_node_with_context(t, n, next)
      BY <2>3
    <3>. HIDE DEF next
    <3>. QED BY <2>1, <3>1, <3>2, ScheduleReviewed DEF Approving
  <2>4. ASSUME NEW o \in task[t].owed,
               Locked(t, mark_port_status_unchecked(o, "AwaitingOwner"),
                      [task[t] EXCEPT !.owed = @ \ {o}])
        PROVE  Reviews'
    <3>. DEFINE next == [task[t] EXCEPT !.owed = @ \ {o}]
    <3>1. o \in Outputs /\ next \in TaskState /\ next.pc = task[t].pc
      BY DEF TaskState
    <3>2. Locked(t, mark_port_status_unchecked(o, "AwaitingOwner"), next)
      BY <2>4
    <3>. HIDE DEF next
    <3>. QED BY <2>1, <3>1, <3>2, UncheckedReviewed, LockedReviewed DEF Approving, PortStatus
  <2>. QED BY <1>20, <2>2, <2>3, <2>4 DEF Activate
<1>21. ASSUME NEW t \in Tasks, Reinvoke(t) PROVE  Reviews'
  <2>. task[t] \in TaskState /\ TaskReviewed(task[t], live, approvals)
    BY DEF TypeOK, Reviews
  <2>1. Return(t) \in TaskState /\ Return(t).pc = "deliver" /\ Return(t).write = task[t].write
    BY DEF TaskState, Sections, Return
  <2>2. ~Approving(Return(t)) /\ TaskReviewed(Return(t), live, approvals)
    BY <2>1 DEF Approving, TaskReviewed
  <2>. QED BY <1>21, <2>1, <2>2, StillReviewed, ScheduleReviewed DEF Reinvoke
<1>22. ASSUME NEW t \in Tasks, Requeue(t) PROVE  Reviews'
  <2>. task[t] \in TaskState /\ TaskReviewed(task[t], live, approvals)
    BY DEF TypeOK, Reviews
  <2>. DEFINE next == [task[t] EXCEPT !.pc = "reschedule"]
  <2>1. next \in TaskState /\ next.pc = "reschedule"
    BY DEF TaskState, Sections
  <2>2. Locked(t, mark_port_status_unchecked(task[t].out, "Pending"), next)
    BY <1>22 DEF Requeue
  <2>. HIDE DEF next
  <2>. QED BY <1>22, <2>1, <2>2, TaskFields, UncheckedReviewed, LockedReviewed
       DEF Requeue, Approving, PortStatus
<1>23. ASSUME NEW t \in Tasks, Reschedule(t) PROVE  Reviews'
  <2>. task[t] \in TaskState /\ TaskReviewed(task[t], live, approvals)
    BY DEF TypeOK, Reviews
  <2>1. Return(t) \in TaskState /\ Return(t).pc = "deliver" /\ Return(t).write = task[t].write
    BY DEF TaskState, Sections, Return
  <2>2. ~Approving(Return(t)) /\ TaskReviewed(Return(t), live, approvals)
    BY <2>1 DEF Approving, TaskReviewed
  <2>3. Producer[task[t].out] \in Nodes
    BY <1>23, TaskFields, FlowShape DEF Reschedule, At, Starts, TaskStarts, InFlight, InPlay
  <2>. QED BY <1>23, <2>1, <2>2, <2>3, ScheduleReviewed DEF Reschedule
<1>24. ASSUME NEW t \in Tasks, PersistVerdict(t) PROVE  Reviews'
  <2>. task[t] \in TaskState /\ TaskReviewed(task[t], live, approvals)
    BY DEF TypeOK, Reviews
  <2>. DEFINE next == [task[t] EXCEPT !.pc = task[t].after, !.write = live]
  <2>1. next.pc = task[t].after /\ next.out = task[t].out /\ next.write = live
    BY DEF TaskState
  <2>2. task[t].pc = "verdict" /\ task[t].after \in {"guard", "requeue", "deliver"}
    BY <1>24 DEF PersistVerdict, At, Starts, TaskStarts, AfterOK
  <2>3. Goto(t, next)
    BY <1>24 DEF PersistVerdict
  <2>. HIDE DEF next
  <2>4. TaskReviewed(next, live, approvals)
    BY <2>1, <2>2 DEF TaskReviewed, Approving, Reviews
  <2>. QED BY <1>24, <2>3, <2>4, StillReviewed DEF PersistVerdict, history
<1>25. ASSUME NEW t \in Tasks, Write(t) PROVE  Reviews'
  <2>. task[t] \in TaskState /\ TaskReviewed(task[t], live, approvals)
    BY DEF TypeOK, Reviews
  <2>. DEFINE next == [task[t] EXCEPT !.write = NoRun]
  <2>1. /\ next.pc = task[t].pc /\ next.after = task[t].after /\ next.out = task[t].out
        /\ next.write = NoRun
    BY DEF TaskState
  <2>2. Goto(t, next) /\ UNCHANGED <<live, approvals>> /\ disk' = task[t].write
    BY <1>25 DEF Write, history
  <2>. HIDE DEF next
  <2>3. TaskReviewed(next, live', approvals')
    BY <2>1, <2>2, NothingApproved DEF TaskReviewed, Approving
  <2>4. Sound(live', approvals') /\ Sound(disk', approvals')
    BY <2>2 DEF Reviews, TaskReviewed
  <2>. QED BY <2>2, <2>3, <2>4, GotoReviews
<1>26. ASSUME NEW t \in Tasks, WriteFails(t) PROVE  Reviews'
  <2>. task[t] \in TaskState /\ TaskReviewed(task[t], live, approvals)
    BY DEF TypeOK, Reviews
  <2>. DEFINE next == [task[t] EXCEPT !.write = NoRun]
  <2>1. /\ next.pc = task[t].pc /\ next.after = task[t].after /\ next.out = task[t].out
        /\ next.write = NoRun
    BY DEF TaskState
  <2>. DEFINE back == [Return(t) EXCEPT !.write = NoRun, !.queue = {}, !.owed = {}, !.seeds = {}]
  <2>2. back.pc = "deliver" /\ back.write = NoRun
    BY DEF TaskState, Return
  <2>3. Idle.pc = "idle" /\ Idle.write = NoRun
    BY DEF Idle
  <2>4. Goto(t, next) \/ Goto(t, back) \/ Goto(t, Idle)
    BY <1>26 DEF WriteFails
  <2>. HIDE DEF next, back
  <2>5. /\ TaskReviewed(next, live, approvals)
        /\ TaskReviewed(back, live, approvals)
        /\ TaskReviewed(Idle, live, approvals)
    BY <2>1, <2>2, <2>3, NothingApproved DEF TaskReviewed, Approving
  <2>. QED BY <1>26, <2>4, <2>5, StillReviewed DEF WriteFails
<1>27. ASSUME NEW t \in Supervisors, Receive(t) PROVE  Reviews'
  <2>. DEFINE next == [Idle EXCEPT !.pc = "cycle", !.out = Head(channel[t]), !.ctx = t]
  <2>1. next.pc = "cycle" /\ next.write = NoRun
    BY IdleType DEF TaskState, Idle
  <2>2. CASE UNCHANGED task
    BY <1>27, <2>2 DEF Receive, Reviews
  <2>3. CASE Goto(t, next)
    <3>. HIDE DEF next
    <3>1. TaskReviewed(next, live, approvals)
      BY <2>1, NothingApproved DEF TaskReviewed, Approving
    <3>. QED BY <1>27, <2>3, <3>1, StillReviewed DEF Receive, Tasks
  <2>. QED BY <1>27, <2>2, <2>3 DEF Receive
<1>28. ASSUME UNCHANGED vars PROVE  Reviews'
  BY <1>28 DEF vars, Reviews
<1>. QED
  BY <1>1, <1>2, <1>3, <1>4, <1>5, <1>6, <1>7, <1>8, <1>9, <1>10, <1>11, <1>12, <1>13, <1>14, <1>15, <1>16, <1>17, <1>18, <1>19, <1>20, <1>21, <1>22, <1>23, <1>24, <1>25, <1>26, <1>27, <1>28
  DEF Next, Environment, Step, Section

-----------------------------------------------------------------------------
(* Offers and Joins.                                                        *)

\* One task goes on and what it reconsiders has been offered.
LEMMA GotoOffers ==
    ASSUME TypeOK, Offers, NEW t \in Tasks, NEW next, Goto(t, next),
           offered \subseteq offered', reviewing' \subseteq offered' \X Agents \X Contexts,
           Reconsiders(next) => next.out \in offered'
    PROVE  Offers'
<1>1. ASSUME NEW u \in Tasks, Reconsiders(task'[u]) PROVE task'[u].out \in offered'
  <2>1. CASE u = t
    BY <1>1, <2>1 DEF Goto, TypeOK
  <2>2. CASE u # t
    BY <1>1, <2>2 DEF Goto, TypeOK, Offers
  <2>. QED BY <2>1, <2>2
<1>. QED BY <1>1 DEF Offers

\* What one step may do to the state of the run and to the task that takes it:
\* a node becomes ready only by a mark whose task goes on to the join, nothing
\* is un-invoked, a node that was to be looked at still is or was activated,
\* and only an output that was in review goes back to Pending.
LEMMA GotoJoins ==
    ASSUME TypeOK, Joins, NEW t \in Tasks, NEW next, Goto(t, next),
           faults' = "none" => faults = "none",
           live'.status # "absent" => live.status # "absent",
           offered \subseteq offered',
           live.invoked \subseteq live'.invoked,
           \A o \in Outputs : live'.ports[o] = "Pending" =>
               live.ports[o] = "Pending" \/ o \in offered',
           \A n \in Nodes : Ready(live', n) =>
               \/ Ready(live, n)
               \/ next.pc = "join" /\ next.out \in Required[n],
           \A n \in Nodes \ HumanOwned : (Ready(live', n) /\ Wakes(task[t], n)) =>
               n \in live'.invoked \/ Wakes(next, n),
           \A n \in HumanOwned : \A o \in Owns(n) :
               (Ready(live', n) /\ Owes(task[t], n, o)) =>
                   live'.ports[o] # "Pending" \/ o \in offered' \/ Owes(next, n, o)
    PROVE  Joins'
<1>1. task'[t] = next /\ \A u \in Tasks \ {t} : task'[u] = task[u]
  BY DEF Goto, TypeOK
<1>. SUFFICES ASSUME faults' = "none", live'.status # "absent",
                     NEW n \in Nodes, Ready(live', n)
              PROVE  /\ n \in HumanOwned =>
                          \A o \in Owns(n) : \/ live'.ports[o] # "Pending"
                                             \/ o \in offered'
                                             \/ \E u \in Tasks : Owes(task'[u], n, o)
                     /\ n \notin HumanOwned =>
                          n \in live'.invoked \/ \E u \in Tasks : Wakes(task'[u], n)
  BY DEF Joins
<1>2. ASSUME n \in HumanOwned, NEW o \in Owns(n), live'.ports[o] = "Pending", o \notin offered'
      PROVE  \E u \in Tasks : Owes(task'[u], n, o)
  <2>1. o \in Outputs
    BY DEF Owns
  <2>2. CASE next.pc = "join" /\ next.out \in Required[n]
    BY <1>1, <2>2 DEF Owes
  <2>3. CASE Ready(live, n)
    <3>1. live.ports[o] = "Pending" /\ o \notin offered
      BY <1>2, <2>1
    <3>2. PICK u \in Tasks : Owes(task[u], n, o)
      BY <1>2, <2>3, <3>1 DEF Joins
    <3>. QED BY <1>1, <1>2, <3>2
  <2>. QED BY <2>2, <2>3
<1>3. ASSUME n \notin HumanOwned, n \notin live'.invoked
      PROVE  \E u \in Tasks : Wakes(task'[u], n)
  <2>1. CASE next.pc = "join" /\ next.out \in Required[n]
    BY <1>1, <2>1 DEF Wakes
  <2>2. CASE Ready(live, n)
    <3>1. PICK u \in Tasks : Wakes(task[u], n)
      BY <1>3, <2>2 DEF Joins
    <3>. QED BY <1>1, <1>3, <3>1
  <2>. QED BY <2>1, <2>2
<1>. QED BY <1>2, <1>3

\* A step of a task that is at no join, and leaves the ports alone.
LEMMA PlainJoins ==
    ASSUME TypeOK, Joins, NEW t \in Tasks, NEW next, Goto(t, next),
           faults' = "none" => faults = "none",
           live'.status = live.status, live'.ports = live.ports,
           live.invoked \subseteq live'.invoked, offered \subseteq offered',
           task[t].pc \notin {"join", "activate"}
    PROVE  Joins'
<1>1. \A n \in Nodes : Ready(live', n) => Ready(live, n)
  BY DEF Ready
<1>2. \A n, o : ~Wakes(task[t], n) /\ ~Owes(task[t], n, o)
  BY DEF Wakes, Owes
<1>. QED BY <1>1, <1>2, GotoJoins

\* The unchecked mark of a status other than Approved.
LEMMA UncheckedPorts ==
    ASSUME TypeOK, NEW o \in Outputs, NEW status \in PortStatus \ {"Approved"}
    PROVE  LET run == mark_port_status_unchecked(o, status)
           IN  /\ run.status = live.status /\ run.invoked = live.invoked
               /\ run.ports[o] = status
               /\ \A x \in Outputs \ {o} : run.ports[x] = live.ports[x]
               /\ \A n \in Nodes : Ready(run, n) => Ready(live, n)
<1>. DEFINE run == mark_port_status_unchecked(o, status)
<1>1. /\ run.status = live.status /\ run.invoked = live.invoked
      /\ run.ports[o] = status
      /\ \A x \in Outputs \ {o} : run.ports[x] = live.ports[x]
  BY DEF mark_port_status_unchecked, TypeOK, FlowRunState
<1>. HIDE DEF run
<1>2. \A n \in Nodes : Ready(run, n) => Ready(live, n)
  BY <1>1, FlowShape DEF Ready
<1>. QED BY <1>1, <1>2 DEF run

\* Scheduling a node outside a join.
LEMMA ScheduleJoins ==
    ASSUME TypeOK, Joins, NEW t \in Tasks, NEW n \in Nodes, NEW next \in TaskState,
           schedule_node_with_context(t, n, next), UNCHANGED <<faults, offered>>,
           task[t].pc \notin {"join", "activate"}
    PROVE  Joins'
<1>1. \E k : Goto(t, k)
  BY DEF schedule_node_with_context, Locked
<1>2. live' = record_invocation(n)
  BY DEF schedule_node_with_context, Locked
<1>3. live'.status = live.status /\ live'.ports = live.ports /\ live.invoked \subseteq live'.invoked
  BY <1>2 DEF record_invocation, TypeOK, FlowRunState
<1>. QED BY <1>1, <1>3, PlainJoins

\* Every step keeps Offers and Joins.
LEMMA JoinsStep ==
    ASSUME TypeOK, Starts, Early, Offers, Joins, [Next]_vars
    PROVE  Offers' /\ Joins'
<1>1. ASSUME NEW t \in Requests, HandleStartRun(t) PROVE  Offers' /\ Joins'
  <2>. DEFINE next == [Idle EXCEPT !.pc = "insert", !.seeds = {}, !.write = Fresh]
  <2>2. next.pc = "insert" /\ next.review = FALSE
    BY IdleType DEF TaskState, Idle
  <2>3. Goto(t, next) /\ faults = "start" /\ UNCHANGED <<live, offered, reviewing>>
    BY <1>1 DEF HandleStartRun, start_run
  <2>. HIDE DEF next
  <2>4. Offers'
    BY <2>2, <2>3, GotoOffers DEF Offers, Reconsiders, Tasks
  <2>5. Joins'
    <3>1. live'.status = "absent"
      BY <2>3 DEF Early, NoRun
    <3>. QED BY <3>1 DEF Joins
  <2>. QED BY <2>4, <2>5
<1>2. ASSUME NEW t \in Requests, FlowStart(t) PROVE  Offers' /\ Joins'
  <2>. DEFINE next == [Idle EXCEPT !.pc = "insert", !.seeds = {}, !.write = Fresh]
  <2>2. next.pc = "insert" /\ next.review = FALSE
    BY IdleType DEF TaskState, Idle
  <2>3. Goto(t, next) /\ faults = "start" /\ UNCHANGED <<live, offered, reviewing>>
    BY <1>2 DEF FlowStart, start_run
  <2>. HIDE DEF next
  <2>4. Offers'
    BY <2>2, <2>3, GotoOffers DEF Offers, Reconsiders, Tasks
  <2>5. Joins'
    <3>1. live'.status = "absent"
      BY <2>3 DEF Early, NoRun
    <3>. QED BY <3>1 DEF Joins
  <2>. QED BY <2>4, <2>5
<1>3. ASSUME NEW t \in Requests, InvokeFlow(t) PROVE  Offers' /\ Joins'
  <2>1. PICK seeds \in SUBSET Seedable : start_run(t, seeds)
    BY <1>3 DEF InvokeFlow
  <2>. DEFINE next == [Idle EXCEPT !.pc = "insert", !.seeds = seeds, !.write = Fresh]
  <2>2. next.pc = "insert" /\ next.review = FALSE
    BY IdleType DEF TaskState, Idle
  <2>3. Goto(t, next) /\ faults = "start" /\ UNCHANGED <<live, offered, reviewing>>
    BY <2>1 DEF InvokeFlow, start_run
  <2>. HIDE DEF next
  <2>4. Offers'
    BY <2>2, <2>3, GotoOffers DEF Offers, Reconsiders, Tasks
  <2>5. Joins'
    <3>1. live'.status = "absent"
      BY <2>3 DEF Early, NoRun
    <3>. QED BY <3>1 DEF Joins
  <2>. QED BY <2>4, <2>5
<1>4. ASSUME NEW o \in Outputs, NEW s \in Supervisors, SubmitDocument(o, s) PROVE  Offers' /\ Joins'
  BY <1>4 DEF SubmitDocument, Offers, Joins
<1>5. ASSUME NEW t \in Requests, NEW o \in Outputs, NEW r \in Agents, NEW v \in Verdict,
             ReviewerVerdict(t, o, r, v)
      PROVE  Offers' /\ Joins'
  <2>1. PICK c \in Contexts :
            /\ <<o, r, c>> \in reviewing
            /\ reviewing' = reviewing \ {<<o, r, c>>}
            /\ Goto(t, [Idle EXCEPT !.pc = "verdict", !.out = o, !.ctx = c,
                                    !.after = Outcome(o, Tally(o, r, v))])
    BY <1>5 DEF ReviewerVerdict
  <2>2. /\ live'.status = live.status /\ live'.ports = live.ports
        /\ live'.invoked = live.invoked
    BY <1>5 DEF ReviewerVerdict, TypeOK, FlowRunState
  <2>3. UNCHANGED <<offered, faults>> /\ task[t].pc = "idle" /\ t \in Tasks
    BY <1>5 DEF ReviewerVerdict, history, At, Tasks
  <2>. DEFINE next == [Idle EXCEPT !.pc = "verdict", !.out = o, !.ctx = c,
                                  !.after = Outcome(o, Tally(o, r, v))]
  <2>4. next.out = o /\ Goto(t, next)
    BY <2>1, IdleType DEF TaskState
  <2>. HIDE DEF next
  <2>5. Offers'
    <3>1. o \in offered
      BY <2>1 DEF Offers
    <3>2. reviewing' \subseteq offered' \X Agents \X Contexts
      BY <2>1, <2>3 DEF Offers
    <3>. QED BY <2>3, <2>4, <3>1, <3>2, GotoOffers
  <2>6. Joins'
    BY <2>2, <2>3, <2>4, PlainJoins
  <2>. QED BY <2>5, <2>6
<1>6. ASSUME NEW t \in Requests, NEW o \in Outputs, HumanApproves(t, o) PROVE  Offers' /\ Joins'
  <2>. DEFINE next == [Idle EXCEPT !.pc = "guard", !.out = o, !.ctx = Recovered(Rebuilt)]
  <2>1. next.out = o
    BY IdleType DEF TaskState
  <2>2. /\ Goto(t, next) /\ o \in offered /\ UNCHANGED <<live, offered, reviewing, faults>>
        /\ task[t].pc = "idle" /\ t \in Tasks
    BY <1>6 DEF HumanApproves, Decide, At, Tasks
  <2>. HIDE DEF next
  <2>3. Offers'
    BY <2>1, <2>2, GotoOffers DEF Offers
  <2>4. Joins'
    BY <2>2, PlainJoins
  <2>. QED BY <2>3, <2>4
<1>7. ASSUME NEW t \in Requests, NEW o \in Outputs, HumanRequestsChanges(t, o) PROVE  Offers' /\ Joins'
  <2>. DEFINE next == [Idle EXCEPT !.pc = "requeue", !.out = o, !.ctx = Recovered(Deaf)]
  <2>1. next.out = o
    BY IdleType DEF TaskState
  <2>2. /\ Goto(t, next) /\ o \in offered /\ UNCHANGED <<live, offered, reviewing, faults>>
        /\ task[t].pc = "idle" /\ t \in Tasks
    BY <1>7 DEF HumanRequestsChanges, Decide, At, Tasks
  <2>. HIDE DEF next
  <2>3. Offers'
    BY <2>1, <2>2, GotoOffers DEF Offers
  <2>4. Joins'
    BY <2>2, PlainJoins
  <2>. QED BY <2>3, <2>4
<1>8. ASSUME NEW t \in Requests, NEW o \in Outputs, FlowApprove(t, o) PROVE  Offers' /\ Joins'
  <2>. DEFINE next == [Idle EXCEPT !.pc = "guard", !.out = o, !.ctx = Supervisor]
  <2>1. next.out = o
    BY IdleType DEF TaskState
  <2>2. /\ Goto(t, next) /\ o \in offered /\ UNCHANGED <<live, offered, reviewing, faults>>
        /\ task[t].pc = "idle" /\ t \in Tasks
    BY <1>8 DEF FlowApprove, Decide, At, Tasks
  <2>. HIDE DEF next
  <2>3. Offers'
    BY <2>1, <2>2, GotoOffers DEF Offers
  <2>4. Joins'
    BY <2>2, PlainJoins
  <2>. QED BY <2>3, <2>4
<1>9. ASSUME NEW t \in Requests, NEW o \in Outputs, FlowRequestChanges(t, o) PROVE  Offers' /\ Joins'
  <2>. DEFINE next == [Idle EXCEPT !.pc = "requeue", !.out = o, !.ctx = Supervisor]
  <2>1. next.out = o
    BY IdleType DEF TaskState
  <2>2. /\ Goto(t, next) /\ o \in offered /\ UNCHANGED <<live, offered, reviewing, faults>>
        /\ task[t].pc = "idle" /\ t \in Tasks
    BY <1>9 DEF FlowRequestChanges, Decide, At, Tasks
  <2>. HIDE DEF next
  <2>3. Offers'
    BY <2>1, <2>2, GotoOffers DEF Offers
  <2>4. Joins'
    BY <2>2, PlainJoins
  <2>. QED BY <2>3, <2>4
<1>10. ASSUME Crash PROVE  Offers' /\ Joins'
  <2>1. Idle.pc = "idle" /\ Idle.review = FALSE
    BY DEF Idle
  <2>. QED BY <1>10, <2>1 DEF Crash, Offers, Reconsiders, Joins
<1>11. ASSUME NEW t \in Tasks, Insert(t) PROVE  Offers' /\ Joins'
  <2>. task[t] \in TaskState
    BY DEF TypeOK
  <2>. DEFINE next == [task[t] EXCEPT !.pc = "join", !.after = "register"]
  <2>1. next.pc = "join" /\ next.out = task[t].out /\ next.review = task[t].review
    BY DEF TaskState
  <2>2. /\ Goto(t, next) /\ UNCHANGED <<offered, reviewing, faults>>
        /\ task[t].pc = "insert" /\ live' = Fresh
    BY <1>11 DEF Insert, At, agents
  <2>3. task[t].out = Brief /\ task[t].review = FALSE
    BY <2>2, TaskFields DEF Early, Starts, TaskStarts, AfterOK
  <2>. HIDE DEF next
  <2>4. Offers'
    BY <2>1, <2>2, <2>3, GotoOffers DEF Offers, Reconsiders
  <2>5. task'[t] = next
    BY <2>2 DEF Goto, TypeOK
  <2>6. ASSUME NEW n \in Nodes, Ready(live', n) PROVE  Brief \in Required[n]
    <3>1. \A o \in Outputs : Fresh.ports[o] = "Approved" => o = Brief
      BY FlowShape DEF Fresh, NoRun
    <3>2. PICK o \in Required[n] : TRUE
      BY FlowShape
    <3>. QED BY <2>2, <2>6, <3>1, <3>2, FlowShape DEF Ready
  <2>7. Joins'
    BY <2>1, <2>3, <2>5, <2>6 DEF Joins, Wakes, Owes
  <2>. QED BY <2>4, <2>7
<1>12. ASSUME NEW t \in Tasks, Register(t) PROVE  Offers' /\ Joins'
  <2>. task[t] \in TaskState
    BY DEF TypeOK
  <2>. DEFINE next == [task[t] EXCEPT !.pc = "seed"]
  <2>1. next.pc = "seed" /\ next.review = task[t].review
    BY DEF TaskState
  <2>2. /\ Goto(t, next) /\ UNCHANGED <<offered, reviewing, faults>> /\ task[t].pc = "register"
    BY <1>12 DEF Register, At, agents, history
  <2>3. /\ live'.status = live.status /\ live'.ports = live.ports
        /\ live'.invoked = live.invoked
    BY <1>12 DEF Register, TypeOK, FlowRunState
  <2>4. task[t].review = FALSE
    BY <2>2, TaskFields DEF Starts, TaskStarts, AfterOK
  <2>. HIDE DEF next
  <2>5. Offers'
    BY <2>1, <2>2, <2>4, GotoOffers DEF Offers, Reconsiders
  <2>6. Joins'
    BY <2>2, <2>3, PlainJoins
  <2>. QED BY <2>5, <2>6
<1>13. ASSUME NEW t \in Tasks, apply_seeded_entries(t) PROVE  Offers' /\ Joins'
  <2>. task[t] \in TaskState
    BY DEF TypeOK
  <2>1. task[t].review = FALSE
    BY <1>13, TaskFields DEF Starts, TaskStarts, AfterOK, At, apply_seeded_entries
  <2>2. task[t].pc = "seed" /\ UNCHANGED <<offered, reviewing, faults>>
    BY <1>13 DEF apply_seeded_entries, At, agents
  <2>3. Return(t) \in TaskState /\ Return(t).pc = "deliver" /\ Return(t).out = task[t].out
        /\ Return(t).review = task[t].review
    BY DEF TaskState, Sections, Return
  <2>4. CASE Goto(t, Return(t)) /\ UNCHANGED live
    <3>1. Offers'
      BY <2>1, <2>2, <2>3, <2>4, GotoOffers DEF Offers, Reconsiders
    <3>2. Joins'
      BY <2>2, <2>4, PlainJoins
    <3>. QED BY <3>1, <3>2
  <2>5. ASSUME NEW o \in task[t].seeds,
               Locked(t, mark_port_status_unchecked(o, "Seeded"),
                      [task[t] EXCEPT !.seeds = @ \ {o}, !.out = o,
                                      !.pc = "join", !.after = "seed"])
        PROVE  Offers' /\ Joins'
    <3>. DEFINE run == mark_port_status_unchecked(o, "Seeded")
                next == [[task[t] EXCEPT !.seeds = @ \ {o}, !.out = o,
                                        !.pc = "join", !.after = "seed"] EXCEPT !.write = run]
    <3>1. next.pc = "join" /\ next.review = task[t].review
      BY DEF TaskState
    <3>2. o \in Outputs
      BY TaskFields
    <3>3. Goto(t, next) /\ live' = run
      BY <2>5 DEF Locked
    <3>. HIDE DEF next
    <3>4. Offers'
      BY <2>1, <2>2, <3>1, <3>3, GotoOffers DEF Offers, Reconsiders
    <3>5. /\ run.status = live.status /\ run.invoked = live.invoked
          /\ \A x \in Outputs : run.ports[x] = "Pending" => live.ports[x] = "Pending"
          /\ \A n \in Nodes : Ready(run, n) => Ready(live, n)
      BY <3>2, UncheckedPorts DEF PortStatus
    <3>. HIDE DEF run
    <3>6. \A n, x : ~Wakes(task[t], n) /\ ~Owes(task[t], n, x)
      BY <2>2 DEF Wakes, Owes
    <3>7. Joins'
      BY <2>2, <3>3, <3>5, <3>6, GotoJoins
    <3>. QED BY <3>4, <3>7
  <2>. QED BY <1>13, <2>4, <2>5 DEF apply_seeded_entries
<1>14. ASSUME NEW t \in Tasks, Deliver(t) PROVE  Offers' /\ Joins'
  <2>. task[t] \in TaskState
    BY DEF TypeOK
  <2>1. Idle.pc = "idle" /\ Idle.review = FALSE
    BY DEF Idle
  <2>2. reviewing' \subseteq offered \X Agents \X Contexts
    BY <1>14, TaskFields, FlowShape DEF Deliver, Offers, Reconsiders
  <2>3. Goto(t, Idle) /\ UNCHANGED <<live, offered, faults>> /\ task[t].pc = "deliver"
    BY <1>14 DEF Deliver, history, At
  <2>4. Offers'
    BY <2>1, <2>2, <2>3, GotoOffers DEF Reconsiders
  <2>5. Joins'
    BY <2>3, PlainJoins
  <2>. QED BY <2>4, <2>5
<1>15. ASSUME NEW t \in Tasks, CheckCycleLimit(t) PROVE  Offers' /\ Joins'
  <2>. task[t] \in TaskState
    BY DEF TypeOK
  <2>1. task[t].review = FALSE
    BY <1>15, TaskFields DEF Starts, TaskStarts, AfterOK, At, CheckCycleLimit
  <2>2. task[t].pc = "cycle" /\ UNCHANGED <<offered, reviewing, faults>>
    BY <1>15 DEF CheckCycleLimit, At, agents
  <2>3. /\ live'.status = live.status /\ live'.ports = live.ports
        /\ live'.invoked = live.invoked
    <3>1. live' \in {live, increment_port_cycles(task[t].out)}
      BY <1>15 DEF CheckCycleLimit, Locked
    <3>. QED BY <3>1 DEF increment_port_cycles, TypeOK, FlowRunState
  <2>4. PICK k : Goto(t, k) /\ k.pc \in {"submitted", "deliver"} /\ k.review = task[t].review
    <3>. DEFINE run == increment_port_cycles(task[t].out)
                past == IF run.cycles[task[t].out] > MaxCycles[task[t].out]
                        THEN "deliver" ELSE "submitted"
                counted == [[task[t] EXCEPT !.pc = past] EXCEPT !.write = run]
                plain == [task[t] EXCEPT !.pc = "submitted"]
    <3>1. plain.pc = "submitted" /\ plain.review = task[t].review
      BY DEF TaskState
    <3>2. counted.pc = past /\ counted.review = task[t].review
      BY DEF TaskState
    <3>3. past \in {"submitted", "deliver"}
      OBVIOUS
    <3>4. Goto(t, plain) \/ Goto(t, counted)
      BY <1>15 DEF CheckCycleLimit, Locked
    <3>. HIDE DEF plain, counted, past
    <3>. QED BY <3>1, <3>2, <3>3, <3>4
  <2>5. Offers'
    BY <2>1, <2>2, <2>4, GotoOffers DEF Offers, Reconsiders
  <2>6. Joins'
    BY <2>2, <2>3, <2>4, PlainJoins
  <2>. QED BY <2>5, <2>6
<1>16. ASSUME NEW t \in Tasks, Submitted(t) PROVE  Offers' /\ Joins'
  <2>. task[t] \in TaskState
    BY DEF TypeOK
  <2>1. task[t].review = FALSE
    BY <1>16, TaskFields DEF Starts, TaskStarts, AfterOK, At, Submitted
  <2>2. task[t].pc = "submitted" /\ UNCHANGED <<reviewing, faults>> /\ offered \subseteq offered'
    BY <1>16 DEF Submitted, At, agents
  <2>3. CASE ~HasReviewers(task[t].out)
    <3>. DEFINE next == [task[t] EXCEPT !.pc = "guard"]
    <3>1. next.pc = "guard" /\ next.review = task[t].review
      BY DEF TaskState
    <3>2. Goto(t, next) /\ UNCHANGED <<live, offered>>
      BY <1>16, <2>3 DEF Submitted
    <3>. HIDE DEF next
    <3>3. Offers'
      BY <2>1, <2>2, <3>1, <3>2, GotoOffers DEF Offers, Reconsiders
    <3>4. Joins'
      BY <2>2, <3>2, PlainJoins
    <3>. QED BY <3>3, <3>4
  <2>4. CASE HasReviewers(task[t].out)
    <3>. DEFINE next == [Return(t) EXCEPT !.review = TRUE]
    <3>1. task[t].out \in offered' /\ Marked(t, task[t].out, "InReview", next)
      BY <1>16, <2>4 DEF Submitted
    <3>2. /\ next.out = task[t].out /\ next.pc = "deliver"
          /\ \A run : [next EXCEPT !.write = run].out = task[t].out
      BY DEF TaskState, Return
    <3>3. PICK k : Goto(t, k) /\ k.out = task[t].out
      <4>. HIDE DEF next
      <4>. QED BY <3>1, <3>2 DEF Marked, Locked
    <3>4. live' = mark_port_status(task[t].out, "InReview")
      BY <3>1 DEF Marked, Locked
    <3>5. /\ live'.status = live.status /\ live'.invoked = live.invoked
          /\ \A x \in Outputs : live'.ports[x] = "Approved" => live.ports[x] = "Approved"
          /\ \A x \in Outputs : live'.ports[x] = "Pending" => live.ports[x] = "Pending"
      BY <3>4, TaskFields DEF mark_port_status, TypeOK, FlowRunState
    <3>6. \A n \in Nodes : Ready(live', n) => Ready(live, n)
      BY <3>5, FlowShape DEF Ready
    <3>7. Offers'
      BY <2>2, <3>1, <3>3, GotoOffers DEF Offers
    <3>8. \A n, x : ~Wakes(task[t], n) /\ ~Owes(task[t], n, x)
      BY <2>2 DEF Wakes, Owes
    <3>9. Joins'
      BY <2>2, <3>3, <3>5, <3>6, <3>8, GotoJoins
    <3>. QED BY <3>7, <3>9
  <2>. QED BY <2>3, <2>4
<1>17. ASSUME NEW t \in Tasks, ApprovalGuard(t) PROVE  Offers' /\ Joins'
  <2>. task[t] \in TaskState
    BY DEF TypeOK
  <2>1. task[t].review = FALSE
    BY <1>17, TaskFields DEF Starts, TaskStarts, AfterOK, At, ApprovalGuard
  <2>2. task[t].pc = "guard" /\ UNCHANGED <<live, offered, reviewing, faults>>
    BY <1>17 DEF ApprovalGuard, At, agents, history
  <2>3. PICK k : Goto(t, k) /\ k.pc \in {"deliver", "approve"} /\ k.review = task[t].review
    BY <1>17 DEF ApprovalGuard, Return, TaskState
  <2>4. Offers'
    BY <2>1, <2>2, <2>3, GotoOffers DEF Offers, Reconsiders
  <2>5. Joins'
    BY <2>2, <2>3, PlainJoins
  <2>. QED BY <2>4, <2>5
<1>18. ASSUME NEW t \in Tasks, MarkApproved(t) PROVE  Offers' /\ Joins'
  <2>. task[t] \in TaskState
    BY DEF TypeOK
  <2>1. task[t].review = FALSE
    BY <1>18, TaskFields DEF Starts, TaskStarts, AfterOK, At, MarkApproved
  <2>2. task[t].pc = "approve" /\ UNCHANGED <<offered, reviewing, faults>>
    BY <1>18 DEF MarkApproved, At, agents
  <2>. DEFINE next == [task[t] EXCEPT !.pc = "join", !.after = "reinvoke"]
  <2>3. /\ next.pc = "join" /\ next.out = task[t].out /\ next.review = task[t].review
        /\ \A run : /\ [next EXCEPT !.write = run].pc = "join"
                    /\ [next EXCEPT !.write = run].out = task[t].out
                    /\ [next EXCEPT !.write = run].review = task[t].review
    BY DEF TaskState
  <2>4. Marked(t, task[t].out, "Approved", next)
    BY <1>18 DEF MarkApproved
  <2>. HIDE DEF next
  <2>5. PICK k : Goto(t, k) /\ k.pc = "join" /\ k.out = task[t].out /\ k.review = task[t].review
    BY <2>3, <2>4 DEF Marked, Locked
  <2>6. live' = mark_port_status(task[t].out, "Approved")
    BY <2>4 DEF Marked, Locked
  <2>7. /\ live'.status = live.status /\ live'.invoked = live.invoked
        /\ \A x \in Outputs : live'.ports[x] = "Approved" => live.ports[x] = "Approved" \/ x = task[t].out
        /\ \A x \in Outputs : live'.ports[x] = "Pending" => live.ports[x] = "Pending"
    BY <2>6, TaskFields DEF mark_port_status, TypeOK, FlowRunState
  <2>8. \A n \in Nodes : Ready(live', n) => Ready(live, n) \/ k.out \in Required[n]
    BY <2>5, <2>7, FlowShape DEF Ready
  <2>9. Offers'
    BY <2>1, <2>2, <2>5, GotoOffers DEF Offers, Reconsiders
  <2>10. \A n, x : ~Wakes(task[t], n) /\ ~Owes(task[t], n, x)
    BY <2>2 DEF Wakes, Owes
  <2>11. Joins'
    BY <2>2, <2>5, <2>7, <2>8, <2>10, GotoJoins
  <2>. QED BY <2>9, <2>11
<1>19. ASSUME NEW t \in Tasks, FireAndJoin(t) PROVE  Offers' /\ Joins'
  <2>. task[t] \in TaskState
    BY DEF TypeOK
  <2>1. task[t].review = FALSE
    BY <1>19, TaskFields DEF Starts, TaskStarts, AfterOK, At, FireAndJoin
  <2>2. task[t].pc = "join" /\ UNCHANGED <<live, offered, reviewing, faults>>
    BY <1>19 DEF FireAndJoin, At, agents, history
  <2>. DEFINE woken == {n \in nodes_awaiting(task[t].out) : Ready(live, n)}
                         \cup (IF task[t].after = "reinvoke"
                               THEN nodes_retriggered_by(task[t].out) ELSE {})
                next == [task[t] EXCEPT
                            !.queue = woken \ HumanOwned,
                            !.owed = UNION {Owns(n) : n \in woken \cap HumanOwned},
                            !.pc = "activate"]
  <2>3. Goto(t, next)
    BY <1>19 DEF FireAndJoin
  <2>4. \A n \in Nodes : (Ready(live, n) /\ task[t].out \in Required[n]) => n \in woken
    BY DEF nodes_awaiting
  <2>. HIDE DEF woken
  <2>5. /\ next.pc = "activate" /\ next.review = task[t].review
        /\ next.queue = woken \ HumanOwned
        /\ next.owed = UNION {Owns(n) : n \in woken \cap HumanOwned}
    BY DEF TaskState
  <2>. HIDE DEF next
  <2>6. Offers'
    BY <2>1, <2>2, <2>3, <2>5, GotoOffers DEF Offers, Reconsiders
  <2>7. \A n \in Nodes \ HumanOwned : (Ready(live, n) /\ Wakes(task[t], n)) => Wakes(next, n)
    BY <2>2, <2>4, <2>5 DEF Wakes
  <2>8. \A n \in HumanOwned : \A o \in Owns(n) :
            (Ready(live, n) /\ Owes(task[t], n, o)) => Owes(next, n, o)
    BY <2>2, <2>4, <2>5, FlowShape DEF Owes
  <2>9. Joins'
    BY <2>2, <2>3, <2>7, <2>8, GotoJoins
  <2>. QED BY <2>6, <2>9
<1>20. ASSUME NEW t \in Tasks, Activate(t) PROVE  Offers' /\ Joins'
  <2>. task[t] \in TaskState
    BY DEF TypeOK
  <2>1. task[t].review = FALSE
    BY <1>20, TaskFields DEF Starts, TaskStarts, AfterOK, At, Activate
  <2>2. task[t].pc = "activate" /\ UNCHANGED <<offered, reviewing, faults>>
    BY <1>20 DEF Activate, At, agents
  <2>3. ASSUME task[t].queue = {}, task[t].owed = {},
               Goto(t, [task[t] EXCEPT !.pc = task[t].after]), UNCHANGED live
        PROVE  Offers' /\ Joins'
    <3>. DEFINE next == [task[t] EXCEPT !.pc = task[t].after]
    <3>1. next.pc \in {"register", "seed", "reinvoke"} /\ next.review = task[t].review
      BY <2>2 DEF TaskState, Starts, TaskStarts, AfterOK
    <3>2. Goto(t, next)
      BY <2>3
    <3>. HIDE DEF next
    <3>3. Offers'
      BY <2>1, <2>2, <3>1, <3>2, GotoOffers DEF Offers, Reconsiders
    <3>4. \A n, x : ~Wakes(task[t], n) /\ ~Owes(task[t], n, x)
      BY <2>2, <2>3 DEF Wakes, Owes
    <3>5. Joins'
      BY <2>2, <2>3, <3>2, <3>4, GotoJoins
    <3>. QED BY <3>3, <3>5
  <2>4. ASSUME NEW n \in task[t].queue,
               schedule_node_with_context(t, n, [task[t] EXCEPT !.queue = @ \ {n}])
        PROVE  Offers' /\ Joins'
    <3>. DEFINE next == [[[task[t] EXCEPT !.queue = @ \ {n}] EXCEPT !.spawn = @ \cup {n}]
                           EXCEPT !.write = record_invocation(n)]
    <3>1. /\ next.pc = "activate" /\ next.review = task[t].review
          /\ next.queue = task[t].queue \ {n} /\ next.owed = task[t].owed
      BY <2>2 DEF TaskState
    <3>2. Goto(t, next) /\ live' = record_invocation(n)
      BY <2>4 DEF schedule_node_with_context, Locked
    <3>3. /\ live'.status = live.status /\ live'.ports = live.ports
          /\ live'.invoked = live.invoked \cup {n}
      BY <3>2 DEF record_invocation, TypeOK, FlowRunState
    <3>. HIDE DEF next
    <3>4. Offers'
      BY <2>1, <2>2, <3>1, <3>2, GotoOffers DEF Offers, Reconsiders
    <3>5. \A m \in Nodes : Ready(live', m) => Ready(live, m)
      BY <3>3 DEF Ready
    <3>6. \A m, x : /\ Wakes(task[t], m) => m \in live'.invoked \/ Wakes(next, m)
                    /\ Owes(task[t], m, x) => Owes(next, m, x)
      BY <2>2, <3>1, <3>3 DEF Wakes, Owes
    <3>7. Joins'
      BY <2>2, <3>2, <3>3, <3>5, <3>6, GotoJoins
    <3>. QED BY <3>4, <3>7
  <2>5. ASSUME NEW o \in task[t].owed,
               Locked(t, mark_port_status_unchecked(o, "AwaitingOwner"),
                      [task[t] EXCEPT !.owed = @ \ {o}])
        PROVE  Offers' /\ Joins'
    <3>. DEFINE run == mark_port_status_unchecked(o, "AwaitingOwner")
                next == [[task[t] EXCEPT !.owed = @ \ {o}] EXCEPT !.write = run]
    <3>1. /\ next.pc = "activate" /\ next.review = task[t].review
          /\ next.queue = task[t].queue /\ next.owed = task[t].owed \ {o}
      BY <2>2 DEF TaskState
    <3>2. o \in Outputs
      BY TaskFields
    <3>3. Goto(t, next) /\ live' = run
      BY <2>5 DEF Locked
    <3>. HIDE DEF next
    <3>4. Offers'
      BY <2>1, <2>2, <3>1, <3>3, GotoOffers DEF Offers, Reconsiders
    <3>5. /\ run.status = live.status /\ run.invoked = live.invoked
          /\ run.ports[o] # "Pending"
          /\ \A x \in Outputs : run.ports[x] = "Pending" => live.ports[x] = "Pending"
          /\ \A n \in Nodes : Ready(run, n) => Ready(live, n)
      BY <3>2, UncheckedPorts DEF PortStatus
    <3>. HIDE DEF run
    <3>6. \A m, x : /\ Wakes(task[t], m) => Wakes(next, m)
                    /\ Owes(task[t], m, x) => x = o \/ Owes(next, m, x)
      BY <2>2, <3>1 DEF Wakes, Owes
    <3>7. Joins'
      BY <2>2, <3>3, <3>5, <3>6, GotoJoins
    <3>. QED BY <3>4, <3>7
  <2>. QED BY <1>20, <2>3, <2>4, <2>5 DEF Activate
<1>21. ASSUME NEW t \in Tasks, Reinvoke(t) PROVE  Offers' /\ Joins'
  <2>. task[t] \in TaskState
    BY DEF TypeOK
  <2>1. task[t].review = FALSE
    BY <1>21, TaskFields DEF Starts, TaskStarts, AfterOK, At, Reinvoke
  <2>2. task[t].pc = "reinvoke" /\ UNCHANGED <<offered, reviewing, faults>>
    BY <1>21 DEF Reinvoke, At, agents
  <2>3. Return(t) \in TaskState /\ Return(t).pc = "deliver" /\ Return(t).out = task[t].out
        /\ Return(t).review = task[t].review
    BY DEF TaskState, Sections, Return
  <2>4. PICK k : Goto(t, k) /\ k.pc = "deliver" /\ k.review = task[t].review
    <3>. DEFINE n == Producer[task[t].out]
                next == [[Return(t) EXCEPT !.spawn = @ \cup {n}]
                            EXCEPT !.write = record_invocation(n)]
    <3>1. next.pc = "deliver" /\ next.review = task[t].review
      BY <2>3 DEF TaskState
    <3>2. Goto(t, next) \/ Goto(t, Return(t))
      BY <1>21 DEF Reinvoke, schedule_node_with_context, Locked
    <3>. HIDE DEF next
    <3>. QED BY <2>3, <3>1, <3>2
  <2>5. Offers'
    BY <2>1, <2>2, <2>4, GotoOffers DEF Offers, Reconsiders
  <2>6. Joins'
    BY <1>21, <2>2, <2>3, PlainJoins, ScheduleJoins DEF Reinvoke
  <2>. QED BY <2>5, <2>6
<1>22. ASSUME NEW t \in Tasks, Requeue(t) PROVE  Offers' /\ Joins'
  <2>. task[t] \in TaskState
    BY DEF TypeOK
  <2>1. task[t].review = FALSE
    BY <1>22, TaskFields DEF Starts, TaskStarts, AfterOK, At, Requeue
  <2>2. task[t].pc = "requeue" /\ UNCHANGED <<offered, reviewing, faults>>
    BY <1>22 DEF Requeue, At, agents
  <2>3. task[t].out \in offered
    BY <2>2 DEF Offers, Reconsiders
  <2>. DEFINE run == mark_port_status_unchecked(task[t].out, "Pending")
              next == [[task[t] EXCEPT !.pc = "reschedule"] EXCEPT !.write = run]
  <2>4. next.pc = "reschedule" /\ next.review = task[t].review
    BY DEF TaskState
  <2>5. Goto(t, next) /\ live' = run
    BY <1>22 DEF Requeue, Locked
  <2>. HIDE DEF next
  <2>6. /\ run.status = live.status /\ run.invoked = live.invoked
        /\ \A x \in Outputs : run.ports[x] = "Pending" => live.ports[x] = "Pending" \/ x = task[t].out
        /\ \A n \in Nodes : Ready(run, n) => Ready(live, n)
    BY TaskFields, UncheckedPorts DEF PortStatus
  <2>. HIDE DEF run
  <2>7. Offers'
    BY <2>1, <2>2, <2>4, <2>5, GotoOffers DEF Offers, Reconsiders
  <2>8. \A n, x : ~Wakes(task[t], n) /\ ~Owes(task[t], n, x)
    BY <2>2 DEF Wakes, Owes
  <2>9. Joins'
    BY <2>2, <2>3, <2>5, <2>6, <2>8, GotoJoins
  <2>. QED BY <2>7, <2>9
<1>23. ASSUME NEW t \in Tasks, Reschedule(t) PROVE  Offers' /\ Joins'
  <2>. task[t] \in TaskState
    BY DEF TypeOK
  <2>1. task[t].review = FALSE
    BY <1>23, TaskFields DEF Starts, TaskStarts, AfterOK, At, Reschedule
  <2>2. task[t].pc = "reschedule" /\ UNCHANGED <<offered, reviewing, faults>>
    BY <1>23 DEF Reschedule, At, agents
  <2>3. Return(t) \in TaskState /\ Return(t).pc = "deliver" /\ Return(t).out = task[t].out
        /\ Return(t).review = task[t].review
    BY DEF TaskState, Sections, Return
  <2>4. PICK k : Goto(t, k) /\ k.pc = "deliver" /\ k.review = task[t].review
    <3>. DEFINE n == Producer[task[t].out]
                next == [[Return(t) EXCEPT !.spawn = @ \cup {n}]
                            EXCEPT !.write = record_invocation(n)]
    <3>1. next.pc = "deliver" /\ next.review = task[t].review
      BY <2>3 DEF TaskState
    <3>2. Goto(t, next)
      BY <1>23 DEF Reschedule, schedule_node_with_context, Locked
    <3>. HIDE DEF next
    <3>. QED BY <2>3, <3>1, <3>2
  <2>5. Producer[task[t].out] \in Nodes
    BY <1>23, TaskFields, FlowShape DEF Reschedule, At, Starts, TaskStarts, InFlight, InPlay
  <2>6. Offers'
    BY <2>1, <2>2, <2>4, GotoOffers DEF Offers, Reconsiders
  <2>7. Joins'
    BY <1>23, <2>2, <2>3, <2>5, ScheduleJoins DEF Reschedule
  <2>. QED BY <2>6, <2>7
<1>24. ASSUME NEW t \in Tasks, PersistVerdict(t) PROVE  Offers' /\ Joins'
  <2>. task[t] \in TaskState
    BY DEF TypeOK
  <2>. DEFINE next == [task[t] EXCEPT !.pc = task[t].after, !.write = live]
  <2>1. task[t].pc = "verdict" /\ UNCHANGED <<live, offered, reviewing, faults>>
    BY <1>24 DEF PersistVerdict, At, agents, history
  <2>2. next.out = task[t].out /\ task[t].out \in offered
    BY <2>1 DEF TaskState, Offers, Reconsiders
  <2>3. Goto(t, next)
    BY <1>24 DEF PersistVerdict
  <2>. HIDE DEF next
  <2>4. Offers'
    BY <2>1, <2>2, <2>3, GotoOffers DEF Offers
  <2>5. Joins'
    BY <2>1, <2>3, PlainJoins
  <2>. QED BY <2>4, <2>5
<1>25. ASSUME NEW t \in Tasks, Write(t) PROVE  Offers' /\ Joins'
  <2>. task[t] \in TaskState
    BY DEF TypeOK
  <2>. DEFINE next == [task[t] EXCEPT !.write = NoRun]
  <2>1. /\ next.pc = task[t].pc /\ next.out = task[t].out /\ next.review = task[t].review
        /\ next.queue = task[t].queue /\ next.owed = task[t].owed
    BY DEF TaskState
  <2>2. Goto(t, next) /\ UNCHANGED <<live, offered, reviewing, faults>>
    BY <1>25 DEF Write, agents, history
  <2>. HIDE DEF next
  <2>3. Offers'
    BY <2>1, <2>2, GotoOffers DEF Offers, Reconsiders
  <2>4. \A n, x : (Wakes(task[t], n) => Wakes(next, n)) /\ (Owes(task[t], n, x) => Owes(next, n, x))
    BY <2>1 DEF Wakes, Owes
  <2>5. Joins'
    BY <2>2, <2>4, GotoJoins
  <2>. QED BY <2>3, <2>5
<1>26. ASSUME NEW t \in Tasks, WriteFails(t) PROVE  Offers' /\ Joins'
  <2>. task[t] \in TaskState
    BY DEF TypeOK
  <2>1. UNCHANGED <<offered, reviewing>> /\ faults' = "failed"
    BY <1>26 DEF WriteFails, agents
  <2>2. Joins'
    BY <2>1 DEF Joins
  <2>3. PICK k : Goto(t, k) /\ (Reconsiders(k) => Reconsiders(task[t]) /\ k.out = task[t].out)
    <3>1. \E k : /\ Goto(t, k)
                 /\ \/ k.pc = task[t].pc /\ k.review = task[t].review /\ k.out = task[t].out
                    \/ k.pc = "deliver" /\ k.review = task[t].review /\ k.out = task[t].out
                    \/ k.pc = "idle" /\ k.review = FALSE
      <4>1. /\ [task[t] EXCEPT !.write = NoRun].pc = task[t].pc
            /\ [task[t] EXCEPT !.write = NoRun].review = task[t].review
            /\ [task[t] EXCEPT !.write = NoRun].out = task[t].out
        BY DEF TaskState
      <4>2. LET k == [Return(t) EXCEPT !.write = NoRun, !.queue = {}, !.owed = {}, !.seeds = {}]
            IN  k.pc = "deliver" /\ k.review = task[t].review /\ k.out = task[t].out
        BY DEF TaskState, Return
      <4>3. Idle.pc = "idle" /\ Idle.review = FALSE
        BY DEF Idle
      <4>. QED BY <1>26, <4>1, <4>2, <4>3 DEF WriteFails
    <3>. QED BY <3>1 DEF Reconsiders
  <2>4. Offers'
    BY <2>1, <2>3, GotoOffers DEF Offers
  <2>. QED BY <2>2, <2>4
<1>27. ASSUME NEW t \in Supervisors, Receive(t) PROVE  Offers' /\ Joins'
  <2>. DEFINE next == [Idle EXCEPT !.pc = "cycle", !.out = Head(channel[t]), !.ctx = t]
  <2>1. next.pc = "cycle" /\ next.review = FALSE
    BY IdleType DEF TaskState, Idle
  <2>2. /\ UNCHANGED <<live, offered, reviewing>> /\ task[t].pc = "idle" /\ t \in Tasks
        /\ faults' = "none" => faults = "none"
    BY <1>27 DEF Receive, At, Tasks
  <2>3. CASE UNCHANGED task
    BY <2>2, <2>3 DEF Offers, Joins
  <2>4. CASE Goto(t, next)
    <3>. HIDE DEF next
    <3>1. Offers'
      BY <2>1, <2>2, <2>4, GotoOffers DEF Offers, Reconsiders
    <3>2. Joins'
      BY <2>2, <2>4, PlainJoins
    <3>. QED BY <3>1, <3>2
  <2>. QED BY <1>27, <2>3, <2>4 DEF Receive
<1>28. ASSUME UNCHANGED vars PROVE  Offers' /\ Joins'
  BY <1>28 DEF vars, Offers, Joins
<1>. QED
  BY <1>1, <1>2, <1>3, <1>4, <1>5, <1>6, <1>7, <1>8, <1>9, <1>10, <1>11, <1>12, <1>13, <1>14, <1>15, <1>16, <1>17, <1>18, <1>19, <1>20, <1>21, <1>22, <1>23, <1>24, <1>25, <1>26, <1>27, <1>28
  DEF Next, Environment, Step, Section

-----------------------------------------------------------------------------
(* The theorems.                                                            *)

FlowInv == TypeOK /\ Starts /\ Early /\ Reviews /\ Offers /\ Joins

\* The inductive invariant holds at first,
LEMMA FlowInit == Init => FlowInv
<1>. SUFFICES ASSUME Init PROVE FlowInv
  OBVIOUS
<1>1. TypeOK
  BY TypeInit
<1>2. /\ NoRun.status = "absent" /\ Idle.pc = "idle" /\ Idle.review = FALSE
      /\ Idle.write = NoRun
  BY DEF NoRun, Idle
<1>3. \A n \in Nodes : ~Ready(NoRun, n)
  BY FlowShape DEF Ready, NoRun
<1>4. Starts
  BY <1>3, IdleStarts DEF Init, Starts, Traffic, UpstreamClosed
<1>5. Early
  BY <1>2 DEF Init, Early
<1>6. Reviews
  BY <1>2, NothingApproved DEF Init, Reviews, TaskReviewed, Approving
<1>7. Offers /\ Joins
  BY <1>2 DEF Init, Offers, Reconsiders, Joins
<1>. QED BY <1>1, <1>4, <1>5, <1>6, <1>7 DEF FlowInv

\* is kept by every step,
LEMMA FlowStep == FlowInv /\ [Next]_vars => FlowInv'
  BY TypeStep, StartsStep, EarlyStep, ReviewsStep, JoinsStep DEF FlowInv

\* and so always holds.
LEMMA FlowInvariant == Spec => []FlowInv
  BY FlowInit, FlowStep, PTL DEF Spec

\* Every variable of a flow run keeps its type, for every graph, every set of
\* concurrent requests and every bound.
THEOREM TypeCorrect == Spec => []TypeOK
<1>1. FlowInv => TypeOK
  BY DEF FlowInv
<1>. QED BY <1>1, FlowInvariant, PTL

\* No agent of any flow whose cycles return is ever started, and no invocation
\* recorded in memory or on disk, before all the inputs the node requires were
\* approved: by joins, cycle retriggers, implicit reinvocations, requeues and
\* decisions after a restart alike.
THEOREM StartsCorrect == Spec => []NoPrematureStart
<1>1. FlowInv => NoPrematureStart
  BY DEF FlowInv, Starts, Traffic, RunStarts, NoPrematureStart
<1>. QED BY <1>1, FlowInvariant, PTL

\* No port is Approved, in memory, on disk or in a snapshot on its way to the
\* disk, without the approvals its reviewers owe, whatever writes fail, come out
\* of order or are cut short.
THEOREM ReviewsCorrect == Spec => []ApprovedIsReviewed
<1>1. FlowInv => ApprovedIsReviewed
  BY DEF FlowInv, Reviews, TaskReviewed, Sound, JustifiedBy, ApprovedIsReviewed, Justified
<1>. QED BY <1>1, FlowInvariant, PTL

\* While no write fails and the process is not restarted, no interleaving of
\* any number of approvals, verdicts and submissions loses a join.
THEOREM JoinsCorrect == Spec => []NoLostJoin
<1>1. FlowInv => NoLostJoin
  <2>. SUFFICES ASSUME FlowInv, faults = "none", live.status # "absent",
                       \A t \in Tasks : task[t].pc = "idle",
                       NEW n \in Nodes, Ready(live, n)
                PROVE  IF n \in HumanOwned
                       THEN \A o \in Owns(n) : live.ports[o] # "Pending" \/ o \in offered
                       ELSE n \in live.invoked
    BY DEF NoLostJoin
  <2>1. \A t \in Tasks : ~Wakes(task[t], n) /\ \A o : ~Owes(task[t], n, o)
    BY DEF Wakes, Owes
  <2>. QED BY <2>1 DEF FlowInv, Joins
<1>. QED BY <1>1, FlowInvariant, PTL

=============================================================================
