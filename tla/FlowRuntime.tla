----------------------------- MODULE FlowRuntime -----------------------------
(****************************************************************************)
(* One flow run of FlowRuntime (flow/runtime.rs) and the tasks that drive   *)
(* it: the supervision task of run_start.rs, which takes submitted documents *)
(* from the bounded channel one at a time; the tasks that review_ops.rs     *)
(* spawns for a human decision; and the reviewer agents that call           *)
(* flow_submit_review.  Every handler of FlowRuntime is a sequence of short *)
(* critical sections on the run, each followed by a write of the clone it   *)
(* took to state.json after the lock is released.  A task therefore         *)
(* alternates a section (one action below) and a Write of its snapshot, and *)
(* the sections and writes of different tasks interleave freely.            *)
(*                                                                          *)
(* A task record holds pc, the next section; out, the output it is about;   *)
(* ctx, the RunContext its agents get;                                      *)
(* queue and owed, the agent nodes and the outputs of human nodes it still  *)
(* has to activate; after, where to go then; seeds, the outputs still to be *)
(* seeded; spawn and review, the agents it will start when it returns; and  *)
(* write, the snapshot it must write before its next section.               *)
(****************************************************************************)
EXTENDS Naturals, Sequences, FiniteSets

CONSTANTS
    Nodes,          \* the declared nodes of the flow
    HumanOwned,     \* those whose owner is "human"
    Outputs,        \* the output ports, the brief of __chat__ included
    Brief,          \* __chat__/initial-brief
    Producer,       \* Producer[o]: the node that produces o
    Required,       \* Required[n]: FlowGraph's required_inputs of n
    Cyclic,         \* Cyclic[n]: FlowGraph's cycle_inputs of n
    Agents,         \* the names of reviewer agents
    AgentReviewers, \* AgentReviewers[o]: the reviewers of o other than "human"
    HumanReviewed,  \* the outputs with "human" among their reviewers
    MaxCycles,      \* MaxCycles[o]: max_cycles, 0 when absent
    Seedable,       \* the outputs whose key an earlier run may seed
    Supervisor,     \* the supervision task of the run's start
    Rebuilt,        \* the one handle_flow_run_approve makes for a run it finds
                    \* without a RunContext
    Deaf,           \* a context whose channel has no receiver
    NoContext,      \* no RunContext in flow_contexts
    Requests,       \* tasks of control requests and of reviewers' tool calls
    Capacity,       \* of a document channel (64 in the code)
    MaxSubmissions, \* bound: submit_document calls of the whole run
    MaxDecisions,   \* bound: human decisions
    MayFail,        \* writes of state.json may fail
    MayCrash        \* the process may stop and restart once

Supervisors == {Supervisor, Rebuilt}
Contexts == Supervisors \cup {Deaf}
Tasks == Requests \cup Supervisors

ASSUME FlowShape ==
    /\ HumanOwned \subseteq Nodes
    /\ Brief \in Outputs
    /\ \A o \in Outputs \ {Brief} : Producer[o] \in Nodes
    /\ Producer[Brief] \notin Nodes
    /\ Required \in [Nodes -> (SUBSET Outputs) \ {{}}]
    /\ Cyclic \in [Nodes -> SUBSET Outputs]
    /\ AgentReviewers \in [Outputs -> SUBSET Agents]
    /\ AgentReviewers[Brief] = {}
    /\ HumanReviewed \subseteq Outputs \ {Brief}
    /\ MaxCycles \in [Outputs -> Nat]
    /\ Seedable \subseteq Outputs \ {Brief}

\* A cycle input comes from a node that waits, directly or not, for the node it
\* retriggers: a set of nodes that has the producers of all it waits for has
\* every node it may retrigger.  FlowGraph::build ensures it for definitions
\* without `reads`, because a back edge returns to a node on the search path.
UpstreamClosed(S) ==
    \A n \in S : \A o \in Required[n] : o = Brief \/ Producer[o] \in S
ASSUME CyclesReturn ==
    \A S \in SUBSET Nodes : UpstreamClosed(S) =>
        \A n \in Nodes : (\E o \in Cyclic[n] : Producer[o] \in S) => n \in S

ASSUME FlowBounds ==
    /\ Supervisors \cap Requests = {}
    /\ Supervisor # Rebuilt
    /\ Deaf \notin Supervisors
    /\ NoContext \notin Contexts
    /\ Capacity \in Nat \ {0}
    /\ MaxSubmissions \in Nat
    /\ MaxDecisions \in Nat
    /\ MayFail \in BOOLEAN
    /\ MayCrash \in BOOLEAN

VARIABLES
    live,        \* the FlowRunState in the runs map
    disk,        \* state.json
    channel,     \* channel[s]: the document channel that task s receives from
    context,     \* the RunContext of the run in flow_contexts
    active,      \* <<n, c>>: an agent loop of node n, submitting through c
    reviewing,   \* <<o, r, c>>: reviewer r of o, spawning through c
    task,        \* what each task is doing
    offered,     \* history: outputs that have been in review
    approvals,   \* history: outputs a human has approved
    readied,     \* history: nodes whose inputs were all approved at once
    submissions, \* bound counter
    decisions,   \* bound counter
    faults       \* history: "start", "none", "failed" or "crashed"

vars == <<live, disk, channel, context, active, reviewing, task, offered,
          approvals, readied, submissions, decisions, faults>>
history == <<offered, approvals, readied, submissions, decisions, faults>>
agents == <<channel, context, active, reviewing>>

PortStatus == {"Pending", "InReview", "AwaitingOwner", "Approved", "Seeded"}
Verdict == {"approve", "reject"}

\* FlowRunState.  The status "absent" stands for a run that is not in the map
\* or whose file cannot be read; "Completed", "Failed" and "Cancelled" are
\* never reached, because nothing calls transition_run.
FlowRunState ==
    [status : {"absent", "Running", "Paused"},
     ports : [Outputs -> PortStatus],
     verdicts : [Outputs -> SUBSET (Agents \X Verdict)],
     cycles : [Outputs -> Nat],
     invoked : SUBSET Nodes,
     session : BOOLEAN]

NoRun == [status |-> "absent",
          ports |-> [o \in Outputs |-> "Pending"],
          verdicts |-> [o \in Outputs |-> {}],
          cycles |-> [o \in Outputs |-> 0],
          invoked |-> {},
          session |-> FALSE]

\* FlowRunState::new with the brief already approved, as start_run makes it.
Fresh == [NoRun EXCEPT !.status = "Running", !.ports[Brief] = "Approved"]

Idle == [pc |-> "idle", out |-> Brief, ctx |-> Supervisor, queue |-> {},
         owed |-> {}, after |-> "idle", seeds |-> {}, spawn |-> {}, review |-> FALSE,
         write |-> NoRun]

Sections == {"idle", "insert", "register", "seed", "cycle", "submitted",
             "guard", "approve", "join", "activate", "reinvoke", "requeue",
             "reschedule", "verdict", "deliver"}

TaskState == [pc : Sections, out : Outputs, ctx : Contexts,
              queue : SUBSET Nodes, owed : SUBSET Outputs, after : Sections,
              seeds : SUBSET Outputs, spawn : SUBSET Nodes, review : BOOLEAN,
              write : FlowRunState]

TypeOK ==
    /\ live \in FlowRunState
    /\ disk \in FlowRunState
    /\ channel \in [Supervisors -> Seq(Outputs)]
    /\ context \in Contexts \cup {NoContext}
    /\ active \subseteq Nodes \X Contexts
    /\ reviewing \subseteq Outputs \X Agents \X Contexts
    /\ task \in [Tasks -> TaskState]
    /\ offered \subseteq Outputs
    /\ approvals \subseteq Outputs
    /\ readied \subseteq Nodes
    /\ submissions \in Nat
    /\ decisions \in Nat
    /\ faults \in {"start", "none", "failed", "crashed"}

Init ==
    /\ live = NoRun
    /\ disk = NoRun
    /\ channel = [s \in Supervisors |-> <<>>]
    /\ context = NoContext
    /\ active = {}
    /\ reviewing = {}
    /\ task = [t \in Tasks |-> Idle]
    /\ offered = {}
    /\ approvals = {}
    /\ readied = {}
    /\ submissions = 0
    /\ decisions = 0
    /\ faults = "start"

-----------------------------------------------------------------------------
(* The graph queries, and the join condition of FlowStep::execute: only     *)
(* Approved counts, although is_node_ready also accepts Seeded.             *)

Owns(n) == {o \in Outputs : Producer[o] = n}
Ready(run, n) == \A o \in Required[n] : run.ports[o] = "Approved"
nodes_awaiting(o) == {n \in Nodes : o \in Required[n]}
nodes_retriggered_by(o) == {n \in Nodes : o \in Cyclic[n]}
HasReviewers(o) == AgentReviewers[o] # {} \/ o \in HumanReviewed

\* At pc, with no write outstanding: the task may run its next section.
At(t, pc) == task[t].pc = pc /\ task[t].write = NoRun

\* A section that leaves the run as it is.
Goto(t, next) == task' = [task EXCEPT ![t] = next]

\* The changes of the run under its lock.  mark_port_status never takes a port
\* back from Approved.
mark_port_status(o, status) ==
    IF live.ports[o] = "Approved" THEN live
    ELSE [live EXCEPT !.ports[o] = status]
mark_port_status_unchecked(o, status) == [live EXCEPT !.ports[o] = status]
record_invocation(n) == [live EXCEPT !.invoked = @ \cup {n}]
increment_port_cycles(o) == [live EXCEPT !.cycles[o] = @ + 1]

\* A section that changes the run to `run` and leaves a clone of it to write.
Locked(t, run, next) ==
    /\ live' = run
    /\ readied' = readied \cup {n \in Nodes : Ready(run, n)}
    /\ Goto(t, [next EXCEPT !.write = run])

\* mark_port_status writes nothing when the status stays as it is.
Marked(t, o, status, next) ==
    IF mark_port_status(o, status) = live
    THEN Goto(t, next) /\ UNCHANGED <<live, readied>>
    ELSE Locked(t, mark_port_status(o, status), next)

\* A recorded invocation becomes an agent when the handler returns.
schedule_node_with_context(t, n, next) ==
    Locked(t, record_invocation(n), [next EXCEPT !.spawn = @ \cup {n}])

\* The tail of every handler: contexts are returned and the agents spawned.
Return(t) == [task[t] EXCEPT !.pc = "deliver"]

-----------------------------------------------------------------------------
(* start_run, register_chat_session and apply_seeded_entries.               *)

\* The first persist of start_run comes before the run is in the map.
start_run(t, seeds) ==
    /\ faults = "start"
    /\ At(t, "idle") /\ t \in Requests
    /\ Goto(t, [Idle EXCEPT !.pc = "insert", !.seeds = seeds, !.write = Fresh])
    /\ faults' = "none"
    /\ UNCHANGED <<live, disk, channel, active, reviewing, offered, approvals,
                   readied, submissions, decisions>>

\* A StartRun request with a flow_id registers the RunContext of the run; the
\* tools flow_start and invoke_flow of a chat turn keep theirs to themselves.
HandleStartRun(t) == start_run(t, {}) /\ context' = Supervisor
FlowStart(t) == start_run(t, {}) /\ UNCHANGED context
InvokeFlow(t) == (\E s \in SUBSET Seedable : start_run(t, s)) /\ UNCHANGED context

Insert(t) ==
    /\ At(t, "insert")
    /\ live' = Fresh
    /\ readied' = readied \cup {n \in Nodes : Ready(Fresh, n)}
    /\ Goto(t, [task[t] EXCEPT !.pc = "join", !.after = "register"])
    /\ UNCHANGED <<disk, agents, offered, approvals, submissions, decisions,
                   faults>>

\* register_chat_session changes the run without writing it.
Register(t) ==
    /\ At(t, "register")
    /\ live' = [live EXCEPT !.session = TRUE]
    /\ Goto(t, [task[t] EXCEPT !.pc = "seed"])
    /\ UNCHANGED <<disk, agents, history>>

apply_seeded_entries(t) ==
    /\ At(t, "seed")
    /\ \/ /\ task[t].seeds = {}
          /\ Goto(t, Return(t))
          /\ UNCHANGED <<live, readied>>
       \/ \E o \in task[t].seeds :
             Locked(t, mark_port_status_unchecked(o, "Seeded"),
                    [task[t] EXCEPT !.seeds = @ \ {o}, !.out = o,
                                    !.pc = "join", !.after = "seed"])
    /\ UNCHANGED <<disk, agents, offered, approvals, submissions, decisions,
                   faults>>

-----------------------------------------------------------------------------
(* Agents.  spawn_agent starts a loop that may call submit_document, which  *)
(* fails without any change when the channel is full or has no receiver.    *)

SubmitDocument(o, s) ==
    /\ <<Producer[o], s>> \in active
    /\ submissions < MaxSubmissions
    /\ Len(channel[s]) < Capacity
    /\ channel' = [channel EXCEPT ![s] = Append(@, o)]
    /\ submissions' = submissions + 1
    /\ UNCHANGED <<live, disk, context, active, reviewing, task, offered,
                   approvals, readied, decisions, faults>>

Deliver(t) ==
    /\ At(t, "deliver")
    /\ active' = active \cup (task[t].spawn \X {task[t].ctx})
    /\ reviewing' = reviewing \cup
          (IF task[t].review
           THEN {<<task[t].out, r, task[t].ctx>> : r \in AgentReviewers[task[t].out]}
           ELSE {})
    /\ Goto(t, Idle)
    /\ UNCHANGED <<live, disk, channel, context, history>>

-----------------------------------------------------------------------------
(* on_document_submitted, called by the supervision task.                   *)

Receive(s) ==
    /\ At(s, "idle")
    /\ channel[s] # <<>>
    /\ channel' = [channel EXCEPT ![s] = Tail(@)]
    /\ \/ Goto(s, [Idle EXCEPT !.pc = "cycle", !.out = Head(channel[s]),
                               !.ctx = s])
          /\ UNCHANGED faults
       \/ MayFail /\ faults = "none"        \* flow.yaml cannot be loaded
          /\ faults' = "failed" /\ UNCHANGED task
    /\ UNCHANGED <<live, disk, context, active, reviewing, offered, approvals,
                   readied, submissions, decisions>>

\* Mutant: past the limit the handler waits for someone to escalate to.
MCheckCycleLimit(t) ==
    LET o == task[t].out
        run == increment_port_cycles(o)
    IN  /\ At(t, "cycle")
        /\ MaxCycles[o] = 0 \/ run.cycles[o] <= MaxCycles[o]
        /\ Locked(t, run,
                  [task[t] EXCEPT !.pc = "submitted"])
        /\ UNCHANGED <<disk, agents, offered, approvals, submissions, decisions,
                       faults>>

\* check_cycle_limit and increment_port_cycles: past the limit the handler
\* fails once the new count is written.
CheckCycleLimit(t) ==
    LET o == task[t].out
        run == increment_port_cycles(o)
    IN  /\ At(t, "cycle")
        /\ IF MaxCycles[o] = 0
           THEN /\ Goto(t, [task[t] EXCEPT !.pc = "submitted"])
                /\ UNCHANGED <<live, readied>>
           ELSE Locked(t, run,
                       [task[t] EXCEPT !.pc = IF run.cycles[o] > MaxCycles[o]
                                              THEN "deliver" ELSE "submitted"])
        /\ UNCHANGED <<disk, agents, offered, approvals, submissions, decisions,
                       faults>>

\* Without reviewers the document is approved at once.
Submitted(t) ==
    LET o == task[t].out
    IN  /\ At(t, "submitted")
        /\ IF ~HasReviewers(o)
           THEN /\ Goto(t, [task[t] EXCEPT !.pc = "guard"])
                /\ UNCHANGED <<live, readied, offered>>
           ELSE /\ offered' = offered \cup {o}
                /\ Marked(t, o, "InReview", [Return(t) EXCEPT !.review = TRUE])
        /\ UNCHANGED <<disk, agents, approvals, submissions, decisions, faults>>

-----------------------------------------------------------------------------
(* on_document_approved: the guard and the mark are two critical sections.  *)

ApprovalGuard(t) ==
    /\ At(t, "guard")
    /\ Goto(t, IF live.ports[task[t].out] = "Approved"
               THEN Return(t) ELSE [task[t] EXCEPT !.pc = "approve"])
    /\ UNCHANGED <<live, disk, agents, history>>

MarkApproved(t) ==
    /\ At(t, "approve")
    /\ Marked(t, task[t].out, "Approved",
              [task[t] EXCEPT !.pc = "join", !.after = "reinvoke"])
    /\ UNCHANGED <<disk, agents, offered, approvals, submissions, decisions,
                   faults>>

\* Mutant: the join is evaluated on the state file instead of the run.
MJoinOnDisk(t) ==
    LET o == task[t].out
        woken == {n \in nodes_awaiting(o) : Ready(disk, n)}
    IN  /\ At(t, "join")
        /\ Goto(t, [task[t] EXCEPT
                      !.queue = woken \ HumanOwned,
                      !.owed = UNION {Owns(n) : n \in woken \cap HumanOwned},
                      !.pc = "activate"])
        /\ UNCHANGED <<live, disk, agents, history>>

\* Mutant: every awaiting node is woken by the first of its inputs.
MJoinAny(t) ==
    /\ At(t, "join")
    /\ Goto(t, [task[t] EXCEPT
                  !.queue = nodes_awaiting(task[t].out) \ HumanOwned,
                  !.pc = "activate"])
    /\ UNCHANGED <<live, disk, agents, history>>

\* fire_and_join_for evaluates the join once, on a clone; an approval also
\* retriggers the nodes that have the output as a cycle input.
FireAndJoin(t) ==
    LET o == task[t].out
        woken == {n \in nodes_awaiting(o) : Ready(live, n)}
                   \cup (IF task[t].after = "reinvoke"
                         THEN nodes_retriggered_by(o) ELSE {})
    IN  /\ At(t, "join")
        /\ Goto(t, [task[t] EXCEPT
                      !.queue = woken \ HumanOwned,
                      !.owed = UNION {Owns(n) : n \in woken \cap HumanOwned},
                      !.pc = "activate"])
        /\ UNCHANGED <<live, disk, agents, history>>

\* An agent node is scheduled; the outputs of a human node become
\* AwaitingOwner.
Activate(t) ==
    /\ At(t, "activate")
    /\ \/ /\ task[t].queue = {} /\ task[t].owed = {}
          /\ Goto(t, [task[t] EXCEPT !.pc = task[t].after])
          /\ UNCHANGED <<live, readied>>
       \/ \E n \in task[t].queue :
             schedule_node_with_context(t, n, [task[t] EXCEPT !.queue = @ \ {n}])
       \/ \E o \in task[t].owed :
             Locked(t, mark_port_status_unchecked(o, "AwaitingOwner"),
                    [task[t] EXCEPT !.owed = @ \ {o}])
    /\ UNCHANGED <<disk, agents, offered, approvals, submissions, decisions,
                   faults>>

\* The producer is invoked again while one of its ports is not approved.
Reinvoke(t) ==
    LET n == Producer[task[t].out]
    IN  /\ At(t, "reinvoke")
        /\ IF n \in Nodes \ HumanOwned
              /\ \E o \in Owns(n) : live.ports[o] # "Approved"
           THEN schedule_node_with_context(t, n, Return(t))
           ELSE Goto(t, Return(t)) /\ UNCHANGED <<live, readied>>
        /\ UNCHANGED <<disk, agents, offered, approvals, submissions, decisions,
                       faults>>

-----------------------------------------------------------------------------
(* on_rejected_requeue: the port goes back to Pending whatever it was, and  *)
(* the producer is invoked.                                                 *)

Requeue(t) ==
    /\ At(t, "requeue")
    /\ Locked(t, mark_port_status_unchecked(task[t].out, "Pending"),
              [task[t] EXCEPT !.pc = "reschedule"])
    /\ UNCHANGED <<disk, agents, offered, approvals, submissions, decisions,
                   faults>>

Reschedule(t) ==
    /\ At(t, "reschedule")
    /\ schedule_node_with_context(t, Producer[task[t].out], Return(t))
    /\ UNCHANGED <<disk, agents, offered, approvals, submissions, decisions,
                   faults>>

-----------------------------------------------------------------------------
(* on_reviewer_verdict, called by a reviewer through flow_submit_review.  A  *)
(* second verdict of the same reviewer is ignored, and verdicts are never   *)
(* cleared.  The tally is taken under the lock, the clone that is written   *)
(* after it.                                                                *)

Tally(o, r, v) ==
    IF \E w \in Verdict : <<r, w>> \in live.verdicts[o]
    THEN live.verdicts[o] ELSE live.verdicts[o] \cup {<<r, v>>}

\* Mutant: the verdicts are counted before they are read.
MOutcome(o, tally) ==
    IF /\ \A r \in AgentReviewers[o] : \E v \in Verdict : <<r, v>> \in tally
       /\ o \notin HumanReviewed
    THEN "guard" ELSE "deliver"

Outcome(o, tally) ==
    IF \E r \in Agents : <<r, "reject">> \in tally THEN "requeue"
    ELSE IF /\ \A r \in AgentReviewers[o] : <<r, "approve">> \in tally
            /\ o \notin HumanReviewed
         THEN "guard" ELSE "deliver"

ReviewerVerdict(t, o, r, v) ==
    /\ At(t, "idle") /\ t \in Requests
    /\ live.status # "absent"
    /\ \E c \in Contexts :
          /\ <<o, r, c>> \in reviewing
          /\ reviewing' = reviewing \ {<<o, r, c>>}
          /\ Goto(t, [Idle EXCEPT !.pc = "verdict", !.out = o, !.ctx = c,
                                  !.after = Outcome(o, Tally(o, r, v))])
    /\ live' = [live EXCEPT !.verdicts[o] = Tally(o, r, v)]
    /\ UNCHANGED <<disk, channel, context, active, history>>

PersistVerdict(t) ==
    /\ At(t, "verdict")
    /\ Goto(t, [task[t] EXCEPT !.pc = task[t].after, !.write = live])
    /\ UNCHANGED <<live, disk, agents, history>>

-----------------------------------------------------------------------------
(* handle_flow_run_approve and handle_flow_run_request_changes, and the      *)
(* orchestrator's tools flow_approve and flow_request_changes.  Without a    *)
(* RunContext, after a restart or when a chat turn started the run, a request *)
(* is acknowledged and has no effect unless the originating session is known; *)
(* with it the handler registers a new context, whose receiver only the      *)
(* approving handler keeps.                                                   *)

Decide(t, o, pc, c) ==
    /\ At(t, "idle") /\ t \in Requests
    /\ decisions < MaxDecisions
    /\ o \in offered
    /\ live.status # "absent"
    /\ decisions' = decisions + 1
    /\ Goto(t, [Idle EXCEPT !.pc = pc, !.out = o, !.ctx = c])
    /\ UNCHANGED <<live, disk, channel, active, reviewing, offered, readied,
                   submissions, faults>>

\* The registered context, or the one made in its place.
Recovered(made) == IF context = NoContext THEN made ELSE context

HumanApproves(t, o) ==
    /\ context # NoContext \/ live.session
    /\ Decide(t, o, "guard", Recovered(Rebuilt))
    /\ context' = Recovered(Rebuilt)
    /\ approvals' = approvals \cup {o}

HumanRequestsChanges(t, o) ==
    /\ context # NoContext \/ live.session
    /\ Decide(t, o, "requeue", Recovered(Deaf))
    /\ context' = Recovered(Deaf)
    /\ UNCHANGED approvals

FlowApprove(t, o) ==
    /\ faults # "crashed"
    /\ Decide(t, o, "guard", Supervisor)
    /\ approvals' = approvals \cup {o}
    /\ UNCHANGED context

FlowRequestChanges(t, o) ==
    /\ faults # "crashed"
    /\ Decide(t, o, "requeue", Supervisor)
    /\ UNCHANGED <<approvals, context>>

-----------------------------------------------------------------------------
(* persist_run: the snapshot replaces the file, whatever was written since  *)
(* it was taken.  A failed write ends the handler, and with it the spawning *)
(* of what it had already recorded, except where the code only warns: after *)
(* a verdict, and while seeding.                                            *)

Write(t) ==
    /\ task[t].write # NoRun
    /\ disk' = task[t].write
    /\ Goto(t, [task[t] EXCEPT !.write = NoRun])
    /\ UNCHANGED <<live, agents, history>>

WriteFails(t) ==
    /\ MayFail
    /\ task[t].write # NoRun
    /\ faults = "none"
    /\ faults' = "failed"
    /\ Goto(t, IF task[t].pc \in {"guard", "requeue"}
               THEN [task[t] EXCEPT !.write = NoRun]
               ELSE IF task[t].after = "seed"
                    THEN [Return(t) EXCEPT !.write = NoRun, !.queue = {},
                                           !.owed = {}, !.seeds = {}]
                    ELSE Idle)
    /\ UNCHANGED <<live, disk, agents, offered, approvals, readied,
                   submissions, decisions>>

\* The process stops and rehydrate_from_disk runs.  A write in progress may
\* leave a file that cannot be parsed: the run is then gone.
Crash ==
    /\ MayCrash
    /\ faults = "none"
    /\ \E file \in {disk} \cup
                   (IF \E t \in Tasks : task[t].write # NoRun THEN {NoRun} ELSE {}) :
          LET run == IF file.status = "Running"
                     THEN [file EXCEPT !.status = "Paused"] ELSE file
          IN  /\ live' = run /\ disk' = run
              /\ readied' = readied \cup {n \in Nodes : Ready(run, n)}
    /\ faults' = "crashed"
    /\ channel' = [s \in Supervisors |-> <<>>]
    /\ context' = NoContext
    /\ active' = {}
    /\ reviewing' = {}
    /\ task' = [t \in Tasks |-> Idle]
    /\ UNCHANGED <<offered, approvals, submissions, decisions>>

-----------------------------------------------------------------------------

Section(t) ==
    \/ Insert(t) \/ Register(t) \/ apply_seeded_entries(t) \/ Deliver(t)
    \/ CheckCycleLimit(t) \/ Submitted(t)
    \/ ApprovalGuard(t) \/ MarkApproved(t) \/ FireAndJoin(t) \/ Activate(t)
    \/ Reinvoke(t) \/ Requeue(t) \/ Reschedule(t) \/ PersistVerdict(t)

Step(t) ==
    \/ Section(t) \/ Write(t) \/ WriteFails(t)
    \/ t \in Supervisors /\ Receive(t)

Environment ==
    \/ \E t \in Requests : HandleStartRun(t) \/ FlowStart(t) \/ InvokeFlow(t)
    \/ \E o \in Outputs, s \in Supervisors : SubmitDocument(o, s)
    \/ \E t \in Requests, o \in Outputs :
          \/ \E r \in Agents, v \in Verdict : ReviewerVerdict(t, o, r, v)
          \/ HumanApproves(t, o) \/ HumanRequestsChanges(t, o)
          \/ FlowApprove(t, o) \/ FlowRequestChanges(t, o)

Next ==
    \/ Environment
    \/ Crash
    \/ \E t \in Tasks : Step(t)

\* The tokio runtime keeps running some task that can go on; agents, reviewers
\* and humans need not act.
Spec ==
    /\ Init
    /\ [][Next]_vars
    /\ WF_vars(\E t \in Tasks : Step(t))

-----------------------------------------------------------------------------

\* What may stand behind an approval: nobody was asked, a human approved, or
\* every agent reviewer's recorded verdict is an approval.
Justified(run, o) ==
    \/ ~HasReviewers(o)
    \/ o \in approvals
    \/ /\ o \notin HumanReviewed
       /\ \A r \in AgentReviewers[o] : <<r, "approve">> \in run.verdicts[o]

\* No document of on_document_approved is approved without its reviewers: in
\* memory, on disk and in every snapshot that is still to be written, whatever
\* the order of the writes and wherever the process is restarted, a port that
\* is Approved was approved by a human or carries the approvals of all its
\* agent reviewers with it.
ApprovedIsReviewed ==
    \A o \in Outputs :
        LET Sound(run) == run.ports[o] = "Approved" => Justified(run, o)
        IN  Sound(live) /\ Sound(disk) /\ \A t \in Tasks : Sound(task[t].write)

\* fire_and_join_for loses no join although it reads a clone: when no task is
\* in the middle of a handler and nothing failed, every node whose inputs are
\* all approved has been invoked, or waits for its human owner.
NoLostJoin ==
    (faults = "none" /\ live.status # "absent"
        /\ \A t \in Tasks : task[t].pc = "idle")
    => \A n \in Nodes : Ready(live, n) =>
          IF n \in HumanOwned
          THEN \A o \in Owns(n) : live.ports[o] # "Pending" \/ o \in offered
          ELSE n \in live.invoked

\* No invocation is premature, by the AND-join, by a cycle retrigger, by an
\* implicit reinvocation or by a requeue: a node has an agent, or an invocation
\* in memory or on disk, only if all its required inputs were approved at one
\* instant before.
NoPrematureStart ==
    {a[1] : a \in active} \cup live.invoked \cup disk.invoked \subseteq readied

\* A submitted document is taken from the bounded channel and its handler
\* returns, unless the process is restarted.
SubmissionsHandled ==
    \A s \in Supervisors :
        (channel[s] # <<>>) ~>
            (faults = "crashed" \/ (channel[s] = <<>> /\ task[s].pc = "idle"))

=============================================================================
