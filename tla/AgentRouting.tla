---------------------------- MODULE AgentRouting ----------------------------
(***************************************************************************)
(* Who drives a run, for which flow run, and where its documents go: the   *)
(* StartRun handler (run_start.rs), AgentRunner (agent_runner.rs), the     *)
(* extension engine (ext_dispatch.rs), the flow tools and the delegation   *)
(* tools of a supervisor (flow_tools.rs, invoke_agent.rs, invoke_flow.rs). *)
(* What FlowRuntime decides about a document is a choice here: FlowRuntime *)
(* has its own module.                                                     *)
(*                                                                         *)
(* A run's id is a number; a start that finds no number left stands for    *)
(* start_run_with_session failing.  A RunContext is the flow run it names, *)
(* the channel its documents go to and the session of its runs; the        *)
(* channel <<r, f>> belongs to the chat of run r and is supervised for     *)
(* flow run f, <<r, Own>> is the one StartRun made for r itself.           *)
(***************************************************************************)
EXTENDS Naturals, Sequences, FiniteSets

CONSTANTS FlowRuns, Sessions,
          MaxRuns, MaxDocs, MaxStarts  \* bounds: runs, documents, StartRun requests

ASSUME RouteAssumption == MaxRuns \in Nat /\ MaxDocs \in Nat /\ MaxStarts \in Nat

RunIds == 1..MaxRuns
Own == "own"
NoFlow == "no flow"       \* flow_run_id is None
Unnamed == ""             \* the flow run id of a flow whose definition is missing
NoSession == "no session"
SessionIds == Sessions \cup {NoSession, ""}

Chans == RunIds \X (FlowRuns \cup {Own})
RunContext == [flow : FlowRuns \cup {NoFlow, Unnamed}, chan : Chans, session : SessionIds]

VARIABLES
    runs,       \* the authority's runs: status, session and flow run
    drivers,    \* the task of each run
    activated,  \* the extension that owns the agent provider is activated
    flows,      \* the flow runs that exist, with originating_session_id
    notify,     \* FlowRuntime's chat_sessions
    bound,      \* the authority's flow_sessions
    opened,     \* the FlowRegistry has made the workspace's FlowRuntime
    channels,   \* documents sent and not yet received
    starts, docs, restarted,
    fault       \* bound: the one kind of trouble of this behaviour

routeVars == <<runs, drivers, activated, flows, notify, bound, opened, channels,
               starts, docs, restarted, fault>>

RunStatusSet == {"absent", "Pending", "Running", "Paused", "Succeeded", "Failed", "Cancelled"}
Ended == {"Succeeded", "Failed", "Cancelled"}

\* The task of a run: its engine, where it is, its RunContext, the flow run it
\* was invoked for, how its tools spawn agents, and the run that waits for it.
Driver == [engine : {"chat", "session", "agent", "node", "child"},
           pc : {"none", "load", "loop", "turn", "waits", "done"},
           ctx : RunContext,
           spawns : {"bound", "free", "notified", "none"},
           caller : {0} \cup RunIds, task : {"none", "Running", "Failed"}]

NoRunContext == [flow |-> NoFlow, chan |-> <<1, Own>>, session |-> NoSession]
Unstarted == [engine |-> "chat", pc |-> "none", ctx |-> NoRunContext,
              spawns |-> "none", caller |-> 0, task |-> "none"]

RouteTypeOK ==
    /\ runs \in [RunIds -> [status : RunStatusSet, session : SessionIds]]
    /\ drivers \in [RunIds -> Driver]
    /\ activated \in BOOLEAN /\ opened \in BOOLEAN /\ restarted \in BOOLEAN
    /\ flows \in [FlowRuns -> [exists : BOOLEAN, origin : SessionIds]]
    /\ notify \in [FlowRuns -> SessionIds]
    /\ bound \in [FlowRuns -> SessionIds]
    /\ channels \in [Chans -> Seq(FlowRuns \cup {Unnamed, NoFlow})]
    /\ starts \in 0..MaxStarts /\ docs \in 0..MaxDocs /\ fault \in {"cancel", "extension", "restart"}

RouteInit ==
    /\ runs = [r \in RunIds |-> [status |-> "absent", session |-> NoSession]]
    /\ drivers = [r \in RunIds |-> Unstarted]
    /\ activated = TRUE /\ opened = FALSE /\ restarted = FALSE
    /\ flows = [f \in FlowRuns |-> [exists |-> FALSE, origin |-> NoSession]]
    /\ notify = [f \in FlowRuns |-> NoSession] /\ bound = notify
    /\ channels = [c \in Chans |-> <<>>]
    /\ starts = 0 /\ docs = 0
    /\ fault \in {"cancel", "extension", "restart"}

-----------------------------------------------------------------------------
(* Starting runs and their tasks                                           *)

Unused == {r \in RunIds : runs[r].status = "absent"}
NextId == CHOOSE r \in Unused : \A k \in Unused : r <= k

\* start_run_with_session and tokio::spawn, for the drivers in ds in turn: as
\* many as there are ids for.
Started(ds) ==
    LET first == IF Unused = {} THEN MaxRuns + 1 ELSE NextId
        made(r) == r \in first..(first + Len(ds) - 1)
    IN  /\ runs' = [r \in RunIds |-> IF made(r) THEN [status |-> "Pending", session |-> ds[r - first + 1][2]] ELSE runs[r]]
        /\ drivers' = [r \in RunIds |-> IF made(r) THEN ds[r - first + 1][1] ELSE drivers[r]]

\* AgentRunner::spawn_agent.  The flow run its caller names is not used: the
\* agent works for the flow run of the context it is given.
spawn_agent(ctx) == <<[Unstarted EXCEPT !.engine = "agent", !.pc = "load", !.ctx = ctx], ctx.session>>
\* AgentRunner::spawn_chat.
spawn_chat(ctx, session) == <<[Unstarted EXCEPT !.pc = "load", !.ctx = ctx, !.spawns = "notified"], session>>
\* The task handle_start_run leaves behind.
spawn_turn(ctx, spawns, session) == <<[Unstarted EXCEPT !.pc = "load", !.ctx = ctx, !.spawns = spawns], session>>

\* The context an agent of flow run f gets from a tool of the chat r.  A chat
\* without a flow makes a channel and a supervision task for each flow run; a
\* chat with one, and a notification's chat, pass their own context on.
SpawnContext(r, f, tool) ==
    CASE drivers[r].spawns = "free" -> [flow |-> f, chan |-> <<r, f>>, session |-> runs[r].session]
      [] drivers[r].spawns = "bound" /\ tool = "invoke_flow" ->
            [drivers[r].ctx EXCEPT !.flow = f, !.session = runs[r].session]
      [] OTHER -> drivers[r].ctx

MayStartRun == starts < MaxStarts /\ Unused # {} /\ starts' = starts + 1

\* The picked provider's extension is not activated: refused before a run
\* exists.
StartRefused ==
    /\ starts < MaxStarts /\ ~activated /\ starts' = starts + 1
    /\ UNCHANGED <<runs, drivers, activated, flows, notify, bound, opened, channels, docs, restarted, fault>>

\* An extension provider was picked: no flow is looked at.
StartSession(session) ==
    /\ MayStartRun /\ activated
    /\ Started(<<<<[Unstarted EXCEPT !.engine = "session", !.pc = "turn"], session>>>>)
    /\ UNCHANGED <<activated, flows, notify, bound, opened, channels, docs, restarted, fault>>

\* No flow in the request.  The chat that makes the FlowRuntime restores the
\* sessions of the flow runs it found on disk.
seed_flow_sessions ==
    [f \in FlowRuns |-> IF bound[f] = NoSession /\ flows[f].exists THEN flows[f].origin ELSE bound[f]]
StartChat(session) ==
    /\ MayStartRun
    /\ Started(<<spawn_turn([flow |-> NoFlow, chan |-> <<NextId, Own>>, session |-> session], "free", session)>>)
    /\ opened' = TRUE /\ bound' = IF opened THEN bound ELSE seed_flow_sessions
    /\ UNCHANGED <<activated, flows, notify, channels, docs, restarted, fault>>

\* The request names a flow: a flow run is started and its entry agents are
\* spawned before the chat.
register_chat_session(f, session) ==
    /\ flows' = [flows EXCEPT ![f] = [exists |-> TRUE, origin |-> session]]
    /\ notify' = [notify EXCEPT ![f] = session]
bind_session(f, session) == bound' = [bound EXCEPT ![f] = IF session = NoSession THEN @ ELSE session]
StartFlowChat(f, session, child) ==
    /\ MayStartRun /\ ~flows[f].exists
    /\ LET thread == IF child # NoSession THEN child ELSE session
           ctx == [flow |-> f, chan |-> <<NextId, Own>>, session |-> thread]
       IN  Started(<<spawn_turn(ctx, "bound", session), spawn_agent(ctx)>>) /\ bind_session(f, thread)
    /\ register_chat_session(f, session) /\ opened' = TRUE
    /\ UNCHANGED <<activated, channels, docs, restarted, fault>>

\* FlowRuntime::start_run failed: the run is failed and the request too.
StartFlowFails(session) ==
    /\ MayStartRun /\ opened' = TRUE
    /\ runs' = [runs EXCEPT ![NextId] = [status |-> "Failed", session |-> session]]
    /\ drivers' = [drivers EXCEPT ![NextId].pc = "done"]
    /\ UNCHANGED <<activated, flows, notify, bound, channels, docs, restarted, fault>>

\* The flow has no definition: the chat goes on with the empty flow run id.
StartWithoutDefinition(session) ==
    /\ MayStartRun /\ opened' = TRUE
    /\ Started(<<spawn_turn([flow |-> Unnamed, chan |-> <<NextId, Own>>, session |-> session], "bound", session)>>)
    /\ UNCHANGED <<activated, flows, notify, bound, channels, docs, restarted, fault>>

\* Requests that only look at flow runs make the FlowRuntime too, and do not
\* restore the sessions.
LookAtFlows ==
    /\ ~opened /\ opened' = TRUE
    /\ UNCHANGED <<runs, drivers, activated, flows, notify, bound, channels, starts, docs, restarted, fault>>

ExtensionToggles ==
    /\ fault = "extension" /\ activated' = ~activated
    /\ UNCHANGED <<runs, drivers, flows, notify, bound, opened, channels, starts, docs, restarted, fault>>

-----------------------------------------------------------------------------
(* The tasks                                                               *)

\* complete_run and fail_run leave a run that has ended alone.
EndRun(r, status) == runs' = [runs EXCEPT ![r].status = IF @ \in Ended THEN @ ELSE status]

\* The task is over; a run that waits for its result goes on.
TaskEnds(r) ==
    drivers' = [k \in RunIds |-> IF k = r THEN [drivers[k] EXCEPT !.pc = "done"]
                                 ELSE IF k = drivers[r].caller THEN [drivers[k] EXCEPT !.pc = "loop"]
                                 ELSE drivers[k]]
NoMessages == UNCHANGED <<activated, flows, notify, bound, opened, channels, starts, docs, restarted, fault>>

\* The provider of the model cannot be built.
MPrologueStops(r) ==
    /\ drivers[r].pc = "load" /\ TaskEnds(r)
    /\ UNCHANGED runs /\ NoMessages
PrologueStops(r) ==
    /\ drivers[r].pc = "load" /\ EndRun(r, "Failed") /\ TaskEnds(r)
    /\ NoMessages

\* An agent whose definition names a provider is driven by the extension; one
\* that cannot be, a reviewer included, fails.
resolve_agent_provider(r) ==
    /\ drivers[r].pc = "load" /\ drivers[r].engine = "agent" /\ activated
    /\ drivers' = [drivers EXCEPT ![r].engine = "node", ![r].pc = "turn"]
    /\ UNCHANGED runs /\ NoMessages
ProviderUnusable(r) ==
    /\ drivers[r].pc = "load" /\ drivers[r].engine = "agent"
    /\ EndRun(r, "Failed") /\ TaskEnds(r)
    /\ NoMessages

\* ReactLoop::run begins: a run that was cancelled meanwhile ends the task.
LoopBegins(r) ==
    /\ drivers[r].pc = "load"
    /\ IF runs[r].status \in Ended
       THEN TaskEnds(r) /\ UNCHANGED runs
       ELSE /\ drivers' = [drivers EXCEPT ![r].pc = "loop"]
            /\ runs' = [runs EXCEPT ![r].status = "Running"]
    /\ NoMessages

\* The loop returns, or fails and the safety net of the runner ends the run.
LoopEnds(r, status) ==
    /\ drivers[r].pc = "loop" /\ EndRun(r, status) /\ TaskEnds(r)
    /\ NoMessages

\* run_extension_turn ends; a chat's session has no document to submit.
SessionEnds(r, status) ==
    /\ drivers[r].pc = "turn" /\ drivers[r].engine = "session"
    /\ EndRun(r, status) /\ TaskEnds(r)
    /\ NoMessages

CancelRun(r) ==
    /\ fault = "cancel" /\ runs[r].status \in {"Pending", "Running", "Paused"}
    /\ runs' = [runs EXCEPT ![r].status = "Cancelled"]
    /\ UNCHANGED drivers /\ NoMessages

\* A document names the flow run of the sender's context.
Send(ctx) ==
    /\ docs < MaxDocs /\ docs' = docs + 1
    /\ channels' = [channels EXCEPT ![ctx.chan] = Append(@, ctx.flow)]

\* submit_document, of an agent or of the chat that has a flow.
SubmitDoc(r) ==
    /\ drivers[r].pc = "loop"
    /\ drivers[r].engine = "agent" \/ drivers[r].spawns = "bound"
    /\ Send(drivers[r].ctx)
    /\ UNCHANGED <<runs, drivers, activated, flows, notify, bound, opened, starts, restarted, fault>>

\* drive_extension_flow_agent: the reply is the document of the first pending
\* port; without one, or on an error, nothing is sent.
NodeSubmits(r) ==
    /\ drivers[r].pc = "turn" /\ drivers[r].engine = "node"
    /\ Send(drivers[r].ctx)
    /\ EndRun(r, "Succeeded") /\ TaskEnds(r)
    /\ UNCHANGED <<activated, flows, notify, bound, opened, starts, restarted, fault>>
NodeEnds(r, status) ==
    /\ drivers[r].pc = "turn" /\ drivers[r].engine = "node"
    /\ EndRun(r, status) /\ TaskEnds(r)
    /\ NoMessages

\* flow_submit_review of a reviewer agent: the agents of the outcome get its
\* own context.
SubmitReview(r) ==
    /\ drivers[r].pc = "loop" /\ drivers[r].engine = "agent" /\ drivers[r].ctx.flow \in FlowRuns
    /\ Started(<<spawn_agent(drivers[r].ctx)>>)
    /\ NoMessages

-----------------------------------------------------------------------------
(* The tools of a chat                                                     *)

InChat(r) == drivers[r].pc = "loop" /\ drivers[r].spawns # "none"

\* flow_start binds no session in the authority; a chat without a session
\* registers the empty one.
flow_start(r, f) ==
    /\ InChat(r) /\ ~flows[f].exists
    /\ register_chat_session(f, IF runs[r].session = NoSession THEN "" ELSE runs[r].session)
    /\ UNCHANGED bound
    /\ Started(<<spawn_agent(SpawnContext(r, f, "flow_start"))>>)
    /\ UNCHANGED <<activated, opened, channels, starts, docs, restarted, fault>>

\* flow_approve and flow_request_changes, of any flow run the user names.
flow_approve(r, f) ==
    /\ InChat(r) /\ flows[f].exists
    /\ Started(<<spawn_agent(SpawnContext(r, f, "flow_approve"))>>)
    /\ NoMessages

\* invoke_agent: the loop waits for the child's oneshot.  A child that cannot
\* be started answers at once.  Nothing completes the task in the tree.
Waiting(r, c) == [drivers EXCEPT ![r].pc = "waits", ![r].task = "Running",
                    ![c] = [Unstarted EXCEPT !.engine = "child", !.pc = "load", !.caller = r,
                                             !.ctx = [drivers[r].ctx EXCEPT !.flow = NoFlow]]]
invoke_agent(r) ==
    /\ InChat(r) /\ Unused # {}
    /\ runs' = [runs EXCEPT ![NextId] = [status |-> "Pending", session |-> runs[r].session]]
    /\ drivers' = Waiting(r, NextId)
    /\ NoMessages
InvokeAgentFails(r) ==
    /\ InChat(r) /\ Unused = {} /\ drivers[r].task = "none"
    /\ drivers' = [drivers EXCEPT ![r].task = "Running"]
    /\ UNCHANGED runs /\ NoMessages

\* invoke_flow: the loop waits for a poll that ends when the flow run is
\* terminal, which no caller makes it.
invoke_flow(r, f) ==
    /\ InChat(r) /\ ~flows[f].exists /\ Unused # {}
    /\ LET session == IF drivers[r].spawns = "notified" THEN NoSession ELSE drivers[r].ctx.session
           entry == spawn_agent(SpawnContext(r, f, "invoke_flow"))
       IN  /\ register_chat_session(f, session) /\ bind_session(f, session)
           /\ runs' = [runs EXCEPT ![NextId] = [status |-> "Pending", session |-> entry[2]]]
           /\ drivers' = [drivers EXCEPT ![r].pc = "waits", ![r].task = "Running", ![NextId] = entry[1]]
    /\ UNCHANGED <<activated, opened, channels, starts, docs, restarted, fault>>
InvokeFlowFails(r) ==
    /\ InChat(r) /\ drivers[r].task = "none"
    /\ drivers' = [drivers EXCEPT ![r].task = "Failed"]
    /\ UNCHANGED runs /\ NoMessages

-----------------------------------------------------------------------------
(* The supervision tasks                                                   *)

\* The flow run a channel is supervised for, and the run id that the document
\* d is processed with.
Supervised(c) == IF c[2] = Own THEN drivers[c[1]].ctx.flow ELSE c[2]
RunIdOf(c, d) == IF c[2] = Own THEN Supervised(c) ELSE d

Taken1(c) == channels' = [channels EXCEPT ![c] = Tail(@)]

\* The flow's definition cannot be loaded: the document is dropped.
DropDocument(c) ==
    /\ channels[c] # <<>> /\ Supervised(c) \notin FlowRuns /\ Taken1(c)
    /\ UNCHANGED <<runs, drivers, activated, flows, notify, bound, opened, starts, docs, restarted, fault>>

\* on_document_submitted, then what it asks for: nothing, an agent, or a
\* person.  A person is told by an event, or by a chat turn in the session
\* that started the flow run.
Process(c) ==
    /\ channels[c] # <<>> /\ Supervised(c) \in FlowRuns
    /\ Taken1(c)
    /\ UNCHANGED <<activated, flows, notify, opened, starts, docs, restarted, fault>>
SupervisedContext(c) == IF c[2] = Own THEN drivers[c[1]].ctx
                        ELSE [flow |-> c[2], chan |-> c, session |-> runs[c[1]].session]
ReceiveQuietly(c) == Process(c) /\ UNCHANGED <<runs, drivers, bound>>
ReceiveInvokes(c) ==
    /\ Process(c) /\ UNCHANGED bound
    /\ Started(<<spawn_agent(SupervisedContext(c))>>)
ReceiveNotifies(c) ==
    /\ c[2] # Own /\ notify[c[2]] # NoSession
    /\ Process(c)
    /\ Started(<<spawn_chat(SupervisedContext(c), notify[c[2]])>>)
    /\ bound' = IF Unused = {} THEN bound ELSE [bound EXCEPT ![c[2]] = notify[c[2]]]

\* The process stops and starts again: tasks, channels and both session maps
\* are gone, unfinished runs are paused, and a session id that was not yet
\* written with its flow run is lost.
Restart1(lost) ==
    /\ fault = "restart" /\ ~restarted /\ restarted' = TRUE
    /\ runs' = [r \in RunIds |-> [runs[r] EXCEPT !.status = IF @ \in {"Pending", "Running"} THEN "Paused" ELSE @]]
    /\ drivers' = [r \in RunIds |-> IF drivers[r].pc = "none" THEN Unstarted ELSE [drivers[r] EXCEPT !.pc = "done"]]
    /\ flows' = [f \in FlowRuns |-> IF f \in lost THEN [flows[f] EXCEPT !.origin = NoSession] ELSE flows[f]]
    /\ notify' = [f \in FlowRuns |-> NoSession] /\ bound' = [f \in FlowRuns |-> NoSession]
    /\ opened' = FALSE /\ channels' = [c \in Chans |-> <<>>]
    /\ UNCHANGED <<activated, starts, docs, fault>>

-----------------------------------------------------------------------------
TaskStep(r) ==
    \/ PrologueStops(r) \/ resolve_agent_provider(r) \/ ProviderUnusable(r) \/ LoopBegins(r)
    \/ \E s \in {"Succeeded", "Failed"} : LoopEnds(r, s) \/ SessionEnds(r, s) \/ NodeEnds(r, s)
    \/ CancelRun(r) \/ SubmitDoc(r) \/ NodeSubmits(r) \/ SubmitReview(r)
    \/ invoke_agent(r) \/ InvokeAgentFails(r) \/ InvokeFlowFails(r)
    \/ \E f \in FlowRuns : flow_start(r, f) \/ flow_approve(r, f) \/ invoke_flow(r, f)

RouteNext ==
    \/ \E r \in RunIds : TaskStep(r)
    \/ \E s \in Sessions \cup {NoSession} :
          \/ StartSession(s) \/ StartChat(s) \/ StartFlowFails(s) \/ StartWithoutDefinition(s)
          \/ \E f \in FlowRuns, child \in Sessions \cup {NoSession} : StartFlowChat(f, s, child)
    \/ StartRefused \/ LookAtFlows \/ ExtensionToggles
    \/ \E c \in Chans : DropDocument(c) \/ ReceiveQuietly(c) \/ ReceiveInvokes(c) \/ ReceiveNotifies(c)
    \/ \E lost \in SUBSET {f \in FlowRuns : flows[f].origin # NoSession} : Restart1(lost)

RouteSpec == RouteInit /\ [][RouteNext]_routeVars

-----------------------------------------------------------------------------
(* Properties                                                              *)

\* Whatever engine a run got and whatever failed on the way (a provider that
\* is gone, a model that cannot be built, a cancellation), a run that is
\* Pending or Running has a live task, and the supervisor a live child answers
\* to still waits for it (handle_start_run, spawn_agent, spawn_chat,
\* invoke_agent, drive_extension_flow_agent).
NoStrandedRun ==
    \A r \in RunIds :
        /\ runs[r].status \in {"Pending", "Running"} => drivers[r].pc \notin {"none", "done"}
        /\ drivers[r].caller # 0 /\ drivers[r].pc # "done" => drivers[drivers[r].caller].pc = "waits"

=============================================================================
