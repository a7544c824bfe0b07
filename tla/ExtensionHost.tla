---------------------------- MODULE ExtensionHost ----------------------------
(***************************************************************************)
(* Activation, deactivation and crash recovery of one installed extension  *)
(* (extensions/runtime.rs), with its Node host processes (host/node.rs),   *)
(* the connection of each host (rpc/connection.rs), its entry in the       *)
(* registry (registry.rs) and one agent session it drives (api/agents.rs,  *)
(* runtime/ext_dispatch.rs).                                               *)
(*                                                                         *)
(* Control requests of the desktop shell are handled one after another     *)
(* (protocol/dispatch.rs awaits each handler), so they form one task,      *)
(* "ui".  The activation at startup is a task of its own, "boot", and      *)
(* every host has a supervisor, the task named after the host.  A task     *)
(* gives way at each await and between the locks that matter; `pc` names   *)
(* the section it will run next.                                           *)
(***************************************************************************)
EXTENDS Naturals, Sequences, FiniteSets

CONSTANTS Hosts,        \* the host processes that can be spawned
          None,
          max_restarts, \* the crash budget (set_max_restarts)
          Worlds,       \* the circumstances behaviours may meet, see faults
          MaxOps(_),    \* bound on the control requests of the shell, and
          MaxHosts(_)   \* on the processes, in each of these circumstances

ASSUME HostAssumption == /\ max_restarts \in Nat
                         /\ \A w \in Worlds : MaxOps(w) \in Nat /\ MaxHosts(w) \in Nat
                         /\ None \notin Hosts /\ Hosts \cap {"boot", "ui"} = {}

VARIABLES
    reg,                  \* the registry entry: absent, enabled, disabled, crashed
    activated,            \* LifecycleState::activated
    ingested,             \* contributions, renderers and event capabilities
    provider,             \* the host that registered the agent provider
    handle,               \* RuntimeState::handles: the live host
    host,                 \* the processes, see HostRecord
    events,               \* the crash-signal channel of each host
    restart_count,        \* restart_counts
    restart_in_progress,
    task,                 \* [pc, host, next] of every task
    session,              \* an agent run driven by the extension
    ops,                  \* control requests sent so far
    respawns,             \* history: respawns begun since the last activation
    carried,              \* history: recoveries under way when it began, 0 or 1
    faults                \* the circumstances of this behaviour: "startup" (the
                          \* extension is activated at startup), "hang" (hosts
                          \* may hang), "session" (it provides an agent)

vars == <<reg, activated, ingested, provider, handle, host, events, restart_count,
          restart_in_progress, task, session, ops, respawns, carried, faults>>

registries == <<reg, activated, ingested, provider>>
recovery   == <<restart_count, restart_in_progress, respawns, carried>>

Users == {"boot", "ui"}
Tasks == Users \cup Hosts

UserSections == {"reconcileOn", "reconcileOff", "activate", "ingest", "mark",
                 "rollback", "stopFailed", "uninstall", "remove"}
SupervisorSections == {"count", "backoff", "stopStale", "reload", "crashDisable", "release"}
SharedSections == {"idle", "spawn", "handshake", "deactivate", "bye", "clean", "stop"}
Sections == UserSections \cup SupervisorSections \cup SharedSections \cup {"panicked"}

\* st: the process; reading: the task that reads its socket; watched: the exit
\* watcher has not reported yet; monitored: the health monitor is running.
HostRecord == [st : {"unborn", "up", "hung", "dead"}, intentional : BOOLEAN,
               reading : BOOLEAN, watched : BOOLEAN, monitored : BOOLEAN]

Unborn == [st |-> "unborn", intentional |-> FALSE, reading |-> FALSE,
           watched |-> FALSE, monitored |-> FALSE]
Spawned == [st |-> "up", intentional |-> FALSE, reading |-> TRUE,
            watched |-> TRUE, monitored |-> TRUE]

NoSession == [pc |-> "none", host |-> None, sink |-> FALSE, prompt |-> "none"]

TypeOK ==
    /\ reg \in {"absent", "enabled", "disabled", "crashed"}
    /\ activated \in BOOLEAN /\ ingested \in BOOLEAN
    /\ provider \in Hosts \cup {None} /\ handle \in Hosts \cup {None}
    /\ host \in [Hosts -> HostRecord]
    /\ events \in [Hosts -> Seq({"crashed", "hung"})]
    /\ restart_count \in 0..(max_restarts + 1) /\ restart_in_progress \in BOOLEAN
    /\ task \in [Tasks -> [pc : Sections, host : Hosts \cup {None}, next : Sections]]
    /\ session \in [pc : {"none", "streaming", "joining", "over"}, host : Hosts \cup {None},
                    sink : BOOLEAN, prompt : {"none", "pending", "answered", "failed"}]
    /\ ops \in 0..MaxOps(faults) /\ respawns \in Nat /\ carried \in {0, 1} /\ faults \in Worlds

Init ==
    /\ faults \in Worlds
    /\ reg = IF "startup" \in faults THEN "enabled" ELSE "disabled"
    /\ activated = FALSE /\ ingested = FALSE /\ provider = None /\ handle = None
    /\ host = [h \in Hosts |-> Unborn]
    /\ events = [h \in Hosts |-> <<>>]
    /\ restart_count = 0 /\ restart_in_progress = FALSE
    /\ task = [t \in Tasks |-> [pc |-> IF t = "boot" /\ "startup" \in faults
                                       THEN "activate" ELSE "idle",
                                host |-> None, next |-> "idle"]]
    /\ session = NoSession /\ ops = 0 /\ respawns = 0 /\ carried = 0

-----------------------------------------------------------------------------
(* Steps of a task, and what happens to a host.                            *)

At(t, pc) == task[t].pc = pc
Goto(t, pc) == task' = [task EXCEPT ![t].pc = pc]
GotoWith(t, pc, h) == task' = [task EXCEPT ![t].pc = pc, ![t].host = h]
Call(t, pc, next) == task' = [task EXCEPT ![t].pc = pc, ![t].next = next]

Up(h) == host[h].st = "up"
Running(h) == host[h].st \in {"up", "hung"}

\* NodeHost::shutdown, and the Drop of the last handle: the death is marked
\* intentional, so that the exit watcher and the health monitor report nothing
\* from now on, and the process is killed.  Only shutdown aborts the reader.
Silenced(r) == [st |-> "dead", intentional |-> TRUE, reading |-> r.reading,
                watched |-> FALSE, monitored |-> FALSE]
Shutdown(h) == [host EXCEPT ![h] = [Silenced(@) EXCEPT !.reading = FALSE]]
MDropped(hs, h) == hs
Dropped(hs, h) == IF h = None THEN hs ELSE [hs EXCEPT ![h] = Silenced(@)]

\* The connection's reader meets the end of the stream and fails what is pending.
Answered(h) == Up(h) /\ host[h].reading
MFailed(h) == FALSE

Failed(h) == host[h].st = "dead" /\ host[h].reading

-----------------------------------------------------------------------------
(* Control requests, and the activation at startup.                        *)

Request == At("ui", "idle") /\ ops < MaxOps(faults) /\ ops' = ops + 1

\* install_from, then activate_default
Install ==
    /\ Request /\ reg = "absent"
    /\ reg' = "enabled"
    /\ Goto("ui", "activate")
    /\ UNCHANGED <<activated, ingested, provider, handle, host, events, recovery, session, faults>>

\* set_enabled: the flag first, the reconciliation under another lock
SetEnabled(enabled) ==
    /\ Request /\ reg # "absent"
    /\ reg' = IF enabled THEN "enabled" ELSE IF reg = "crashed" THEN "crashed" ELSE "disabled"
    /\ Goto("ui", IF enabled THEN "reconcileOn" ELSE "reconcileOff")
    /\ UNCHANGED <<activated, ingested, provider, handle, host, events, recovery, session, faults>>

Reconcile(t) ==
    /\ \/ At(t, "reconcileOn") /\ Goto(t, IF activated THEN "idle" ELSE "activate")
       \/ At(t, "reconcileOff") /\ IF activated THEN Call(t, "deactivate", "idle") ELSE Goto(t, "idle")
    /\ UNCHANGED <<registries, handle, host, events, recovery, session, ops, faults>>

RequestUninstall ==
    /\ Request /\ IF activated THEN Call("ui", "deactivate", "remove") ELSE Goto("ui", "remove")
    /\ UNCHANGED <<registries, handle, host, events, recovery, session, faults>>

RequestDeactivate ==
    /\ Request /\ Call("ui", "deactivate", "idle")
    /\ UNCHANGED <<registries, handle, host, events, recovery, session, faults>>

Remove(t) ==
    /\ At(t, "remove")
    /\ reg' = "absent" /\ Goto(t, "idle")
    /\ UNCHANGED <<activated, ingested, provider, handle, host, events, recovery, session, ops, faults>>

-----------------------------------------------------------------------------
(* activate, and the part of it that respawn shares.                       *)

Activate(t) ==
    /\ At(t, "activate")
    /\ Goto(t, IF reg = "enabled" THEN "ingest" ELSE "idle")
    /\ UNCHANGED <<registries, handle, host, events, recovery, session, ops, faults>>

Ingest(t) ==
    /\ At(t, "ingest")
    /\ IF activated
       THEN Goto(t, "idle") /\ UNCHANGED <<ingested, restart_count, respawns, carried>>
       ELSE /\ restart_count' = 0 /\ ingested' = TRUE
            /\ respawns' = 0 /\ carried' = IF restart_in_progress THEN 1 ELSE 0
            /\ Goto(t, "spawn")
    /\ UNCHANGED <<reg, activated, provider, handle, host, events, restart_in_progress, session, ops, faults>>

\* The process is started and its handle replaces the one in the map.
Spawn(t) ==
    /\ At(t, "spawn")
    /\ LET spare == {n \in Hosts : host[n].st = "unborn"}
           h == CHOOSE n \in spare : TRUE
       IN
        /\ spare # {} /\ Cardinality(Hosts \ spare) < MaxHosts(faults)
        /\ host' = Dropped([host EXCEPT ![h] = Spawned], handle)
        /\ handle' = h /\ GotoWith(t, "handshake", h)
    /\ UNCHANGED <<registries, events, recovery, session, ops, faults>>

\* Error paths of activate (roll back) and of respawn (disable).
GiveUp(t) == IF t \in Hosts THEN Call(t, "deactivate", "crashDisable") ELSE Goto(t, "rollback")

SpawnFails(t) ==
    /\ At(t, "spawn")
    /\ GiveUp(t)
    /\ UNCHANGED <<registries, handle, host, events, recovery, session, ops, faults>>

\* extension/activate is awaited with no timeout.
Handshake(t) ==
    /\ At(t, "handshake")
    /\ \/ Answered(task[t].host) /\ Goto(t, IF t \in Hosts THEN "release" ELSE "mark")
       \/ (Answered(task[t].host) \/ Failed(task[t].host)) /\ GiveUp(t)
    /\ UNCHANGED <<registries, handle, host, events, recovery, session, ops, faults>>

Mark(t) ==
    /\ At(t, "mark")
    /\ activated' = TRUE
    /\ Goto(t, IF activated THEN "panicked" ELSE "idle")
    /\ UNCHANGED <<reg, ingested, provider, handle, host, events, recovery, session, ops, faults>>

\* rollback_failed_activate
Rollback(t) ==
    /\ At(t, "rollback")
    /\ handle' = None /\ ingested' = FALSE /\ provider' = None
    /\ IF handle = None THEN Goto(t, "idle") ELSE GotoWith(t, "stopFailed", handle)
    /\ UNCHANGED <<reg, activated, host, events, recovery, session, ops, faults>>

StopFailed(t) ==
    /\ At(t, "stopFailed")
    /\ host' = Shutdown(task[t].host) /\ GotoWith(t, "idle", None)
    /\ UNCHANGED <<registries, handle, events, recovery, session, ops, faults>>

-----------------------------------------------------------------------------
(* deactivate                                                              *)

\* The lifecycle bit goes first, the agent sessions are severed, the handle
\* leaves the map.
Deactivate(t) ==
    /\ At(t, "deactivate")
    /\ IF activated
       THEN /\ activated' = FALSE /\ handle' = None
            /\ session' = [session EXCEPT !.sink = FALSE]
            /\ GotoWith(t, IF handle = None THEN "clean" ELSE "bye", handle)
       ELSE Goto(t, task[t].next) /\ UNCHANGED <<activated, handle, session>>
    /\ UNCHANGED <<reg, ingested, provider, host, events, recovery, ops, faults>>

\* extension/deactivate is awaited with no timeout; its outcome is ignored.
Bye(t) ==
    /\ At(t, "bye")
    /\ Up(task[t].host) \/ host[task[t].host].st = "dead"
    /\ Goto(t, "clean")
    /\ UNCHANGED <<registries, handle, host, events, recovery, session, ops, faults>>

Clean(t) ==
    /\ At(t, "clean")
    /\ ingested' = FALSE /\ provider' = None
    /\ Goto(t, IF task[t].host = None THEN task[t].next ELSE "stop")
    /\ UNCHANGED <<reg, activated, handle, host, events, recovery, session, ops, faults>>

Stop(t) ==
    /\ At(t, "stop")
    /\ host' = Shutdown(task[t].host) /\ GotoWith(t, task[t].next, None)
    /\ UNCHANGED <<registries, handle, events, recovery, session, ops, faults>>

-----------------------------------------------------------------------------
(* The supervisor of a host and the recovery from a crash.                 *)

\* on_host_crashed
Supervise(h) ==
    /\ At(h, "idle") /\ events[h] # <<>>
    /\ events' = [events EXCEPT ![h] = Tail(@)]
    /\ IF activated /\ ~restart_in_progress
       THEN restart_in_progress' = TRUE /\ Goto(h, "count")
       ELSE UNCHANGED <<restart_in_progress, task>>
    /\ UNCHANGED <<registries, handle, host, restart_count, respawns, carried, session, ops, faults>>

MCount(h) ==
    /\ At(h, "count")
    /\ restart_count' = restart_count + 1
    /\ IF restart_count > max_restarts
       THEN Call(h, "deactivate", "crashDisable")
       ELSE Goto(h, "backoff")
    /\ UNCHANGED <<registries, handle, host, events, restart_in_progress, respawns, carried, session, ops, faults>>

\* try_restart: over the budget the extension is disabled
Count(h) ==
    /\ At(h, "count")
    /\ restart_count' = restart_count + 1
    /\ IF restart_count' > max_restarts
       THEN Call(h, "deactivate", "crashDisable")
       ELSE Goto(h, "backoff")
    /\ UNCHANGED <<registries, handle, host, events, restart_in_progress, respawns, carried, session, ops, faults>>

\* try_restart after the backoff: a disable meanwhile wins; respawn takes the
\* stale handle out of the map.
Backoff(h) ==
    /\ At(h, "backoff")
    /\ IF ~activated
       THEN Goto(h, "release") /\ UNCHANGED <<handle, respawns>>
       ELSE /\ handle' = None /\ respawns' = respawns + 1
            /\ GotoWith(h, IF handle = None THEN "reload" ELSE "stopStale", handle)
    /\ UNCHANGED <<registries, host, events, restart_count, restart_in_progress, carried, session, ops, faults>>

StopStale(h) ==
    /\ At(h, "stopStale")
    /\ host' = Shutdown(task[h].host) /\ GotoWith(h, "reload", None)
    /\ UNCHANGED <<registries, handle, events, recovery, session, ops, faults>>

\* respawn: the registrations of the old host, then the registry entry
Reload(h) ==
    /\ At(h, "reload")
    /\ provider' = None
    /\ IF reg = "absent" THEN GiveUp(h) ELSE Goto(h, "spawn")
    /\ UNCHANGED <<reg, activated, ingested, handle, host, events, recovery, session, ops, faults>>

\* disable_after_crash, after its deactivate
CrashDisable(h) ==
    /\ At(h, "crashDisable")
    /\ reg' = IF reg = "absent" THEN reg ELSE "crashed"
    /\ restart_count' = 0
    /\ Goto(h, "release")
    /\ UNCHANGED <<activated, ingested, provider, handle, host, events, restart_in_progress, respawns, carried, session, ops, faults>>

Release(h) ==
    /\ At(h, "release")
    /\ restart_in_progress' = FALSE
    /\ GotoWith(h, "idle", None)
    /\ UNCHANGED <<registries, handle, host, events, restart_count, respawns, carried, session, ops, faults>>

-----------------------------------------------------------------------------
(* The host processes and what watches them.                               *)

Dies(h) ==
    /\ Running(h)
    /\ host' = [host EXCEPT ![h].st = "dead"]
    /\ UNCHANGED <<registries, handle, events, recovery, task, session, ops, faults>>

Hangs(h) ==
    /\ "hang" \in faults /\ Up(h)
    /\ host' = [host EXCEPT ![h].st = "hung"]
    /\ UNCHANGED <<registries, handle, events, recovery, task, session, ops, faults>>

\* The exit watcher of spawn
ExitWatch(h) ==
    /\ host[h].st = "dead" /\ host[h].watched
    /\ host' = [host EXCEPT ![h].watched = FALSE]
    /\ events' = [events EXCEPT ![h] = Append(@, "crashed")]
    /\ UNCHANGED <<registries, handle, recovery, task, session, ops, faults>>

\* The health monitor: a ping that fails or times out ends it.
PingFails(h) ==
    /\ host[h].monitored /\ host[h].st \in {"hung", "dead"}
    /\ host' = [host EXCEPT ![h].monitored = FALSE]
    /\ events' = [events EXCEPT ![h] = Append(@, "hung")]
    /\ UNCHANGED <<registries, handle, recovery, task, session, ops, faults>>

\* agents/registerProvider from the host (ExtensionApi has the registries' rules)
RegisterProvider(h) ==
    /\ "session" \in faults /\ Up(h) /\ host[h].reading
    /\ provider' = h
    /\ UNCHANGED <<reg, activated, ingested, handle, host, events, recovery, task, session, ops, faults>>

-----------------------------------------------------------------------------
(* An agent session (run_extension_turn).                                  *)

Prompt ==
    /\ "session" \in faults /\ session.pc = "none"
    /\ provider # None /\ handle # None /\ Up(handle)
    /\ session' = [pc |-> "streaming", host |-> handle, sink |-> TRUE, prompt |-> "pending"]
    /\ UNCHANGED <<registries, handle, host, events, recovery, task, ops, faults>>

\* The answer of session.prompt, or its failure at the end of the stream
PromptResolves ==
    /\ session.prompt = "pending"
    /\ \/ Answered(session.host) /\ session' = [session EXCEPT !.prompt = "answered"]
       \/ Failed(session.host) /\ session' = [session EXCEPT !.prompt = "failed"]
    /\ UNCHANGED <<registries, handle, host, events, recovery, task, ops, faults>>

\* agents/turn.done ends the event loop, and so does a severed sink.
StreamEnds ==
    /\ session.pc = "streaming"
    /\ ~session.sink \/ Answered(session.host)
    /\ session' = [session EXCEPT !.pc = "joining"]
    /\ UNCHANGED <<registries, handle, host, events, recovery, task, ops, faults>>

\* prompt_task.await, then the sink is unregistered and the session disposed
Join ==
    /\ session.pc = "joining" /\ session.prompt # "pending"
    /\ session' = [session EXCEPT !.pc = "over", !.sink = FALSE]
    /\ UNCHANGED <<registries, handle, host, events, recovery, task, ops, faults>>

-----------------------------------------------------------------------------
Finished == /\ \A t \in Tasks : task[t].pc \in {"idle", "panicked"}
            /\ ops = MaxOps(faults)
            /\ UNCHANGED vars

TaskStep(t) ==
    \/ Reconcile(t) \/ Activate(t) \/ Ingest(t) \/ Spawn(t) \/ SpawnFails(t) \/ Handshake(t) \/ Mark(t)
    \/ Rollback(t) \/ StopFailed(t) \/ Deactivate(t) \/ Bye(t) \/ Clean(t) \/ Stop(t) \/ Remove(t)

SupervisorStep(h) ==
    \/ TaskStep(h) \/ Supervise(h) \/ Count(h) \/ Backoff(h) \/ StopStale(h) \/ Reload(h)
    \/ CrashDisable(h) \/ Release(h)

HostStep(h) == ExitWatch(h) \/ PingFails(h)

SessionStep == PromptResolves \/ StreamEnds \/ Join

Next ==
    \/ Install \/ RequestUninstall \/ RequestDeactivate
    \/ \E enabled \in BOOLEAN : SetEnabled(enabled)
    \/ \E t \in Users : TaskStep(t)
    \/ \E h \in Hosts :
        \/ SupervisorStep(h) \/ HostStep(h)
        \/ Dies(h) \/ Hangs(h) \/ RegisterProvider(h)
    \/ Prompt \/ SessionStep
    \/ Finished

\* The runtime's scheduler is fair to every task.  What a control request can
\* wait for is its own task, the supervisors, and what watches the hosts.
Fairness ==
    /\ WF_vars(TaskStep("ui"))
    /\ \A h \in Hosts : WF_vars(SupervisorStep(h) \/ HostStep(h))

Spec == Init /\ [][Next]_vars /\ Fairness
-----------------------------------------------------------------------------
(* Properties                                                              *)

\* A running host process can always be reached: it is the one in the handle
\* map, or a task that is about to stop it or to drop it holds it.  Two
\* activations, a respawn and a deactivation may replace or remove the handle
\* in any order (activate, respawn, rollback_failed_activate, Drop of NodeHost).
NoLeakedHost ==
    \A h \in Hosts : Running(h) =>
        handle = h \/ \E t \in Tasks : task[t].host = h /\ task[t].pc \in {"bye", "clean", "stop", "stopFailed", "stopStale"}

\* Unless two activations overlap, between two of them the supervisors respawn
\* at most max_restarts times, although the counter is also cleared when a
\* crash disables the extension; and once more if a recovery was under way when
\* the second began, which takes the new host down (try_restart's check after
\* the backoff cannot tell the activations apart, disable_after_crash).
RestartBudget == "startup" \notin faults => respawns <= max_restarts + carried

\* Without a hang and without a second activation in flight, every control
\* request is answered, whatever crashes and recoveries run beside it; the
\* shell's whole connection waits for it (dispatch::run awaits the handler).
RequestsReturn ==
    faults \cap {"hang", "startup"} = {} => (task["ui"].pc # "idle" ~> task["ui"].pc = "idle")

=============================================================================
