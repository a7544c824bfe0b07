------------------------ MODULE ExtensionHost_proofs ------------------------
(***************************************************************************)
(* NoLeakedHost and RestartBudget for any number of host processes, any    *)
(* restart budget and any number of control requests.                      *)
(*                                                                         *)
(* NoLeakedHost is inductive by itself, given the types.  The budget rests *)
(* on restart_in_progress being a lock: at most one supervisor recovers at *)
(* a time (One), so the counter passes max_restarts only while that one is *)
(* on its way to disable the extension (Budget), and each respawn of an    *)
(* activation was counted in it, but for the recovery that was already     *)
(* under way when it began (Restarts).                                     *)
(***************************************************************************)
EXTENDS ExtensionHost, TLAPS

TaskRecord == [pc : Sections, host : Hosts \cup {None}, next : Sections]

Stopping == {"bye", "clean", "stop", "stopFailed", "stopStale"}
Disabling == {"deactivate", "bye", "clean", "stop", "crashDisable"}
Activating == {"spawn", "handshake", "mark"}

\* Which task runs which section, and where deactivate returns to.
Roles ==
    /\ \A t \in Users : /\ task[t].pc \in UserSections \cup SharedSections \cup {"panicked"}
                        /\ task[t].next \in {"idle", "remove"}
    /\ \A h \in Hosts : /\ task[h].pc \in SupervisorSections \cup SharedSections
                        /\ task[h].pc \in {"deactivate", "bye", "clean", "stop"} => task[h].next = "crashDisable"

One ==
    /\ \A h, g \in Hosts : task[h].pc # "idle" /\ task[g].pc # "idle" => h = g
    /\ \A h \in Hosts : task[h].pc # "idle" => restart_in_progress

Budget == restart_count > max_restarts => \E h \in Hosts : task[h].pc \in Disabling

\* Without the activation at startup only the shell's task activates.
Restarts ==
    /\ task["boot"].pc = "idle"
    /\ task["ui"].pc \in Activating =>
          /\ ~activated /\ respawns = 0
          /\ \A h \in Hosts : task[h].pc # "idle" => carried = 1
    /\ activated => /\ respawns <= restart_count + carried
                    /\ \A h \in Hosts : /\ task[h].pc = "backoff" => respawns + 1 <= restart_count + carried
                                        /\ task[h].pc \in Disabling \ {"deactivate"} => respawns = 0
    /\ respawns <= max_restarts + carried

HostInv ==
    /\ TypeOK /\ NoLeakedHost /\ Roles /\ One /\ Budget
    /\ "startup" \notin faults => Restarts

-----------------------------------------------------------------------------
(* What a step does to the tasks.                                          *)

Moved(t, p, h, n) ==
    /\ task' \in [Tasks -> TaskRecord]
    /\ task'[t].pc = p /\ task'[t].host = h /\ task'[t].next = n
    /\ \A u \in Tasks \ {t} : task'[u] = task[u]

\* Goto moves the task to another section, and nothing else.
LEMMA GotoMoves ==
    ASSUME TypeOK, NEW t \in Tasks, NEW p \in Sections, Goto(t, p)
    PROVE  Moved(t, p, task[t].host, task[t].next)
<1>1. task \in [Tasks -> TaskRecord]
  BY DEF TypeOK, TaskRecord
<1> DEFINE r == [pc |-> p, host |-> task[t].host, next |-> task[t].next]
<1>2. [task[t] EXCEPT !.pc = p] = r /\ r \in TaskRecord
  BY <1>1 DEF TaskRecord
<1>3. task' = [task EXCEPT ![t] = [task[t] EXCEPT !.pc = p]]
  BY <1>1 DEF Goto
<1>4. task' = [task EXCEPT ![t] = r]
  BY <1>2, <1>3
<1>5. r.pc = p /\ r.host = task[t].host /\ r.next = task[t].next
  OBVIOUS
<1> HIDE DEF r
<1>6. task'[t] = r /\ task' \in [Tasks -> TaskRecord] /\ \A u \in Tasks \ {t} : task'[u] = task[u]
  BY <1>1, <1>2, <1>4
<1> QED BY <1>5, <1>6 DEF Moved

\* The section and the host of a task change.
LEMMA HostField ==
    ASSUME NEW q \in TaskRecord, NEW p, NEW x
    PROVE  [q EXCEPT !.pc = p, !.host = x] = [pc |-> p, host |-> x, next |-> q.next]
<1> DEFINE s == [q EXCEPT !.pc = p]
<1>1. q = [pc |-> q.pc, host |-> q.host, next |-> q.next]
  BY DEF TaskRecord
<1>2. s = [pc |-> p, host |-> q.host, next |-> q.next]
  BY <1>1
<1>3. [q EXCEPT !.pc = p, !.host = x] = [s EXCEPT !.host = x]
  OBVIOUS
<1> HIDE DEF s
<1>4. [s EXCEPT !.host = x] = [pc |-> p, host |-> x, next |-> q.next]
  BY <1>2
<1> QED BY <1>3, <1>4

\* The section and the return section of a task change.
LEMMA NextField ==
    ASSUME NEW q \in TaskRecord, NEW p, NEW x
    PROVE  [q EXCEPT !.pc = p, !.next = x] = [pc |-> p, host |-> q.host, next |-> x]
<1> DEFINE s == [q EXCEPT !.pc = p]
<1>1. q = [pc |-> q.pc, host |-> q.host, next |-> q.next]
  BY DEF TaskRecord
<1>2. s = [pc |-> p, host |-> q.host, next |-> q.next]
  BY <1>1
<1>3. [q EXCEPT !.pc = p, !.next = x] = [s EXCEPT !.next = x]
  OBVIOUS
<1> HIDE DEF s
<1>4. [s EXCEPT !.next = x] = [pc |-> p, host |-> q.host, next |-> x]
  BY <1>2
<1> QED BY <1>3, <1>4

\* GotoWith also gives it a host to hold.
LEMMA GotoWithMoves ==
    ASSUME TypeOK, NEW t \in Tasks, NEW p \in Sections, NEW h \in Hosts \cup {None}, GotoWith(t, p, h)
    PROVE  Moved(t, p, h, task[t].next)
<1>1. task \in [Tasks -> TaskRecord] /\ task[t] \in TaskRecord
  BY DEF TypeOK, TaskRecord
<1> DEFINE r == [pc |-> p, host |-> h, next |-> task[t].next]
<1>2. [task[t] EXCEPT !.pc = p, !.host = h] = r
  BY <1>1, HostField
<1>3. r \in TaskRecord
  BY <1>1 DEF TaskRecord
<1>4. task' = [task EXCEPT ![t] = [task[t] EXCEPT !.pc = p, !.host = h]]
  BY <1>1 DEF GotoWith
<1>5. r.pc = p /\ r.host = h /\ r.next = task[t].next
  OBVIOUS
<1> HIDE DEF r
<1>6. task'[t] = r /\ task' \in [Tasks -> TaskRecord] /\ \A u \in Tasks \ {t} : task'[u] = task[u]
  BY <1>1, <1>2, <1>3, <1>4
<1> QED BY <1>5, <1>6 DEF Moved

\* Call leaves a section to return to.
LEMMA CallMoves ==
    ASSUME TypeOK, NEW t \in Tasks, NEW p \in Sections, NEW n \in Sections, Call(t, p, n)
    PROVE  Moved(t, p, task[t].host, n)
<1>1. task \in [Tasks -> TaskRecord] /\ task[t] \in TaskRecord
  BY DEF TypeOK, TaskRecord
<1> DEFINE r == [pc |-> p, host |-> task[t].host, next |-> n]
<1>2. [task[t] EXCEPT !.pc = p, !.next = n] = r
  BY <1>1, NextField
<1>3. r \in TaskRecord
  BY <1>1 DEF TaskRecord
<1>4. task' = [task EXCEPT ![t] = [task[t] EXCEPT !.pc = p, !.next = n]]
  BY <1>1 DEF Call
<1>5. r.pc = p /\ r.host = task[t].host /\ r.next = n
  OBVIOUS
<1> HIDE DEF r
<1>6. task'[t] = r /\ task' \in [Tasks -> TaskRecord] /\ \A u \in Tasks \ {t} : task'[u] = task[u]
  BY <1>1, <1>2, <1>3, <1>4
<1> QED BY <1>5, <1>6 DEF Moved

\* A host that is shut down or dropped is dead; the others are left alone.
LEMMA Kills ==
    ASSUME TypeOK, NEW h \in Hosts \cup {None}
    PROVE  /\ Shutdown(h) \in [Hosts -> HostRecord]
           /\ \A g \in Hosts : Shutdown(h)[g].st = IF g = h THEN "dead" ELSE host[g].st
<1>1. host \in [Hosts -> HostRecord]
  BY DEF TypeOK
<1>2. CASE h = None
  <2>1. Shutdown(h) = host
    BY <1>1, <1>2, HostAssumption DEF Shutdown
  <2> QED BY <1>1, <1>2, <2>1, HostAssumption
<1>3. CASE h \in Hosts
  <2> DEFINE r == [Silenced(host[h]) EXCEPT !.reading = FALSE]
  <2>1. r \in HostRecord /\ r.st = "dead"
    BY <1>1, <1>3 DEF Silenced, HostRecord
  <2>2. Shutdown(h) = [host EXCEPT ![h] = r]
    BY DEF Shutdown
  <2> HIDE DEF r
  <2> QED BY <1>1, <1>3, <2>1, <2>2
<1> QED BY <1>2, <1>3

\* The same for the map that Spawn drops a handle from.
LEMMA DropKills ==
    ASSUME NEW hs \in [Hosts -> HostRecord], NEW h \in Hosts \cup {None}
    PROVE  /\ Dropped(hs, h) \in [Hosts -> HostRecord]
           /\ \A g \in Hosts : Dropped(hs, h)[g].st = IF g = h THEN "dead" ELSE hs[g].st
<1>1. CASE h = None
  BY <1>1, HostAssumption DEF Dropped
<1>2. CASE h \in Hosts
  <2> DEFINE r == Silenced(hs[h])
  <2>1. r \in HostRecord /\ r.st = "dead"
    BY <1>2 DEF Silenced, HostRecord
  <2>2. Dropped(hs, h) = [hs EXCEPT ![h] = r]
    BY <1>2, HostAssumption DEF Dropped
  <2> HIDE DEF r
  <2> QED BY <1>2, <2>1, <2>2
<1> QED BY <1>1, <1>2

-----------------------------------------------------------------------------
(* Steps that only move a task.                                            *)

SectionsOf(t, p, n) ==
    IF t \in Hosts THEN /\ p \in SupervisorSections \cup SharedSections
                        /\ p \in {"deactivate", "bye", "clean", "stop"} => n = "crashDisable"
    ELSE p \in UserSections \cup SharedSections \cup {"panicked"} /\ n \in {"idle", "remove"}

\* A task that moves into a section of its own keeps the roles.
LEMMA RolesKept ==
    ASSUME TypeOK, Roles, NEW t \in Tasks, NEW p, NEW h, NEW n, Moved(t, p, h, n), SectionsOf(t, p, n)
    PROVE  Roles'
BY HostAssumption DEF Roles, Moved, SectionsOf, Tasks, Users

\* A supervisor that moves between sections of one recovery keeps the lock.
LEMMA OneKept ==
    ASSUME One, NEW t \in Tasks, NEW p, NEW h, NEW n, Moved(t, p, h, n),
           t \in Hosts => task[t].pc # "idle", restart_in_progress' = restart_in_progress
    PROVE  One'
BY HostAssumption DEF One, Moved, Tasks, Users

\* A running host whose holder moves on is held by it still.
LEMMA OwnedKept ==
    ASSUME NoLeakedHost, NEW t \in Tasks, NEW p, NEW h, NEW n, Moved(t, p, h, n),
           handle' = handle, host' = host,
           task[t].pc \in Stopping /\ task[t].host \in Hosts => p \in Stopping /\ h = task[t].host
    PROVE  NoLeakedHost'
<1> SUFFICES ASSUME NEW g \in Hosts, Running(g)', handle' # g
             PROVE  \E u \in Tasks : task'[u].host = g /\ task'[u].pc \in Stopping
  BY DEF NoLeakedHost, Stopping
<1>1. PICK u \in Tasks : task[u].host = g /\ task[u].pc \in Stopping
  BY DEF NoLeakedHost, Running, Stopping
<1> QED BY <1>1 DEF Moved

\* The counter over its limit is being dealt with.
LEMMA BudgetKept ==
    ASSUME Budget, NEW t \in Tasks, NEW p, NEW h, NEW n, Moved(t, p, h, n),
           restart_count' = restart_count,
           t \in Hosts /\ task[t].pc \in Disabling => p \in Disabling
    PROVE  Budget'
<1> SUFFICES ASSUME restart_count > max_restarts PROVE \E g \in Hosts : task'[g].pc \in Disabling
  BY DEF Budget
<1>1. PICK g \in Hosts : task[g].pc \in Disabling
  BY DEF Budget
<1>2. g \in Tasks
  BY DEF Tasks
<1> QED BY <1>1, <1>2 DEF Moved

\* The account of the respawns is kept by a task that neither begins an
\* activation nor a respawn.
LEMMA RestartsKept ==
    ASSUME TypeOK, Restarts, NEW t \in Tasks, NEW p, NEW h, NEW n, Moved(t, p, h, n),
           UNCHANGED <<activated, restart_count, respawns, carried>>,
           t # "boot",
           t = "ui" /\ p \in Activating => task[t].pc \in Activating,
           t \in Hosts => task[t].pc # "idle" /\ p # "backoff",
           t \in Hosts /\ p \in Disabling \ {"deactivate"} =>
              ~activated \/ task[t].pc \in Disabling \ {"deactivate"}
    PROVE  Restarts'
<1>1. "boot" \in Tasks /\ "ui" \in Tasks /\ Hosts \subseteq Tasks /\ "ui" \notin Hosts /\ "boot" \notin Hosts
  BY HostAssumption DEF Tasks, Users
<1>2. task'["boot"].pc = "idle"
  BY <1>1 DEF Restarts, Moved
<1>3. task'["ui"].pc \in Activating =>
          /\ ~activated' /\ respawns' = 0
          /\ \A g \in Hosts : task'[g].pc # "idle" => carried' = 1
  <2>1. task'["ui"].pc \in Activating => task["ui"].pc \in Activating
    BY <1>1 DEF Moved
  <2>2. \A g \in Hosts : task'[g].pc # "idle" => task[g].pc # "idle"
    BY <1>1 DEF Moved
  <2> QED BY <2>1, <2>2 DEF Restarts
<1>4. ASSUME activated
      PROVE  \A g \in Hosts : /\ task'[g].pc = "backoff" => task[g].pc = "backoff"
                              /\ task'[g].pc \in Disabling \ {"deactivate"} => task[g].pc \in Disabling \ {"deactivate"}
  BY <1>1, <1>4 DEF Moved
<1> QED BY <1>2, <1>3, <1>4 DEF Restarts

\* All of it together, for the steps that change no more than a task.
LEMMA TaskMoves ==
    ASSUME HostInv, NEW t \in Tasks, NEW p, NEW h, NEW n, Moved(t, p, h, n),
           UNCHANGED <<activated, handle, host, recovery, faults>>,
           SectionsOf(t, p, n),
           t = "boot" => task[t].pc # "idle",
           t \in Hosts => task[t].pc # "idle" /\ p # "backoff",
           task[t].pc \in Stopping /\ task[t].host \in Hosts => p \in Stopping /\ h = task[t].host,
           t \in Hosts /\ task[t].pc \in Disabling => p \in Disabling,
           t = "ui" /\ p \in Activating => task[t].pc \in Activating,
           t \in Hosts /\ p \in Disabling \ {"deactivate"} =>
              ~activated \/ task[t].pc \in Disabling \ {"deactivate"}
    PROVE  NoLeakedHost' /\ Roles' /\ One' /\ Budget' /\ ("startup" \notin faults' => Restarts')
<1>1. Roles'
  BY RolesKept DEF HostInv
<1>2. One' /\ Budget'
  BY OneKept, BudgetKept DEF HostInv, recovery
<1>3. NoLeakedHost'
  BY OwnedKept DEF HostInv
<1>4. ASSUME "startup" \notin faults' PROVE Restarts'
  <2>1. Restarts /\ t # "boot"
    BY <1>4 DEF HostInv, Restarts
  <2> QED BY <2>1, RestartsKept DEF HostInv, recovery
<1> QED BY <1>1, <1>2, <1>3, <1>4

-----------------------------------------------------------------------------
(* Requests of the shell, and the steps of a task.                         *)

\* The initial state: no process, no recovery.
LEMMA InitHost == Init => HostInv
<1> SUFFICES ASSUME Init PROVE HostInv
  OBVIOUS
<1> DEFINE p(t) == IF t = "boot" /\ "startup" \in faults THEN "activate" ELSE "idle"
<1>1. \A t \in Tasks : task[t] = [pc |-> p(t), host |-> None, next |-> "idle"]
  BY DEF Init
<1>p. \A t : p(t) = IF t = "boot" /\ "startup" \in faults THEN "activate" ELSE "idle"
  OBVIOUS
<1> HIDE DEF p
<1>r. ASSUME NEW t \in Tasks PROVE task[t].pc = p(t) /\ task[t].host = None /\ task[t].next = "idle"
  <2> DEFINE x == p(t)
  <2>1. task[t] = [pc |-> x, host |-> None, next |-> "idle"]
    BY <1>1
  <2> HIDE DEF x
  <2>2. task[t].pc = x /\ task[t].host = None /\ task[t].next = "idle"
    BY <2>1
  <2> QED BY <2>2 DEF x
<1>2. \A t \in Tasks : /\ task[t].pc = IF t = "boot" /\ "startup" \in faults THEN "activate" ELSE "idle"
                       /\ task[t].host = None /\ task[t].next = "idle"
  BY <1>p, <1>r
<1>3. "boot" \in Tasks /\ "ui" \in Tasks /\ Hosts \subseteq Tasks /\ "ui" \notin Hosts /\ "boot" \notin Hosts
  BY HostAssumption DEF Tasks, Users
<1>4. TypeOK
  <2>0. \A t \in Tasks : p(t) \in Sections /\ "idle" \in Sections
    BY <1>p DEF Sections, UserSections, SharedSections
  <2>1. task \in [Tasks -> TaskRecord]
    <3>1. ASSUME NEW t \in Tasks PROVE task[t] \in TaskRecord
      <4> DEFINE x == p(t)
      <4>1. task[t] = [pc |-> x, host |-> None, next |-> "idle"] /\ x \in Sections
        BY <1>1, <2>0
      <4> HIDE DEF x
      <4> QED BY <2>0, <4>1 DEF TaskRecord
    <3>2. task = [t \in Tasks |-> task[t]]
      BY DEF Init
    <3> QED BY <3>1, <3>2
  <2>2. host \in [Hosts -> HostRecord]
    BY DEF Init, HostRecord, Unborn
  <2>3. session \in [pc : {"none", "streaming", "joining", "over"}, host : Hosts \cup {None},
                     sink : BOOLEAN, prompt : {"none", "pending", "answered", "failed"}]
    BY DEF Init, NoSession
  <2>4. restart_count \in 0..(max_restarts + 1) /\ ops \in 0..MaxOps(faults)
    BY HostAssumption DEF Init
  <2>5. faults \in Worlds /\ carried \in {0, 1} /\ respawns \in Nat /\ events \in [Hosts -> Seq({"crashed", "hung"})]
    BY DEF Init
  <2>6. reg \in {"absent", "enabled", "disabled", "crashed"} /\ activated = FALSE /\ ingested = FALSE
        /\ provider = None /\ handle = None /\ restart_in_progress = FALSE
    BY DEF Init
  <2> QED BY <2>1, <2>2, <2>3, <2>4, <2>5, <2>6 DEF TypeOK, TaskRecord
<1>5. NoLeakedHost
  BY DEF Init, NoLeakedHost, Running, Unborn
<1>6. Roles /\ One
  BY <1>2, <1>3 DEF Roles, One, Users, UserSections, SharedSections
<1>7. Budget
  BY HostAssumption DEF Init, Budget
<1>8. "startup" \notin faults => Restarts
  BY <1>2, <1>3, HostAssumption DEF Init, Restarts, Activating
<1> QED BY <1>4, <1>5, <1>6, <1>7, <1>8 DEF HostInv

\* The sections of each task are sections.
LEMMA SectionTypes ==
    /\ {"idle", "reconcileOn", "reconcileOff", "activate", "ingest", "mark", "rollback", "stopFailed", "uninstall",
        "remove", "count", "backoff", "stopStale", "reload", "crashDisable", "release", "spawn", "handshake",
        "deactivate", "bye", "clean", "stop", "panicked"} \subseteq Sections
    /\ "boot" \in Tasks /\ "ui" \in Tasks /\ Hosts \subseteq Tasks /\ "ui" \notin Hosts /\ "boot" \notin Hosts
BY HostAssumption DEF Sections, UserSections, SupervisorSections, SharedSections, Tasks, Users

\* A request of the shell is taken up by its task.
LEMMA RequestKeeps ==
    ASSUME HostInv, NEW p \in {"activate", "reconcileOn", "reconcileOff", "deactivate", "remove"},
           NEW n \in {"idle", "remove"}, Request,
           Moved("ui", p, task["ui"].host, n), reg' \in {"absent", "enabled", "disabled", "crashed"},
           UNCHANGED <<activated, ingested, provider, handle, host, events, recovery, session, faults>>
    PROVE  HostInv'
<1>1. task["ui"].pc = "idle" /\ ops' \in 0..MaxOps(faults)
  BY HostAssumption DEF Request, At, HostInv, TypeOK
<1>2. TypeOK'
  BY <1>1 DEF HostInv, TypeOK, recovery, Moved, TaskRecord
<1>3. SectionsOf("ui", p, n)
  BY SectionTypes DEF SectionsOf, UserSections, SharedSections
<1>4. NoLeakedHost' /\ Roles' /\ One' /\ Budget' /\ ("startup" \notin faults' => Restarts')
  BY <1>1, <1>3, SectionTypes, TaskMoves DEF Stopping, Activating
<1> QED BY <1>2, <1>4 DEF HostInv

\* Install, the toggles, uninstall and deactivate.
LEMMA RequestsKeep ==
    ASSUME HostInv,
           Install \/ RequestUninstall \/ RequestDeactivate \/ \E enabled \in BOOLEAN : SetEnabled(enabled)
    PROVE  HostInv'
<1>0. TypeOK /\ task["ui"].next \in {"idle", "remove"}
  BY DEF HostInv, Roles, Users
<1>1. CASE Install
  <2>1. Moved("ui", "activate", task["ui"].host, task["ui"].next)
    BY <1>0, <1>1, SectionTypes, GotoMoves DEF Install
  <2> QED BY <1>0, <1>1, <2>1, RequestKeeps DEF Install
<1>2. CASE RequestUninstall
  <2>1. CASE activated
    <3>1. Moved("ui", "deactivate", task["ui"].host, "remove")
      BY <1>0, <1>2, <2>1, SectionTypes, CallMoves DEF RequestUninstall
    <3> QED BY <1>0, <1>2, <3>1, RequestKeeps DEF RequestUninstall, registries, TypeOK
  <2>2. CASE ~activated
    <3>1. Moved("ui", "remove", task["ui"].host, task["ui"].next)
      BY <1>0, <1>2, <2>2, SectionTypes, GotoMoves DEF RequestUninstall
    <3> QED BY <1>0, <1>2, <3>1, RequestKeeps DEF RequestUninstall, registries, TypeOK
  <2> QED BY <2>1, <2>2
<1>3. CASE RequestDeactivate
  <2>1. Moved("ui", "deactivate", task["ui"].host, "idle")
    BY <1>0, <1>3, SectionTypes, CallMoves DEF RequestDeactivate
  <2> QED BY <1>0, <1>3, <2>1, RequestKeeps DEF RequestDeactivate, registries, TypeOK
<1>4. ASSUME NEW enabled \in BOOLEAN, SetEnabled(enabled) PROVE HostInv'
  <2> DEFINE p == IF enabled THEN "reconcileOn" ELSE "reconcileOff"
  <2>1. p \in {"reconcileOn", "reconcileOff"}
    OBVIOUS
  <2>2. Goto("ui", p)
    BY <1>4 DEF SetEnabled
  <2> HIDE DEF p
  <2>3. Moved("ui", p, task["ui"].host, task["ui"].next)
    BY <1>0, <2>1, <2>2, SectionTypes, GotoMoves
  <2>4. reg' \in {"absent", "enabled", "disabled", "crashed"}
    BY <1>4 DEF SetEnabled
  <2> QED BY <1>0, <1>4, <2>1, <2>3, <2>4, RequestKeeps DEF SetEnabled
<1> QED BY <1>1, <1>2, <1>3, <1>4

\* A step that moves a task and writes the registries.
LEMMA PlainStep ==
    ASSUME HostInv, NEW t \in Tasks, NEW p \in Sections, NEW n, Moved(t, p, task[t].host, n),
           UNCHANGED <<activated, handle, host, events, recovery, session, ops, faults>>,
           reg' \in {"absent", "enabled", "disabled", "crashed"}, ingested' \in BOOLEAN, provider' \in Hosts \cup {None},
           task[t].pc # "idle",
           SectionsOf(t, p, n),
           t \in Hosts => p # "backoff",
           task[t].pc \in Stopping /\ task[t].host \in Hosts => p \in Stopping,
           t \in Hosts /\ task[t].pc \in Disabling => p \in Disabling,
           t = "ui" /\ p \in Activating => task[t].pc \in Activating,
           t \in Hosts /\ p \in Disabling \ {"deactivate"} =>
              ~activated \/ task[t].pc \in Disabling \ {"deactivate"}
    PROVE  HostInv'
<1>1. TypeOK'
  BY DEF HostInv, TypeOK, recovery, Moved, TaskRecord
<1>2. NoLeakedHost' /\ Roles' /\ One' /\ Budget' /\ ("startup" \notin faults' => Restarts')
  BY TaskMoves
<1> QED BY <1>1, <1>2 DEF HostInv

\* What HostInv says of the section a task is in.
LEMMA InRole ==
    ASSUME HostInv, NEW t \in Tasks
    PROVE  /\ TypeOK /\ task[t].pc \in Sections /\ task[t].next \in Sections /\ task[t].host \in Hosts \cup {None}
           /\ t \notin Hosts => t \in Users /\ task[t].next \in {"idle", "remove"}
           /\ t \notin Hosts => task[t].pc \in UserSections \cup SharedSections \cup {"panicked"}
           /\ t \in Hosts => task[t].pc \in SupervisorSections \cup SharedSections
           /\ t \in Hosts /\ task[t].pc \in {"deactivate", "bye", "clean", "stop"} => task[t].next = "crashDisable"
BY DEF HostInv, Roles, Tasks, TypeOK


Untouched == UNCHANGED <<registries, handle, host, events, recovery, session, ops, faults>>

\* The registry entry toggles, and is removed.
LEMMA ReconcileKeeps ==
    ASSUME HostInv, NEW t \in Tasks, Reconcile(t) \/ Remove(t) \/ Activate(t)
    PROVE  HostInv'
<1>0. t \notin Hosts /\ task[t].pc \in {"reconcileOn", "reconcileOff", "remove", "activate"}
  BY InRole DEF Reconcile, Remove, Activate, At, SupervisorSections, SharedSections
<1>1. ASSUME NEW p \in {"idle", "activate", "deactivate", "ingest"}, NEW n \in {"idle", "remove"}, Moved(t, p, task[t].host, n),
             UNCHANGED <<activated, ingested, provider, handle, host, events, recovery, session, ops, faults>>,
             reg' \in {"absent", "enabled", "disabled", "crashed"}
      PROVE  HostInv'
  <2>1. SectionsOf(t, p, n)
    BY <1>0, <1>1 DEF SectionsOf, UserSections, SharedSections
  <2>2. p \in Sections /\ ingested' \in BOOLEAN /\ provider' \in Hosts \cup {None}
    BY <1>1, SectionTypes DEF HostInv, TypeOK
  <2> QED BY <1>0, <1>1, <2>1, <2>2, PlainStep DEF Stopping, Activating
<1>2. TypeOK /\ reg \in {"absent", "enabled", "disabled", "crashed"} /\ task[t].next \in {"idle", "remove"}
  BY <1>0, InRole DEF TypeOK
<1>3. CASE Reconcile(t)
  <2>1. CASE Goto(t, "idle")
    <3>1. Moved(t, "idle", task[t].host, task[t].next)
      BY <1>2, <2>1, SectionTypes, GotoMoves
    <3> QED BY <1>1, <1>2, <1>3, <3>1 DEF Reconcile, registries
  <2>2. CASE Goto(t, "activate")
    <3>1. Moved(t, "activate", task[t].host, task[t].next)
      BY <1>2, <2>2, SectionTypes, GotoMoves
    <3> QED BY <1>1, <1>2, <1>3, <3>1 DEF Reconcile, registries
  <2>3. CASE Call(t, "deactivate", "idle")
    <3>1. Moved(t, "deactivate", task[t].host, "idle")
      BY <1>2, <2>3, SectionTypes, CallMoves
    <3> QED BY <1>1, <1>2, <1>3, <3>1 DEF Reconcile, registries
  <2> QED BY <1>3, <2>1, <2>2, <2>3 DEF Reconcile
<1>4. CASE Remove(t)
  <2>1. Moved(t, "idle", task[t].host, task[t].next)
    BY <1>2, <1>4, SectionTypes, GotoMoves DEF Remove
  <2> QED BY <1>1, <1>2, <1>4, <2>1 DEF Remove
<1>5. CASE Activate(t)
  <2>1. CASE Goto(t, "idle")
    <3>1. Moved(t, "idle", task[t].host, task[t].next)
      BY <1>2, <2>1, SectionTypes, GotoMoves
    <3> QED BY <1>1, <1>2, <1>5, <3>1 DEF Activate, registries
  <2>2. CASE Goto(t, "ingest")
    <3>1. Moved(t, "ingest", task[t].host, task[t].next)
      BY <1>2, <2>2, SectionTypes, GotoMoves
    <3> QED BY <1>1, <1>2, <1>5, <3>1 DEF Activate, registries
  <2> QED BY <1>5, <2>1, <2>2 DEF Activate
<1> QED BY <1>3, <1>4, <1>5

\* The error paths of activate and of respawn.
LEMMA GiveUpKeeps ==
    ASSUME HostInv, NEW t \in Tasks, GiveUp(t), task[t].pc \in {"spawn", "handshake", "reload"},
           UNCHANGED <<reg, activated, ingested, handle, host, events, recovery, session, ops, faults>>,
           provider' \in Hosts \cup {None}
    PROVE  HostInv'
<1>0. TypeOK /\ reg' \in {"absent", "enabled", "disabled", "crashed"} /\ ingested' \in BOOLEAN
  BY DEF HostInv, TypeOK
<1>1. CASE t \in Hosts
  <2>1. Moved(t, "deactivate", task[t].host, "crashDisable")
    BY <1>0, <1>1, SectionTypes, CallMoves DEF GiveUp
  <2>2. SectionsOf(t, "deactivate", "crashDisable")
    BY <1>1 DEF SectionsOf, SharedSections
  <2> QED BY <1>0, <1>1, <2>1, <2>2, SectionTypes, PlainStep DEF Stopping, Activating, Disabling
<1>2. CASE t \notin Hosts
  <2>1. Moved(t, "rollback", task[t].host, task[t].next)
    BY <1>0, <1>2, SectionTypes, GotoMoves DEF GiveUp
  <2>2. SectionsOf(t, "rollback", task[t].next)
    BY <1>2, InRole DEF SectionsOf, UserSections
  <2> QED BY <1>0, <1>2, <2>1, <2>2, SectionTypes, PlainStep DEF Stopping, Activating
<1> QED BY <1>1, <1>2

\* A spawn that fails, and the answer of extension/activate or its failure.
LEMMA HandshakeKeeps ==
    ASSUME HostInv, NEW t \in Tasks, SpawnFails(t) \/ Handshake(t)
    PROVE  HostInv'
<1>0. TypeOK /\ task[t].pc \in {"spawn", "handshake"} /\ Untouched
      /\ reg' \in {"absent", "enabled", "disabled", "crashed"} /\ ingested' \in BOOLEAN
      /\ provider' \in Hosts \cup {None}
  BY DEF SpawnFails, Handshake, At, HostInv, TypeOK, registries, Untouched
<1>1. CASE GiveUp(t)
  BY <1>0, <1>1, GiveUpKeeps DEF registries, Untouched
<1>2. CASE task[t].pc = "handshake" /\ Goto(t, "release") /\ t \in Hosts
  <2>1. Moved(t, "release", task[t].host, task[t].next)
    BY <1>0, <1>2, SectionTypes, GotoMoves
  <2>2. SectionsOf(t, "release", task[t].next)
    BY <1>2 DEF SectionsOf, SupervisorSections
  <2> QED BY <1>0, <1>2, <2>1, <2>2, SectionTypes, PlainStep DEF Stopping, Activating, Disabling, Untouched, registries
<1>3. CASE task[t].pc = "handshake" /\ Goto(t, "mark") /\ t \notin Hosts
  <2>1. Moved(t, "mark", task[t].host, task[t].next)
    BY <1>0, <1>3, SectionTypes, GotoMoves
  <2>2. SectionsOf(t, "mark", task[t].next)
    BY <1>3, InRole DEF SectionsOf, UserSections
  <2> QED BY <1>0, <1>3, <2>1, <2>2, SectionTypes, PlainStep DEF Stopping, Activating, Untouched, registries
<1> QED BY <1>1, <1>2, <1>3 DEF SpawnFails, Handshake, At

\* deactivate's goodbye and cleanup.
LEMMA CleanKeeps ==
    ASSUME HostInv, NEW t \in Tasks, Bye(t) \/ Clean(t)
    PROVE  HostInv'
<1>0. TypeOK /\ task[t].pc \in {"bye", "clean"}
      /\ UNCHANGED <<activated, handle, host, events, recovery, session, ops, faults>>
      /\ reg' \in {"absent", "enabled", "disabled", "crashed"} /\ ingested' \in BOOLEAN /\ provider' \in Hosts \cup {None}
  BY DEF Bye, Clean, At, HostInv, TypeOK, registries
<1>1. ASSUME NEW p \in {"clean", "stop"}, Goto(t, p) PROVE HostInv'
  <2>1. Moved(t, p, task[t].host, task[t].next)
    BY <1>0, <1>1, SectionTypes, GotoMoves
  <2>2. SectionsOf(t, p, task[t].next)
    BY <1>0, <1>1, InRole DEF SectionsOf, SharedSections
  <2>3. p \in Sections
    BY <1>1, SectionTypes
  <2> QED BY <1>0, <1>1, <2>1, <2>2, <2>3, PlainStep DEF Stopping, Activating, Disabling
<1>2. CASE Goto(t, task[t].next) /\ task[t].host = None
  <2>1. Moved(t, task[t].next, task[t].host, task[t].next)
    BY <1>0, <1>2, InRole, GotoMoves
  <2>2. SectionsOf(t, task[t].next, task[t].next) /\ task[t].next \in {"idle", "remove", "crashDisable"} /\ task[t].next \in Sections
        /\ (t \in Hosts => task[t].next = "crashDisable")
    BY <1>0, InRole DEF SectionsOf, SharedSections, SupervisorSections, UserSections
  <2> QED BY <1>0, <1>2, <2>1, <2>2, HostAssumption, PlainStep DEF Stopping, Activating, Disabling
<1> QED BY <1>1, <1>2 DEF Bye, Clean

\* respawn reads the registry entry.
LEMMA ReloadKeeps ==
    ASSUME HostInv, NEW t \in Hosts, Reload(t)
    PROVE  HostInv'
<1>0. TypeOK /\ task[t].pc = "reload" /\ t \in Tasks
      /\ UNCHANGED <<reg, activated, ingested, handle, host, events, recovery, session, ops, faults>>
      /\ reg' \in {"absent", "enabled", "disabled", "crashed"} /\ ingested' \in BOOLEAN /\ provider' \in Hosts \cup {None}
  BY SectionTypes DEF Reload, At, HostInv, TypeOK
<1>1. CASE GiveUp(t)
  BY <1>0, <1>1, GiveUpKeeps
<1>2. CASE Goto(t, "spawn")
  <2>1. Moved(t, "spawn", task[t].host, task[t].next)
    BY <1>0, <1>2, SectionTypes, GotoMoves
  <2>2. SectionsOf(t, "spawn", task[t].next)
    BY DEF SectionsOf, SharedSections
  <2> QED BY <1>0, <1>2, <2>1, <2>2, SectionTypes, PlainStep DEF Stopping, Activating, Disabling
<1> QED BY <1>1, <1>2 DEF Reload

-----------------------------------------------------------------------------
(* Hosts are started, handed over and stopped.                             *)

\* What RolesKept, OneKept and BudgetKept need, at once.
LEMMA OrderKept ==
    ASSUME HostInv, NEW t \in Tasks, NEW p, NEW h, NEW n, Moved(t, p, h, n), SectionsOf(t, p, n),
           UNCHANGED <<restart_count, restart_in_progress>>,
           t \in Hosts => task[t].pc # "idle",
           t \in Hosts /\ task[t].pc \in Disabling => p \in Disabling
    PROVE  Roles' /\ One' /\ Budget'
BY RolesKept, OneKept, BudgetKept DEF HostInv

\* The task that holds a host kills it and lets go of it.
LEMMA StoppedKeeps ==
    ASSUME HostInv, NEW t \in Tasks, NEW p \in Sections, host' = Shutdown(task[t].host),
           GotoWith(t, p, None), task[t].pc # "idle",
           UNCHANGED <<registries, handle, events, recovery, session, ops, faults>>,
           SectionsOf(t, p, task[t].next), p \notin Activating,
           t \in Hosts => p # "backoff",
           t \in Hosts /\ task[t].pc \in Disabling => p \in Disabling,
           t \in Hosts /\ p \in Disabling \ {"deactivate"} => task[t].pc \in Disabling \ {"deactivate"}
    PROVE  HostInv'
<1>0. TypeOK /\ task[t].host \in Hosts \cup {None}
  BY InRole
<1>1. Moved(t, p, None, task[t].next)
  BY <1>0, GotoWithMoves
<1>2. host' \in [Hosts -> HostRecord] /\ \A g \in Hosts : host'[g].st = IF g = task[t].host THEN "dead" ELSE host[g].st
  BY <1>0, Kills
<1>3. TypeOK'
  BY <1>0, <1>1, <1>2 DEF TypeOK, registries, recovery, Moved, TaskRecord
<1>4. Roles' /\ One' /\ Budget'
  BY <1>1, OrderKept DEF recovery
<1>5. NoLeakedHost'
  <2> SUFFICES ASSUME NEW g \in Hosts, Running(g)', handle' # g
               PROVE  \E u \in Tasks : task'[u].host = g /\ task'[u].pc \in Stopping
    BY DEF NoLeakedHost, Stopping
  <2>1. g # task[t].host /\ Running(g)
    BY <1>2 DEF Running
  <2>2. PICK u \in Tasks : task[u].host = g /\ task[u].pc \in Stopping
    BY <2>1 DEF HostInv, NoLeakedHost, Stopping
  <2> QED BY <1>1, <2>1, <2>2 DEF Moved
<1>6. ASSUME "startup" \notin faults' PROVE Restarts'
  <2>1. Restarts /\ t # "boot"
    BY <1>6 DEF HostInv, Restarts
  <2> QED BY <1>0, <1>1, <2>1, RestartsKept DEF registries, recovery
<1> QED BY <1>3, <1>4, <1>5, <1>6 DEF HostInv

\* The three places that stop a host.
LEMMA StopsKeep ==
    ASSUME HostInv, NEW t \in Tasks, StopFailed(t) \/ Stop(t) \/ (t \in Hosts /\ StopStale(t))
    PROVE  HostInv'
<1>1. CASE StopFailed(t)
  <2>1. t \notin Hosts /\ SectionsOf(t, "idle", task[t].next)
    BY <1>1, InRole DEF StopFailed, At, SectionsOf, SupervisorSections, SharedSections
  <2> QED BY <1>1, <2>1, SectionTypes, StoppedKeeps DEF StopFailed, At, Activating
<1>2. CASE Stop(t)
  <2>1. SectionsOf(t, task[t].next, task[t].next) /\ task[t].next \in {"idle", "remove", "crashDisable"} /\ task[t].next \in Sections
        /\ (t \in Hosts => task[t].next = "crashDisable")
    BY <1>2, InRole DEF Stop, At, SectionsOf, SharedSections, SupervisorSections, UserSections
  <2> QED BY <1>2, <2>1, StoppedKeeps DEF Stop, At, Activating, Disabling
<1>3. CASE t \in Hosts /\ StopStale(t)
  <2>1. SectionsOf(t, "reload", task[t].next)
    BY <1>3 DEF SectionsOf, SupervisorSections
  <2> QED BY <1>3, <2>1, SectionTypes, StoppedKeeps DEF StopStale, At, Activating, Disabling
<1> QED BY <1>1, <1>2, <1>3

\* A new process takes the place of the one in the handle map, which dies.
LEMMA SpawnKeeps ==
    ASSUME HostInv, NEW t \in Tasks, Spawn(t)
    PROVE  HostInv'
<1>0. TypeOK /\ task[t].pc = "spawn" /\ host \in [Hosts -> HostRecord] /\ handle \in Hosts \cup {None}
      /\ UNCHANGED <<registries, events, recovery, session, ops, faults>>
  BY InRole DEF Spawn, At, TypeOK
<1> DEFINE spare == {n \in Hosts : host[n].st = "unborn"}
           h == CHOOSE n \in spare : TRUE
           hs == [host EXCEPT ![h] = Spawned]
<1>1. spare # {} /\ host' = Dropped(hs, handle) /\ handle' = h /\ GotoWith(t, "handshake", h)
  BY DEF Spawn
<1>2. h \in Hosts /\ host[h].st = "unborn"
  BY <1>1
<1> HIDE DEF h, spare
<1>3. Spawned \in HostRecord /\ Spawned.st = "up"
  BY DEF Spawned, HostRecord
<1>4. hs \in [Hosts -> HostRecord] /\ hs[h].st = "up" /\ \A g \in Hosts \ {h} : hs[g] = host[g]
  BY <1>0, <1>2, <1>3
<1> HIDE DEF hs
<1>5. host' \in [Hosts -> HostRecord] /\ \A g \in Hosts : host'[g].st = IF g = handle THEN "dead" ELSE hs[g].st
  BY <1>0, <1>1, <1>4, DropKills
<1>6. Moved(t, "handshake", h, task[t].next)
  BY <1>0, <1>1, <1>2, SectionTypes, GotoWithMoves
<1>7. TypeOK'
  BY <1>0, <1>1, <1>2, <1>5, <1>6 DEF TypeOK, registries, recovery, Moved, TaskRecord
<1>8. SectionsOf(t, "handshake", task[t].next)
  BY InRole DEF SectionsOf, SharedSections
<1>9. Roles' /\ One' /\ Budget'
  BY <1>0, <1>6, <1>8, OrderKept DEF recovery, Disabling
<1>10. NoLeakedHost'
  <2> SUFFICES ASSUME NEW g \in Hosts, Running(g)', h # g
               PROVE  \E u \in Tasks : task'[u].host = g /\ task'[u].pc \in Stopping
    BY <1>1 DEF NoLeakedHost, Stopping
  <2>1. g # handle /\ Running(g)
    BY <1>4, <1>5 DEF Running
  <2>2. PICK u \in Tasks : task[u].host = g /\ task[u].pc \in Stopping
    BY <2>1 DEF HostInv, NoLeakedHost, Stopping
  <2> QED BY <1>0, <1>6, <2>2 DEF Moved, Stopping
<1>11. ASSUME "startup" \notin faults' PROVE Restarts'
  <2>1. Restarts /\ t # "boot"
    BY <1>0, <1>11 DEF HostInv, Restarts
  <2> QED BY <1>0, <1>6, <2>1, RestartsKept DEF registries, recovery, Activating, Disabling
<1> QED BY <1>7, <1>9, <1>10, <1>11 DEF HostInv

\* The host leaves the handle map and is held by the task that took it out.
LEMMA HandedOver ==
    ASSUME HostInv, NEW t \in Tasks, NEW p, NEW n, Moved(t, p, handle, n), host' = host, handle' = None,
           task[t].pc \notin Stopping, handle \in Hosts => p \in Stopping
    PROVE  NoLeakedHost'
<1> SUFFICES ASSUME NEW g \in Hosts, Running(g)
             PROVE  \E u \in Tasks : task'[u].host = g /\ task'[u].pc \in Stopping
  BY DEF NoLeakedHost, Stopping, Running
<1>1. CASE handle = g
  BY <1>1 DEF Moved
<1>2. CASE handle # g
  <2>1. PICK u \in Tasks : task[u].host = g /\ task[u].pc \in Stopping
    BY <1>2 DEF HostInv, NoLeakedHost, Stopping
  <2> QED BY <2>1 DEF Moved
<1> QED BY <1>1, <1>2

\* A failed activation takes the host out of the map to stop it.
LEMMA RollbackKeeps ==
    ASSUME HostInv, NEW t \in Tasks, Rollback(t)
    PROVE  HostInv'
<1>0. TypeOK /\ task[t].pc = "rollback" /\ t \notin Hosts /\ handle \in Hosts \cup {None}
      /\ handle' = None /\ ingested' = FALSE /\ provider' = None
      /\ UNCHANGED <<reg, activated, host, events, recovery, session, ops, faults>>
  BY InRole DEF Rollback, At, TypeOK, SupervisorSections, SharedSections
<1>1. CASE handle = None
  <2>1. Moved(t, "idle", task[t].host, task[t].next)
    BY <1>0, <1>1, SectionTypes, GotoMoves DEF Rollback
  <2>2. SectionsOf(t, "idle", task[t].next)
    BY <1>0, InRole DEF SectionsOf, SharedSections
  <2>3. reg' \in {"absent", "enabled", "disabled", "crashed"} /\ ingested' \in BOOLEAN /\ handle' = handle
    BY <1>0, <1>1 DEF TypeOK
  <2> QED BY <1>0, <2>1, <2>2, <2>3, SectionTypes, PlainStep DEF Stopping, Activating
<1>2. CASE handle # None
  <2>1. Moved(t, "stopFailed", handle, task[t].next)
    BY <1>0, <1>2, SectionTypes, GotoWithMoves DEF Rollback
  <2>2. SectionsOf(t, "stopFailed", task[t].next)
    BY <1>0, InRole DEF SectionsOf, UserSections
  <2>3. TypeOK'
    BY <1>0, <2>1, ZenonT(40) DEF TypeOK, recovery, Moved, TaskRecord
  <2>4. Roles' /\ One' /\ Budget'
    BY <1>0, <2>1, <2>2, OrderKept DEF recovery
  <2>5. NoLeakedHost'
    BY <1>0, <2>1, HandedOver DEF Stopping
  <2>6. ASSUME "startup" \notin faults' PROVE Restarts'
    <3>1. Restarts /\ t # "boot"
      BY <1>0, <2>6 DEF HostInv, Restarts
    <3> QED BY <1>0, <2>1, <3>1, RestartsKept DEF recovery, Activating
  <2> QED BY <2>3, <2>4, <2>5, <2>6 DEF HostInv
<1> QED BY <1>1, <1>2

\* deactivate clears the lifecycle bit, and takes the host out of the map.
LEMMA DeactivateKeeps ==
    ASSUME HostInv, NEW t \in Tasks, Deactivate(t)
    PROVE  HostInv'
<1>0. TypeOK /\ task[t].pc = "deactivate" /\ handle \in Hosts \cup {None}
      /\ UNCHANGED <<reg, ingested, provider, host, events, recovery, ops, faults>>
  BY InRole DEF Deactivate, At, TypeOK
<1>1. CASE ~activated
  <2>1. Goto(t, task[t].next) /\ UNCHANGED <<activated, handle, session>>
    BY <1>1 DEF Deactivate
  <2>2. Moved(t, task[t].next, task[t].host, task[t].next)
    BY <1>0, <2>1, InRole, GotoMoves
  <2>3. SectionsOf(t, task[t].next, task[t].next) /\ task[t].next \in {"idle", "remove", "crashDisable"} /\ task[t].next \in Sections
        /\ (t \in Hosts => task[t].next = "crashDisable")
    BY <1>0, InRole DEF SectionsOf, SharedSections, SupervisorSections, UserSections
  <2>4. reg' \in {"absent", "enabled", "disabled", "crashed"} /\ ingested' \in BOOLEAN /\ provider' \in Hosts \cup {None}
    BY <1>0 DEF TypeOK
  <2> QED BY <1>0, <1>1, <2>1, <2>2, <2>3, <2>4, PlainStep DEF Stopping, Activating, Disabling
<1>2. CASE activated
  <2> DEFINE p == IF handle = None THEN "clean" ELSE "bye"
  <2>1. p \in {"clean", "bye"} /\ p \in Sections
    BY SectionTypes
  <2>2. activated' = FALSE /\ handle' = None /\ session' = [session EXCEPT !.sink = FALSE] /\ GotoWith(t, p, handle)
    BY <1>2 DEF Deactivate
  <2> HIDE DEF p
  <2>3. Moved(t, p, handle, task[t].next)
    BY <1>0, <2>1, <2>2, GotoWithMoves
  <2>4. SectionsOf(t, p, task[t].next)
    BY <1>0, <2>1, InRole DEF SectionsOf, SharedSections
  <2>5. session' \in [pc : {"none", "streaming", "joining", "over"}, host : Hosts \cup {None},
                      sink : BOOLEAN, prompt : {"none", "pending", "answered", "failed"}]
    BY <1>0, <2>2 DEF TypeOK
  <2>6. TypeOK'
    BY <1>0, <2>2, <2>3, <2>5 DEF TypeOK, recovery, Moved, TaskRecord
  <2>7. Roles' /\ One' /\ Budget'
    BY <1>0, <2>1, <2>3, <2>4, OrderKept DEF recovery, Disabling
  <2>8. NoLeakedHost'
    BY <1>0, <2>1, <2>2, <2>3, HandedOver DEF Stopping
  <2>9. ASSUME "startup" \notin faults' PROVE Restarts'
    <3>1. Restarts /\ t # "boot"
      BY <1>0, <2>9 DEF HostInv, Restarts
    <3>2. task["ui"].pc \notin Activating /\ UNCHANGED <<restart_count, respawns, carried>>
      BY <1>0, <1>2, <3>1 DEF Restarts, recovery
    <3>3. task'["ui"].pc \notin Activating /\ task'["boot"].pc = "idle"
      BY <2>1, <2>3, <3>1, <3>2, SectionTypes DEF Moved, Restarts, Activating
    <3> QED BY <2>2, <3>1, <3>2, <3>3 DEF Restarts
  <2> QED BY <2>6, <2>7, <2>8, <2>9 DEF HostInv
<1> QED BY <1>1, <1>2

-----------------------------------------------------------------------------
(* Activations and recoveries.                                             *)

\* An activation clears the counter; a recovery under way is carried over.
LEMMA IngestKeeps ==
    ASSUME HostInv, NEW t \in Tasks, Ingest(t)
    PROVE  HostInv'
<1>0. TypeOK /\ task[t].pc = "ingest" /\ t \notin Hosts
      /\ UNCHANGED <<reg, activated, provider, handle, host, events, restart_in_progress, session, ops, faults>>
  BY InRole DEF Ingest, At, SupervisorSections, SharedSections
<1>1. CASE activated
  <2>1. Goto(t, "idle") /\ UNCHANGED <<ingested, restart_count, respawns, carried>>
    BY <1>1 DEF Ingest
  <2>2. Moved(t, "idle", task[t].host, task[t].next)
    BY <1>0, <2>1, SectionTypes, GotoMoves
  <2>3. SectionsOf(t, "idle", task[t].next)
    BY <1>0, InRole DEF SectionsOf, SharedSections
  <2>4. reg' \in {"absent", "enabled", "disabled", "crashed"} /\ ingested' \in BOOLEAN /\ provider' \in Hosts \cup {None}
    BY <1>0, <2>1 DEF TypeOK
  <2> QED BY <1>0, <2>1, <2>2, <2>3, <2>4, SectionTypes, PlainStep DEF Stopping, Activating, recovery
<1>2. CASE ~activated
  <2>1. restart_count' = 0 /\ ingested' = TRUE /\ respawns' = 0 /\ Goto(t, "spawn")
        /\ carried' = IF restart_in_progress THEN 1 ELSE 0
    BY <1>2 DEF Ingest
  <2>2. Moved(t, "spawn", task[t].host, task[t].next)
    BY <1>0, <2>1, SectionTypes, GotoMoves
  <2>3. SectionsOf(t, "spawn", task[t].next)
    BY <1>0, InRole DEF SectionsOf, SharedSections
  <2>4. 0 \in 0..(max_restarts + 1) /\ ~(0 > max_restarts)
    BY HostAssumption
  <2>5. TypeOK'
    BY <1>0, <2>1, <2>2, <2>4 DEF TypeOK, Moved, TaskRecord
  <2>6. Roles' /\ One' /\ Budget'
    BY <1>0, <2>1, <2>2, <2>3, <2>4, RolesKept, OneKept DEF HostInv, Budget
  <2>7. NoLeakedHost'
    BY <1>0, <2>2, OwnedKept DEF HostInv, Stopping
  <2>8. ASSUME "startup" \notin faults' PROVE Restarts'
    <3>1. Restarts /\ t # "boot"
      BY <1>0, <2>8 DEF HostInv, Restarts
    <3>2. task'["boot"].pc = "idle"
      BY <2>2, <3>1, SectionTypes DEF Moved, Restarts
    <3>3. \A h \in Hosts : task'[h].pc # "idle" => carried' = 1
      BY <1>0, <2>1, <2>6 DEF One
    <3>4. respawns' <= max_restarts' + carried' /\ carried' \in Nat
      BY <2>1, HostAssumption
    <3> QED BY <1>0, <1>2, <2>1, <3>2, <3>3, <3>4 DEF Restarts
  <2> QED BY <2>5, <2>6, <2>7, <2>8 DEF HostInv
<1> QED BY <1>1, <1>2

\* The extension counts as activated; so far it has not been respawned.
LEMMA MarkKeeps ==
    ASSUME HostInv, NEW t \in Tasks, Mark(t)
    PROVE  HostInv'
<1> DEFINE p == IF activated THEN "panicked" ELSE "idle"
<1>0. TypeOK /\ task[t].pc = "mark" /\ t \notin Hosts /\ activated' = TRUE /\ Goto(t, p)
      /\ UNCHANGED <<reg, ingested, provider, handle, host, events, recovery, session, ops, faults>>
  BY InRole DEF Mark, At, SupervisorSections, SharedSections
<1>1. p \in {"panicked", "idle"} /\ p \in Sections
  BY SectionTypes
<1> HIDE DEF p
<1>2. Moved(t, p, task[t].host, task[t].next)
  BY <1>0, <1>1, GotoMoves
<1>3. SectionsOf(t, p, task[t].next)
  BY <1>0, <1>1, InRole DEF SectionsOf, SharedSections
<1>4. TypeOK'
  BY <1>0, <1>2 DEF TypeOK, Moved, TaskRecord, recovery
<1>5. Roles' /\ One' /\ Budget'
  BY <1>0, <1>2, <1>3, OrderKept DEF recovery
<1>6. NoLeakedHost'
  BY <1>0, <1>2, OwnedKept DEF HostInv, Stopping
<1>7. ASSUME "startup" \notin faults' PROVE Restarts'
  <2>1. Restarts /\ t = "ui"
    BY <1>0, <1>7, InRole DEF HostInv, Restarts, Users
  <2>2. UNCHANGED <<restart_count, respawns, carried>> /\ respawns = 0 /\ restart_count \in Nat /\ carried \in {0, 1}
        /\ \A h \in Hosts : task[h].pc # "idle" => carried = 1
    BY <1>0, <2>1, HostAssumption DEF Restarts, recovery, Activating, TypeOK
  <2>3. task'["boot"].pc = "idle" /\ task'["ui"].pc \notin Activating /\ \A h \in Hosts : task'[h] = task[h]
    BY <1>1, <1>2, <2>1, SectionTypes DEF Moved, Restarts, Activating
  <2>4. \A h \in Hosts : task[h].pc = "backoff" => respawns + 1 <= restart_count + carried
    BY <2>2
  <2> QED BY <2>1, <2>2, <2>3, <2>4 DEF Restarts
<1> QED BY <1>4, <1>5, <1>6, <1>7 DEF HostInv

\* A supervisor takes the recovery up, or drops the signal.
LEMMA SuperviseKeeps ==
    ASSUME HostInv, NEW h \in Hosts, Supervise(h)
    PROVE  HostInv'
<1>0. TypeOK /\ task[h].pc = "idle" /\ h \in Tasks
      /\ UNCHANGED <<registries, handle, host, restart_count, respawns, carried, session, ops, faults>>
  BY SectionTypes DEF Supervise, At, HostInv
<1>1. events' \in [Hosts -> Seq({"crashed", "hung"})]
  <2>1. events[h] \in Seq({"crashed", "hung"}) /\ events[h] # <<>>
    BY <1>0 DEF TypeOK, Supervise
  <2>2. Tail(events[h]) \in Seq({"crashed", "hung"})
    BY <2>1
  <2>3. events \in [Hosts -> Seq({"crashed", "hung"})]
    BY <1>0 DEF TypeOK
  <2> QED BY <2>2, <2>3 DEF Supervise
<1>2. CASE UNCHANGED <<restart_in_progress, task>>
  <2>1. TypeOK'
    BY <1>0, <1>1, <1>2 DEF TypeOK, registries
  <2>2. NoLeakedHost' /\ Roles' /\ One' /\ Budget'
    BY <1>0, <1>2 DEF HostInv, NoLeakedHost, Running, Roles, One, Budget
  <2>3. "startup" \notin faults' => Restarts'
    BY <1>0, <1>2 DEF HostInv, Restarts, registries
  <2> QED BY <2>1, <2>2, <2>3 DEF HostInv
<1>3. CASE activated /\ ~restart_in_progress
  <2>1. restart_in_progress' = TRUE /\ Goto(h, "count")
    BY <1>3 DEF Supervise
  <2>2. Moved(h, "count", task[h].host, task[h].next)
    BY <1>0, <2>1, SectionTypes, GotoMoves
  <2>3. \A g \in Hosts : task[g].pc = "idle"
    BY <1>3 DEF HostInv, One
  <2>4. TypeOK'
    BY <1>0, <1>1, <2>1, <2>2 DEF TypeOK, registries, Moved, TaskRecord
  <2>5. SectionsOf(h, "count", task[h].next)
    BY DEF SectionsOf, SupervisorSections
  <2>6. Roles' /\ Budget' /\ NoLeakedHost'
    BY <1>0, <2>2, <2>5, RolesKept, BudgetKept, OwnedKept DEF HostInv, Disabling, Stopping
  <2>7. \A g \in Hosts : task'[g].pc # "idle" => g = h
    BY <1>0, <2>2, <2>3, SectionTypes DEF Moved
  <2>8. One'
    BY <2>1, <2>7 DEF One
  <2>9. ASSUME "startup" \notin faults' PROVE Restarts'
    <3>1. Restarts
      BY <1>0, <2>9 DEF HostInv
    <3>2. task'["boot"] = task["boot"] /\ task'["ui"] = task["ui"] /\ task'[h].pc = "count"
      BY <2>2, SectionTypes DEF Moved
    <3>3. activated' = activated
      BY <1>0 DEF registries
    <3>4. \A g \in Hosts : task'[g].pc \in {"idle", "count"}
      BY <2>7, <3>2
    <3>5. task["ui"].pc \notin Activating
      BY <1>3, <3>1 DEF Restarts
    <3> QED BY <1>0, <3>1, <3>2, <3>3, <3>4, <3>5 DEF Restarts, Disabling
  <2> QED BY <2>4, <2>6, <2>8, <2>9 DEF HostInv
<1> QED BY <1>2, <1>3 DEF Supervise

\* The counter is within the budget while a supervisor recovers.
LEMMA WithinBudget ==
    ASSUME HostInv, NEW h \in Hosts, task[h].pc # "idle", task[h].pc \notin Disabling
    PROVE  restart_count \in 0..max_restarts
<1>1. ~(restart_count > max_restarts)
  <2> SUFFICES ASSUME restart_count > max_restarts PROVE FALSE
    OBVIOUS
  <2>1. PICK g \in Hosts : task[g].pc \in Disabling
    BY DEF HostInv, Budget
  <2>2. g = h
    BY <2>1 DEF HostInv, One, Disabling
  <2> QED BY <2>1, <2>2
<1> QED BY <1>1, HostAssumption DEF HostInv, TypeOK

\* The other supervisors are idle.
LEMMA Alone ==
    ASSUME HostInv, NEW h \in Hosts, task[h].pc # "idle", NEW p, NEW x, NEW n, Moved(h, p, x, n)
    PROVE  \A g \in Hosts : g # h => task[g].pc = "idle" /\ task'[g].pc = "idle"
BY SectionTypes DEF HostInv, One, Moved

\* A recovery is counted.
LEMMA CountKeeps ==
    ASSUME HostInv, NEW h \in Hosts, Count(h)
    PROVE  HostInv'
<1>0. TypeOK /\ task[h].pc = "count" /\ h \in Tasks /\ restart_count' = restart_count + 1
      /\ UNCHANGED <<registries, handle, host, events, restart_in_progress, respawns, carried, session, ops, faults>>
  BY SectionTypes DEF Count, At, HostInv
<1>1. restart_count \in 0..max_restarts /\ restart_count' \in 0..(max_restarts + 1) /\ restart_count' \in Nat
  BY <1>0, WithinBudget, HostAssumption DEF Disabling
<1>2. PICK p \in {"deactivate", "backoff"}, n \in Sections :
         /\ Moved(h, p, task[h].host, n)
         /\ restart_count' > max_restarts => p = "deactivate"
         /\ p = "deactivate" => n = "crashDisable"
  <2>1. CASE restart_count' > max_restarts
    BY <1>0, <2>1, SectionTypes, CallMoves DEF Count
  <2>2. CASE ~(restart_count' > max_restarts)
    <3>1. Moved(h, "backoff", task[h].host, task[h].next)
      BY <1>0, <2>2, SectionTypes, GotoMoves DEF Count
    <3>2. task[h].next \in Sections
      BY <1>0, InRole
    <3> QED BY <2>2, <3>1, <3>2
  <2> QED BY <2>1, <2>2
<1>3. TypeOK'
  BY <1>0, <1>1, <1>2 DEF TypeOK, registries, Moved, TaskRecord
<1>4. SectionsOf(h, p, n)
  BY <1>2 DEF SectionsOf, SupervisorSections, SharedSections
<1>5. Roles' /\ One' /\ NoLeakedHost'
  BY <1>0, <1>2, <1>4, RolesKept, OneKept, OwnedKept DEF HostInv, Stopping
<1>6. Budget'
  BY <1>2 DEF Budget, Moved, Disabling
<1>7. ASSUME "startup" \notin faults' PROVE Restarts'
  <2>1. Restarts /\ activated' = activated /\ respawns' = respawns /\ carried' = carried
    BY <1>0, <1>7 DEF HostInv, registries
  <2>2. task'["boot"] = task["boot"] /\ task'["ui"] = task["ui"] /\ task'[h].pc = p
    BY <1>2, SectionTypes DEF Moved
  <2>3. \A g \in Hosts : g # h => task'[g].pc = "idle"
    BY <1>0, <1>2, Alone
  <2>4. respawns \in Nat /\ carried \in Nat /\ restart_count \in Nat
    BY <1>0, <1>1 DEF TypeOK
  <2>5. activated => respawns + 1 <= restart_count' + carried /\ respawns <= restart_count' + carried
    BY <1>0, <2>1, <2>4 DEF Restarts
  <2>6. \A g \in Hosts : task'[g].pc \notin Disabling \ {"deactivate"}
    BY <1>2, <2>2, <2>3 DEF Disabling
  <2>7. task'["ui"].pc \in Activating =>
          /\ ~activated' /\ respawns' = 0
          /\ \A g \in Hosts : task'[g].pc # "idle" => carried' = 1
    BY <1>0, <2>1, <2>2 DEF Restarts
  <2> QED BY <2>1, <2>2, <2>5, <2>6, <2>7 DEF Restarts
<1> QED BY <1>3, <1>5, <1>6, <1>7 DEF HostInv

\* After the backoff a respawn begins, unless the extension is deactivated.
LEMMA BackoffKeeps ==
    ASSUME HostInv, NEW h \in Hosts, Backoff(h)
    PROVE  HostInv'
<1>0. TypeOK /\ task[h].pc = "backoff" /\ h \in Tasks /\ handle \in Hosts \cup {None}
      /\ UNCHANGED <<registries, host, events, restart_count, restart_in_progress, carried, session, ops, faults>>
  BY SectionTypes DEF Backoff, At, HostInv, TypeOK
<1>1. CASE ~activated
  <2>1. Goto(h, "release") /\ UNCHANGED <<handle, respawns>>
    BY <1>1 DEF Backoff
  <2>2. Moved(h, "release", task[h].host, task[h].next)
    BY <1>0, <2>1, SectionTypes, GotoMoves
  <2>3. SectionsOf(h, "release", task[h].next)
    BY DEF SectionsOf, SupervisorSections
  <2>4. reg' \in {"absent", "enabled", "disabled", "crashed"} /\ ingested' \in BOOLEAN /\ provider' \in Hosts \cup {None}
    BY <1>0 DEF TypeOK, registries
  <2> QED BY <1>0, <1>1, <2>1, <2>2, <2>3, <2>4, SectionTypes, PlainStep DEF Stopping, Activating, Disabling, recovery, registries
<1>2. CASE activated
  <2> DEFINE p == IF handle = None THEN "reload" ELSE "stopStale"
  <2>1. p \in {"reload", "stopStale"} /\ p \in Sections /\ (handle \in Hosts => p = "stopStale")
    BY SectionTypes, HostAssumption
  <2>2. handle' = None /\ respawns' = respawns + 1 /\ GotoWith(h, p, handle)
    BY <1>2 DEF Backoff
  <2> HIDE DEF p
  <2>3. Moved(h, p, handle, task[h].next)
    BY <1>0, <2>1, <2>2, GotoWithMoves
  <2>4. SectionsOf(h, p, task[h].next)
    BY <2>1 DEF SectionsOf, SupervisorSections
  <2>5. respawns' \in Nat
    BY <1>0, <2>2 DEF TypeOK
  <2>6. TypeOK'
    BY <1>0, <2>2, <2>3, <2>5 DEF TypeOK, registries, Moved, TaskRecord
  <2>7. Roles' /\ One' /\ Budget'
    BY <1>0, <2>3, <2>4, OrderKept DEF Disabling
  <2>8. NoLeakedHost'
    BY <1>0, <2>1, <2>2, <2>3, HandedOver DEF Stopping
  <2>9. ASSUME "startup" \notin faults' PROVE Restarts'
    <3>1. Restarts /\ activated' = activated /\ carried' = carried /\ restart_count' = restart_count
      BY <1>0, <2>9 DEF HostInv, registries
    <3>2. task'["boot"] = task["boot"] /\ task'["ui"] = task["ui"] /\ task'[h].pc = p
      BY <2>3, SectionTypes DEF Moved
    <3>3. \A g \in Hosts : g # h => task'[g].pc = "idle"
      BY <1>0, <2>3, Alone
    <3>4. respawns \in Nat /\ carried \in Nat /\ restart_count \in 0..max_restarts
      <4>1. restart_count \in 0..max_restarts
        BY <1>0, WithinBudget DEF Disabling
      <4>2. respawns \in Nat /\ carried \in {0, 1}
        BY <1>0 DEF TypeOK
      <4> QED BY <4>1, <4>2
    <3>5. respawns' <= restart_count + carried
      BY <1>0, <1>2, <2>2, <3>1 DEF Restarts
    <3>6. respawns' <= max_restarts + carried
      BY <2>5, <3>4, <3>5, HostAssumption
    <3>7. task["ui"].pc \notin Activating
      BY <1>2, <3>1 DEF Restarts
    <3>8. \A g \in Hosts : task'[g].pc # "backoff" /\ task'[g].pc \notin Disabling
      BY <2>1, <3>2, <3>3 DEF Disabling
    <3> QED BY <3>1, <3>2, <3>5, <3>6, <3>7, <3>8 DEF Restarts
  <2> QED BY <2>6, <2>7, <2>8, <2>9 DEF HostInv
<1> QED BY <1>1, <1>2

\* The extension is marked crashed, and its counter cleared.
LEMMA CrashDisableKeeps ==
    ASSUME HostInv, NEW h \in Hosts, CrashDisable(h)
    PROVE  HostInv'
<1>0. TypeOK /\ task[h].pc = "crashDisable" /\ h \in Tasks /\ restart_count' = 0 /\ Goto(h, "release")
      /\ UNCHANGED <<activated, ingested, provider, handle, host, events, restart_in_progress, respawns, carried, session, ops, faults>>
  BY SectionTypes DEF CrashDisable, At, HostInv
<1>1. Moved(h, "release", task[h].host, task[h].next)
  BY <1>0, SectionTypes, GotoMoves
<1>2. SectionsOf(h, "release", task[h].next)
  BY DEF SectionsOf, SupervisorSections
<1>3. 0 \in 0..(max_restarts + 1) /\ ~(0 > max_restarts)
  BY HostAssumption
<1>4. reg' \in {"absent", "enabled", "disabled", "crashed"}
  BY DEF CrashDisable
<1>5. TypeOK'
  BY <1>0, <1>1, <1>3, <1>4 DEF TypeOK, Moved, TaskRecord
<1>6. Roles' /\ One' /\ NoLeakedHost' /\ Budget'
  BY <1>0, <1>1, <1>2, <1>3, RolesKept, OneKept, OwnedKept DEF HostInv, Stopping, Budget
<1>7. ASSUME "startup" \notin faults' PROVE Restarts'
  <2>1. Restarts
    BY <1>0, <1>7 DEF HostInv
  <2>2. task'["boot"] = task["boot"] /\ task'["ui"] = task["ui"] /\ task'[h].pc = "release"
    BY <1>1, SectionTypes DEF Moved
  <2>3. \A g \in Hosts : g # h => task'[g].pc = "idle"
    BY <1>0, <1>1, Alone
  <2>4. activated => respawns = 0
    BY <1>0, <2>1 DEF Restarts, Disabling
  <2>5. activated => respawns <= 0 + carried
    BY <1>0, <2>4 DEF TypeOK
  <2>6. \A g \in Hosts : task'[g].pc # "backoff" /\ task'[g].pc \notin Disabling
    BY <2>2, <2>3 DEF Disabling
  <2>7. \A g \in Hosts : task'[g].pc # "idle" => task[g].pc # "idle"
    BY <1>0, <2>3
  <2> QED BY <1>0, <2>1, <2>2, <2>5, <2>6, <2>7 DEF Restarts
<1> QED BY <1>5, <1>6, <1>7 DEF HostInv

\* The recovery is over, and the next one may begin.
LEMMA ReleaseKeeps ==
    ASSUME HostInv, NEW h \in Hosts, Release(h)
    PROVE  HostInv'
<1>0. TypeOK /\ task[h].pc = "release" /\ h \in Tasks /\ restart_in_progress' = FALSE /\ GotoWith(h, "idle", None)
      /\ UNCHANGED <<registries, handle, host, events, restart_count, respawns, carried, session, ops, faults>>
  BY SectionTypes DEF Release, At, HostInv
<1>1. Moved(h, "idle", None, task[h].next)
  BY <1>0, SectionTypes, GotoWithMoves
<1>2. SectionsOf(h, "idle", task[h].next)
  BY DEF SectionsOf, SharedSections
<1>b. restart_in_progress' \in BOOLEAN /\ task' \in [Tasks -> TaskRecord]
  BY <1>0, <1>1 DEF Moved
<1>3. TypeOK'
  <2>1. UNCHANGED <<reg, activated, ingested, provider, handle, host, events, restart_count, respawns, carried, session, ops, faults>>
    BY <1>0 DEF registries
  <2> QED BY <1>0, <1>b, <2>1 DEF TypeOK, TaskRecord
<1>4. Roles' /\ NoLeakedHost' /\ Budget'
  BY <1>0, <1>1, <1>2, RolesKept, OwnedKept, BudgetKept DEF HostInv, Stopping, Disabling
<1>5. \A g \in Hosts : task'[g].pc = "idle"
  BY <1>0, <1>1, Alone DEF Moved
<1>6. One'
  BY <1>5 DEF One
<1>7. ASSUME "startup" \notin faults' PROVE Restarts'
  <2>1. Restarts /\ activated' = activated
    BY <1>0, <1>7 DEF HostInv, registries
  <2>2. task'["boot"] = task["boot"] /\ task'["ui"] = task["ui"]
    BY <1>1, SectionTypes DEF Moved
  <2> QED BY <1>0, <1>5, <2>1, <2>2 DEF Restarts, Disabling
<1> QED BY <1>3, <1>4, <1>6, <1>7 DEF HostInv

-----------------------------------------------------------------------------
(* The host processes, the agent session, and the theorems.                *)

\* Steps outside the tasks start no process and hand none over.
LEMMA OutsideKeeps ==
    ASSUME HostInv, TypeOK', UNCHANGED <<activated, handle, recovery, task, faults>>,
           \A h \in Hosts : Running(h)' => Running(h)
    PROVE  HostInv'
<1>1. NoLeakedHost'
  BY DEF HostInv, NoLeakedHost
<1>2. Roles' /\ One' /\ Budget'
  BY DEF HostInv, Roles, One, Budget, recovery
<1>3. "startup" \notin faults' => Restarts'
  BY DEF HostInv, Restarts, recovery
<1> QED BY <1>1, <1>2, <1>3 DEF HostInv

\* A host dies, hangs or is reported, or registers its provider.
LEMMA HostKeeps ==
    ASSUME HostInv, NEW h \in Hosts,
           Dies(h) \/ Hangs(h) \/ ExitWatch(h) \/ PingFails(h) \/ RegisterProvider(h)
    PROVE  HostInv'
<1>0. TypeOK /\ host \in [Hosts -> HostRecord] /\ events \in [Hosts -> Seq({"crashed", "hung"})]
      /\ UNCHANGED <<reg, activated, ingested, handle, recovery, task, session, ops, faults>>
  BY DEF HostInv, TypeOK, Dies, Hangs, ExitWatch, PingFails, RegisterProvider, registries
<1>1. \A s \in {"crashed", "hung"} : [events EXCEPT ![h] = Append(@, s)] \in [Hosts -> Seq({"crashed", "hung"})]
  BY <1>0
<1>2. CASE Dies(h)
  <2>1. host' \in [Hosts -> HostRecord] /\ \A g \in Hosts : Running(g)' => Running(g)
    BY <1>0, <1>2 DEF Dies, HostRecord, Running
  <2>2. TypeOK'
    BY <1>0, <1>2, <2>1 DEF Dies, TypeOK, recovery, registries
  <2> QED BY <1>0, <2>1, <2>2, OutsideKeeps
<1>3. CASE Hangs(h)
  <2>1. host' \in [Hosts -> HostRecord] /\ \A g \in Hosts : Running(g)' => Running(g)
    BY <1>0, <1>3 DEF Hangs, HostRecord, Running, Up
  <2>2. TypeOK'
    BY <1>0, <1>3, <2>1 DEF Hangs, TypeOK, recovery, registries
  <2> QED BY <1>0, <2>1, <2>2, OutsideKeeps
<1>4. CASE ExitWatch(h)
  <2>1. host' \in [Hosts -> HostRecord] /\ \A g \in Hosts : Running(g)' => Running(g)
    BY <1>0, <1>4 DEF ExitWatch, HostRecord, Running
  <2>2. events' \in [Hosts -> Seq({"crashed", "hung"})]
    BY <1>1, <1>4 DEF ExitWatch
  <2>3. TypeOK'
    BY <1>0, <1>4, <2>1, <2>2 DEF ExitWatch, TypeOK, recovery, registries
  <2> QED BY <1>0, <2>1, <2>3, OutsideKeeps
<1>5. CASE PingFails(h)
  <2>1. host' \in [Hosts -> HostRecord] /\ \A g \in Hosts : Running(g)' => Running(g)
    BY <1>0, <1>5 DEF PingFails, HostRecord, Running
  <2>2. events' \in [Hosts -> Seq({"crashed", "hung"})]
    BY <1>1, <1>5 DEF PingFails
  <2>3. TypeOK'
    BY <1>0, <1>5, <2>1, <2>2 DEF PingFails, TypeOK, recovery, registries
  <2> QED BY <1>0, <2>1, <2>3, OutsideKeeps
<1>6. CASE RegisterProvider(h)
  <2>1. TypeOK'
    BY <1>0, <1>6 DEF RegisterProvider, TypeOK, recovery
  <2> QED BY <1>0, <1>6, <2>1, OutsideKeeps DEF RegisterProvider, Running
<1> QED BY <1>2, <1>3, <1>4, <1>5, <1>6

SessionRecord == [pc : {"none", "streaming", "joining", "over"}, host : Hosts \cup {None},
                  sink : BOOLEAN, prompt : {"none", "pending", "answered", "failed"}]

\* The agent session changes nothing but itself.
LEMMA SessionKeeps ==
    ASSUME HostInv, Prompt \/ SessionStep
    PROVE  HostInv'
<1>0. TypeOK /\ UNCHANGED <<registries, handle, host, events, recovery, task, ops, faults>> /\ session \in SessionRecord
  BY DEF HostInv, TypeOK, Prompt, SessionStep, PromptResolves, StreamEnds, Join, SessionRecord
<1>1. session' \in SessionRecord
  <2>1. CASE Prompt
    BY <1>0, <2>1 DEF Prompt, TypeOK, SessionRecord
  <2>2. CASE PromptResolves
    BY <1>0, <2>2 DEF PromptResolves, SessionRecord
  <2>3. CASE StreamEnds
    BY <1>0, <2>3 DEF StreamEnds, SessionRecord
  <2>4. CASE Join
    <3> DEFINE s == [session EXCEPT !.pc = "over"]
    <3>1. s \in SessionRecord
      BY <1>0 DEF SessionRecord
    <3>2. session' = [s EXCEPT !.sink = FALSE]
      BY <2>4 DEF Join
    <3> HIDE DEF s
    <3> QED BY <3>1, <3>2 DEF SessionRecord
  <2> QED BY <2>1, <2>2, <2>3, <2>4 DEF SessionStep
<1>2. TypeOK'
  BY <1>0, <1>1 DEF TypeOK, registries, recovery, SessionRecord
<1> QED BY <1>0, <1>2, OutsideKeeps DEF registries, Running

\* Every step of a user task or of a supervisor keeps the invariant.
LEMMA TaskStepKeeps ==
    ASSUME HostInv, NEW t \in Tasks, TaskStep(t)
    PROVE  HostInv'
<1>1. CASE Reconcile(t) \/ Activate(t) \/ Remove(t)
  BY <1>1, ReconcileKeeps
<1>2. CASE Ingest(t) \/ Mark(t)
  BY <1>2, IngestKeeps, MarkKeeps
<1>3. CASE Spawn(t) \/ SpawnFails(t) \/ Handshake(t)
  BY <1>3, SpawnKeeps, HandshakeKeeps
<1>4. CASE Rollback(t) \/ StopFailed(t) \/ Stop(t)
  BY <1>4, RollbackKeeps, StopsKeep
<1>5. CASE Deactivate(t) \/ Bye(t) \/ Clean(t)
  BY <1>5, DeactivateKeeps, CleanKeeps
<1> QED BY <1>1, <1>2, <1>3, <1>4, <1>5 DEF TaskStep

\* Every step of the system keeps the invariant.
LEMMA NextHost == HostInv /\ [Next]_vars => HostInv'
<1> SUFFICES ASSUME HostInv, [Next]_vars PROVE HostInv'
  OBVIOUS
<1>1. CASE UNCHANGED vars
  <2>1. TypeOK'
    BY <1>1 DEF HostInv, TypeOK, vars
  <2> QED BY <1>1, <2>1, OutsideKeeps DEF vars, recovery, Running
<1>2. CASE Install \/ RequestUninstall \/ RequestDeactivate \/ \E enabled \in BOOLEAN : SetEnabled(enabled)
  BY <1>2, RequestsKeep
<1>3. ASSUME NEW t \in Users, TaskStep(t) PROVE HostInv'
  BY <1>3, TaskStepKeeps DEF Tasks
<1>4. ASSUME NEW h \in Hosts, SupervisorStep(h) PROVE HostInv'
  <2>1. CASE TaskStep(h)
    BY <2>1, TaskStepKeeps DEF Tasks
  <2>2. CASE StopStale(h)
    BY <2>2, StopsKeep DEF Tasks
  <2>3. CASE Supervise(h) \/ Count(h) \/ Backoff(h)
    BY <2>3, SuperviseKeeps, CountKeeps, BackoffKeeps
  <2>4. CASE Reload(h) \/ CrashDisable(h) \/ Release(h)
    BY <2>4, ReloadKeeps, CrashDisableKeeps, ReleaseKeeps
  <2> QED BY <1>4, <2>1, <2>2, <2>3, <2>4 DEF SupervisorStep
<1>5. ASSUME NEW h \in Hosts, HostStep(h) \/ Dies(h) \/ Hangs(h) \/ RegisterProvider(h) PROVE HostInv'
  BY <1>5, HostKeeps DEF HostStep
<1>6. CASE Prompt \/ SessionStep
  BY <1>6, SessionKeeps
<1>7. CASE Finished
  BY <1>1, <1>7 DEF Finished
<1> QED BY <1>1, <1>2, <1>3, <1>4, <1>5, <1>6, <1>7 DEF Next

\* The variables keep their types: in particular the restart counter never
\* passes the budget by more than the one crash that exhausts it (try_restart).
THEOREM HostTypeCorrect == Spec => []TypeOK
<1>1. HostInv => TypeOK
  BY DEF HostInv
<1> QED BY <1>1, InitHost, NextHost, PTL DEF Spec

\* No order of activations, respawns, rollbacks and deactivations loses track
\* of a running host process: the handle map or a task that will stop it has it.
THEOREM HostsCorrect == Spec => []NoLeakedHost
<1>1. HostInv => NoLeakedHost
  BY DEF HostInv
<1> QED BY <1>1, InitHost, NextHost, PTL DEF Spec

\* Between two activations that do not overlap the supervisors respawn the host
\* no more often than the budget allows, and at most once more for a recovery
\* that the second one found under way.
THEOREM BudgetCorrect == Spec => []RestartBudget
<1>1. HostInv => RestartBudget
  BY DEF HostInv, Restarts, RestartBudget
<1> QED BY <1>1, InitHost, NextHost, PTL DEF Spec

=============================================================================
