-------------------------- MODULE Extensions_proofs -------------------------
(***************************************************************************)
(* What extensions share with each other and leave behind: the registries  *)
(* and the event bus of the process (ExtensionApi), the registry file and  *)
(* the settings on disk (ExtensionStores), and the log files (LogFiles),   *)
(* for any number of extensions, ids, topics, callers, keys and files.     *)
(***************************************************************************)
EXTENDS ExtensionApi, ExtensionStores, LogFiles, TLAPS

-----------------------------------------------------------------------------
(* The event bus and the registries.                                       *)

Subscribing == [pc : {"none", "connected", "listening"}, topic : Topics, conn : 0..MaxHosts, id : 0..MaxListeners]

ApiInv == ApiTypeOK /\ ListenersAreGuarded

\* The handlers' resting state is one of their states.
LEMMA RestType == NotSubscribing \in Subscribing /\ NotSubscribing.pc = "none"
BY ApiAssumption DEF NotSubscribing, Subscribing

\* At first nothing is registered and nobody listens.
LEMMA InitApi == ApiInit => ApiInv
<1> SUFFICES ASSUME ApiInit PROVE ApiInv
  OBVIOUS
<1>1. subscribing \in [Exts -> Subscribing]
  BY RestType DEF ApiInit
<1>2. conn \in [Exts -> 0..MaxHosts] /\ next_id \in 0..MaxListeners /\ guards \in [Exts -> SUBSET (0..MaxListeners)]
  BY ApiAssumption DEF ApiInit
<1>3. owner \in [Registries -> [Ids -> Exts \cup {NoExt}]]
  BY DEF ApiInit
<1> QED BY <1>1, <1>2, <1>3 DEF ApiInit, ApiInv, ApiTypeOK, ListenersAreGuarded, Subscribing

\* Steps that leave the bus and the hosts alone keep every listener guarded.
LEMMA BusUntouched ==
    ASSUME ApiInv, ApiTypeOK', UNCHANGED <<active, listeners, guards, subscribing>>
    PROVE  ApiInv'
BY DEF ApiInv, ListenersAreGuarded

\* The registries stay registries.
LEMMA OwnerTypes ==
    ASSUME ApiTypeOK, NEW e \in Exts \cup {NoExt}
    PROVE  /\ \A r \in Registries, i \in Ids : [owner EXCEPT ![r][i] = e] \in [Registries -> [Ids -> Exts \cup {NoExt}]]
           /\ \A rs : UnregisterAll(owner, rs, e) \in [Registries -> [Ids -> Exts \cup {NoExt}]]
           /\ \A o \in [Ids -> Exts \cup {NoExt}] : e \in Exts =>
                 IngestContributions(o, e) \in [Ids -> Exts \cup {NoExt}] /\ IngestRenderers(o, e) \in [Ids -> Exts \cup {NoExt}]
BY DEF ApiTypeOK, UnregisterAll, IngestContributions, IngestRenderers

\* What Activate makes of the registries, taken apart.
LEMMA Ingested ==
    ASSUME ApiTypeOK, NEW e \in Exts, Activate(e)
    PROVE  /\ owner' \in [Registries -> [Ids -> Exts \cup {NoExt}]]
           /\ owner'["renderer"] = IngestRenderers(owner["renderer"], e)
           /\ \A r \in Registries \ {"contribution", "renderer"} : owner'[r] = owner[r]
<1> DEFINE c == IngestContributions(owner["contribution"], e)
           d == IngestRenderers(owner["renderer"], e)
<1>1. owner \in [Registries -> [Ids -> Exts \cup {NoExt}]] /\ {"contribution", "renderer"} \subseteq Registries
  BY DEF ApiTypeOK, Registries
<1>2. c \in [Ids -> Exts \cup {NoExt}] /\ d \in [Ids -> Exts \cup {NoExt}]
  BY <1>1, OwnerTypes
<1>3. owner' = [owner EXCEPT !["contribution"] = c, !["renderer"] = d]
  BY <1>1 DEF Activate
<1> HIDE DEF c, d
<1>4. owner' \in [Registries -> [Ids -> Exts \cup {NoExt}]] /\ owner'["renderer"] = d
      /\ \A r \in Registries \ {"contribution", "renderer"} : owner'[r] = owner[r]
  BY <1>1, <1>2, <1>3
<1> QED BY <1>4 DEF d

\* Activation, deactivation and respawn.
LEMMA HostsKeepApi ==
    ASSUME ApiInv, NEW e \in Exts, Activate(e) \/ Deactivate(e) \/ Respawn(e)
    PROVE  ApiInv'
<1>0. ApiTypeOK
  BY DEF ApiInv
<1>1. CASE Activate(e)
  <2>1. owner' \in [Registries -> [Ids -> Exts \cup {NoExt}]]
    BY <1>0, <1>1, Ingested
  <2>2. conn' \in [Exts -> 0..MaxHosts]
    BY <1>0, <1>1, ApiAssumption DEF Activate, ApiTypeOK
  <2>3. ApiTypeOK'
    BY <1>0, <1>1, <2>1, <2>2 DEF Activate, ApiTypeOK
  <2> QED BY <1>1, <2>3 DEF Activate, ApiInv, ListenersAreGuarded
<1>2. CASE Deactivate(e)
  <2>1. owner' \in [Registries -> [Ids -> Exts \cup {NoExt}]]
    BY <1>0, <1>2, OwnerTypes DEF Deactivate
  <2>2. ApiTypeOK'
    BY <1>0, <1>2, <2>1 DEF Deactivate, ApiTypeOK
  <2>3. ListenersAreGuarded'
    BY <1>0, <1>2 DEF Deactivate, ApiInv, ListenersAreGuarded, ApiTypeOK, Listener
  <2> QED BY <2>2, <2>3 DEF ApiInv
<1>3. CASE Respawn(e)
  <2>1. owner' \in [Registries -> [Ids -> Exts \cup {NoExt}]]
    BY <1>0, <1>3, OwnerTypes DEF Respawn
  <2>2. conn' \in [Exts -> 0..MaxHosts]
    BY <1>0, <1>3, ApiAssumption DEF Respawn, ApiTypeOK
  <2>3. ApiTypeOK'
    BY <1>0, <1>3, <2>1, <2>2 DEF Respawn, ApiTypeOK, Severed
  <2>4. ListenersAreGuarded'
    BY <1>0, <1>3 DEF Respawn, ApiInv, ListenersAreGuarded, ApiTypeOK, Listener, Severed
  <2> QED BY <2>3, <2>4 DEF ApiInv
<1> QED BY <1>1, <1>2, <1>3

\* The notifies of a host, and of the shell about a frame.
LEMMA RegistriesKeepApi ==
    ASSUME ApiInv, NEW e \in Exts, NEW i \in Ids,
           \/ RegisterProvider(e, i) \/ RegisterSidebar(e, i) \/ RegisterCommand(e, i)
           \/ \E r \in Registries : Unregister(r, e, i)
           \/ CreatePanel(e, i) \/ DisposePanel(e, i) \/ \E v \in BOOLEAN : SetVisible(e, i, v)
    PROVE  ApiInv'
<1>0. ApiTypeOK /\ {"provider", "sidebar", "command", "panel"} \subseteq Registries
  BY DEF ApiInv, Registries
<1>1. owner' \in [Registries -> [Ids -> Exts \cup {NoExt}]]
  <2>0. owner \in [Registries -> [Ids -> Exts \cup {NoExt}]]
    BY <1>0 DEF ApiTypeOK
  <2>1. \A r \in Registries, f \in Exts \cup {NoExt} : [owner EXCEPT ![r][i] = f] \in [Registries -> [Ids -> Exts \cup {NoExt}]]
    BY <1>0, OwnerTypes
  <2>2. \/ owner' = owner
        \/ \E r \in Registries, f \in Exts \cup {NoExt} : owner' = [owner EXCEPT ![r][i] = f]
    BY <1>0 DEF RegisterProvider, RegisterSidebar, RegisterCommand, Unregister, CreatePanel, DisposePanel, SetVisible, Outcome
  <2> QED BY <2>0, <2>1, <2>2
<1>2. visible' \subseteq Ids /\ told' \subseteq Exts
  BY <1>0 DEF RegisterProvider, RegisterSidebar, RegisterCommand, Unregister, CreatePanel, DisposePanel,
     SetVisible, Outcome, ApiTypeOK, Tell
<1>3. UNCHANGED <<caps, active, conn, listeners, guards, subscribing, next_id, uses>>
  BY DEF RegisterProvider, RegisterSidebar, RegisterCommand, Unregister, CreatePanel, DisposePanel, SetVisible
<1>4. ApiTypeOK'
  BY <1>0, <1>1, <1>2, <1>3 DEF ApiTypeOK
<1> QED BY <1>3, <1>4, BusUntouched

LEMMA ShellKeepsApi ==
    ASSUME ApiInv, NEW i \in Ids, ShellStep(i)
    PROVE  ApiInv'
<1>0. ApiTypeOK /\ "panel" \in Registries
  BY DEF ApiInv, Registries
<1>1. owner' \in [Registries -> [Ids -> Exts \cup {NoExt}]]
  <2>1. owner' = owner \/ owner' = [owner EXCEPT !["panel"][i] = NoExt]
    BY DEF ShellStep, ForwardPanelMessage, ForwardPanelViewState, ForwardPanelDisposed, NotifyView
  <2>2. [owner EXCEPT !["panel"][i] = NoExt] \in [Registries -> [Ids -> Exts \cup {NoExt}]]
    BY <1>0, OwnerTypes
  <2> QED BY <1>0, <2>1, <2>2 DEF ApiTypeOK
<1>2. visible' \subseteq Ids /\ told' \subseteq Exts
  BY <1>0 DEF ShellStep, ForwardPanelMessage, ForwardPanelViewState, ForwardPanelDisposed, NotifyView, ApiTypeOK, Tell
<1>3. UNCHANGED <<caps, active, conn, listeners, guards, subscribing, next_id, uses>>
  BY DEF ShellStep, ForwardPanelMessage, ForwardPanelViewState, ForwardPanelDisposed, NotifyView
<1>4. ApiTypeOK'
  BY <1>0, <1>1, <1>2, <1>3 DEF ApiTypeOK
<1> QED BY <1>3, <1>4, BusUntouched

\* Events that are fanned out, and handled by the host.
LEMMA EventsKeepApi ==
    ASSUME ApiInv,
           \/ \E e \in Exts : Handled(e) \/ \E t \in Topics : EmitFromExtension(e, t)
           \/ \E t \in Topics : EmitFromPlatform(t)
    PROVE  ApiInv'
<1>0. ApiTypeOK
  BY DEF ApiInv
<1>1. told' \subseteq Exts
  BY <1>0 DEF Handled, EmitFromExtension, EmitFromPlatform, Fanout, ApiTypeOK
<1>2. UNCHANGED <<owner, visible, caps, active, conn, listeners, guards, subscribing, next_id, uses>>
  BY DEF Handled, EmitFromExtension, EmitFromPlatform
<1>3. ApiTypeOK'
  BY <1>0, <1>1, <1>2 DEF ApiTypeOK
<1> QED BY <1>2, <1>3, BusUntouched

\* The three sections of events/subscribe, and its reverse.
LEMMA SubscribeKeepsApi ==
    ASSUME ApiInv, NEW e \in Exts,
           \/ SubscribeBus(e) \/ SubscribeGuard(e)
           \/ \E t \in Topics : SubscribeConn(e, t) \/ Unsubscribe(e, t)
    PROVE  ApiInv'
<1>0. ApiTypeOK /\ subscribing \in [Exts -> Subscribing]
  BY DEF ApiInv, ApiTypeOK, Subscribing
<1>1. ASSUME NEW t \in Topics, SubscribeConn(e, t) PROVE ApiInv'
  <2> DEFINE r == [pc |-> "connected", topic |-> t, conn |-> conn[e], id |-> 0]
  <2>1. r \in Subscribing /\ r.pc = "connected"
    BY <1>0, ApiAssumption DEF Subscribing, ApiTypeOK
  <2>2. subscribing' = [subscribing EXCEPT ![e] = r] /\ subscribing[e].pc = "none"
        /\ UNCHANGED <<owner, visible, caps, active, conn, listeners, guards, next_id, told, uses>>
    BY <1>1 DEF SubscribeConn
  <2> HIDE DEF r
  <2>3. subscribing' \in [Exts -> Subscribing] /\ \A f \in Exts : f # e => subscribing'[f] = subscribing[f]
    BY <1>0, <2>1, <2>2
  <2>4. ApiTypeOK'
    BY <1>0, <2>2, <2>3 DEF ApiTypeOK, Subscribing
  <2>5. ListenersAreGuarded'
    BY <1>0, <2>2, <2>3 DEF ApiInv, ListenersAreGuarded, ApiTypeOK, Listener
  <2> QED BY <2>4, <2>5 DEF ApiInv
<1>2. CASE SubscribeBus(e)
  <2> DEFINE s == subscribing[e]
  <2>0. s.pc = "connected" /\ s \in Subscribing /\ UNCHANGED <<owner, visible, caps, active, conn, guards, told, uses>>
    BY <1>0, <1>2 DEF SubscribeBus
  <2>1. CASE subscribing' = [subscribing EXCEPT ![e] = NotSubscribing] /\ UNCHANGED <<listeners, next_id>>
    <3>1. subscribing' \in [Exts -> Subscribing] /\ \A f \in Exts : f # e => subscribing'[f] = subscribing[f]
      BY <1>0, <2>1, RestType
    <3>2. ApiTypeOK'
      BY <1>0, <2>0, <2>1, <3>1 DEF ApiTypeOK, Subscribing
    <3>3. ListenersAreGuarded'
      BY <1>0, <2>0, <2>1, <3>1 DEF ApiInv, ListenersAreGuarded, ApiTypeOK, Listener
    <3> QED BY <3>2, <3>3 DEF ApiInv
  <2>2. CASE /\ listeners' = listeners \cup {[id |-> next_id, ext |-> e, topic |-> s.topic, conn |-> s.conn]}
             /\ subscribing' = [subscribing EXCEPT ![e].pc = "listening", ![e].id = next_id]
             /\ next_id' = next_id + 1 /\ next_id < MaxListeners
    <3> DEFINE q == [s EXCEPT !.pc = "listening"]
               r == [q EXCEPT !.id = next_id]
               l == [id |-> next_id, ext |-> e, topic |-> s.topic, conn |-> s.conn]
    <3>1. q \in Subscribing /\ q.pc = "listening"
      BY <2>0 DEF Subscribing
    <3>2. subscribing' = [subscribing EXCEPT ![e] = r]
      BY <1>0, <2>2
    <3>3. listeners' = listeners \cup {l} /\ l \in Listener /\ l.id = next_id /\ l.ext = e
      BY <1>0, <2>0, <2>2 DEF ApiTypeOK, Listener, Subscribing
    <3>4. next_id \in 0..MaxListeners /\ next_id' \in 0..MaxListeners
      BY <1>0, <2>2, ApiAssumption DEF ApiTypeOK
    <3> HIDE DEF q, l
    <3>5. r \in Subscribing /\ r.pc = "listening" /\ r.id = next_id
      BY <3>1, <3>4 DEF Subscribing
    <3> HIDE DEF r
    <3>6. subscribing' \in [Exts -> Subscribing] /\ subscribing'[e] = r /\ \A f \in Exts : f # e => subscribing'[f] = subscribing[f]
      BY <1>0, <3>2, <3>5
    <3>7. ApiTypeOK'
      BY <1>0, <2>0, <3>3, <3>4, <3>6 DEF ApiTypeOK, Subscribing
    <3>8. ListenersAreGuarded'
      <4> SUFFICES ASSUME NEW m \in listeners'
                   PROVE  \/ m.id \in guards[m.ext] /\ m.ext \in active
                          \/ subscribing'[m.ext].pc = "listening" /\ subscribing'[m.ext].id = m.id
        BY <2>0 DEF ListenersAreGuarded
      <4>1. CASE m = l
        BY <3>3, <3>5, <3>6, <4>1
      <4>2. CASE m \in listeners
        <5>1. m.ext \in Exts
          BY <1>0, <4>2 DEF ApiTypeOK, Listener
        <5> QED BY <2>0, <3>6, <4>2, <5>1 DEF ApiInv, ListenersAreGuarded
      <4> QED BY <3>3, <4>1, <4>2
    <3> QED BY <3>7, <3>8 DEF ApiInv
  <2> QED BY <1>2, <2>1, <2>2 DEF SubscribeBus
<1>3. CASE SubscribeGuard(e)
  <2>0. subscribing[e].pc = "listening" /\ subscribing' = [subscribing EXCEPT ![e] = NotSubscribing]
        /\ UNCHANGED <<owner, visible, caps, active, conn, next_id, told, uses>>
    BY <1>3 DEF SubscribeGuard
  <2>1. subscribing' \in [Exts -> Subscribing] /\ \A f \in Exts : f # e => subscribing'[f] = subscribing[f]
    BY <1>0, <2>0, RestType
  <2>2. subscribing[e].id \in 0..MaxListeners
    BY <1>0 DEF Subscribing
  <2>3. CASE e \in active
    <3>1. guards' = [guards EXCEPT ![e] = @ \cup {subscribing[e].id}] /\ listeners' = listeners
      BY <1>3, <2>3 DEF SubscribeGuard
    <3>2. ApiTypeOK'
      BY <1>0, <2>0, <2>1, <2>2, <3>1 DEF ApiTypeOK, Subscribing
    <3>3. ListenersAreGuarded'
      BY <1>0, <2>0, <2>1, <2>3, <3>1 DEF ApiInv, ListenersAreGuarded, ApiTypeOK, Listener
    <3> QED BY <3>2, <3>3 DEF ApiInv
  <2>4. CASE e \notin active
    <3>1. listeners' = {l \in listeners : l.id # subscribing[e].id} /\ guards' = guards
      BY <1>3, <2>4 DEF SubscribeGuard
    <3>2. ApiTypeOK'
      BY <1>0, <2>0, <2>1, <3>1 DEF ApiTypeOK, Subscribing
    <3>3. ListenersAreGuarded'
      BY <1>0, <2>0, <2>1, <2>4, <3>1 DEF ApiInv, ListenersAreGuarded, ApiTypeOK, Listener
    <3> QED BY <3>2, <3>3 DEF ApiInv
  <2> QED BY <2>3, <2>4
<1>4. ASSUME NEW t \in Topics, Unsubscribe(e, t) PROVE ApiInv'
  <2>1. PICK gone : /\ listeners' = {l \in listeners : l.id \notin gone}
                    /\ guards' = [guards EXCEPT ![e] = @ \ gone]
                    /\ UNCHANGED <<owner, visible, caps, active, conn, subscribing, next_id, told, uses>>
    BY <1>4 DEF Unsubscribe
  <2>2. ApiTypeOK'
    BY <1>0, <2>1 DEF ApiTypeOK
  <2>3. ListenersAreGuarded'
    BY <1>0, <2>1 DEF ApiInv, ListenersAreGuarded, ApiTypeOK, Listener
  <2> QED BY <2>2, <2>3 DEF ApiInv
<1> QED BY <1>1, <1>2, <1>3, <1>4

\* Every step keeps the listeners guarded.
LEMMA NextApi == ApiInv /\ [ApiNext]_apiVars => ApiInv'
<1> SUFFICES ASSUME ApiInv, [ApiNext]_apiVars PROVE ApiInv'
  OBVIOUS
<1>1. CASE UNCHANGED apiVars
  BY <1>1 DEF apiVars, ApiInv, ApiTypeOK, ListenersAreGuarded
<1>2. ASSUME NEW e \in Exts, ExtStep(e) PROVE ApiInv'
  BY <1>2, HostsKeepApi, RegistriesKeepApi, EventsKeepApi, SubscribeKeepsApi DEF ExtStep
<1>3. ASSUME NEW i \in Ids, ShellStep(i) PROVE ApiInv'
  BY <1>3, ShellKeepsApi
<1>4. ASSUME NEW t \in Topics, EmitFromPlatform(t) PROVE ApiInv'
  BY <1>4, EventsKeepApi
<1> QED BY <1>1, <1>2, <1>3, <1>4 DEF ApiNext

\* Another extension's step leaves a registration where it is.
LEMMA OthersKeep ==
    ASSUME ApiTypeOK, NEW e \in Exts, NEW i \in Ids, NEW r \in Registries \ {"contribution"}, owner[r][i] = e,
           NEW f \in Exts \ {e}, ExtStep(f)
    PROVE  owner'[r][i] = e
<1>0. owner \in [Registries -> [Ids -> Exts \cup {NoExt}]] /\ e # NoExt /\ f # e
  BY ApiAssumption DEF ApiTypeOK
<1>1. CASE Activate(f)
  <2>1. CASE r = "renderer"
    BY <1>0, <1>1, <2>1, Ingested DEF IngestRenderers
  <2> QED BY <1>0, <1>1, <2>1, Ingested
<1>2. CASE Deactivate(f) \/ Respawn(f)
  BY <1>0, <1>2 DEF Deactivate, Respawn, UnregisterAll
<1>3. ASSUME NEW j \in Ids, RegisterProvider(f, j) \/ RegisterSidebar(f, j) \/ RegisterCommand(f, j)
      PROVE  owner'[r][i] = e
  <2>1. \/ owner' = owner
        \/ \E s \in Registries : Free(s, f, j) /\ owner' = [owner EXCEPT ![s][j] = f]
    BY <1>3 DEF RegisterProvider, RegisterSidebar, RegisterCommand, Outcome, Registries
  <2> QED BY <1>0, <2>1 DEF Free
<1>4. ASSUME NEW j \in Ids, CreatePanel(f, j) \/ DisposePanel(f, j) \/ \E s \in Registries : Unregister(s, f, j)
      PROVE  owner'[r][i] = e
  <2>1. \E s \in Registries, g \in {f, NoExt} : owner[s][j] \in {f, NoExt} /\ owner' = [owner EXCEPT ![s][j] = g]
    BY <1>4 DEF CreatePanel, DisposePanel, Unregister, Registries
  <2> QED BY <1>0, <2>1
<1>5. CASE owner' = owner
  BY <1>5
<1> QED BY <1>1, <1>2, <1>3, <1>4, <1>5 DEF ExtStep, SetVisible, SubscribeBus, SubscribeGuard, Handled, SubscribeConn, Unsubscribe, EmitFromExtension

\* The variables of the registries and of the bus keep their types.
THEOREM ApiTypeCorrect == ApiSpec => []ApiTypeOK
<1>1. ApiInv => ApiTypeOK
  BY DEF ApiInv
<1> QED BY <1>1, InitApi, NextApi, PTL DEF ApiSpec

\* Whatever deactivations, respawns and unsubscribes come between the three
\* locks of events/subscribe, no listener is left on the bus without the guard
\* that takes it off.
THEOREM ListenersCorrect == ApiSpec => []ListenersAreGuarded
<1>1. ApiInv => ListenersAreGuarded
  BY DEF ApiInv
<1> QED BY <1>1, InitApi, NextApi, PTL DEF ApiSpec

\* No step of an extension takes a registration away from another one.
THEOREM RegistrationsCorrect == ApiSpec => RegistrationsAreKept
<1>1. ASSUME ApiInv, [ApiNext]_apiVars
      PROVE  [\A e \in Exts, i \in Ids, r \in Registries \ {"contribution"} :
                owner[r][i] = e /\ owner'[r][i] # e => ExtStep(e) \/ ShellStep(i)]_apiVars
  <2> SUFFICES ASSUME ApiNext, NEW e \in Exts, NEW i \in Ids, NEW r \in Registries \ {"contribution"},
                      owner[r][i] = e, owner'[r][i] # e
               PROVE  ExtStep(e) \/ ShellStep(i)
    BY <1>1
  <2>0. ApiTypeOK
    BY <1>1 DEF ApiInv
  <2>1. ASSUME NEW f \in Exts, ExtStep(f) PROVE ExtStep(e)
    BY <2>0, <2>1, OthersKeep
  <2>2. ASSUME NEW j \in Ids, ShellStep(j) PROVE ShellStep(i)
    <3>1. owner' = owner \/ owner' = [owner EXCEPT !["panel"][j] = NoExt]
      BY <2>2 DEF ShellStep, ForwardPanelMessage, ForwardPanelViewState, ForwardPanelDisposed, NotifyView
    <3>2. i = j
      BY <2>0, <3>1 DEF ApiTypeOK
    <3> QED BY <2>2, <3>2
  <2>3. ~\E t \in Topics : EmitFromPlatform(t)
    BY DEF EmitFromPlatform
  <2> QED BY <2>1, <2>2, <2>3 DEF ApiNext
<1> QED BY <1>1, InitApi, NextApi, PTL DEF ApiSpec, RegistrationsAreKept

-----------------------------------------------------------------------------
(* The registry of installed extensions.                                   *)

Entry == {NoEntry} \cup [flag : Flags, dir : {"own", "staged"}]
Installing == [id : ExtIds \cup {"none"}, from : {"none", "dir", "cmx"}, pc : {"idle", "checked", "copy", "save"}]
IsOff == {"off", "crash"}

\* Only a process that runs installs, and something.
AtWork == \A p \in Procs : copying[p].pc # "idle" => p \in up /\ copying[p].id \in ExtIds

Remembered ==
    \A id \in off : /\ id \notin forgot => saved[id] \in IsOff
                    /\ \A p \in up : id \in aware[p] => regs[p][id].flag \in IsOff

InstallTypeOK ==
    /\ regs \in [Procs -> [ExtIds -> Entry]] /\ up \subseteq Procs /\ saved \in [ExtIds -> Flags \cup {"absent"}]
    /\ dirs \in [ExtIds -> {"none", "bare", "part", "whole"}] /\ staged \subseteq ExtIds
    /\ copying \in [Procs -> Installing] /\ opens \in 0..MaxOpens
    /\ off \subseteq ExtIds /\ aware \in [Procs -> SUBSET ExtIds] /\ forgot \subseteq ExtIds

InstallInv == InstallTypeOK /\ AtWork /\ Remembered

\* What a save leaves in registry.json and among the forgotten, given that the
\* process has what it is aware of switched off in memory.
LEMMA SaveRemembers ==
    ASSUME InstallInv, NEW p \in Procs, NEW entries \in [ExtIds -> Entry], NEW ok \in BOOLEAN, Save(p, entries, ok),
           off' \subseteq off, \A id \in off' : id \in aware'[p] => entries[id].flag \in IsOff
    PROVE  /\ saved' \in [ExtIds -> Flags \cup {"absent"}] /\ forgot' \subseteq ExtIds
           /\ \A id \in off' : id \notin forgot' => saved'[id] \in IsOff
<1>1. \A e \in Entry : e.flag \in Flags \cup {"absent"}
  BY DEF Entry, NoEntry
<1>2. CASE ok
  <2>1. saved' = [id \in ExtIds |-> entries[id].flag] /\ forgot' = forgot \cup {id \in off' : id \notin aware'[p]}
    BY <1>2 DEF Save
  <2> QED BY <1>1, <2>1 DEF InstallInv, InstallTypeOK
<1>3. CASE ~ok
  BY <1>3 DEF Save, InstallInv, InstallTypeOK, Remembered
<1> QED BY <1>2, <1>3

\* A process that opens the registry finds what was saved.
LEMMA OpenKeeps ==
    ASSUME InstallInv, NEW p \in Procs, OpenRegistry(p)
    PROVE  InstallInv'
<1>0. InstallTypeOK
  BY DEF InstallInv
<1>1. PICK pick \in {"own", "staged"}, read \in BOOLEAN, ok \in BOOLEAN :
         LET entries == [id \in ExtIds |-> IF read THEN Found(id, pick) ELSE NoEntry] IN
         /\ regs' = [regs EXCEPT ![p] = entries]
         /\ aware' = [aware EXCEPT ![p] = {id \in off : read /\ entries[id] # NoEntry /\ id \notin forgot}]
         /\ up' = IF (read /\ ok) \/ p = "app" THEN up \cup {p} ELSE up
         /\ off' = off
         /\ Save(p, entries, read /\ ok)
  BY DEF OpenRegistry
<1> DEFINE entries == [id \in ExtIds |-> IF read THEN Found(id, pick) ELSE NoEntry]
           known == {id \in off : read /\ entries[id] # NoEntry /\ id \notin forgot}
<1>2. regs' = [regs EXCEPT ![p] = entries] /\ aware' = [aware EXCEPT ![p] = known] /\ off' = off
      /\ up' \subseteq Procs /\ up \subseteq up' /\ up' \subseteq up \cup {p} /\ Save(p, entries, read /\ ok)
      /\ UNCHANGED <<dirs, staged, copying>> /\ p \notin up /\ opens' \in 0..MaxOpens
  <2>1. regs' = [regs EXCEPT ![p] = entries] /\ aware' = [aware EXCEPT ![p] = known] /\ off' = off
        /\ Save(p, entries, read /\ ok) /\ up' = IF (read /\ ok) \/ p = "app" THEN up \cup {p} ELSE up
    BY <1>1, Zenon
  <2> HIDE DEF entries, known
  <2>2. opens' \in 0..MaxOpens /\ p \notin up /\ UNCHANGED <<dirs, staged, copying>>
    BY <1>0, StoresAssumption DEF OpenRegistry, InstallTypeOK
  <2>3. up' \subseteq Procs /\ up \subseteq up' /\ up' \subseteq up \cup {p}
    BY <1>0, <2>1 DEF InstallTypeOK
  <2> QED BY <2>1, <2>2, <2>3
<1>3. \A id \in ExtIds : Found(id, pick) \in Entry /\ (Found(id, pick) # NoEntry => Found(id, pick).flag = FoundFlag(id))
  <2> SUFFICES ASSUME NEW id \in ExtIds, Found(id, pick) # NoEntry
               PROVE  Found(id, pick) \in Entry /\ Found(id, pick).flag = FoundFlag(id)
    BY DEF Entry
  <2>1. PICK d \in {"own", "staged"} : Found(id, pick) = [flag |-> FoundFlag(id), dir |-> d]
    BY DEF Found
  <2>2. FoundFlag(id) \in Flags
    BY <1>0 DEF FoundFlag, InstallTypeOK, Flags
  <2> QED BY <2>1, <2>2 DEF Entry
<1>4. entries \in [ExtIds -> Entry]
  BY <1>3 DEF Entry
<1>5. known \subseteq ExtIds /\ \A id \in known : id \in off /\ entries[id].flag \in IsOff
  BY <1>0, <1>3 DEF InstallInv, InstallTypeOK, Remembered, FoundFlag, IsOff
<1> HIDE DEF entries, known
<1>6. aware' \in [Procs -> SUBSET ExtIds] /\ aware'[p] = known /\ \A q \in Procs : q # p => aware'[q] = aware[q]
  BY <1>0, <1>2, <1>5 DEF InstallTypeOK
<1>7. regs' \in [Procs -> [ExtIds -> Entry]] /\ regs'[p] = entries /\ \A q \in Procs : q # p => regs'[q] = regs[q]
  BY <1>0, <1>2, <1>4 DEF InstallTypeOK
<1>8. /\ saved' \in [ExtIds -> Flags \cup {"absent"}] /\ forgot' \subseteq ExtIds
      /\ \A id \in off' : id \notin forgot' => saved'[id] \in IsOff
  <2>1. (read /\ ok) \in BOOLEAN
    OBVIOUS
  <2> QED BY <1>2, <1>4, <1>5, <1>6, <2>1, SaveRemembers
<1>9. InstallTypeOK'
  BY <1>0, <1>2, <1>6, <1>7, <1>8 DEF InstallTypeOK
<1>10. AtWork'
  BY <1>2 DEF InstallInv, AtWork
<1>11. Remembered'
  BY <1>0, <1>2, <1>5, <1>6, <1>7, <1>8 DEF InstallInv, InstallTypeOK, Remembered
<1> QED BY <1>9, <1>10, <1>11 DEF InstallInv

\* The record of an install moves on, or is cleared.
LEMMA InstallMoves ==
    ASSUME InstallTypeOK, NEW p \in Procs
    PROVE  /\ NoInstall \in Installing /\ NoInstall.pc = "idle"
           /\ [copying EXCEPT ![p] = NoInstall] \in [Procs -> Installing]
           /\ \A q \in Procs : q # p => [copying EXCEPT ![p] = NoInstall][q] = copying[q]
           /\ [copying EXCEPT ![p] = NoInstall][p].pc = "idle"
<1>1. NoInstall \in Installing /\ NoInstall.pc = "idle"
  BY DEF NoInstall, Installing
<1> QED BY <1>1 DEF InstallTypeOK

\* Steps that neither save nor change a flag.
LEMMA CopyKeeps ==
    ASSUME InstallInv, NEW p \in Procs,
           CopyBegins(p) \/ CopyStep(p) \/ \E id \in ExtIds : Install(p, id) \/ Unpack(p, id)
    PROVE  InstallInv'
<1>0. InstallTypeOK /\ AtWork /\ UNCHANGED <<regs, up, saved, opens, off, aware, forgot>>
  BY DEF InstallInv, CopyBegins, CopyStep, Install, Unpack
<1>1. ASSUME NEW x \in Installing, x.pc # "idle" => p \in up /\ x.id \in ExtIds, copying' = [copying EXCEPT ![p] = x],
             dirs' \in [ExtIds -> {"none", "bare", "part", "whole"}], staged' \subseteq ExtIds
      PROVE  InstallInv'
  <2>1. InstallTypeOK'
    BY <1>0, <1>1 DEF InstallTypeOK
  <2>2. AtWork'
    BY <1>0, <1>1 DEF AtWork, InstallTypeOK
  <2>3. Remembered'
    BY <1>0 DEF InstallInv, Remembered
  <2> QED BY <2>1, <2>2, <2>3 DEF InstallInv
<1>2. CASE copying' = [copying EXCEPT ![p] = NoInstall] /\ staged' = Unstage(p) /\ dirs' = dirs
  <2>1. Unstage(p) \subseteq ExtIds
    BY <1>0 DEF InstallTypeOK, Unstage
  <2> QED BY <1>0, <1>1, <1>2, <2>1, InstallMoves DEF InstallTypeOK
<1>3. ASSUME NEW d \in {"bare", "part", "whole"}, NEW to \in {"copy", "save"}, copying[p].pc # "idle", staged' = staged,
             dirs' = [dirs EXCEPT ![copying[p].id] = d], copying' = [copying EXCEPT ![p].pc = to]
      PROVE  InstallInv'
  <2> DEFINE x == [copying[p] EXCEPT !.pc = to]
  <2>1. copying[p] \in Installing /\ copying \in [Procs -> Installing] /\ p \in up /\ copying[p].id \in ExtIds
    BY <1>0, <1>3 DEF InstallTypeOK, AtWork
  <2>2. x \in Installing /\ x.id = copying[p].id
    BY <1>3, <2>1 DEF Installing
  <2>3. copying' = [copying EXCEPT ![p] = x]
    BY <1>3, <2>1
  <2>4. dirs' \in [ExtIds -> {"none", "bare", "part", "whole"}] /\ staged' \subseteq ExtIds
    BY <1>0, <1>3, <2>1 DEF InstallTypeOK
  <2> HIDE DEF x
  <2> QED BY <1>1, <2>1, <2>2, <2>3, <2>4
<1>4. CASE dirs[copying[p].id] = "bare" /\ copying[p].pc = "copy" /\ dirs' = [dirs EXCEPT ![copying[p].id] = "part"] /\ UNCHANGED <<copying, staged>>
  <2>1. InstallTypeOK' /\ AtWork'
    BY <1>0, <1>4 DEF InstallTypeOK, AtWork
  <2> QED BY <1>0, <2>1 DEF InstallInv, Remembered
<1>5. CASE CopyBegins(p)
  BY <1>2, <1>3, <1>5 DEF CopyBegins
<1>6. CASE CopyStep(p)
  BY <1>2, <1>3, <1>4, <1>6 DEF CopyStep
<1>7. ASSUME NEW id \in ExtIds, Install(p, id) \/ Unpack(p, id) PROVE InstallInv'
  <2>1. PICK f \in {"dir", "cmx"} : copying' = [copying EXCEPT ![p] = [id |-> id, from |-> f, pc |-> "checked"]]
    BY <1>7 DEF Install, Unpack
  <2> DEFINE x == [id |-> id, from |-> f, pc |-> "checked"]
  <2>2. x \in Installing /\ x.id = id
    BY DEF Installing
  <2>3. p \in up /\ dirs' = dirs /\ staged' \subseteq ExtIds
    BY <1>0, <1>7 DEF Install, Unpack, Unlocked, InstallTypeOK
  <2>4. copying' = [copying EXCEPT ![p] = x]
    BY <2>1
  <2> HIDE DEF x
  <2> QED BY <1>0, <1>1, <2>2, <2>3, <2>4 DEF InstallTypeOK
<1> QED BY <1>5, <1>6, <1>7

\* An install is saved, or undone.
LEMMA InstallEndsKeeps ==
    ASSUME InstallInv, NEW p \in Procs, InstallEnds(p)
    PROVE  InstallInv'
<1> DEFINE id == copying[p].id
           on == [flag |-> "on", dir |-> "own"]
<1>0. InstallTypeOK /\ AtWork /\ Remembered /\ id \in ExtIds /\ p \in up
  BY DEF InstallInv, InstallEnds, AtWork
<1>1. PICK ok \in BOOLEAN :
         /\ regs' = IF ok THEN [regs EXCEPT ![p][id] = on] ELSE regs
         /\ dirs' = IF ok THEN dirs ELSE [dirs EXCEPT ![id] = "none"]
         /\ off' = IF ok THEN off \ {id} ELSE off
         /\ aware' = aware
         /\ Save(p, regs'[p], ok)
  BY DEF InstallEnds
<1>2. copying' = [copying EXCEPT ![p] = NoInstall] /\ staged' = Unstage(p) /\ UNCHANGED <<up, opens>>
  BY DEF InstallEnds
<1>3. on \in Entry
  BY DEF Entry, Flags
<1> HIDE DEF id, on
<1>4. regs' \in [Procs -> [ExtIds -> Entry]] /\ \A q \in Procs, i \in ExtIds : i \in off' => regs'[q][i] = regs[q][i]
  BY <1>0, <1>1, <1>3 DEF InstallTypeOK
<1>5. off' \subseteq off /\ off' \subseteq ExtIds /\ dirs' \in [ExtIds -> {"none", "bare", "part", "whole"}] /\ staged' \subseteq ExtIds
  BY <1>0, <1>1, <1>2 DEF InstallTypeOK, Unstage
<1>6. \A i \in off' : i \in aware'[p] => regs'[p][i].flag \in IsOff
  BY <1>0, <1>1, <1>4, <1>5 DEF Remembered
<1>7. regs'[p] \in [ExtIds -> Entry]
  BY <1>4
<1>8. /\ saved' \in [ExtIds -> Flags \cup {"absent"}] /\ forgot' \subseteq ExtIds
      /\ \A i \in off' : i \notin forgot' => saved'[i] \in IsOff
  BY <1>1, <1>5, <1>6, <1>7, SaveRemembers
<1>9. copying' \in [Procs -> Installing] /\ AtWork'
  BY <1>0, <1>2, InstallMoves DEF AtWork
<1>10. InstallTypeOK'
  BY <1>0, <1>1, <1>2, <1>4, <1>5, <1>8, <1>9 DEF InstallTypeOK
<1>11. Remembered'
  BY <1>0, <1>1, <1>2, <1>4, <1>5, <1>8 DEF InstallTypeOK, Remembered
<1> QED BY <1>9, <1>10, <1>11 DEF InstallInv

\* An entry is removed, with its directory or not.
LEMMA UninstallKeeps ==
    ASSUME InstallInv, NEW p \in Procs, NEW id \in ExtIds, Uninstall(p, id)
    PROVE  InstallInv'
<1>0. InstallTypeOK /\ AtWork /\ Remembered /\ p \in up /\ regs' = [regs EXCEPT ![p][id] = NoEntry]
      /\ off' = off \ {id} /\ aware' = aware /\ UNCHANGED <<up, copying, opens>>
  BY DEF InstallInv, Uninstall, Unlocked
<1>1. regs' \in [Procs -> [ExtIds -> Entry]] /\ \A q \in Procs, i \in ExtIds : i \in off' => regs'[q][i] = regs[q][i]
  BY <1>0 DEF InstallTypeOK, Entry
<1>2. off' \subseteq off /\ off' \subseteq ExtIds /\ dirs' \in [ExtIds -> {"none", "bare", "part", "whole"}] /\ staged' \subseteq ExtIds
  BY <1>0 DEF InstallTypeOK, Uninstall
<1>3. \A i \in off' : i \in aware'[p] => regs'[p][i].flag \in IsOff
  BY <1>0, <1>1, <1>2 DEF Remembered
<1>4. regs'[p] \in [ExtIds -> Entry]
  BY <1>1
<1>5. /\ saved' \in [ExtIds -> Flags \cup {"absent"}] /\ forgot' \subseteq ExtIds
      /\ \A i \in off' : i \notin forgot' => saved'[i] \in IsOff
  <2>1. ASSUME NEW ok \in BOOLEAN, Save(p, regs'[p], ok)
        PROVE  /\ saved' \in [ExtIds -> Flags \cup {"absent"}] /\ forgot' \subseteq ExtIds
               /\ \A i \in off' : i \notin forgot' => saved'[i] \in IsOff
    BY <1>2, <1>3, <1>4, <2>1, SaveRemembers
  <2>2. CASE UNCHANGED <<saved, forgot>>
    BY <1>0, <1>2, <2>2 DEF InstallTypeOK, Remembered
  <2> QED BY <2>1, <2>2 DEF Uninstall
<1>6. InstallTypeOK' /\ AtWork'
  BY <1>0, <1>1, <1>2, <1>5 DEF InstallTypeOK, AtWork
<1>7. Remembered'
  BY <1>0, <1>1, <1>2, <1>5 DEF InstallTypeOK, Remembered
<1> QED BY <1>6, <1>7 DEF InstallInv

\* An extension is switched on or off.
LEMMA SetFlagKeeps ==
    ASSUME InstallInv, NEW p \in Procs, NEW id \in ExtIds, NEW flag \in Flags, SetFlag(p, id, flag)
    PROVE  InstallInv'
<1> DEFINE kept == IF flag = "off" /\ regs[p][id].flag = "crash" THEN "crash" ELSE flag
           x == [regs[p][id] EXCEPT !.flag = kept]
<1>0. InstallTypeOK /\ AtWork /\ Remembered /\ p \in up /\ regs[p][id] # NoEntry
      /\ UNCHANGED <<up, dirs, staged, copying, opens>>
  BY DEF InstallInv, SetFlag, Unlocked
<1>1. kept \in Flags /\ (flag # "on" => kept \in IsOff)
  BY DEF Flags, IsOff
<1>2. regs' = [regs EXCEPT ![p][id] = x]
  BY <1>0 DEF SetFlag, InstallTypeOK
<1> HIDE DEF kept
<1>3. x \in Entry /\ x.flag = kept
  BY <1>0, <1>1 DEF InstallTypeOK, Entry
<1> HIDE DEF x
<1>4. /\ regs' \in [Procs -> [ExtIds -> Entry]] /\ regs'[p][id] = x
      /\ \A q \in Procs, i \in ExtIds : q # p \/ i # id => regs'[q][i] = regs[q][i]
  BY <1>0, <1>2, <1>3 DEF InstallTypeOK
<1>5. PICK ok \in BOOLEAN :
         /\ off' = IF flag = "on" THEN off \ {id} ELSE IF ok THEN off \cup {id} ELSE off
         /\ aware' = IF flag # "on" /\ ok
                     THEN [q \in Procs |-> IF q = p THEN aware[p] \cup {id} ELSE aware[q] \ {id}] ELSE aware
         /\ IF flag # "on" /\ ok
            THEN /\ saved' = [i \in ExtIds |-> regs'[p][i].flag]
                 /\ forgot' = (forgot \ {id}) \cup {i \in off' : i \notin aware'[p]}
            ELSE Save(p, regs'[p], ok)
  BY DEF SetFlag
<1>6. CASE flag # "on" /\ ok
  <2>1. /\ off' = off \cup {id} /\ aware' = [q \in Procs |-> IF q = p THEN aware[p] \cup {id} ELSE aware[q] \ {id}]
        /\ saved' = [i \in ExtIds |-> regs'[p][i].flag]
        /\ forgot' = (forgot \ {id}) \cup {i \in off' : i \notin aware'[p]}
    BY <1>5, <1>6
  <2>2. \A e \in Entry : e.flag \in Flags \cup {"absent"}
    BY DEF Entry, NoEntry
  <2>3. saved' \in [ExtIds -> Flags \cup {"absent"}]
    BY <1>4, <2>1, <2>2
  <2>4. aware' \in [Procs -> SUBSET ExtIds] /\ off' \subseteq ExtIds /\ forgot' \subseteq ExtIds
    BY <1>0, <2>1 DEF InstallTypeOK
  <2>5. InstallTypeOK' /\ AtWork'
    BY <1>0, <1>4, <2>3, <2>4 DEF InstallTypeOK, AtWork
  <2>6. \A i \in off', q \in up : i \in aware'[q] => regs'[q][i].flag \in IsOff
    <3> SUFFICES ASSUME NEW i \in off', NEW q \in up, i \in aware'[q] PROVE regs'[q][i].flag \in IsOff
      OBVIOUS
    <3>1. q \in Procs /\ i \in ExtIds
      BY <1>0, <2>4 DEF InstallTypeOK
    <3>2. CASE i = id
      BY <1>1, <1>3, <1>4, <1>6, <2>1, <3>1, <3>2
    <3>3. CASE i # id
      BY <1>0, <1>4, <2>1, <3>1, <3>3 DEF Remembered
    <3> QED BY <3>2, <3>3
  <2>7. \A i \in off' : i \notin forgot' => saved'[i] \in IsOff
    BY <1>0, <2>1, <2>4, <2>6
  <2>8. Remembered'
    BY <1>0, <2>6, <2>7 DEF Remembered
  <2> QED BY <2>5, <2>8 DEF InstallInv
<1>7. CASE ~(flag # "on" /\ ok)
  <2>1. aware' = aware /\ Save(p, regs'[p], ok) /\ off' \subseteq off /\ (id \in off' => flag # "on")
    BY <1>5, <1>7
  <2>2. \A i \in off', q \in up : i \in aware'[q] => regs'[q][i].flag \in IsOff
    <3> SUFFICES ASSUME NEW i \in off', NEW q \in up, i \in aware'[q] PROVE regs'[q][i].flag \in IsOff
      OBVIOUS
    <3>1. q \in Procs /\ i \in ExtIds
      BY <1>0, <2>1 DEF InstallTypeOK
    <3>2. CASE q = p /\ i = id
      BY <1>1, <1>3, <1>4, <2>1, <3>2
    <3>3. CASE q # p \/ i # id
      BY <1>0, <1>4, <2>1, <3>1, <3>3 DEF Remembered
    <3> QED BY <3>2, <3>3
  <2>3. regs'[p] \in [ExtIds -> Entry] /\ \A i \in off' : i \in aware'[p] => regs'[p][i].flag \in IsOff
    BY <1>0, <1>4, <2>2
  <2>4. /\ saved' \in [ExtIds -> Flags \cup {"absent"}] /\ forgot' \subseteq ExtIds
        /\ \A i \in off' : i \notin forgot' => saved'[i] \in IsOff
    BY <2>1, <2>3, SaveRemembers
  <2>5. InstallTypeOK' /\ AtWork'
    BY <1>0, <1>4, <2>1, <2>4 DEF InstallTypeOK, AtWork
  <2>6. Remembered'
    BY <1>0, <2>2, <2>4 DEF Remembered
  <2> QED BY <2>5, <2>6 DEF InstallInv
<1> QED BY <1>6, <1>7

\* A process ends and forgets.
LEMMA ExitKeeps ==
    ASSUME InstallInv, NEW p \in Procs, Exit(p)
    PROVE  InstallInv'
<1> DEFINE none == [id \in ExtIds |-> NoEntry]
<1>0. InstallTypeOK /\ AtWork /\ Remembered /\ up' = up \ {p} /\ copying' = [copying EXCEPT ![p] = NoInstall]
      /\ regs' = [regs EXCEPT ![p] = none] /\ aware' = [aware EXCEPT ![p] = {}]
      /\ UNCHANGED <<saved, dirs, staged, opens, off, forgot>>
  BY DEF InstallInv, Exit
<1>1. none \in [ExtIds -> Entry]
  BY DEF Entry
<1> HIDE DEF none
<1>2. copying' \in [Procs -> Installing] /\ AtWork'
  BY <1>0, InstallMoves DEF AtWork
<1>3. InstallTypeOK'
  BY <1>0, <1>1, <1>2 DEF InstallTypeOK
<1>4. Remembered'
  BY <1>0 DEF InstallTypeOK, Remembered
<1> QED BY <1>2, <1>3, <1>4 DEF InstallInv

\* Every step on the registry keeps what was acknowledged.
LEMMA RegistryKeeps == InstallInv /\ RegistryNext => InstallInv'
BY OpenKeeps, CopyKeeps, InstallEndsKeeps, UninstallKeeps, SetFlagKeeps, ExitKeeps DEF RegistryNext

-----------------------------------------------------------------------------
(* The key-value files, and both together.                                 *)

Maps == [StoreKeys -> 0..MaxSets]
Setting == [key : StoreKeys \cup {"none"}, map : Maps, pc : {"idle", "persist"}]

KvTypeOK ==
    /\ kvCache \in Maps /\ kvFile \in Maps /\ kvAcked \in Maps
    /\ kvCall \in [Callers -> Setting] /\ kvStore \in {"storage", "config"}

\* What is about to be written has a key.
Keyed == \A c \in Callers : kvCall[c].pc = "persist" => kvCall[c].key \in StoreKeys

\* Storage persists under its lock: one caller at a time, what it writes is
\* the map in memory, and that is never behind the file.
Locked ==
    kvStore = "storage" =>
        /\ \A c, d \in Callers : kvCall[c].pc = "persist" /\ kvCall[d].pc = "persist" => c = d
        /\ \A c \in Callers : kvCall[c].pc = "persist" => kvCall[c].map = kvCache
        /\ \A k \in StoreKeys : kvCache[k] >= kvFile[k] /\ kvFile[k] >= kvAcked[k]

KvInv == KvTypeOK /\ Keyed /\ Locked

\* No set is in progress.
LEMMA NoSetType == NoSet \in Setting /\ NoSet.pc = "idle"
BY StoresAssumption DEF NoSet, Setting, Maps

\* A value is set in memory.
LEMMA SetKeyKeeps ==
    ASSUME KvInv, NEW c \in Callers, NEW k \in StoreKeys, SetKey(c, k)
    PROVE  KvInv'
<1> DEFINE x == [key |-> k, map |-> kvCache', pc |-> "persist"]
<1>0. KvTypeOK /\ kvCall[c].pc = "idle" /\ kvCache' = [kvCache EXCEPT ![k] = @ + 1] /\ kvCall' = [kvCall EXCEPT ![c] = x]
      /\ UNCHANGED <<kvFile, kvAcked, kvStore>>
  BY DEF KvInv, SetKey
<1>1. kvCache' \in Maps
  <2>1. kvCache[k] + 1 \in 0..MaxSets
    BY <1>0, StoresAssumption DEF SetKey, KvTypeOK, Maps
  <2> QED BY <1>0, <2>1 DEF KvTypeOK, Maps
<1>2. x \in Setting /\ x.key = k /\ x.map = kvCache' /\ x.pc = "persist"
  BY <1>1 DEF Setting
<1> HIDE DEF x
<1>3. kvCall' \in [Callers -> Setting] /\ kvCall'[c] = x /\ \A d \in Callers : d # c => kvCall'[d] = kvCall[d]
  BY <1>0, <1>2 DEF KvTypeOK
<1>4. KvTypeOK'
  BY <1>0, <1>1, <1>3 DEF KvTypeOK
<1>5. Keyed'
  BY <1>2, <1>3 DEF KvInv, Keyed
<1>6. ASSUME kvStore = "storage" PROVE Locked'
  <2>1. \A d \in Callers : kvCall[d].pc # "persist"
    BY <1>6 DEF SetKey, HoldsLock
  <2>2. \A d \in Callers : kvCall'[d].pc = "persist" => d = c
    BY <1>3, <2>1
  <2>3. \A j \in StoreKeys : kvCache'[j] >= kvCache[j] /\ kvCache[j] \in Nat /\ kvFile[j] \in Nat /\ kvCache'[j] \in Nat
    BY <1>0, <1>1 DEF KvTypeOK, Maps
  <2>4. \A j \in StoreKeys : kvCache'[j] >= kvFile'[j] /\ kvFile'[j] >= kvAcked'[j]
    BY <1>0, <1>6, <2>3 DEF KvInv, Locked
  <2> QED BY <1>2, <1>3, <2>2, <2>4 DEF Locked
<1> QED BY <1>0, <1>4, <1>5, <1>6 DEF KvInv, Locked

\* The map is written, or the write fails.
LEMMA PersistKeeps ==
    ASSUME KvInv, NEW c \in Callers, Persist(c)
    PROVE  KvInv'
<1> DEFINE k == kvCall[c].key
           m == kvCall[c].map
<1>0. KvTypeOK /\ kvCall[c].pc = "persist" /\ kvCall' = [kvCall EXCEPT ![c] = NoSet] /\ UNCHANGED <<kvCache, kvStore>>
      /\ k \in StoreKeys /\ m \in Maps
  BY DEF KvInv, Persist, Keyed, KvTypeOK, Setting
<1>1. kvCall' \in [Callers -> Setting] /\ kvCall'[c].pc = "idle" /\ \A d \in Callers : d # c => kvCall'[d] = kvCall[d]
  BY <1>0, NoSetType DEF KvTypeOK
<1>2. Keyed'
  BY <1>1 DEF KvInv, Keyed
<1>3. CASE UNCHANGED <<kvFile, kvAcked>>
  <2>1. KvTypeOK' /\ Locked'
    BY <1>0, <1>1, <1>3 DEF KvInv, KvTypeOK, Locked
  <2> QED BY <1>2, <2>1 DEF KvInv
<1>4. CASE kvFile' = m /\ kvAcked' = [kvAcked EXCEPT ![k] = IF @ > m[k] THEN @ ELSE m[k]]
  <2> HIDE DEF k, m
  <2>1. kvAcked' \in Maps /\ \A j \in StoreKeys : kvAcked'[j] = kvAcked[j] \/ kvAcked'[j] <= m[j]
    BY <1>0, <1>4 DEF KvTypeOK, Maps
  <2>2. KvTypeOK'
    BY <1>0, <1>1, <1>4, <2>1 DEF KvTypeOK
  <2>3. ASSUME kvStore = "storage" PROVE Locked'
    <3>1. m = kvCache
      BY <1>0, <2>3 DEF KvInv, Locked, m
    <3>2. \A j \in StoreKeys : kvCache[j] \in Nat /\ kvFile[j] \in Nat /\ kvAcked[j] \in Nat
      BY <1>0 DEF KvTypeOK, Maps
    <3>3. \A j \in StoreKeys : kvCache'[j] >= kvFile'[j] /\ kvFile'[j] >= kvAcked'[j]
      BY <1>0, <1>4, <2>1, <2>3, <3>1, <3>2 DEF KvInv, Locked
    <3> QED BY <1>0, <1>1, <2>3, <3>3 DEF KvInv, Locked
  <2> QED BY <1>0, <1>2, <2>2, <2>3 DEF KvInv, Locked
<1> QED BY <1>3, <1>4 DEF Persist

\* The process starts again from the file.
LEMMA ReloadKeeps ==
    ASSUME KvInv, Reload
    PROVE  KvInv'
<1>1. kvCall' \in [Callers -> Setting] /\ \A c \in Callers : kvCall'[c].pc = "idle"
  BY NoSetType DEF Reload
<1>2. KvTypeOK' /\ Keyed'
  BY <1>1 DEF KvInv, KvTypeOK, Keyed, Reload
<1>3. \A k \in StoreKeys : kvFile[k] >= kvFile[k]
  BY DEF KvInv, KvTypeOK, Maps
<1>4. Locked'
  BY <1>1, <1>3 DEF KvInv, Locked, Reload
<1> QED BY <1>2, <1>4 DEF KvInv

StoresInv == InstallInv /\ KvInv

\* Nothing is installed and nothing was set.
LEMMA InitStores == StoresInit => StoresInv
<1> SUFFICES ASSUME StoresInit PROVE StoresInv
  OBVIOUS
<1>1. NoInstall \in Installing /\ NoInstall.pc = "idle"
  BY DEF NoInstall, Installing
<1>2. InstallTypeOK
  <2>1. copying \in [Procs -> Installing] /\ opens \in 0..MaxOpens
    BY <1>1, StoresAssumption DEF StoresInit
  <2>2. regs \in [Procs -> [ExtIds -> Entry]] /\ saved \in [ExtIds -> Flags \cup {"absent"}]
    BY DEF StoresInit, Entry
  <2> QED BY <2>1, <2>2 DEF StoresInit, InstallTypeOK
<1>3. AtWork /\ Remembered
  BY <1>1 DEF StoresInit, AtWork, Remembered
<1>4. kvCache \in Maps /\ kvFile = kvCache /\ kvAcked = kvCache /\ \A k \in StoreKeys : kvCache[k] = 0
  BY StoresAssumption DEF StoresInit, Maps
<1>5. kvCall \in [Callers -> Setting] /\ \A c \in Callers : kvCall[c].pc = "idle"
  BY NoSetType DEF StoresInit
<1>6. KvInv
  BY <1>4, <1>5 DEF KvInv, KvTypeOK, Keyed, Locked, StoresInit
<1> QED BY <1>2, <1>3, <1>6 DEF StoresInv, InstallInv

\* Every step keeps both.
LEMMA NextStores == StoresInv /\ [StoresNext]_storesVars => StoresInv'
<1> SUFFICES ASSUME StoresInv, [StoresNext]_storesVars PROVE StoresInv'
  OBVIOUS
<1>0. InstallInv /\ KvInv
  BY DEF StoresInv
<1>1. ASSUME UNCHANGED installVars PROVE InstallInv'
  BY <1>0, <1>1 DEF installVars, InstallInv, InstallTypeOK, AtWork, Remembered
<1>2. ASSUME UNCHANGED kvVars PROVE KvInv'
  BY <1>0, <1>2 DEF kvVars, KvInv, KvTypeOK, Keyed, Locked
<1>3. CASE UNCHANGED storesVars
  BY <1>1, <1>2, <1>3 DEF storesVars, StoresInv
<1>4. CASE RegistryNext
  <2>1. UNCHANGED kvVars
    BY <1>4 DEF RegistryNext, OpenRegistry, CopyBegins, CopyStep, InstallEnds, Exit, Install, Unpack, Uninstall, SetFlag
  <2> QED BY <1>0, <1>2, <1>4, <2>1, RegistryKeeps DEF StoresInv
<1>5. CASE KvNext
  <2>1. UNCHANGED installVars
    BY <1>5 DEF KvNext, SetKey, Persist, Reload
  <2>2. KvInv'
    BY <1>0, <1>5, SetKeyKeeps, PersistKeeps, ReloadKeeps DEF KvNext
  <2> QED BY <1>1, <2>1, <2>2 DEF StoresInv
<1> QED BY <1>3, <1>4, <1>5 DEF StoresNext

\* The registry, the directories and the stores keep their types.
THEOREM StoresTypeCorrect == StoresSpec => []StoresTypeOK
<1>1. StoresInv => StoresTypeOK
  BY DEF StoresInv, InstallInv, KvInv, StoresTypeOK, InstallTypeOK, KvTypeOK, Entry, Installing, Maps, Setting
<1> QED BY <1>1, InitStores, NextStores, PTL DEF StoresSpec

\* What set_enabled, disable_after_crash and storage.set acknowledged survives
\* failed saves, installs beside it and restarts; only a process that does not
\* know of it can undo it.
THEOREM SettingsCorrect == StoresSpec => []SettingsAreDurable
<1>1. StoresInv => SettingsAreDurable
  BY DEF StoresInv, InstallInv, KvInv, Remembered, Locked, SettingsAreDurable, IsOff
<1> QED BY <1>1, InitStores, NextStores, PTL DEF StoresSpec

-----------------------------------------------------------------------------
(* Log files.                                                              *)

Hole == IF rotation.at = "shift" THEN MaxHistory + 1 - rotation.k
        ELSE IF rotation.at = "move" THEN 1 ELSE IF rotation.at = "open" THEN 0 ELSE Unlinked

Placed ==
    /\ IF rotation.at = "shift" THEN rotation.k < MaxHistory ELSE rotation.k = 1
    /\ \A n \in LogNames : n < fd \/ n = Hole => logs[n] = NoFile
    /\ fd # Unlinked => logs[fd] # NoFile
    /\ fd <= misses + 1 /\ misses <= logFails
    /\ rotation.at \in {"idle", "remove"} => fd <= misses
    /\ rotation.at = "shift" /\ fd <= MaxHistory - rotation.k => fd <= misses

Ordered ==
    /\ OnFile \subseteq 1..written
    /\ \A n \in LogNames : logs[n] # NoFile => \A i, j \in 1..Len(logs[n]) : i < j => logs[n][i] < logs[n][j]
    /\ \A n, o \in LogNames : n < o => \A x \in Lines(o), y \in Lines(n) : x < y

Dense == \A x \in OnFile, y \in 1..written : x < y => y \in cleared \cup OnFile

There(n) == logs[n] # NoFile

Full == logFails = 0 /\ cleared = {} =>
    /\ fd = IF rotation.at = "open" THEN 1 ELSE 0
    /\ \A n \in 1..MaxHistory : There(n) => Len(logs[n]) >= MaxSize
    /\ rotation.at \in {"remove", "shift", "move"} => Len(logs[0]) >= MaxSize
    /\ \A n, m \in 1..MaxHistory : m < n /\ m # Hole /\ There(n) => There(m)
    /\ OnFile = 1..written \/ \A n \in 1..MaxHistory : n # Hole => There(n)

LogInv == LogTypeOK /\ Placed /\ Ordered /\ Dense /\ Full

\* The names of the files.
LEMMA Names ==
    /\ 0 \in LogNames /\ 1 \in LogNames /\ MaxHistory \in LogNames /\ MaxHistory >= 1 /\ LogNames \subseteq Nat
    /\ Unlinked \notin LogNames /\ Unlinked \in Nat /\ \A n \in LogNames : n < Unlinked
    /\ \A n \in LogNames : n = 0 \/ n \in 1..MaxHistory
    /\ \A n \in 1..MaxHistory : n \in LogNames
BY LogAssumption DEF LogNames, Unlinked

LEMMA InitLog == LogInit => LogInv
<1> SUFFICES ASSUME LogInit PROVE LogInv
  OBVIOUS
<1>1. LogTypeOK
  <2>1. logs \in [LogNames -> Seq(0..MaxLines)]
    <3>1. <<>> \in Seq(0..MaxLines) /\ NoFile \in Seq(0..MaxLines)
      BY LogAssumption DEF NoFile
    <3> QED BY <3>1 DEF LogInit
  <2>2. rotation \in [at : {"idle", "remove", "shift", "move", "open"}, k : 1..MaxHistory]
    BY LogAssumption DEF LogInit, Quiet
  <2>3. fd \in 0..Unlinked /\ written \in 0..MaxLines /\ misses \in 0..MaxLogFails /\ logFails \in 0..MaxLogFails
    BY LogAssumption DEF LogInit, Unlinked
  <2> QED BY <2>1, <2>2, <2>3 DEF LogInit, LogTypeOK
<1>2. logs[0] = <<>> /\ \A n \in LogNames : n # 0 => logs[n] = NoFile
  BY Names DEF LogInit
<1>3. <<>> # NoFile /\ Len(<<>>) = 0
  BY DEF NoFile
<1>4. \A n \in LogNames : Lines(n) = {}
  BY <1>2, <1>3 DEF Lines
<1>5. OnFile = {} /\ written = 0
  BY <1>4 DEF OnFile, LogInit
<1>6. Placed
  BY <1>2, <1>3, Names DEF LogInit, Placed, Hole, Quiet
<1>7. Ordered /\ Dense
  BY <1>2, <1>3, <1>4, <1>5 DEF Ordered, Dense
<1>8. Full
  BY <1>2, <1>5, Names DEF Full, LogInit, Quiet, There
<1> QED BY <1>1, <1>6, <1>7, <1>8 DEF LogInv

-----------------------------------------------------------------------------
\* Files that lose lines keep the others in order.
LEMMA FewerLines ==
    ASSUME LogInv, written' = written,
           \A n \in LogNames : logs'[n] = logs[n] \/ logs'[n] = NoFile \/ logs'[n] = <<>>
    PROVE  Ordered' /\ (\A n \in LogNames : Lines(n)' = Lines(n) \/ Lines(n)' = {})
<1>1. ASSUME NEW n \in LogNames PROVE Lines(n)' = Lines(n) \/ Lines(n)' = {}
  <2>1. CASE logs'[n] = logs[n]
    BY <2>1 DEF Lines, NoFile
  <2>2. CASE logs'[n] = NoFile
    BY <2>2 DEF Lines, NoFile
  <2>3. CASE logs'[n] = <<>>
    BY <2>3 DEF Lines
  <2> QED BY <2>1, <2>2, <2>3
<1>2. OnFile' \subseteq OnFile
  BY <1>1 DEF OnFile, LogNames
<1>3. ASSUME NEW n \in LogNames, logs'[n] # NoFile, NEW i \in 1..Len(logs'[n]), NEW j \in 1..Len(logs'[n]), i < j
      PROVE  logs'[n][i] < logs'[n][j]
  <2>1. CASE logs'[n] = logs[n]
    BY <2>1, <1>3 DEF LogInv, Ordered, NoFile
  <2>2. CASE logs'[n] = <<>>
    BY <2>2, <1>3
  <2> QED BY <2>1, <2>2, <1>3 DEF NoFile
<1>4. ASSUME NEW n \in LogNames, NEW o \in LogNames, n < o, NEW x \in Lines(o)', NEW y \in Lines(n)' PROVE x < y
  BY <1>1, <1>4 DEF LogInv, Ordered
<1> QED BY <1>1, <1>2, <1>3, <1>4 DEF LogInv, Ordered, LogNames, NoFile

\* One of the renames of a rotation, into the name that is free: the lines of
\* the file go with it.
LEMMA Moved ==
    ASSUME LogInv, NEW f \in 0..(MaxHistory - 1), Hole = f + 1, Renamed(f, f + 1), written' = written, cleared' = cleared
    PROVE  /\ logs' \in [LogNames -> Seq(0..MaxLines)] /\ fd' \in 0..Unlinked
           /\ logs'[f + 1] = logs[f] /\ logs'[f] = NoFile
           /\ \A n \in LogNames : n # f /\ n # f + 1 => logs'[n] = logs[n]
           /\ fd' = IF fd = f THEN f + 1 ELSE fd
           /\ fd # f + 1
           /\ OnFile' = OnFile /\ Ordered' /\ Dense'
<1>1. /\ f \in LogNames /\ f + 1 \in LogNames /\ f # f + 1 /\ f \in Nat /\ f + 1 # Unlinked
      /\ logs \in [LogNames -> Seq(0..MaxLines)] /\ fd \in 0..Unlinked /\ f + 1 \in 0..Unlinked
  BY LogAssumption DEF LogNames, Unlinked, LogInv, LogTypeOK
<1>2. logs[f + 1] = NoFile /\ (fd # Unlinked => logs[fd] # NoFile)
  BY <1>1 DEF LogInv, Placed
<1>3. fd # f + 1
  BY <1>1, <1>2
<1>4. NoFile \in Seq(0..MaxLines)
  BY LogAssumption DEF NoFile
<1>5. /\ logs' \in [LogNames -> Seq(0..MaxLines)] /\ logs'[f + 1] = logs[f] /\ logs'[f] = NoFile
      /\ \A n \in LogNames : n # f /\ n # f + 1 => logs'[n] = logs[n]
      /\ fd' = IF fd = f THEN f + 1 ELSE fd
  <2>1. CASE logs[f] = NoFile
    <3>1. fd # f
      BY <2>1, <1>1, <1>2, Names
    <3> QED BY <2>1, <3>1, <1>1, <1>2 DEF Renamed
  <2>2. CASE logs[f] # NoFile
    <3>1. logs' = [logs EXCEPT ![f + 1] = logs[f], ![f] = NoFile]
      BY <2>2 DEF Renamed
    <3>2. fd' = IF fd = f THEN f + 1 ELSE fd
      BY <2>2, <1>3 DEF Renamed
    <3> QED BY <3>1, <3>2, <1>1, <1>4
  <2> QED BY <2>1, <2>2
<1>6. /\ Lines(f + 1)' = Lines(f) /\ Lines(f)' = {} /\ Lines(f + 1) = {}
      /\ \A n \in LogNames : n # f /\ n # f + 1 => Lines(n)' = Lines(n)
  BY <1>2, <1>5 DEF Lines, NoFile
<1>7. OnFile' = OnFile
  <2>1. ASSUME NEW x \in OnFile PROVE x \in OnFile'
    <3>1. PICK n \in LogNames : x \in Lines(n)
      BY <2>1 DEF OnFile
    <3>2. \E o \in LogNames : x \in Lines(o)'
      BY <3>1, <1>1, <1>6
    <3> QED BY <3>2 DEF OnFile, LogNames
  <2>2. ASSUME NEW x \in OnFile' PROVE x \in OnFile
    <3>1. PICK n \in LogNames : x \in Lines(n)'
      BY <2>2 DEF OnFile, LogNames
    <3>2. \E o \in LogNames : x \in Lines(o)
      BY <3>1, <1>1, <1>6
    <3> QED BY <3>2 DEF OnFile
  <2> QED BY <2>1, <2>2
<1>8. Dense'
  BY <1>7 DEF LogInv, Dense
<1>9. ASSUME NEW n \in LogNames, logs'[n] # NoFile, NEW i \in 1..Len(logs'[n]), NEW j \in 1..Len(logs'[n]), i < j
      PROVE  logs'[n][i] < logs'[n][j]
  <2>1. CASE n = f + 1
    BY <2>1, <1>1, <1>5, <1>9 DEF LogInv, Ordered
  <2>2. CASE n = f
    BY <2>2, <1>5, <1>9
  <2>3. CASE n # f /\ n # f + 1
    BY <2>3, <1>5, <1>9 DEF LogInv, Ordered
  <2> QED BY <2>1, <2>2, <2>3
<1>10. ASSUME NEW n \in LogNames, NEW o \in LogNames, n < o, NEW x \in Lines(o)', NEW y \in Lines(n)' PROVE x < y
  <2>0. \A p, q \in LogNames : p < q => \A z \in Lines(q), w \in Lines(p) : z < w
    BY DEF LogInv, Ordered
  <2>1. o # f /\ n # f
    BY <1>6, <1>10
  <2>2. CASE n = f + 1
    <3>1. f < o /\ o # f + 1
      BY <2>2, <1>1, <1>10, Names
    <3> QED BY <3>1, <2>0, <2>1, <2>2, <1>1, <1>6, <1>10
  <2>3. CASE o = f + 1
    <3>1. n < f /\ n # f + 1
      BY <2>1, <2>3, <1>1, <1>10, Names
    <3> QED BY <3>1, <2>0, <2>1, <2>3, <1>1, <1>6, <1>10
  <2>4. CASE n # f + 1 /\ o # f + 1
    BY <2>0, <2>1, <2>4, <1>6, <1>10
  <2> QED BY <2>2, <2>3, <2>4
<1>11. Ordered'
  BY <1>7, <1>9, <1>10 DEF LogInv, Ordered, LogNames, NoFile
<1> QED BY <1>1, <1>3, <1>5, <1>7, <1>8, <1>11

LEMMA LogFacts ==
    ASSUME LogInv
    PROVE  /\ logs \in [LogNames -> Seq(0..MaxLines)] /\ fd \in 0..Unlinked
           /\ rotation \in [at : {"idle", "remove", "shift", "move", "open"}, k : 1..MaxHistory]
           /\ written \in 0..MaxLines /\ written \in Nat /\ cleared \subseteq 1..MaxLines
           /\ misses \in 0..MaxLogFails /\ logFails \in 0..MaxLogFails /\ misses \in Nat /\ logFails \in Nat /\ misses <= logFails
           /\ fd = Unlinked \/ fd \in LogNames
           /\ fd \in Nat /\ MaxHistory \in Nat /\ MaxHistory >= 1 /\ Unlinked = MaxHistory + 1
BY LogAssumption DEF LogInv, LogTypeOK, LogNames, Unlinked, Placed

\* A line is written: to the newest file, after all the others.
LEMMA WriteKeeps ==
    ASSUME LogInv, WriteLine
    PROVE  LogInv'
<1>0. /\ rotation = Quiet /\ written < MaxLines /\ written' = written + 1
      /\ UNCHANGED <<fd, cleared, misses, logFails>>
      /\ written + 1 \in 1..MaxLines /\ written + 1 \in 0..MaxLines /\ rotation.at = "idle" /\ rotation.k = 1
  BY LogFacts, LogAssumption, SMTT(30) DEF WriteLine, Quiet
<1>1. /\ rotation' \in [at : {"idle", "remove", "shift", "move", "open"}, k : 1..MaxHistory]
      /\ rotation'.at \in {"idle", "remove"} /\ rotation'.k = 1
  BY LogAssumption DEF WriteLine, Quiet
<1>2. Hole' = Unlinked /\ Hole = Unlinked
  BY <1>0, <1>1 DEF Hole, Unlinked
<1>3. CASE fd = Unlinked
  <2>1. logs' = logs /\ \A n \in LogNames : logs[n] = NoFile
    BY <1>3, Names DEF WriteLine, LogInv, Placed
  <2>2. OnFile = {} /\ OnFile' = {}
    BY <2>1 DEF OnFile, Lines, LogNames, NoFile
  <2>3. LogTypeOK'
    BY <1>0, <1>1, <2>1 DEF LogInv, LogTypeOK, LogNames, Unlinked
  <2>4. Placed'
    BY <1>0, <1>1, <1>2, <2>1 DEF LogInv, Placed, LogNames, Unlinked, NoFile
  <2>5. \A n \in LogNames : Lines(n)' = {}
    BY <2>1 DEF Lines, NoFile
  <2>6. Ordered' /\ Dense'
    BY <2>1, <2>2, <2>5 DEF Ordered, Dense, LogNames, NoFile
  <2>7. Full'
    BY <1>0, <1>3, Names DEF LogInv, Full
  <2> QED BY <2>3, <2>4, <2>6, <2>7 DEF LogInv
<1>4. CASE fd \in LogNames
  <2> DEFINE w == written + 1
             q == logs[fd]
             a == Append(q, w)
  <2>1. /\ q \in Seq(0..MaxLines) /\ q # NoFile /\ fd # Unlinked /\ logs' = [logs EXCEPT ![fd] = a] /\ w \in 1..MaxLines
        /\ w = written + 1
    BY <1>0, <1>4, LogFacts, Names DEF WriteLine, LogInv, Placed
  <2>2. /\ a \in Seq(0..MaxLines) /\ Len(a) = Len(q) + 1 /\ Len(q) \in Nat /\ a[Len(q) + 1] = w
        /\ \A i \in 1..Len(q) : a[i] = q[i]
    BY <2>1, <1>0
  <2> HIDE DEF w, a, q
  <2>3. a # NoFile
    <3>1. a[1] # 0 \/ Len(a) # 1
      BY <2>1, <2>2
    <3> QED BY <3>1 DEF NoFile
  <2>4. /\ logs' \in [LogNames -> Seq(0..MaxLines)] /\ logs'[fd] = a
        /\ \A n \in LogNames : n # fd => logs'[n] = logs[n]
    BY <2>1, <2>2, <1>4, LogFacts
  <2>5. q = logs[fd]
    BY DEF q
  <2>6. \A n \in LogNames : Lines(n)' = IF n = fd THEN Lines(n) \cup {w} ELSE Lines(n)
    <3>1. 1..Len(a) = 1..Len(q) \cup {Len(q) + 1}
      BY <2>2
    <3>2. {a[i] : i \in 1..Len(a)} = {q[i] : i \in 1..Len(q)} \cup {w}
      BY <3>1, <2>2
    <3>3. \A n \in LogNames : n = fd => Lines(n)' = {a[i] : i \in 1..Len(a)}
      BY <2>3, <2>4 DEF Lines, NoFile
    <3>4. \A n \in LogNames : n = fd => Lines(n) = {q[i] : i \in 1..Len(q)}
      BY <2>1, <2>5 DEF Lines
    <3>5. \A n \in LogNames : n # fd => Lines(n)' = Lines(n)
      BY <2>4 DEF Lines, NoFile
    <3> QED BY <3>2, <3>3, <3>4, <3>5
  <2>7. OnFile' = OnFile \cup {w}
    <3>1. ASSUME NEW x \in OnFile \cup {w} PROVE x \in OnFile'
      <4>1. PICK n \in LogNames : x \in Lines(n) \/ (n = fd /\ x = w)
        BY <3>1, <1>4 DEF OnFile
      <4>2. x \in Lines(n)'
        BY <4>1, <2>6
      <4> QED BY <4>2 DEF OnFile, LogNames
    <3>2. ASSUME NEW x \in OnFile' PROVE x \in OnFile \cup {w}
      <4>1. PICK n \in LogNames : x \in Lines(n)'
        BY <3>2 DEF OnFile, LogNames
      <4>2. x \in Lines(n) \/ x = w
        BY <4>1, <2>6
      <4> QED BY <4>2 DEF OnFile
    <3> QED BY <3>1, <3>2
  <2>8. OnFile \subseteq 1..written /\ \A x \in OnFile : x < w /\ x \in Nat
    BY <2>1, LogFacts DEF LogInv, Ordered
  <2>9. OnFile' \subseteq 1..written'
    <3>1. written' = written + 1 /\ w = written + 1 /\ written \in Nat
      BY <2>1, <1>0, LogFacts
    <3>2. 1..written \subseteq 1..(written + 1) /\ written + 1 \in 1..(written + 1)
      BY <3>1
    <3> QED BY <3>1, <3>2, <2>7, <2>8
  <2>10. LogTypeOK'
    BY <2>4, <1>0, <1>1, LogFacts DEF LogTypeOK, LogNames, Unlinked
  <2>11. Placed'
    <3>1. \A n \in LogNames : n < fd => logs'[n] = NoFile
      BY <2>4, <1>4, Names DEF LogInv, Placed
    <3>2. \A n \in LogNames : n # Hole'
      BY <1>2, Names
    <3> QED BY <3>1, <3>2, <2>3, <2>4, <1>0, <1>1 DEF LogInv, Placed, LogNames, Unlinked, NoFile
  <2>12. ASSUME NEW n \in LogNames, logs'[n] # NoFile, NEW i \in 1..Len(logs'[n]), NEW j \in 1..Len(logs'[n]), i < j
         PROVE  logs'[n][i] < logs'[n][j]
    <3>1. CASE n # fd
      BY <3>1, <2>4, <2>12 DEF LogInv, Ordered
    <3>2. CASE n = fd
      <4>1. i \in 1..Len(q) /\ a[i] = q[i]
        BY <2>2, <2>4, <2>12, <3>2
      <4>2. CASE j = Len(q) + 1
        <5>1. q[i] \in Lines(fd)
          BY <4>1, <2>1, <2>5 DEF Lines
        <5>2. q[i] \in OnFile
          BY <5>1, <1>4 DEF OnFile
        <5> QED BY <5>2, <4>1, <4>2, <2>2, <2>4, <2>8, <3>2
      <4>3. CASE j # Len(q) + 1
        <5>1. j \in 1..Len(q) /\ a[j] = q[j]
          <6>1. j \in 1..Len(a)
            BY <2>4, <2>12, <3>2
          <6>2. j \in 1..Len(q)
            BY <6>1, <4>3, <2>2
          <6> QED BY <6>2, <2>2
        <5>2. q[i] < q[j]
          BY <4>1, <5>1, <2>1, <2>5, <2>12, <1>4 DEF LogInv, Ordered
        <5> QED BY <4>1, <5>1, <5>2, <2>4, <3>2
      <4> QED BY <4>2, <4>3
    <3> QED BY <3>1, <3>2
  <2>13. ASSUME NEW n \in LogNames, NEW o \in LogNames, n < o, NEW x \in Lines(o)', NEW y \in Lines(n)' PROVE x < y
    <3>1. CASE o = fd
      <4>1. logs'[n] = NoFile
        BY <3>1, <2>4, <2>13, Names DEF LogInv, Placed
      <4> QED BY <4>1, <2>13 DEF Lines, NoFile
    <3>2. CASE o # fd /\ n = fd
      <4>1. x \in Lines(o) /\ y \in Lines(n) \cup {w}
        BY <3>2, <2>6, <2>13
      <4>2. x \in OnFile
        BY <4>1 DEF OnFile
      <4> QED BY <4>1, <4>2, <2>8, <2>13 DEF LogInv, Ordered
    <3>3. CASE o # fd /\ n # fd
      BY <3>3, <2>6, <2>13 DEF LogInv, Ordered
    <3> QED BY <3>1, <3>2, <3>3
  <2>14. Ordered'
    BY <2>9, <2>12, <2>13 DEF Ordered, LogNames, NoFile
  <2>15. Dense'
    <3> SUFFICES ASSUME NEW x \in OnFile', NEW y \in 1..written', x < y PROVE y \in cleared' \cup OnFile'
      BY DEF Dense
    <3>1. CASE y = w
      BY <3>1, <2>7
    <3>2. CASE y # w
      <4>1. y \in 1..written
        BY <3>2, <2>1, <1>0, LogFacts
      <4>2. x # w
        BY <4>1, <2>1, LogFacts
      <4> QED BY <4>1, <4>2, <2>7, <1>0 DEF LogInv, Dense
    <3> QED BY <3>1, <3>2
  <2>16. Full'
    <3> SUFFICES ASSUME logFails' = 0, cleared' = {} PROVE Full'
      BY DEF Full
    <3>1. /\ fd = 0
          /\ \A n \in 1..MaxHistory : There(n) => Len(logs[n]) >= MaxSize
          /\ \A n, m \in 1..MaxHistory : m < n /\ m # Hole /\ There(n) => There(m)
          /\ OnFile = 1..written \/ \A n \in 1..MaxHistory : n # Hole => There(n)
      BY <1>0 DEF LogInv, Full
    <3>2. \A n \in 1..MaxHistory : logs'[n] = logs[n] /\ (There(n)' <=> There(n))
      BY <3>1, <2>4, Names DEF There, NoFile
    <3>3. rotation'.at \in {"remove", "shift", "move"} => Len(logs'[0]) >= MaxSize
      BY <3>1, <2>1, Names DEF WriteLine, Quiet, Unlinked
    <3>4. OnFile = 1..written => OnFile' = 1..written'
      BY <2>7, <2>1, <1>0, LogFacts
    <3> QED BY <3>1, <3>2, <3>3, <3>4, <1>0, <1>1, <1>2 DEF Full
  <2> QED BY <2>10, <2>11, <2>14, <2>15, <2>16 DEF LogInv
<1> QED BY <1>3, <1>4, LogFacts

\* The oldest file is dropped, and with it lines that are older than all others.
LEMMA RemoveKeeps ==
    ASSUME LogInv, RemoveOldest
    PROVE  LogInv'
<1>0. /\ rotation.at = "remove" /\ rotation.k = 1 /\ UNCHANGED <<written, cleared, misses, logFails>>
      /\ MaxHistory \in LogNames /\ fd <= misses
  BY Names DEF RemoveOldest, LogInv, Placed
<1>1. NoFile \in Seq(0..MaxLines)
  BY LogAssumption DEF NoFile
<1>2. /\ logs' \in [LogNames -> Seq(0..MaxLines)] /\ logs'[MaxHistory] = NoFile
      /\ \A n \in LogNames : n # MaxHistory => logs'[n] = logs[n]
      /\ fd' = IF fd = MaxHistory THEN Unlinked ELSE fd
  BY <1>0, <1>1, LogFacts DEF RemoveOldest
<1>3. /\ rotation' = [at |-> IF MaxHistory > 1 THEN "shift" ELSE "move", k |-> 1]
      /\ rotation' \in [at : {"idle", "remove", "shift", "move", "open"}, k : 1..MaxHistory]
  <2>1. rotation' = [rotation EXCEPT !.at = IF MaxHistory > 1 THEN "shift" ELSE "move"]
    BY DEF RemoveOldest
  <2>2. rotation' = [at |-> IF MaxHistory > 1 THEN "shift" ELSE "move", k |-> 1]
    BY <2>1, <1>0, LogFacts
  <2> QED BY <2>2, LogAssumption
<1>4. Hole' = MaxHistory /\ Hole = Unlinked
  BY <1>0, <1>3, LogAssumption DEF Hole
<1>5. LogTypeOK'
  BY <1>0, <1>2, <1>3, LogFacts DEF LogTypeOK, LogNames, Unlinked
<1>6. Placed'
  <2>1. \A n \in LogNames : n < fd' \/ n = Hole' => logs'[n] = NoFile
    BY <1>0, <1>2, <1>4, LogFacts, Names, SMTT(30) DEF LogInv, Placed
  <2>2. fd' # Unlinked => logs'[fd'] # NoFile
    BY <1>2, LogFacts DEF LogInv, Placed
  <2>3. fd' <= misses + 1 /\ (rotation'.at = "shift" /\ fd' <= MaxHistory - rotation'.k => fd' <= misses)
    BY <1>0, <1>2, <1>3, LogFacts
  <2>4. IF rotation'.at = "shift" THEN rotation'.k < MaxHistory ELSE rotation'.k = 1
    BY <1>3, LogFacts
  <2>5. rotation'.at \notin {"idle", "remove"}
    BY <1>3
  <2> QED BY <2>1, <2>2, <2>3, <2>4, <2>5, <1>0, LogFacts DEF Placed, LogNames, Unlinked, NoFile
<1>7. Ordered' /\ (\A n \in LogNames : Lines(n)' = Lines(n) \/ Lines(n)' = {})
  BY <1>0, <1>2, FewerLines
<1>8. \A n \in LogNames : n # MaxHistory => Lines(n)' = Lines(n)
  BY <1>2 DEF Lines, NoFile
<1>9. Dense'
  <2> SUFFICES ASSUME NEW x \in OnFile', NEW y \in 1..written', x < y PROVE y \in cleared' \cup OnFile'
    BY DEF Dense
  <2>1. PICK n \in LogNames : x \in Lines(n)'
    BY DEF OnFile, LogNames
  <2>2. x \in Lines(n) /\ n # MaxHistory
    <3>1. \A o \in LogNames : o = MaxHistory => Lines(o)' = {}
      BY <1>2 DEF Lines, NoFile
    <3> QED BY <2>1, <3>1, <1>7
  <2>3. x \in OnFile /\ x \in Nat
    <3>1. x \in OnFile
      BY <2>2 DEF OnFile
    <3>2. OnFile \subseteq 1..written
      BY DEF LogInv, Ordered
    <3> QED BY <3>1, <3>2, LogFacts
  <2>4. y \in cleared \/ \E o \in LogNames : y \in Lines(o)
    BY <2>3, <1>0 DEF LogInv, Dense, OnFile
  <2>5. ASSUME NEW o \in LogNames, y \in Lines(o) PROVE y \in OnFile'
    <3>1. CASE o = MaxHistory
      <4>1. n < MaxHistory
        BY <2>2, Names
      <4>2. y < x
        BY <4>1, <3>1, <2>2, <2>5 DEF LogInv, Ordered
      <4> QED BY <4>2, <2>3, <1>0, LogFacts
    <3>2. CASE o # MaxHistory
      BY <3>2, <2>5, <1>8 DEF OnFile, LogNames
    <3> QED BY <3>1, <3>2
  <2> QED BY <2>4, <2>5, <1>0
<1>10. Full'
  <2> SUFFICES ASSUME logFails' = 0, cleared' = {} PROVE Full'
    BY DEF Full
  <2>1. /\ fd = 0
        /\ \A n \in 1..MaxHistory : There(n) => Len(logs[n]) >= MaxSize
        /\ Len(logs[0]) >= MaxSize
        /\ \A n, m \in 1..MaxHistory : m < n /\ There(n) => There(m)
        /\ OnFile = 1..written \/ \A n \in 1..MaxHistory : There(n)
    BY <1>0, <1>4, Names DEF LogInv, Full
  <2>2. fd' = 0 /\ rotation'.at # "open" /\ logs'[0] = logs[0]
    BY <2>1, <1>2, <1>3, LogFacts, Names
  <2>3. \A n \in 1..MaxHistory : IF n = MaxHistory THEN ~There(n)' ELSE logs'[n] = logs[n] /\ (There(n)' <=> There(n))
    BY <1>2, Names DEF There, NoFile
  <2>4. OnFile' = 1..written' \/ \A n \in 1..MaxHistory : n # Hole' => There(n)'
    <3>1. CASE There(MaxHistory)
      <4>1. MaxHistory \in 1..MaxHistory /\ \A m \in 1..MaxHistory : m # MaxHistory => m < MaxHistory
        BY LogFacts
      <4> QED BY <3>1, <4>1, <2>1, <2>3, <1>4
    <3>2. CASE ~There(MaxHistory)
      <4>1. \A n \in LogNames : Lines(n)' = Lines(n)
        BY <3>2, <1>2, <1>8 DEF There, Lines, NoFile
      <4>2. OnFile' = OnFile
        BY <4>1 DEF OnFile, LogNames
      <4> QED BY <4>2, <3>2, <2>1, <2>3, <1>0, LogFacts
    <3> QED BY <3>1, <3>2
  <2>5. \A n, m \in 1..MaxHistory : m < n /\ m # Hole' /\ There(n)' => There(m)'
    BY <2>1, <2>3, <1>4
  <2>6. \A n \in 1..MaxHistory : There(n)' => Len(logs'[n]) >= MaxSize
    BY <2>1, <2>3
  <2> QED BY <2>1, <2>2, <2>4, <2>5, <2>6 DEF Full
<1> QED BY <1>5, <1>6, <1>7, <1>9, <1>10 DEF LogInv

\* Each file but the oldest gets the next suffix.
LEMMA ShiftKeeps ==
    ASSUME LogInv, Shift
    PROVE  LogInv'
<1>a. rotation.k \in 1..MaxHistory /\ rotation.k < MaxHistory /\ rotation.at = "shift"
  BY LogFacts DEF Shift, LogInv, Placed
<1>b. PICK f \in 1..(MaxHistory - 1) : f = MaxHistory - rotation.k
  BY <1>a, LogFacts
<1>0. /\ rotation.at = "shift" /\ UNCHANGED <<written, cleared, misses, logFails>>
      /\ f \in 0..(MaxHistory - 1) /\ Hole = f + 1 /\ Renamed(f, f + 1)
      /\ rotation.k \in 1..MaxHistory /\ rotation.k < MaxHistory /\ rotation.k \in Nat /\ rotation.k = MaxHistory - f
  <2>1. f \in 0..(MaxHistory - 1) /\ MaxHistory + 1 - rotation.k = f + 1 /\ rotation.k \in Nat /\ rotation.k = MaxHistory - f
    BY <1>a, <1>b, LogFacts
  <2> QED BY <1>a, <1>b, <2>1 DEF Shift, ShiftFrom, Hole
<1>1. /\ logs' \in [LogNames -> Seq(0..MaxLines)] /\ fd' \in 0..Unlinked
      /\ logs'[f + 1] = logs[f] /\ logs'[f] = NoFile
      /\ \A n \in LogNames : n # f /\ n # f + 1 => logs'[n] = logs[n]
      /\ fd' = IF fd = f THEN f + 1 ELSE fd
      /\ fd # f + 1 /\ OnFile' = OnFile /\ Ordered' /\ Dense'
  BY <1>0, Moved
<1>2. /\ rotation' = IF f > 1 THEN [at |-> "shift", k |-> rotation.k + 1] ELSE [at |-> "move", k |-> 1]
      /\ rotation' \in [at : {"idle", "remove", "shift", "move", "open"}, k : 1..MaxHistory]
  <2>1. f > 1 => rotation.k + 1 \in 1..MaxHistory
    BY <1>0, LogFacts
  <2>2. rotation' = IF f > 1 THEN [rotation EXCEPT !.k = @ + 1] ELSE [Quiet EXCEPT !.at = "move"]
    BY <1>b DEF Shift, ShiftFrom
  <2>3. [rotation EXCEPT !.k = @ + 1] = [at |-> "shift", k |-> rotation.k + 1] /\ [Quiet EXCEPT !.at = "move"] = [at |-> "move", k |-> 1]
    BY <1>0, LogFacts DEF Quiet
  <2> QED BY <2>1, <2>2, <2>3, LogAssumption
<1>3. Hole' = f
  <2>1. CASE f > 1
    <3>1. MaxHistory + 1 - (rotation.k + 1) = f
      BY <1>0, LogFacts
    <3> QED BY <2>1, <3>1, <1>2 DEF Hole
  <2>2. CASE ~(f > 1)
    <3>1. f = 1
      BY <2>2, <1>0, LogFacts
    <3> QED BY <2>2, <3>1, <1>2 DEF Hole
  <2> QED BY <2>1, <2>2
<1>4. LogTypeOK'
  BY <1>0, <1>1, <1>2, LogFacts DEF LogTypeOK, LogNames, Unlinked
<1>5. f \in LogNames /\ f + 1 \in LogNames /\ f \in Nat /\ f # 0 /\ f < MaxHistory
  BY <1>0, LogFacts DEF LogNames
<1>c. fd = f => fd' = f + 1
  BY <1>1
<1>6. Placed'
  <2>1. \A n \in LogNames : n < fd' \/ n = Hole' => logs'[n] = NoFile
    <3> SUFFICES ASSUME NEW n \in LogNames, n < fd' \/ n = f PROVE logs'[n] = NoFile
      BY <1>3
    <3>1. CASE n = f
      BY <3>1, <1>1
    <3>2. CASE n = f + 1
      <4>1. f + 1 < fd'
        BY <3>2, <1>5
      <4>2. fd # f
        BY <4>1, <1>c, <1>5
      <4>3. f < fd
        BY <4>1, <4>2, <1>1, <1>5, LogFacts
      <4> QED BY <3>2, <4>3, <1>1, <1>5 DEF LogInv, Placed
    <3>3. CASE n # f /\ n # f + 1
      <4>1. n < fd
        BY <3>3, <1>1, <1>5, LogFacts, Names
      <4> QED BY <3>3, <4>1, <1>1 DEF LogInv, Placed
    <3> QED BY <3>1, <3>2, <3>3
  <2>2. fd' # Unlinked => logs'[fd'] # NoFile
    BY <1>1, <1>5, LogFacts, SMTT(30) DEF LogInv, Placed
  <2>3. fd' <= misses + 1
    BY <1>0, <1>1, <1>5, LogFacts, SMTT(30) DEF LogInv, Placed
  <2>4. rotation'.at = "shift" /\ fd' <= MaxHistory - rotation'.k => fd' <= misses
    <3> SUFFICES ASSUME rotation'.at = "shift", fd' <= MaxHistory - rotation'.k PROVE fd' <= misses
      OBVIOUS
    <3>1. rotation'.k = rotation.k + 1
      BY <1>2
    <3>2. fd' <= f - 1
      BY <3>1, <1>0, <1>5, LogFacts
    <3>3. fd # f
      BY <3>2, <1>c, <1>5
    <3>4. fd' = fd /\ fd <= MaxHistory - rotation.k
      BY <3>2, <3>3, <1>1, <1>5, <1>b, LogFacts
    <3> QED BY <3>4, <1>0 DEF LogInv, Placed
  <2>5. IF rotation'.at = "shift" THEN rotation'.k < MaxHistory ELSE rotation'.k = 1
    BY <1>0, <1>2, LogFacts
  <2>6. rotation'.at \notin {"idle", "remove"}
    BY <1>2
  <2> QED BY <2>1, <2>2, <2>3, <2>4, <2>5, <2>6, <1>0, LogFacts DEF Placed, LogNames, Unlinked, NoFile
<1>7. Full'
  <2> SUFFICES ASSUME logFails' = 0, cleared' = {} PROVE Full'
    BY DEF Full
  <2>1. /\ fd = 0
        /\ \A n \in 1..MaxHistory : There(n) => Len(logs[n]) >= MaxSize
        /\ Len(logs[0]) >= MaxSize
        /\ \A n, m \in 1..MaxHistory : m < n /\ m # f + 1 /\ There(n) => There(m)
        /\ OnFile = 1..written \/ \A n \in 1..MaxHistory : n # f + 1 => There(n)
    BY <1>0, Names DEF LogInv, Full
  <2>2. fd' = 0 /\ rotation'.at # "open" /\ logs'[0] = logs[0]
    BY <2>1, <1>1, <1>2, <1>5, LogFacts, Names
  <2>3. /\ f \in 1..MaxHistory /\ f + 1 \in 1..MaxHistory /\ f < f + 1 /\ f # f + 1
        /\ ~There(f)' /\ (There(f + 1)' <=> There(f)) /\ logs'[f + 1] = logs[f]
        /\ \A n \in 1..MaxHistory : n # f /\ n # f + 1 => logs'[n] = logs[n] /\ (There(n)' <=> There(n))
    <3>1. f \in 1..MaxHistory /\ f + 1 \in 1..MaxHistory /\ f < f + 1 /\ f # f + 1
      BY <1>0, <1>5, LogFacts
    <3>3. \A n \in LogNames : There(n)' <=> logs'[n] # NoFile
      BY DEF There, NoFile
    <3> QED BY <3>1, <3>3, <1>1, <1>5, Names DEF There
  <2>4. \A n \in 1..MaxHistory : There(n)' => Len(logs'[n]) >= MaxSize
    BY <2>1, <2>3
  <2>5. ASSUME NEW n \in 1..MaxHistory, NEW m \in 1..MaxHistory, m < n, m # f, There(n)' PROVE There(m)'
    <3>1. CASE n = f + 1
      <4>1. m < f /\ There(f)
        BY <3>1, <2>3, <2>5, <1>5
      <4> QED BY <4>1, <2>1, <2>3, <2>5
    <3>2. CASE m = f + 1
      <4>1. n > f /\ n # f + 1 /\ There(n)
        BY <3>2, <2>3, <2>5, <1>5
      <4> QED BY <4>1, <3>2, <2>1, <2>3, <2>5
    <3>3. CASE n # f + 1 /\ m # f + 1
      BY <3>3, <2>1, <2>3, <2>5
    <3> QED BY <3>1, <3>2, <3>3
  <2>6. OnFile' = 1..written' \/ \A n \in 1..MaxHistory : n # f => There(n)'
    BY <2>1, <2>3, <1>0, <1>1
  <2> QED BY <2>1, <2>2, <2>4, <2>5, <2>6, <1>3 DEF Full
<1> QED BY <1>1, <1>4, <1>6, <1>7 DEF LogInv

\* The live file gets the first suffix.
LEMMA MoveKeeps ==
    ASSUME LogInv, MoveLive
    PROVE  LogInv'
<1>0. /\ rotation.at = "move" /\ UNCHANGED <<written, cleared, misses, logFails>>
      /\ 0 \in 0..(MaxHistory - 1) /\ Hole = 0 + 1 /\ Renamed(0, 0 + 1)
  BY LogFacts DEF MoveLive, Hole
<1>1. /\ logs' \in [LogNames -> Seq(0..MaxLines)] /\ fd' \in 0..Unlinked
      /\ logs'[0 + 1] = logs[0] /\ logs'[0] = NoFile
      /\ \A n \in LogNames : n # 0 /\ n # 0 + 1 => logs'[n] = logs[n]
      /\ fd' = IF fd = 0 THEN 0 + 1 ELSE fd
      /\ fd # 0 + 1 /\ OnFile' = OnFile /\ Ordered' /\ Dense'
  BY <1>0, Moved
<1>2. /\ rotation' = [at |-> "open", k |-> 1]
      /\ rotation' \in [at : {"idle", "remove", "shift", "move", "open"}, k : 1..MaxHistory]
  BY LogFacts DEF MoveLive, Quiet
<1>3. Hole' = 0 /\ Hole = 1
  BY <1>0, <1>2 DEF Hole
<1>4. LogTypeOK'
  BY <1>0, <1>1, <1>2, LogFacts DEF LogTypeOK, LogNames, Unlinked
<1>5. (fd = 0 => fd' = 1) /\ (fd # 0 => fd' = fd) /\ fd # 1 /\ logs'[1] = logs[0]
  BY <1>1
<1>6. Placed'
  <2>1. \A n \in LogNames : n < fd' \/ n = Hole' => logs'[n] = NoFile
    <3> SUFFICES ASSUME NEW n \in LogNames, n # 0, n < fd' PROVE logs'[n] = NoFile
      BY <1>1, <1>3
    <3>1. n < fd /\ fd # 0
      BY <1>5, LogFacts, Names
    <3>2. CASE n = 1
      <4>1. logs[0] = NoFile
        BY <3>1, Names, LogFacts DEF LogInv, Placed
      <4> QED BY <3>2, <4>1, <1>5
    <3>3. CASE n # 1
      BY <3>1, <3>3, <1>1 DEF LogInv, Placed
    <3> QED BY <3>2, <3>3
  <2>2. fd' # Unlinked => logs'[fd'] # NoFile
    <3>1. CASE fd = 0
      BY <3>1, <1>5, Names, LogFacts DEF LogInv, Placed
    <3>2. CASE fd # 0
      BY <3>2, <1>1, <1>5, LogFacts DEF LogInv, Placed
    <3> QED BY <3>1, <3>2
  <2>3. fd' <= misses + 1
    BY <1>5, LogFacts DEF LogInv, Placed
  <2> QED BY <2>1, <2>2, <2>3, <1>0, <1>2, LogFacts DEF Placed, LogNames, Unlinked, NoFile
<1>7. Full'
  <2> SUFFICES ASSUME logFails' = 0, cleared' = {} PROVE Full'
    BY DEF Full
  <2>1. /\ fd = 0
        /\ \A n \in 1..MaxHistory : There(n) => Len(logs[n]) >= MaxSize
        /\ Len(logs[0]) >= MaxSize
        /\ \A n, m \in 1..MaxHistory : m < n /\ m # 1 /\ There(n) => There(m)
        /\ OnFile = 1..written \/ \A n \in 1..MaxHistory : n # 1 => There(n)
    BY <1>0, <1>3 DEF LogInv, Full
  <2>2. fd' = 1 /\ 1 \in 1..MaxHistory /\ logs[0] # NoFile
    BY <2>1, <1>5, LogFacts, Names DEF LogInv, Placed
  <2>3. \A n \in 1..MaxHistory : IF n = 1 THEN There(n)' /\ logs'[n] = logs[0] ELSE logs'[n] = logs[n] /\ (There(n)' <=> There(n))
    <3>1. \A n \in 1..MaxHistory : There(n)' <=> logs'[n] # NoFile
      BY DEF There, NoFile
    <3> QED BY <2>2, <3>1, <1>1, <1>5, Names DEF There
  <2>4. \A n \in 1..MaxHistory : There(n)' => Len(logs'[n]) >= MaxSize
    BY <2>1, <2>3
  <2>5. \A n, m \in 1..MaxHistory : m < n /\ There(n)' => There(m)'
    <3> SUFFICES ASSUME NEW n \in 1..MaxHistory, NEW m \in 1..MaxHistory, m < n, There(n)' PROVE There(m)'
      OBVIOUS
    <3>1. n # 1
      BY LogFacts
    <3> QED BY <2>1, <2>3, <3>1
  <2>6. OnFile' = 1..written' \/ \A n \in 1..MaxHistory : There(n)'
    BY <2>1, <2>3, <1>0, <1>1
  <2> QED BY <2>2, <2>4, <2>5, <2>6, <1>2 DEF Full
<1> QED BY <1>1, <1>4, <1>6, <1>7 DEF LogInv

\* A new live file is opened, or the one that is still there.
LEMMA ReopenKeeps ==
    ASSUME LogInv, OpenLive
    PROVE  LogInv'
<1>0. /\ rotation.at = "open" /\ rotation.k = 1 /\ UNCHANGED <<written, cleared, logFails>>
      /\ fd' = 0 /\ rotation' = Quiet /\ misses' = 0 /\ Hole = 0 /\ 0 \in LogNames
  BY Names DEF OpenLive, Hole, LogInv, Placed
<1>1. logs[0] = NoFile
  BY <1>0 DEF LogInv, Placed
<1>2. <<>> \in Seq(0..MaxLines) /\ <<>> # NoFile
  BY DEF NoFile
<1>3. /\ logs' \in [LogNames -> Seq(0..MaxLines)] /\ logs'[0] = <<>>
      /\ \A n \in LogNames : n # 0 => logs'[n] = logs[n]
  BY <1>0, <1>1, <1>2, LogFacts DEF OpenLive
<1>4. rotation'.at = "idle" /\ rotation'.k = 1 /\ Hole' = Unlinked
  BY <1>0 DEF Quiet, Hole, Unlinked
<1>5. LogTypeOK'
  <2>1. rotation' \in [at : {"idle", "remove", "shift", "move", "open"}, k : 1..MaxHistory]
    BY <1>0, LogFacts DEF Quiet
  <2>2. misses' \in 0..MaxLogFails /\ fd' \in 0..Unlinked
    BY <1>0, LogFacts, LogAssumption
  <2> QED BY <2>1, <2>2, <1>0, <1>3, LogFacts DEF LogTypeOK, LogNames, Unlinked
<1>6. Placed'
  <2>1. \A n \in LogNames : ~(n < fd') /\ n # Hole'
    BY <1>0, <1>4, Names
  <2>2. logs'[fd'] # NoFile
    BY <1>0, <1>2, <1>3
  <2> QED BY <2>1, <2>2, <1>0, <1>4, LogFacts DEF Placed, LogNames, Unlinked, NoFile
<1>7. Ordered' /\ \A n \in LogNames : Lines(n)' = Lines(n)
  <2>1. Ordered' /\ \A n \in LogNames : Lines(n)' = Lines(n) \/ Lines(n)' = {}
    BY <1>0, <1>3, FewerLines
  <2>2. \A n \in LogNames : n # 0 => Lines(n)' = Lines(n)
    BY <1>3 DEF Lines, NoFile
  <2>3. Lines(0) = {}
    BY <1>1 DEF Lines
  <2> QED BY <2>1, <2>2, <2>3, <1>0
<1>8. OnFile' = OnFile
  BY <1>7 DEF OnFile, LogNames
<1>9. Dense'
  BY <1>0, <1>8 DEF LogInv, Dense
<1>10. Full'
  <2> SUFFICES ASSUME logFails' = 0, cleared' = {} PROVE Full'
    BY DEF Full
  <2>1. /\ \A n \in 1..MaxHistory : There(n) => Len(logs[n]) >= MaxSize
        /\ \A n, m \in 1..MaxHistory : m < n /\ There(n) => There(m)
        /\ OnFile = 1..written \/ \A n \in 1..MaxHistory : There(n)
    <3>1. \A n \in 1..MaxHistory : n # Hole
      BY <1>0
    <3> QED BY <3>1, <1>0 DEF LogInv, Full
  <2>2. \A n \in 1..MaxHistory : logs'[n] = logs[n] /\ (There(n)' <=> There(n))
    BY <1>3, Names DEF There, NoFile
  <2> QED BY <2>1, <2>2, <1>0, <1>4, <1>8 DEF Full
<1> QED BY <1>5, <1>6, <1>7, <1>9, <1>10 DEF LogInv

\* A rotation that fails leaves the files as they are.
LEMMA FailKeeps ==
    ASSUME LogInv, RotationFails
    PROVE  LogInv'
<1>0. /\ UNCHANGED <<logs, fd, written, cleared>> /\ rotation' = Quiet /\ logFails' = logFails + 1 /\ misses' = misses + 1
      /\ rotation'.at = "idle" /\ rotation'.k = 1 /\ Hole' = Unlinked
  BY DEF RotationFails, Quiet, Hole, Unlinked
<1>1. LogTypeOK'
  <2>1. misses' \in 0..MaxLogFails /\ logFails' \in 0..MaxLogFails
    BY LogFacts, LogAssumption DEF RotationFails, LogInv, Placed
  <2>2. rotation' \in [at : {"idle", "remove", "shift", "move", "open"}, k : 1..MaxHistory]
    BY <1>0, LogFacts DEF Quiet
  <2> QED BY <2>1, <2>2, <1>0, LogFacts DEF LogTypeOK, LogNames, Unlinked
<1>2. \A n \in LogNames : Lines(n)' = Lines(n)
  BY <1>0 DEF Lines, NoFile
<1>3. OnFile' = OnFile
  BY <1>2 DEF OnFile, LogNames
<1>4. Placed'
  <2>1. \A n \in LogNames : n # Unlinked
    BY Names
  <2>2. fd' <= misses' /\ fd' <= misses' + 1 /\ misses' <= logFails'
    BY <1>0, LogFacts DEF LogInv, Placed
  <2> QED BY <2>1, <2>2, <1>0 DEF LogInv, Placed, LogNames, Unlinked, NoFile
<1>5. Ordered' /\ Dense'
  BY <1>0, <1>2, <1>3 DEF LogInv, Ordered, Dense, LogNames, NoFile
<1>6. Full'
  BY <1>0, LogFacts DEF Full
<1> QED BY <1>1, <1>4, <1>5, <1>6 DEF LogInv

\* A file that is there is cut to nothing, and its lines are noted.
LEMMA CutKeeps ==
    ASSUME LogInv, NEW c \in LogNames, logs[c] # NoFile, logs[c] # <<>>, logs' = [logs EXCEPT ![c] = <<>>],
           cleared' = cleared \cup Lines(c), UNCHANGED <<fd, rotation, written, misses, logFails>>
    PROVE  LogInv'
<1>0. <<>> \in Seq(0..MaxLines) /\ <<>> # NoFile
  BY DEF NoFile
<1>1. /\ logs' \in [LogNames -> Seq(0..MaxLines)] /\ logs'[c] = <<>>
      /\ \A n \in LogNames : n # c => logs'[n] = logs[n]
      /\ \A n \in LogNames : logs'[n] = NoFile <=> logs[n] = NoFile
  BY <1>0, LogFacts
<1>2. Hole' = Hole
  BY DEF Hole, Unlinked
<1>3. Ordered' /\ \A n \in LogNames : Lines(n)' = Lines(n) \/ Lines(n)' = {}
  BY <1>1, FewerLines
<1>4. \A n \in LogNames : n # c => Lines(n)' = Lines(n)
  BY <1>1 DEF Lines, NoFile
<1>5. OnFile \subseteq 1..written
  BY DEF LogInv, Ordered
<1>6. Lines(c) \subseteq OnFile
  BY DEF OnFile
<1>7. LogTypeOK'
  <2>1. 1..written \subseteq 1..MaxLines
    BY LogFacts, LogAssumption
  <2>2. cleared' \subseteq 1..MaxLines
    BY <1>5, <1>6, <2>1, LogFacts
  <2> QED BY <2>2, <1>1, LogFacts DEF LogTypeOK, LogNames, Unlinked
<1>8. Placed'
  <2>1. fd # Unlinked => logs'[fd] # NoFile
    BY <1>1, LogFacts DEF LogInv, Placed
  <2>2. \A n \in LogNames : n < fd \/ n = Hole => logs'[n] = NoFile
    BY <1>1 DEF LogInv, Placed
  <2> QED BY <2>1, <2>2, <1>2 DEF LogInv, Placed, LogNames, Unlinked, NoFile
<1>9. Dense'
  <2> SUFFICES ASSUME NEW x \in OnFile', NEW y \in 1..written, x < y PROVE y \in cleared' \cup OnFile'
    BY DEF Dense
  <2>1. PICK n \in LogNames : x \in Lines(n)'
    BY DEF OnFile, LogNames
  <2>2. x \in OnFile
    BY <2>1, <1>3 DEF OnFile
  <2>3. y \in cleared \/ \E o \in LogNames : y \in Lines(o)
    BY <2>2 DEF LogInv, Dense, OnFile
  <2>4. ASSUME NEW o \in LogNames, y \in Lines(o) PROVE y \in cleared' \cup OnFile'
    <3>1. CASE o = c
      BY <3>1, <2>4
    <3>2. CASE o # c
      BY <3>2, <2>4, <1>4 DEF OnFile, LogNames
    <3> QED BY <3>1, <3>2
  <2> QED BY <2>3, <2>4
<1>10. Full'
  <2>1. logs[c] \in Seq(0..MaxLines)
    BY LogFacts
  <2>2. Len(logs[c]) \in Nat /\ Len(logs[c]) # 0
    BY <2>1
  <2>3. 1 \in 1..Len(logs[c])
    BY <2>2
  <2>4. logs[c][1] \in Lines(c)
    BY <2>3 DEF Lines
  <2> QED BY <2>4 DEF Full
<1> QED BY <1>3, <1>7, <1>8, <1>9, <1>10 DEF LogInv

-----------------------------------------------------------------------------
LEMMA NextLog == LogInv /\ [LogNext]_logVars => LogInv'
<1> SUFFICES ASSUME LogInv, [LogNext]_logVars PROVE LogInv'
  OBVIOUS
<1>1. CASE WriteLine
  BY <1>1, WriteKeeps
<1>2. CASE RemoveOldest
  BY <1>2, RemoveKeeps
<1>3. CASE Shift
  BY <1>3, ShiftKeeps
<1>4. CASE MoveLive
  BY <1>4, MoveKeeps
<1>5. CASE OpenLive
  BY <1>5, ReopenKeeps
<1>6. CASE RotationFails
  BY <1>6, FailKeeps
<1>7. CASE ClearChannel
  BY <1>7, Names, CutKeeps DEF ClearChannel
<1>8. CASE Truncate
  <2>1. fd \in LogNames /\ logs[fd] # NoFile
    BY <1>8, LogFacts DEF Truncate, LogInv, Placed
  <2> QED BY <1>8, <2>1, CutKeeps DEF Truncate
<1>9. CASE UNCHANGED logVars
  <2> USE <1>9 DEF logVars
  <2>1. \A n \in LogNames : Lines(n)' = Lines(n)
    BY DEF Lines, NoFile
  <2>2. OnFile' = OnFile /\ Hole' = Hole
    BY <2>1 DEF OnFile, LogNames, Hole, Unlinked
  <2>3. LogTypeOK' /\ Placed'
    BY <2>2 DEF LogInv, LogTypeOK, Placed, LogNames, Unlinked, NoFile
  <2>4. Ordered' /\ Dense'
    BY <2>1, <2>2 DEF LogInv, Ordered, Dense, LogNames, NoFile
  <2>5. Full'
    BY <2>2 DEF LogInv, Full, There, NoFile
  <2> QED BY <2>3, <2>4, <2>5 DEF LogInv
<1> QED BY <1>1, <1>2, <1>3, <1>4, <1>5, <1>6, <1>7, <1>8, <1>9 DEF LogNext

LEMMA InvAlways == LogSpec => []LogInv
BY InitLog, NextLog, PTL DEF LogSpec

\* The files, what the writer has open and the turn of a rotation stay in
\* their ranges (LogWriter, rotate_locked).
THEOREM LogTypeCorrect == LogSpec => []LogTypeOK
<1>1. LogInv => LogTypeOK
  BY DEF LogInv
<1> QED BY <1>1, InvAlways, PTL

\* Rotation drops the oldest lines only, whatever fails on the way and
\* wherever a channel is cleared: for every max_history, size limit and number
\* of failures (rotate_locked, write_bytes, clear_channel).
THEOREM RotationCorrect == LogSpec => []RotationDropsOldest
<1>1. LogInv => RotationDropsOldest
  <2> SUFFICES ASSUME LogInv PROVE RotationDropsOldest
    OBVIOUS
  <2>1. /\ \A n \in LogNames : logs[n] # NoFile => \A i, j \in 1..Len(logs[n]) : i < j => logs[n][i] < logs[n][j]
        /\ \A n, o \in LogNames : n < o => \A x \in Lines(o), y \in Lines(n) : x < y
        /\ \A x \in OnFile, y \in 1..written : x < y => y \in cleared \cup OnFile
    BY DEF LogInv, Ordered, Dense
  <2>2. ASSUME rotation = Quiet, logFails = 0, cleared = {}
        PROVE  OnFile = 1..written \/ \A n \in 1..MaxHistory : logs[n] # NoFile /\ Len(logs[n]) >= MaxSize
    <3>1. rotation.at = "idle" /\ Hole = Unlinked
      BY <2>2 DEF Quiet, Hole
    <3>2. \A n \in 1..MaxHistory : n # Hole
      BY <3>1, Names
    <3> QED BY <2>2, <3>2 DEF LogInv, Full, There
  <2>3. misses < MaxHistory => fd # Unlinked
    BY LogFacts DEF LogInv, Placed
  <2> QED BY <2>1, <2>2, <2>3 DEF RotationDropsOldest
<1> QED BY <1>1, InvAlways, PTL
=============================================================================
