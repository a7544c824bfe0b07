---------------------------- MODULE ExtensionApi ----------------------------
(***************************************************************************)
(* The registries that activated extensions share, and the RPC handlers    *)
(* build_rpc_server installs for each of them: commands, agent providers,  *)
(* sidebar views, content renderers, webview panels, contributions and the *)
(* event bus (extensions/api/*.rs, contributions/mod.rs, events.rs).       *)
(*                                                                         *)
(* A handler is one step, except events/subscribe: it reads the handle,    *)
(* installs a listener and parks the guard under three locks, so that a    *)
(* respawn or a deactivation can come in between.                          *)
(***************************************************************************)
EXTENDS Naturals, FiniteSets

CONSTANTS Exts,        \* installed extensions
          Ids,         \* contribution ids, shared by every extension point
          Reserved,    \* the ids of the platform's namespace, cronymax.*
          Topics,
          NoExt,
          declares,    \* [Exts -> SUBSET Ids]: the manifest's contributes
          subscribes,  \* [Exts -> SUBSET Topics]: capabilities.events.subscribe
          emits,       \* [Exts -> SUBSET Topics]: what capabilities.events.emit matches
          MaxListeners,\* bound on next_id of the bus
          MaxHosts,    \* bound on the hosts of an extension
          UseSets      \* which extension points a behaviour's extensions use

ASSUME ApiAssumption == /\ declares \in [Exts -> SUBSET Ids] /\ NoExt \notin Exts
                        /\ subscribes \in [Exts -> SUBSET Topics]
                        /\ emits \in [Exts -> SUBSET Topics] /\ Topics # {}
                        /\ MaxListeners \in Nat /\ MaxHosts \in Nat

VARIABLES
    owner,      \* [registry -> [id -> owning extension]]
    visible,    \* the panels that are shown
    caps,       \* extensions with a capability whitelist on the bus
    active,     \* extensions with a host, i.e. an entry in handles
    conn,       \* the host (connection) of each extension, 0 before the first
    listeners,  \* the subscribers of the bus: [id, ext, topic, conn]
    guards,     \* [ext -> listener ids]: event_subscriptions of the handle
    subscribing,\* [ext -> the events/subscribe handler in progress]
    next_id,
    told,       \* the extensions whose host was sent a notify it has yet to handle
    uses        \* the extension points the extensions of this behaviour use

apiVars == <<owner, visible, caps, active, conn, listeners, guards, subscribing, next_id, told, uses>>

Registries == {"contribution", "command", "provider", "sidebar", "renderer", "panel"}
Listener == [id : 0..MaxListeners, ext : Exts, topic : Topics, conn : 0..MaxHosts]
NotSubscribing == [pc |-> "none", topic |-> CHOOSE t \in Topics : TRUE, conn |-> 0, id |-> 0]
ApiTypeOK ==
    /\ owner \in [Registries -> [Ids -> Exts \cup {NoExt}]]
    /\ visible \subseteq Ids /\ caps \subseteq Exts /\ active \subseteq Exts
    /\ conn \in [Exts -> 0..MaxHosts] /\ listeners \subseteq Listener
    /\ guards \in [Exts -> SUBSET (0..MaxListeners)]
    /\ subscribing \in [Exts -> [pc : {"none", "connected", "listening"}, topic : Topics,
                                 conn : 0..MaxHosts, id : 0..MaxListeners]]
    /\ next_id \in 0..MaxListeners /\ told \subseteq Exts /\ uses \in UseSets

ApiInit ==
    /\ owner = [r \in Registries |-> [i \in Ids |-> NoExt]]
    /\ visible = {} /\ caps = {} /\ active = {} /\ conn = [e \in Exts |-> 0]
    /\ listeners = {} /\ guards = [e \in Exts |-> {}]
    /\ subscribing = [e \in Exts |-> NotSubscribing]
    /\ next_id = 0 /\ told = {} /\ uses \in UseSets

-----------------------------------------------------------------------------
\* unregister_all_for, remove_extension, dispose_all_for
MUnregisterAll(o, rs, e) == [r \in Registries |-> IF r \in rs THEN [i \in Ids |-> NoExt] ELSE o[r]]

UnregisterAll(o, rs, e) ==
    [r \in Registries |-> [i \in Ids |-> IF r \in rs /\ o[r][i] = e THEN NoExt ELSE o[r][i]]]

\* ContentRendererRegistry::ingest_manifest: register each, refusing what another owns
IngestRenderers(o, e) ==
    [i \in Ids |-> IF i \in declares[e] \ Reserved /\ o[i] = NoExt THEN e ELSE o[i]]

\* ContributionRegistry::ingest: add replaces whatever holds the id
IngestContributions(o, e) == [i \in Ids |-> IF i \in declares[e] THEN e ELSE o[i]]

\* notify_extension, where the outcome is of no consequence to the caller
Tell(e) == told' = told \cup {e}

Severed(e) == {l \in listeners : l.id \notin guards[e]}

Activate(e) ==
    /\ e \notin active /\ conn[e] < MaxHosts
    /\ active' = active \cup {e} /\ conn' = [conn EXCEPT ![e] = @ + 1]
    /\ owner' = [owner EXCEPT !["contribution"] = IngestContributions(@, e),
                              !["renderer"] = IngestRenderers(@, e)]
    /\ caps' = caps \cup {e} /\ told' = told \ {e}
    /\ UNCHANGED <<visible, listeners, guards, subscribing, next_id, uses>>

Deactivate(e) ==
    /\ e \in active
    /\ active' = active \ {e} /\ caps' = caps \ {e}
    /\ owner' = UnregisterAll(owner, Registries, e)
    /\ visible' = {i \in visible : owner["panel"][i] # e}
    /\ listeners' = {l \in listeners : l.ext # e}
    /\ guards' = [guards EXCEPT ![e] = {}] /\ told' = told \ {e}
    /\ UNCHANGED <<conn, subscribing, next_id, uses>>

\* respawn keeps contributions, renderers, panels and the capabilities.
MRespawn(e) ==
    /\ e \in active /\ conn[e] < MaxHosts
    /\ conn' = [conn EXCEPT ![e] = @ + 1]
    /\ owner' = UnregisterAll(owner, {"command", "provider", "sidebar"}, e)
    /\ guards' = [guards EXCEPT ![e] = {}]
    /\ told' = told \ {e}
    /\ UNCHANGED <<visible, caps, active, subscribing, next_id, listeners, uses>>

Respawn(e) ==
    /\ e \in active /\ conn[e] < MaxHosts
    /\ conn' = [conn EXCEPT ![e] = @ + 1]
    /\ owner' = UnregisterAll(owner, {"command", "provider", "sidebar"}, e)
    /\ listeners' = Severed(e)
    /\ guards' = [guards EXCEPT ![e] = {}]
    /\ told' = told \ {e}
    /\ UNCHANGED <<visible, caps, active, subscribing, next_id, uses>>

-----------------------------------------------------------------------------
(* Notifies and requests of an extension's host.                           *)

Free(r, e, i) == owner[r][i] \in {NoExt, e}

\* A registration that is refused is reported with extension/registerError.
Outcome(r, e, i, ok) ==
    IF ok THEN owner' = [owner EXCEPT ![r][i] = e] /\ UNCHANGED told
          ELSE Tell(e) /\ UNCHANGED owner

RegisterProvider(e, i) ==
    /\ "provider" \in uses /\ e \in active
    /\ Outcome("provider", e, i, i \in declares[e] \ Reserved /\ Free("provider", e, i))
    /\ UNCHANGED <<visible, caps, active, conn, listeners, guards, subscribing, next_id, uses>>

RegisterSidebar(e, i) ==
    /\ "sidebar" \in uses /\ e \in active
    /\ Outcome("sidebar", e, i, i \in declares[e] \ Reserved /\ Free("sidebar", e, i))
    /\ UNCHANGED <<visible, caps, active, conn, listeners, guards, subscribing, next_id, uses>>

RegisterCommand(e, i) ==
    /\ "command" \in uses /\ e \in active
    /\ Outcome("command", e, i, i \notin Reserved /\ Free("command", e, i))
    /\ UNCHANGED <<visible, caps, active, conn, listeners, guards, subscribing, next_id, uses>>

\* unregister refuses what another extension owns.
Unregister(r, e, i) ==
    /\ e \in active /\ r \in {"provider", "sidebar", "command"} /\ owner[r][i] = e
    /\ owner' = [owner EXCEPT ![r][i] = NoExt]
    /\ UNCHANGED <<visible, caps, active, conn, listeners, guards, subscribing, next_id, told, uses>>

CreatePanel(e, i) ==
    /\ "panel" \in uses /\ e \in active /\ owner["panel"][i] = NoExt
    /\ owner' = [owner EXCEPT !["panel"][i] = e]
    /\ UNCHANGED <<visible, caps, active, conn, listeners, guards, subscribing, next_id, told, uses>>

DisposePanel(e, i) ==
    /\ e \in active /\ owner["panel"][i] = e
    /\ owner' = [owner EXCEPT !["panel"][i] = NoExt]
    /\ visible' = visible \ {i}
    /\ UNCHANGED <<caps, active, conn, listeners, guards, subscribing, next_id, told, uses>>

SetVisible(e, i, v) ==
    /\ e \in active /\ owner["panel"][i] = e
    /\ visible' = IF v THEN visible \cup {i} ELSE visible \ {i}
    /\ UNCHANGED <<owner, caps, active, conn, listeners, guards, subscribing, next_id, told, uses>>

-----------------------------------------------------------------------------
(* The event bus.                                                          *)

\* events/subscribe, in its three sections
SubscribeConn(e, t) ==
    /\ "events" \in uses /\ e \in active /\ subscribing[e].pc = "none"
    /\ subscribing' = [subscribing EXCEPT ![e] = [pc |-> "connected", topic |-> t, conn |-> conn[e], id |-> 0]]
    /\ UNCHANGED <<owner, visible, caps, active, conn, listeners, guards, next_id, told, uses>>

SubscribeBus(e) ==
    /\ subscribing[e].pc = "connected"
    /\ LET s == subscribing[e] IN
       IF e \in caps /\ s.topic \in subscribes[e] /\ next_id < MaxListeners
       THEN /\ listeners' = listeners \cup {[id |-> next_id, ext |-> e, topic |-> s.topic, conn |-> s.conn]}
            /\ subscribing' = [subscribing EXCEPT ![e].pc = "listening", ![e].id = next_id]
            /\ next_id' = next_id + 1
       ELSE /\ subscribing' = [subscribing EXCEPT ![e] = NotSubscribing]
            /\ UNCHANGED <<listeners, next_id>>
    /\ UNCHANGED <<owner, visible, caps, active, conn, guards, told, uses>>

\* The guard is parked, or dropped with its listener when the handle is gone.
SubscribeGuard(e) ==
    /\ subscribing[e].pc = "listening"
    /\ subscribing' = [subscribing EXCEPT ![e] = NotSubscribing]
    /\ IF e \in active
       THEN guards' = [guards EXCEPT ![e] = @ \cup {subscribing[e].id}] /\ UNCHANGED listeners
       ELSE listeners' = {l \in listeners : l.id # subscribing[e].id} /\ UNCHANGED guards
    /\ UNCHANGED <<owner, visible, caps, active, conn, next_id, told, uses>>

Unsubscribe(e, t) ==
    /\ e \in active
    /\ LET gone == {l.id : l \in {m \in listeners : m.topic = t /\ m.id \in guards[e]}} IN
       /\ gone # {}
       /\ listeners' = {l \in listeners : l.id \notin gone}
       /\ guards' = [guards EXCEPT ![e] = @ \ gone]
    /\ UNCHANGED <<owner, visible, caps, active, conn, subscribing, next_id, told, uses>>

\* fanout: each listener notifies the connection it captured
Fanout(t) ==
    told' = told \cup {e \in active : \E l \in listeners : l.ext = e /\ l.topic = t /\ l.conn = conn[e]}

EmitFromExtension(e, t) ==
    /\ e \in active /\ e \in caps /\ t \in emits[e] /\ Fanout(t)
    /\ UNCHANGED <<owner, visible, caps, active, conn, listeners, guards, subscribing, next_id, uses>>

EmitFromPlatform(t) ==
    /\ \E l \in listeners : l.topic = t
    /\ Fanout(t)
    /\ UNCHANGED <<owner, visible, caps, active, conn, listeners, guards, subscribing, next_id, uses>>

-----------------------------------------------------------------------------
(* What the shell forwards from a frame to the extension that owns it.     *)

FrameOwner(i) == IF owner["panel"][i] # NoExt THEN owner["panel"][i] ELSE owner["sidebar"][i]

ForwardPanelMessage(i) ==
    /\ FrameOwner(i) \in active
    /\ Tell(FrameOwner(i))
    /\ UNCHANGED <<owner, visible, caps, active, conn, listeners, guards, subscribing, next_id, uses>>

\* resolve_view, dispose_view, change_view_visibility: no-ops without a provider
NotifyView(i) ==
    /\ owner["sidebar"][i] \in active
    /\ Tell(owner["sidebar"][i])
    /\ UNCHANGED <<owner, visible, caps, active, conn, listeners, guards, subscribing, next_id, uses>>

ForwardPanelViewState(i) ==
    /\ owner["panel"][i] \in active
    /\ Tell(owner["panel"][i])
    /\ UNCHANGED <<owner, visible, caps, active, conn, listeners, guards, subscribing, next_id, uses>>

ForwardPanelDisposed(i) ==
    /\ owner["panel"][i] # NoExt
    /\ owner' = [owner EXCEPT !["panel"][i] = NoExt] /\ visible' = visible \ {i}
    /\ IF owner["panel"][i] \in active
       THEN Tell(owner["panel"][i]) ELSE UNCHANGED told
    /\ UNCHANGED <<caps, active, conn, listeners, guards, subscribing, next_id, uses>>

\* The host handles what it was told (external).
Handled(e) ==
    /\ e \in told /\ told' = told \ {e}
    /\ UNCHANGED <<owner, visible, caps, active, conn, listeners, guards, subscribing, next_id, uses>>

-----------------------------------------------------------------------------
ExtStep(e) ==
    \/ Activate(e) \/ Deactivate(e) \/ Respawn(e) \/ SubscribeBus(e) \/ SubscribeGuard(e) \/ Handled(e)
    \/ \E i \in Ids :
        \/ RegisterProvider(e, i) \/ RegisterSidebar(e, i) \/ RegisterCommand(e, i)
        \/ \E r \in Registries : Unregister(r, e, i)
        \/ CreatePanel(e, i) \/ DisposePanel(e, i) \/ \E v \in BOOLEAN : SetVisible(e, i, v)
    \/ \E t \in Topics : SubscribeConn(e, t) \/ Unsubscribe(e, t) \/ EmitFromExtension(e, t)

ShellStep(i) ==
    \/ ForwardPanelMessage(i) \/ ForwardPanelViewState(i) \/ ForwardPanelDisposed(i) \/ NotifyView(i)

ApiNext == (\E e \in Exts : ExtStep(e)) \/ (\E i \in Ids : ShellStep(i))
           \/ (\E t \in Topics : EmitFromPlatform(t))

ApiSpec == ApiInit /\ [][ApiNext]_apiVars

-----------------------------------------------------------------------------
(* Properties                                                              *)

\* Every listener on the bus can be severed: its guard is parked in the handle
\* of its extension, or the subscribe handler that installed it still holds
\* it.  Deactivation, respawn and unsubscribe drop guards between the three
\* locks of events/subscribe.
ListenersAreGuarded ==
    \A l \in listeners : \/ l.id \in guards[l.ext] /\ l.ext \in active
                         \/ subscribing[l.ext].pc = "listening" /\ subscribing[l.ext].id = l.id

\* An extension loses a registration only by its own notify, by its own
\* deactivation or respawn, or by the shell closing its panel: no step of
\* another extension takes it away (CommandRegistry, AgentProviderRegistry,
\* SidebarViewRegistry, WebviewRegistry; contributions have no such rule).
RegistrationsAreKept ==
    [][\A e \in Exts, i \in Ids, r \in Registries \ {"contribution"} :
        owner[r][i] = e /\ owner'[r][i] # e => ExtStep(e) \/ ShellStep(i)]_apiVars
=============================================================================
