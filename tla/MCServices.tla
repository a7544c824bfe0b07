----------------------------- MODULE MCServices -----------------------------
(***************************************************************************)
(* The runtime's services around a run, each checked on its own: a         *)
(* behaviour is a scene, one component's specification with the others at  *)
(* rest.                                                                   *)
(***************************************************************************)
EXTENDS TLC, AgentRouting, ExtensionApi, RpcConnection, Dispatch, Transport, ChatSession,
        AuthorityRecords

CONSTANTS e1, e2

VARIABLE scene

vars == <<scene, routeVars, apiVars, rpcVars, dspVars, gipsVars, chatVars, recVars>>

MCDeclares == (e1 :> {"x"}) @@ (e2 :> {"x"})
MCSubscribes == (e1 :> {"t"}) @@ (e2 :> {"t"})
MCEmits == (e1 :> {"t"}) @@ (e2 :> {"t"})
MCUseSets == {{"command"}, {"provider"}, {"sidebar", "panel"}, {"events"}}

Kinds(b) == [a |-> "user", b |-> b]
MCWorlds == {[kind |-> Kinds("user"), turns |-> 2, overlap |-> FALSE, crashes |-> 0],
             [kind |-> Kinds("system"), turns |-> 1, overlap |-> TRUE, crashes |-> 0],
             [kind |-> Kinds("system"), turns |-> 1, overlap |-> FALSE, crashes |-> 1]}

Init ==
    /\ scene \in {"routing", "api", "rpc", "dispatch", "transport", "chat", "records"}
    /\ RouteInit /\ ApiInit /\ RpcInit /\ DspInit /\ GipsInit /\ ChatInit /\ RecInit
    /\ scene # "routing" => fault = "cancel"
    /\ scene # "api" => uses = {"command"}
    /\ scene # "chat" => world.crashes = 1 /\ space

AtRest(s, v) == IF scene = s THEN TRUE ELSE UNCHANGED v

Next ==
    /\ UNCHANGED scene
    /\ AtRest("routing", routeVars) /\ AtRest("api", apiVars) /\ AtRest("rpc", rpcVars)
    /\ AtRest("dispatch", dspVars) /\ AtRest("transport", gipsVars) /\ AtRest("chat", chatVars)
    /\ AtRest("records", recVars)
    /\ \/ scene = "routing" /\ RouteNext
       \/ scene = "api" /\ ApiNext
       \/ scene = "rpc" /\ RpcNext
       \/ scene = "dispatch" /\ DspNext
       \/ scene = "transport" /\ GipsNext
       \/ scene = "chat" /\ ChatNext
       \/ scene = "records" /\ RecNext

Spec == Init /\ [][Next]_vars

\* The values of every service's variables stay in their types.
ServicesTypeOK == RouteTypeOK /\ ApiTypeOK /\ RpcTypeOK /\ DspTypeOK /\ GipsTypeOK /\ ChatTypeOK
                  /\ RecTypeOK
=============================================================================
