-------------------------- MODULE MCExtensionHost --------------------------
(* Instances of ExtensionHost: a restart budget of one; three control      *)
(* requests with two host processes when nothing but a death goes wrong,   *)
(* three processes with two requests when hosts may hang, or with one when *)
(* the extension is activated at startup as well, and one request with two *)
(* processes when it serves an agent session.                              *)
EXTENDS ExtensionHost

MCMaxOps(world) == IF world = {} THEN 3 ELSE IF world = {"hang"} THEN 2 ELSE 1
MCMaxHosts(world) == IF world \in {{"hang"}, {"startup"}} THEN 3 ELSE 2
=============================================================================
