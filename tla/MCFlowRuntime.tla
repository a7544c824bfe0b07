---------------------------- MODULE MCFlowRuntime ----------------------------
(****************************************************************************)
(* A flow with a join, a cycle, two kinds of review and a human node, its   *)
(* graph computed by FlowGraph from the declared nodes:                     *)
(*   A -a-> C, B -b-> C, C -c-> A (closes a cycle), H (human) reads c.      *)
(****************************************************************************)
EXTENDS FlowRuntime

CONSTANTS NoneValue, ChatNode

G == INSTANCE FlowGraph WITH None <- NoneValue, Chat <- ChatNode

Out(route, reviewers, key) == [route |-> route, reviewers |-> reviewers, key |-> key]

MCDef == <<
    [id |-> "A", outputs |-> <<Out("C", {"r1"}, NoneValue)>>, reads |-> {}],
    [id |-> "B", outputs |-> <<Out("C", {}, NoneValue)>>, reads |-> {}],
    [id |-> "C", outputs |-> <<Out("A", {"human"}, "doc")>>, reads |-> {}],
    [id |-> "H", outputs |-> <<Out(NoneValue, {}, NoneValue)>>, reads |-> {"doc"}] >>

MCBrief == "brief"
MCNodes == {"A", "B", "C", "H"}
MCHumanOwned == {"H"}
MCOutputs == {"brief", "a", "b", "c", "h"}
MCProducer == [brief |-> "chat", a |-> "A", b |-> "B", c |-> "C", h |-> "H"]
MCRequired == [A |-> {"brief"}, B |-> {"brief"}, C |-> {"a", "b"}, H |-> {"c"}]
MCCyclic == [A |-> {"c"}, B |-> {}, C |-> {}, H |-> {}]
MCAgentReviewers == [brief |-> {}, a |-> {"r1"}, b |-> {}, c |-> {}, h |-> {}]
MCHumanReviewed == {"c"}
MCMaxCycles == [brief |-> 0, a |-> 0, b |-> 1, c |-> 0, h |-> 0]

\* The constants above are what FlowGraph::build makes of the definition.
Port(o) == [brief |-> G!InitialBrief, a |-> <<"A", 1>>, b |-> <<"B", 1>>,
            c |-> <<"C", 1>>, h |-> <<"H", 1>>][o]
ASSUME GraphAsBuilt ==
    /\ G!Loads(MCDef, {"r1"})
    /\ MCNodes = G!Ids(MCDef)
    /\ \A n \in MCNodes :
          /\ {Port(o) : o \in MCRequired[n]} = G!required_inputs(MCDef, n)
          /\ {Port(o) : o \in MCCyclic[n]} = G!cycle_inputs(MCDef, n)
    /\ \A o \in MCOutputs \ {MCBrief} :
          /\ MCProducer[o] = Port(o)[1]
          /\ G!Output(MCDef, Port(o)).reviewers
                = MCAgentReviewers[o] \cup (IF o \in MCHumanReviewed THEN {"human"} ELSE {})

\* What the proofs assume of a graph holds of every definition of three nodes
\* with two outputs each, routed anywhere or nowhere.
Three == <<"x", "y", "z">>
Definition(f) == [i \in 1..3 |->
    [id |-> Three[i], reads |-> {},
     outputs |-> [p \in 1..2 |-> Out(f[i][p], {}, NoneValue)]]]
Routes == {"x", "y", "z", NoneValue}
ASSUME BackEdgesReturn ==
    \A f \in [1..3 -> Routes \X Routes] :
        LET def == Definition(f)
            ids == G!Ids(def)
            waits == [n \in ids |-> {o[1] : o \in G!required_inputs(def, n)}]
            cycles == [n \in ids |-> {o[1] : o \in G!cycle_inputs(def, n)}]
        IN  /\ \A n \in ids : waits[n] # {}
            /\ \A S \in SUBSET ids :
                  (\A n \in S : waits[n] \subseteq S \cup {ChatNode})
                  => \A n \in ids : cycles[n] \cap S # {} => n \in S
=============================================================================
