------------------------------ MODULE FlowGraph ------------------------------
(****************************************************************************)
(* The topology that FlowGraph::build derives from a flow definition        *)
(* (flow/definition.rs).  A definition is the sequence of declared nodes; a *)
(* node is a record [id, outputs, reads] and an output a record             *)
(* [route, reviewers, key] with None for an absent route or key.  A port is *)
(* named by its position, so an output is the pair <<node id, position>>.   *)
(* Everything here is a pure operator: FlowRuntime uses what it returns, and *)
(* the runs of FlowRuntime take their instance from it.                      *)
(****************************************************************************)
EXTENDS Naturals, Sequences, FiniteSets, SequencesExt

CONSTANTS None,   \* an absent route, key or definition
          Chat    \* the implicit __chat__ node

\* The output of __chat__ that start_run approves by itself.
InitialBrief == <<Chat, 1>>

Ids(def) == {def[i].id : i \in DOMAIN def}

\* FlowDefinition::node: the first node with the id.
NodeOf(def, id) == def[CHOOSE i \in DOMAIN def :
                         /\ def[i].id = id
                         /\ \A j \in 1..(i - 1) : def[j].id # id]

\* Every declared output, in declaration order.
OutputSeq(def) ==
    FlattenSeq([i \in DOMAIN def |->
                  [p \in DOMAIN def[i].outputs |-> <<def[i].id, p>>]])
AllOutputs(def) == ToSet(OutputSeq(def))
Output(def, o) == NodeOf(def, o[1]).outputs[o[2]]

\* Steps 1 and 2 of build: unique ids, known routes and known reviewers.
WellFormed(def, agents) ==
    /\ \A i, j \in DOMAIN def : def[i].id = def[j].id => i = j
    /\ \A o \in AllOutputs(def) :
          /\ Output(def, o).route \in Ids(def) \cup {None}
          /\ Output(def, o).reviewers \subseteq agents \cup {"human"}

\* Step 2b: the outputs that declare a key, in declaration order.  A later one
\* replaces an earlier one in key_to_producer, whereas
\* find_output_by_blackboard_key returns the first.
Declaring(def, key) ==
    SelectSeq(OutputSeq(def), LAMBDA o : Output(def, o).key = key)

key_to_producer(def, key) == Last(Declaring(def, key))
find_output_by_blackboard_key(def, key) ==
    IF Declaring(def, key) = <<>> THEN None ELSE Head(Declaring(def, key))

ReadsResolved(def) ==
    \A i \in DOMAIN def : \A k \in def[i].reads : Declaring(def, k) # <<>>

\* Step 3: the outputs routed to a node.
Incoming(def, id) == {o \in AllOutputs(def) : Output(def, o).route = id}

\* The routes out of a node, in declaration order.
Outgoing(def, id) ==
    SelectSeq([p \in DOMAIN NodeOf(def, id).outputs |->
                  NodeOf(def, id).outputs[p].route],
              LAMBDA r : r # None)

\* Depth-first search; an edge to a node on the stack closes a cycle.
RECURSIVE dfs_back_edges(_, _, _)
dfs_back_edges(def, cur, st) ==
    LET Visit(acc, target) ==
            IF target \notin acc.visited
            THEN dfs_back_edges(def, target, acc)
            ELSE IF target \in acc.in_stack
                 THEN [acc EXCEPT !.back = @ \cup {<<cur, target>>}]
                 ELSE acc
        entered == [st EXCEPT !.visited = @ \cup {cur}, !.in_stack = @ \cup {cur}]
        left == FoldLeft(Visit, entered, Outgoing(def, cur))
    IN  [left EXCEPT !.in_stack = @ \ {cur}]

\* The search is started from every unvisited node, in declaration order.
detect_back_edges(def) ==
    FoldLeft(LAMBDA st, node :
                IF node.id \in st.visited THEN st
                ELSE dfs_back_edges(def, node.id, st),
             [visited |-> {}, in_stack |-> {}, back |-> {}], def).back

\* Steps 4 and 4b: an incoming edge is a cycle input when it closes a cycle and
\* a required input otherwise; a node with `reads` waits for the producers of
\* its keys instead, and has no cycle inputs.
cycle_inputs(def, id) ==
    IF NodeOf(def, id).reads # {} THEN {}
    ELSE {o \in Incoming(def, id) : <<o[1], id>> \in detect_back_edges(def)}

UpstreamInputs(def, id) ==
    IF NodeOf(def, id).reads # {}
    THEN {key_to_producer(def, k) : k \in NodeOf(def, id).reads}
    ELSE Incoming(def, id) \ cycle_inputs(def, id)

\* Steps 5 and 6: a node that waits for nothing is an entry node and waits for
\* the initial brief.
entry_nodes(def) == {id \in Ids(def) : UpstreamInputs(def, id) = {}}

required_inputs(def, id) ==
    UpstreamInputs(def, id) \cup (IF id \in entry_nodes(def) THEN {InitialBrief} ELSE {})

nodes_awaiting(def, o) == {id \in Ids(def) : o \in required_inputs(def, id)}
nodes_retriggered_by(def, o) == {id \in Ids(def) : o \in cycle_inputs(def, id)}

\* FlowGraph::build and load_from_str: the definition is refused, or has a graph.
Loads(def, agents) == WellFormed(def, agents) /\ ReadsResolved(def)

=============================================================================
