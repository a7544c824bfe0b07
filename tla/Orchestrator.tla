---------------------------- MODULE Orchestrator ----------------------------
(***************************************************************************)
(* cronygraph: the directed graph (graph.rs), its topological order and    *)
(* cycle test, and the walk of Orchestrator::run over a graph of steps     *)
(* (orchestration.rs).  HashMap iteration is a choice.  A step's state is  *)
(* the path of the steps that made it.                                     *)
(***************************************************************************)
EXTENDS Naturals, Sequences, FiniteSets

CONSTANTS NodeIds,
          Adjacencies,  \* the graphs to walk: [NodeIds -> Seq(NodeIds)]
          MaxSteps,     \* StepLimits::max_steps
          MaxFan        \* bound on the successors of a Branch

VARIABLES
    adjacency,
    task,       \* the operation this behaviour is: walk, order or cycle test
    result,     \* how it ended
    current, path, tails, trace,       \* run: current, state, pending, trace
    named,      \* ghost: how often each node was named as the next one
    indegree, ready, order,            \* topological_order
    color, stack                       \* has_cycle

walkVars == <<current, path, tails, trace, named>>
orderVars == <<indegree, ready, order>>
cycleVars == <<color, stack>>
orchVars == <<adjacency, task, result, walkVars, orderVars, cycleVars>>

Targets(n) == {adjacency[n][i] : i \in 1..Len(adjacency[n])}
Edges == UNION {{<<n, k>> : k \in Targets(n)} : n \in NodeIds}
\* Edges to n, parallel ones apart: those that come from given nodes, and all.
EdgesFrom(S, n) == {e \in S \X (1..MaxFan) : e[2] <= Len(adjacency[e[1]]) /\ adjacency[e[1]][e[2]] = n}
InEdges(n) == Cardinality(EdgesFrom(NodeIds, n))
Fans == UNION {[1..k -> NodeIds] : k \in 0..MaxFan}

ASSUME OrchAssumption ==
    /\ IsFiniteSet(NodeIds) /\ MaxSteps \in Nat /\ MaxFan \in Nat
    /\ Adjacencies \subseteq [NodeIds -> Fans]

OrchTypeOK ==
    /\ adjacency \in [NodeIds -> Seq(NodeIds)] /\ task \in {"walk", "order", "cycle"}
    /\ result \in {"none", "Completed", "Cancelled", "StepError", "StepLimitExceeded", "InvalidNextNode",
                   "Ok", "Cycle", "cyclic", "acyclic"}
    /\ current \in NodeIds /\ path \in Seq(NodeIds) /\ trace \in Seq(NodeIds) /\ Len(trace) <= MaxSteps
    /\ tails \in Seq(Seq(NodeIds) \X NodeIds) /\ named \in [NodeIds -> Nat]
    /\ indegree \in [NodeIds -> Nat] /\ ready \in Seq(NodeIds) /\ order \in Seq(NodeIds)
    /\ color \in [NodeIds -> {"White", "Grey", "Black"}]
    /\ stack \in Seq(NodeIds \X (1..(MaxFan + 1)))

OrchInit ==
    /\ adjacency \in Adjacencies /\ task \in {"walk", "order", "cycle"} /\ result = "none"
    /\ current \in NodeIds /\ path = <<>> /\ tails = <<>> /\ trace = <<>>
    /\ named = [n \in NodeIds |-> IF n = current THEN 1 ELSE 0]
    /\ indegree = [n \in NodeIds |-> InEdges(n)] /\ order = <<>>
    /\ \E q \in UNION {[1..k -> NodeIds] : k \in 0..Cardinality(NodeIds)} :
        /\ \A n \in NodeIds : (\E i \in DOMAIN q : q[i] = n) <=> InEdges(n) = 0
        /\ \A i, j \in DOMAIN q : q[i] = q[j] => i = j
        /\ ready = q
    /\ color = [n \in NodeIds |-> "White"] /\ stack = <<>>

-----------------------------------------------------------------------------
(* Orchestrator::run: one action for each transition a step may return.    *)

MVisit == task = "walk" /\ result = "none" /\ Len(trace) <= MaxSteps /\ trace' = Append(trace, current)
Visit == task = "walk" /\ result = "none" /\ Len(trace) < MaxSteps /\ trace' = Append(trace, current)
Ends(r) == result' = r /\ UNCHANGED <<current, path, tails, named>>
WalkOnly == UNCHANGED <<adjacency, task, orderVars, cycleVars>>

check_edge(n) == <<current, n>> \in Edges
Made == Append(path, current)
Count(ns) == [n \in NodeIds |-> named[n] + Cardinality({i \in DOMAIN ns : ns[i] = n})]

StepLimit ==
    /\ task = "walk" /\ result = "none" /\ Len(trace) = MaxSteps
    /\ Ends("StepLimitExceeded") /\ UNCHANGED trace /\ WalkOnly

StepFails == Visit /\ Ends("StepError") /\ WalkOnly

Goto(n) ==
    /\ Visit
    /\ IF check_edge(n)
       THEN current' = n /\ path' = Made /\ named' = Count(<<n>>) /\ UNCHANGED <<tails, result>>
       ELSE Ends("InvalidNextNode")
    /\ WalkOnly

\* The most recently pushed tail is resumed with the state it was pushed with.
Resume ==
    /\ path' = tails[Len(tails)][1] /\ current' = tails[Len(tails)][2]
    /\ tails' = SubSeq(tails, 1, Len(tails) - 1)
    /\ UNCHANGED <<named, result>>

\* Branch to nothing, or Terminal: the reason counts only on the last branch.
BranchOver(reason) ==
    /\ Visit
    /\ IF tails = <<>> THEN Ends(reason) ELSE Resume
    /\ WalkOnly

\* The first successor is walked; the rest are pushed in reverse.
MPushed(ns) == [i \in 1..(Len(ns) - 1) |-> <<path, ns[Len(ns) + 1 - i]>>]
Pushed(ns) == [i \in 1..(Len(ns) - 1) |-> <<Made, ns[Len(ns) + 1 - i]>>]

Branch(ns) ==
    /\ Visit
    /\ IF \A i \in DOMAIN ns : check_edge(ns[i])
       THEN /\ current' = ns[1] /\ path' = Made /\ tails' = tails \o Pushed(ns)
            /\ named' = Count(ns) /\ UNCHANGED result
       ELSE Ends("InvalidNextNode")
    /\ WalkOnly

WalkStep ==
    \/ StepLimit \/ StepFails
    \/ \E n \in NodeIds : Goto(n)
    \/ \E r \in {"Completed", "Cancelled"} : BranchOver(r)
    \/ \E ns \in Fans \ {<<>>} : Branch(ns)

-----------------------------------------------------------------------------
(* topological_order (Kahn)                                                *)

Occurs(n, q) == Cardinality({i \in 1..Len(q) : q[i] = n})

\* The places in the adjacency of n whose turn lowers its node to zero.
LowersToZero(n) == {i \in 1..Len(adjacency[n]) :
    indegree[adjacency[n][i]] = Occurs(adjacency[n][i], SubSeq(adjacency[n], 1, i))}

\* q lists the numbers in S in ascending order.
Ascending(q, S) == {q[i] : i \in DOMAIN q} = S /\ \A i, j \in DOMAIN q : i < j => q[i] < q[j]

\* Popping a node lowers its targets in turn; who reaches zero becomes ready.
KahnPop ==
    /\ task = "order" /\ result = "none" /\ ready # <<>>
    /\ LET n == Head(ready)
       IN  /\ order' = Append(order, n)
           /\ indegree' = [k \in NodeIds |-> indegree[k] - Occurs(k, adjacency[n])]
           /\ \E freed \in [1..Cardinality(LowersToZero(n)) -> LowersToZero(n)] :
                 /\ Ascending(freed, LowersToZero(n))
                 /\ ready' = Tail(ready) \o [j \in DOMAIN freed |-> adjacency[n][freed[j]]]
    /\ UNCHANGED <<adjacency, task, result, walkVars, cycleVars>>

KahnEnds ==
    /\ task = "order" /\ result = "none" /\ ready = <<>>
    /\ result' = IF Len(order) = Cardinality(NodeIds) THEN "Ok" ELSE "Cycle"
    /\ UNCHANGED <<adjacency, task, walkVars, orderVars, cycleVars>>

-----------------------------------------------------------------------------
(* has_cycle: an iterative depth-first search that colours nodes.          *)

CycleStart(n) ==
    /\ task = "cycle" /\ result = "none" /\ stack = <<>> /\ color[n] = "White"
    /\ color' = [color EXCEPT ![n] = "Grey"] /\ stack' = <<<<n, 1>>>>
    /\ UNCHANGED <<adjacency, task, result, walkVars, orderVars>>

CycleStep ==
    /\ task = "cycle" /\ result = "none" /\ stack # <<>>
    /\ LET top == stack[Len(stack)]
           below == SubSeq(stack, 1, Len(stack) - 1)
           next == adjacency[top[1]][top[2]]
       IN  IF top[2] > Len(adjacency[top[1]])
           THEN /\ color' = [color EXCEPT ![top[1]] = "Black"] /\ stack' = below
                /\ UNCHANGED result
           ELSE /\ result' = IF color[next] = "Grey" THEN "cyclic" ELSE result
                /\ stack' = Append(below, <<top[1], top[2] + 1>>)
                            \o IF color[next] = "White" THEN <<<<next, 1>>>> ELSE <<>>
                /\ color' = IF color[next] = "White" THEN [color EXCEPT ![next] = "Grey"] ELSE color
    /\ UNCHANGED <<adjacency, task, walkVars, orderVars>>

CycleEnds ==
    /\ task = "cycle" /\ result = "none" /\ stack = <<>> /\ \A n \in NodeIds : color[n] # "White"
    /\ result' = "acyclic"
    /\ UNCHANGED <<adjacency, task, walkVars, orderVars, cycleVars>>

-----------------------------------------------------------------------------
OrchNext ==
    \/ WalkStep \/ KahnPop \/ KahnEnds
    \/ \E n \in NodeIds : CycleStart(n)
    \/ CycleStep \/ CycleEnds

OrchSpec == OrchInit /\ [][OrchNext]_orchVars

-----------------------------------------------------------------------------
(* Properties                                                              *)

\* A walk along declared edges.
Walk(q) == \A i \in 1..(Len(q) - 1) : <<q[i], q[i + 1]>> \in Edges

\* Every step runs with the state its own path made: the state of the current
\* branch and of every pending one is a walk along declared edges that ends at
\* the node to visit, whatever sibling branches did in between, and no node
\* that was named is dropped or visited more often than it was named
\* (Orchestrator::run).
BranchesKeepTheirState ==
    task = "walk" =>
        /\ Walk(Append(path, current))
        /\ \A i \in 1..Len(tails) : Walk(Append(tails[i][1], tails[i][2]))
        /\ result = "none" => \A n \in NodeIds :
              named[n] = Occurs(n, trace) + Cardinality({i \in 1..Len(tails) : tails[i][2] = n})
                         + (IF n = current THEN 1 ELSE 0)
        /\ result \in {"Completed", "Cancelled"} => \A n \in NodeIds : named[n] = Occurs(n, trace)

Cyclic == \E k \in 1..Cardinality(NodeIds) : \E q \in [1..(k + 1) -> NodeIds] : q[1] = q[k + 1] /\ Walk(q)

\* topological_order and has_cycle agree with the definition of a cycle, for
\* self loops and parallel edges too, and an order puts every edge forward.
CyclesAreFound ==
    /\ result \in {"Cycle", "cyclic"} => Cyclic
    /\ result = "acyclic" => ~Cyclic
    /\ result = "Ok" => /\ \A n \in NodeIds : Occurs(n, order) = 1
                        /\ \A i, j \in 1..Len(order) : <<order[i], order[j]>> \in Edges => i < j

\* A run and the two graph algorithms do what the graph says: no branch sees
\* another's state, none is dropped or walked twice, and cycles are found where
\* there are cycles (Orchestrator::run, topological_order, has_cycle).
GraphsAreHonoured == BranchesKeepTheirState /\ CyclesAreFound
=============================================================================
