--------------------------- MODULE PriorityQueue ---------------------------
(***************************************************************************)
(* What the heap of graph-algorithms/minCostFlow.cpp promises Dijkstra: a  *)
(* set of items that wait, each with a cost, of which a least leaves.      *)
(***************************************************************************)
EXTENDS Integers

CONSTANTS HeapItems, HeapCosts

VARIABLE queue      \* from the items that wait to their costs

Init == queue = [v \in {} |-> 0]

Push(v, c) == /\ v \notin DOMAIN queue
              /\ queue' = [u \in DOMAIN queue \cup {v} |-> IF u = v THEN c ELSE queue[u]]

Lower(v, c) == v \in DOMAIN queue /\ c < queue[v] /\ queue' = [queue EXCEPT ![v] = c]

Pop(v) == /\ v \in DOMAIN queue
          /\ \A u \in DOMAIN queue : queue[v] <= queue[u]
          /\ queue' = [u \in DOMAIN queue \ {v} |-> queue[u]]

Clear == queue' = [v \in {} |-> 0]

Next == \/ \E v \in HeapItems, c \in HeapCosts : Push(v, c) \/ Lower(v, c)
        \/ \E v \in HeapItems : Pop(v)
        \/ Clear

Spec == Init /\ [][Next]_queue
=============================================================================
