----------------------------- MODULE NodeLists -----------------------------
(***************************************************************************)
(* What the lists of data-structures/linked_list.h promise: each is a      *)
(* sequence of nodes, and an operation puts one node somewhere or takes    *)
(* one out; the others keep their order.                                   *)
(***************************************************************************)
EXTENDS Integers, SequencesExt

CONSTANTS Nodes, Lists, Sorted,
          Values            \* what the nodes are compared by

VARIABLES lists,            \* from the list to its sequence
          value             \* of each node

Listed(n) == \E l \in Lists : n \in Range(lists[l])

Init == /\ lists = [l \in Lists |-> <<>>]
        /\ value \in [Nodes -> Values]

\* in front of all others
Push(l, n) == lists' = [lists EXCEPT ![l] = <<n>> \o @]

\* behind all that are less than the new one, and before the others
Place(l, n, v) ==
  \E i \in 1 .. Len(lists[l]) + 1 :
    /\ \A j \in 1 .. Len(lists[l]) : value[lists[l][j]] < v <=> j < i
    /\ lists' = [lists EXCEPT ![l] = InsertAt(@, i, n)]

Put(l, n, v) ==
  /\ ~Listed(n)
  /\ value' = [value EXCEPT ![n] = v]
  /\ IF l \in Sorted THEN Place(l, n, v) ELSE Push(l, n)

TakeOut(l, n) ==
  /\ \E i \in 1 .. Len(lists[l]) :
       lists[l][i] = n /\ lists' = [lists EXCEPT ![l] = RemoveAt(@, i)]
  /\ UNCHANGED value

\* each changes the list it is for
Next == \E l \in Lists :
          /\ lists'[l] # lists[l]
          /\ \E n \in Nodes : TakeOut(l, n) \/ \E v \in Values : Put(l, n, v)

Spec == Init /\ [][Next]_<<lists, value>>
=============================================================================
