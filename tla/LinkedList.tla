----------------------------- MODULE LinkedList -----------------------------
(***************************************************************************)
(* data-structures/linked_list.h: doubly linked lists whose pointers live  *)
(* in the nodes of a hash table and are 32-bit addresses.  The prev of a   *)
(* head is the address of its list under the type INVALID_VADDR_TYPE; here *)
(* the address -l of the list l.                                           *)
(***************************************************************************)
EXTENDS Integers, Sequences, FiniteSets, FiniteSetsExt

CONSTANTS Nodes,      \* the addresses of nodes
          Lists,      \* the addresses of lists
          Sorted,     \* those that are doubly_linked_list_sorted_t
          Values      \* what node_comparator compares

ASSUME ListAssumption ==
  /\ Nodes \subseteq Nat \ {0} /\ IsFiniteSet(Nodes)
  /\ Lists \subseteq Nat \ {0} /\ Sorted \subseteq Lists
  /\ Values \subseteq Int /\ Values # {}

VARIABLES next, prev, \* double_pointer_t, of the nodes
          value,      \* of the nodes
          head        \* of the lists
vars == <<next, prev, value, head>>

NULL == 0
IsList(p) == p < 0    \* by its type bits

Init == /\ next = [n \in Nodes |-> NULL] /\ prev = [n \in Nodes |-> NULL]
        /\ value \in [Nodes -> Values]
        /\ head = [l \in Lists |-> NULL]

\* The nodes from p on; NULL from the end on.
Chain(p) ==
  LET c[i \in 0 .. Cardinality(Nodes)] ==
        IF i = 0 THEN p ELSE IF c[i - 1] = NULL THEN NULL ELSE next[c[i - 1]]
  IN  c

-----------------------------------------------------------------------------
\* The caller makes a node at an address where none is.
New(n, v) == prev[n] = NULL /\ value' = [value EXCEPT ![n] = v]

\* Mutant: the old head keeps its prev.
pushUnlinked(l, n) ==
  /\ next' = [next EXCEPT ![n] = head[l]]
  /\ prev' = [prev EXCEPT ![n] = -l]
  /\ head' = [head EXCEPT ![l] = n]

\* The new node takes the place of the head, and its prev.
pushFront(l, n) ==
  LET h == head[l] IN
  /\ next' = [next EXCEPT ![n] = h]
  /\ prev' = IF h = NULL THEN [prev EXCEPT ![n] = -l]
             ELSE [prev EXCEPT ![n] = prev[h], ![h] = n]
  /\ head' = [head EXCEPT ![l] = n]

add_node(l, n, v) == New(n, v) /\ pushFront(l, n)

\* Mutant: the walk stops behind the first node that is not less.
insert_behind(pre, n, v) ==
  LET c == Chain(pre)
      stops == {i \in 0 .. Cardinality(Nodes) :
                  c[i] # NULL /\ (next[c[i]] = NULL \/ v <= value[c[i]])}
      p == c[Min(stops)]
      q == next[p]
  IN  /\ next' = [next EXCEPT ![n] = q, ![p] = n]
      /\ prev' = IF q = NULL THEN [prev EXCEPT ![n] = p]
                 ELSE [prev EXCEPT ![n] = p, ![q] = n]
      /\ UNCHANGED head

\* From pre on, before the first node that is not less.
insert_node_after(pre, n, v) ==
  LET c == Chain(pre)
      stops == {i \in 0 .. Cardinality(Nodes) :
                  c[i] # NULL /\ (next[c[i]] = NULL \/ v <= value[next[c[i]]])}
      p == c[Min(stops)]
      q == next[p]
  IN  /\ next' = [next EXCEPT ![n] = q, ![p] = n]
      /\ prev' = IF q = NULL THEN [prev EXCEPT ![n] = p]
                 ELSE [prev EXCEPT ![n] = p, ![q] = n]
      /\ UNCHANGED head

add_sorted_node(l, n, v) ==
  /\ New(n, v)
  /\ IF head[l] = NULL \/ v <= value[head[l]] THEN pushFront(l, n)
     ELSE insert_node_after(head[l], n, v)

\* After it the caller clears the pointers of the node.  The list is found from prev
\* when the node is its head; a node whose prev is NULL is in no list, and nothing
\* happens.
remove_node(n) ==
  LET p == prev[n]
      q == next[n]
  IN  /\ p # NULL
      /\ IF IsList(p) THEN head' = [head EXCEPT ![-p] = q] ELSE UNCHANGED head
      /\ next' = IF IsList(p) THEN [next EXCEPT ![n] = NULL]
                 ELSE [next EXCEPT ![p] = q, ![n] = NULL]
      /\ prev' = IF q = NULL THEN [prev EXCEPT ![n] = NULL]
                 ELSE [prev EXCEPT ![q] = p, ![n] = NULL]
      /\ UNCHANGED value

Next == \/ \E l \in Lists \ Sorted, n \in Nodes, v \in Values : add_node(l, n, v)
        \/ \E l \in Sorted, n \in Nodes, v \in Values : add_sorted_node(l, n, v)
        \/ \E n \in Nodes : remove_node(n)

Spec == Init /\ [][Next]_vars

-----------------------------------------------------------------------------
\* The nodes of l, as whoever follows next from the head comes to them.
Listed(l) ==
  LET c == Chain(head[l])
  IN  [i \in 1 .. Cardinality({j \in DOMAIN c : c[j] # NULL}) |-> c[i - 1]]

\* A pointer is where one belongs: no node follows a list, no list heads a list.
TypeOK ==
  /\ next \in [Nodes -> Nodes \cup {NULL}]
  /\ prev \in [Nodes -> Nodes \cup {NULL} \cup {-l : l \in Lists}]
  /\ value \in [Nodes -> Values]
  /\ head \in [Lists -> Nodes \cup {NULL}]

\* add_node, add_sorted_node, remove_node: every list ends, next and prev agree in
\* it, its head carries its address, no node is twice in the lists, a node with a
\* prev is in one of them, and check_sorted_list returns true.
ListsSound ==
  /\ \A l \in Lists : \A i \in 1 .. Len(Listed(l)) :
       /\ prev[Listed(l)[i]] = IF i = 1 THEN -l ELSE Listed(l)[i - 1]
       /\ l \in Sorted /\ i > 1 => value[Listed(l)[i - 1]] <= value[Listed(l)[i]]
  /\ \A l, m \in Lists : \A i \in 1 .. Len(Listed(l)), j \in 1 .. Len(Listed(m)) :
       Listed(l)[i] = Listed(m)[j] => l = m /\ i = j
  /\ \A n \in Nodes : prev[n] # NULL => \E l \in Lists : n \in Range(Listed(l))

\* Read along next, the lists are sequences that an operation changes by one node:
\* a sorted insertion finds its place among equal and unequal nodes, and a removal,
\* which does not know its list, takes the node out of the right one.
Abstract == INSTANCE NodeLists WITH lists <- [l \in Lists |-> Listed(l)]
ImplementsLists == Abstract!Spec
=============================================================================
