----------------------------- MODULE Containers -----------------------------
(***************************************************************************)
(* The containers of the collection, one behaviour for each: `structure' says *)
(* which, s is its state, and content what its links reach, read off s after  *)
(* every operation.  Each implements Collections.                             *)
(***************************************************************************)
EXTENDS Integers, Sequences, Functions, TLC

CONSTANTS TreeKeys, StaticCapacity, StaticKeys, HeapOps, LeftistCapacity, LeftistKeys

ASSUME ContainersAssumption ==
    /\ TreeKeys \subseteq Nat \ {0} /\ StaticKeys \cup LeftistKeys \subseteq Nat
    /\ StaticCapacity \in Nat /\ LeftistCapacity \in Nat /\ HeapOps \in Nat

VARIABLES structure, s, content     \* which one, its state, what it holds

Absent == -1
Ids == 0..9
FibKeys == <<3, 1, 2, 1, 3, 2, 1, 2, 3>>

RB == INSTANCE RedBlackTree WITH Keys <- TreeKeys
SRB == INSTANCE StaticRBTree WITH S <- StaticCapacity, Keys <- StaticKeys
FH == INSTANCE FibHeap WITH HeapNodes <- 1..Len(FibKeys), KeyOf <- FibKeys, Ops <- HeapOps
LT == INSTANCE LeftistTree WITH S <- LeftistCapacity, Keys <- LeftistKeys

\* The elements a structure in the state x holds, with their values.
Holding(members, value(_)) == [i \in members |-> value(i)] @@ [i \in Ids |-> Absent]
Reached(x) ==
    CASE structure = "RBTree" ->
            Holding(Range(RB!InOrder(x.nodes, x.roots[1]) \o RB!InOrder(x.nodes, x.roots[2])),
                    LAMBDA i : x.nodes.key[i])
      [] structure = "static_RBTree" ->
            Holding(Range(SRB!InOrder(x.tree, x.tree.root)), LAMBDA i : x.tree.key[i])
      [] structure = "FibHeap" ->
            Holding(FH!Trees(x.h, x.h.root) \cup FH!Trees(x.h, x.h.fh), LAMBDA i : x.h.key[i])
      [] structure = "LeftistTree" ->
            Holding(LT!Below(x.t, x.roots[1]) \cup LT!Below(x.t, x.roots[2]),
                    LAMBDA i : x.t.key[i])

Created ==
        /\ \/ structure = "RBTree" /\ RB!Init
           \/ structure = "static_RBTree" /\ SRB!Init
           \/ structure = "FibHeap" /\ FH!Init
           \/ structure = "LeftistTree" /\ LT!Init
        /\ content = Reached(s)

Operated ==
        /\ \/ structure = "RBTree" /\ RB!Next
           \/ structure = "static_RBTree" /\ SRB!Next
           \/ structure = "FibHeap" /\ FH!Next
           \/ structure = "LeftistTree" /\ LT!Next
        /\ UNCHANGED structure
        /\ content' = Reached(s')

-----------------------------------------------------------------------------
\* No operation of any container loses, duplicates or alters an element it was
\* not called for: rotations, consolidations and merges keep the rest.
Contents == INSTANCE Collections
KeepsElements == Contents!Spec

\* RBTree.cpp, static_RBTree.cpp: after any sequence of insertions by key and by
\* position, removals and joins, check() passes (colours, black heights, sizes,
\* parent links), no assertion of the fixups has failed, and find, lowerBound, kelement,
\* count_not_greater_than, begin, end, predecessor and successor answer as the sorted
\* sequence of the elements does.
SearchTreesSound ==
    /\ structure = "RBTree" => RB!Balanced /\ RB!Answers
    /\ structure = "static_RBTree" => SRB!Balanced /\ SRB!Answers

\* FibHeap.cpp, LeftistTree.cpp: links, ranks and sizes describe one forest in heap
\* order, and the root is the least.
HeapsOrdered ==
    /\ structure = "FibHeap" => FH!HeapSound /\ FH!MinimumAtRoot
    /\ structure = "LeftistTree" => LT!HeapSound
=============================================================================
