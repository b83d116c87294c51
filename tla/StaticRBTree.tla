---------------------------- MODULE StaticRBTree ----------------------------
(***************************************************************************)
(* data-structures/static_RBTree.cpp: the red-black tree over arrays of S    *)
(* nodes.  A node is taken from `top' and given back only by clear().  The   *)
(* rotations and fixups are those of RBTree.cpp; bh, which this class does   *)
(* not store, is here a ghost, and 0 stands for both the sentinel and "no    *)
(* such node".                                                               *)
(***************************************************************************)
EXTENDS RedBlackOps

CONSTANTS S,       \* the capacity
          Keys     \* the keys, which may repeat

VARIABLE s         \* [tree : the record of RedBlackOps, top]

Init == s = [tree |-> Empty(1..S), top |-> 1]

In == {InOrder(s.tree, s.tree.root)[j] : j \in 1..s.tree.size[s.tree.root]}

insertKey(kx) ==
    /\ s.top <= S
    /\ s' = [tree |-> insert(s.tree, s.top, kx), top |-> s.top + 1]

\* predecessor(x) and successor(x): the climb ends above the root.
RECURSIVE ClimbOut(_, _, _)
ClimbOut(t, x, side) ==
    IF x # 0 /\ t[side][t.pp[x]] = x THEN ClimbOut(t, t.pp[x], side) ELSE x
Next2(t, x, side) ==
    IF t[side][x] # 0 THEN Far(t, t[side][x], Other(side))
    ELSE LET y == ClimbOut(t, x, side) IN IF y = 0 THEN 0 ELSE t.pp[y]

\* preInsert(x, ky) and sucInsert(x, ky); the caller keeps the order.
insertKeyBeside(x, ky, side) ==
    LET t == s.tree
        n == Next2(t, x, side) IN
    /\ s.top <= S
    /\ IF side = "ll" THEN ky <= t.key[x] /\ (n = 0 \/ ky >= t.key[n])
                      ELSE ky >= t.key[x] /\ (n = 0 \/ ky <= t.key[n])
    /\ s' = [tree |-> insertBeside(t, x, s.top, ky, side), top |-> s.top + 1]

\* Every field of a node that enters the tree is set then.
Forgotten(t, x) ==
    [t EXCEPT !.ll[x] = 0, !.rr[x] = 0, !.pp[x] = 0, !.red[x] = FALSE,
              !.bh[x] = 1, !.size[x] = 0, !.key[x] = 0]
removeNode(x) == s' = [s EXCEPT !.tree = Forgotten(remove(s.tree, x), x)]

\* clear() keeps the arrays; only what a later operation reads is kept here.
clear ==
    /\ s.tree.root # 0
    /\ s' = [tree |-> [Empty(1..S) EXCEPT !.pp[0] = s.tree.pp[0], !.rr[0] = s.tree.rr[0]],
             top |-> 1]

Next ==
    \/ \E kx \in Keys : insertKey(kx)
    \/ \E x \in In, ky \in Keys, side \in {"ll", "rr"} : insertKeyBeside(x, ky, side)
    \/ \E x \in In : removeNode(x)
    \/ clear

-----------------------------------------------------------------------------
\* The tree is red-black, and a look-up answers as the sorted sequence does.
Balanced ==
    s.tree.ok /\ ~s.tree.red[0] /\ ~s.tree.red[s.tree.root] /\ DFS(s.tree, s.tree.root) > 0
Answers ==
    LET t == s.tree
        q == InOrder(t, t.root)
        at(j) == IF j \in 1..Len(q) THEN q[j] ELSE 0 IN
    /\ \A j \in 1..Len(q) : Next2(t, q[j], "ll") = at(j - 1) /\ Next2(t, q[j], "rr") = at(j + 1)
    /\ \A k \in Keys : LookUps(t, q, k)
Spec == Init /\ [][Next]_s
=============================================================================
