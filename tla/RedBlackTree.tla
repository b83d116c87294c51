---------------------------- MODULE RedBlackTree ----------------------------
(***************************************************************************)
(* data-structures/RBTree.cpp: trees over nodes the caller owns, with        *)
(* insertion by key or beside a node, removal, and join().  Two tree objects *)
(* share the nodes and the sentinel; roots[i] is the root of the i-th.       *)
(***************************************************************************)
EXTENDS RedBlackOps

CONSTANT Keys      \* the node k has the key k: Keys is a set of positive integers

VARIABLE s         \* [nodes : the record of RedBlackOps, roots]

Init == s = [nodes |-> Empty(Keys), roots |-> <<null, null>>]

Tree(i) == [s.nodes EXCEPT !.root = s.roots[i]]
In(i) == {InOrder(Tree(i), s.roots[i])[j] : j \in 1..Tree(i).size[s.roots[i]]}

Becomes(i, t) == s' = [nodes |-> [t EXCEPT !.root = null],
                       roots |-> [s.roots EXCEPT ![i] = t.root]]

Insert(i, z) == Becomes(i, insert(Tree(i), z, z))

\* The caller of preInsert and sucInsert knows the position: z lies between
\* x and its neighbour.
InsertBeside(x, z, side) ==
    /\ side = "ll" => z < x /\ \A y \in In(1) : ~(z < y /\ y < x)
    /\ side = "rr" => z > x /\ \A y \in In(1) : ~(x < y /\ y < z)
    /\ Becomes(1, insertBeside(Tree(1), x, z, z, side))

\* Every field of a node that enters a tree is set then, so what a removed node
\* still holds is forgotten.
Forgotten(t, x) ==
    [t EXCEPT !.ll[x] = null, !.rr[x] = null, !.pp[x] = null, !.red[x] = FALSE,
              !.bh[x] = 1, !.size[x] = 0, !.key[x] = 0]
Remove(x) == Becomes(1, Forgotten(remove(Tree(1), x), x))

\* tr.join(lt, pm, rt) into an empty tr, which then takes the name 1.
Join(pm) ==
    LET t == join(s.nodes, s.roots[1], pm, pm, s.roots[2]) IN
    s' = [nodes |-> [t EXCEPT !.root = null], roots |-> <<t.root, null>>]

\* The second tree holds the larger keys and only grows until it is joined.
Free == Keys \ (In(1) \cup In(2))
Next ==
    \/ \E z \in Free : (\A y \in In(2) : z < y) /\ Insert(1, z)
    \/ \E z \in Free : (\A y \in In(1) : z > y) /\ Insert(2, z)
    \/ \E x \in In(1), z \in Free, side \in {"ll", "rr"} :
           In(2) = {} /\ InsertBeside(x, z, side)
    \/ \E x \in In(1) : In(2) = {} /\ Remove(x)
    \/ \E pm \in Free : /\ \A x \in In(1) : x < pm
                        /\ \A y \in In(2) : pm < y
                        /\ In(2) # {}
                        /\ Join(pm)

-----------------------------------------------------------------------------
\* The two trees are red-black, as check() has it, and no assertion failed.
Balanced ==
    /\ s.nodes.ok
    /\ \A i \in 1..2 : LET t == Tree(i) IN
        ~t.red[null] /\ t.size[null] = 0 /\ ~t.red[t.root] /\ DFS(t, t.root) > 0

\* Every look-up in either tree answers as its sorted sequence does.
Answers ==
    \A i \in 1..2 : LET t == Tree(i) q == InOrder(t, t.root) IN
        Walks(t, q) /\ \A k \in Keys : LookUps(t, q, k)
Spec == Init /\ [][Next]_s
=============================================================================
