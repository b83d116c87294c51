---------------------------- MODULE RedBlackOps ----------------------------
(***************************************************************************)
(* The algorithms of data-structures/RBTree.cpp in its SIZE build, as       *)
(* functions of the record                                                  *)
(*   [ll, rr, pp, red, bh, size, key : one function each on the nodes,      *)
(*    root, ok].                                                            *)
(* Node 0 is `null', the sentinel all the trees share; its fields are       *)
(* written like those of any node.  NULL is the C null pointer.  A routine  *)
(* and its mirror image are one operator, of the side "ll" or "rr".  ok     *)
(* becomes FALSE when an assert() of the code fails.                        *)
(***************************************************************************)
EXTENDS Integers, Sequences, FiniteSets

null == 0
NULL == -1

Other(s) == IF s = "ll" THEN "rr" ELSE "ll"
SideOf(t, x) == IF t.ll[t.pp[x]] = x THEN "ll" ELSE "rr"
Asserted(t, cond) == [t EXCEPT !.ok = @ /\ cond]

\* The constructor: every node is outside the tree.
Empty(nodes) ==
    LET all(v) == [n \in nodes \cup {null} |-> v] IN
    [ll |-> all(null), rr |-> all(null), pp |-> all(null), red |-> all(FALSE),
     bh |-> all(1), size |-> all(0), key |-> all(0), root |-> null, ok |-> TRUE]

-----------------------------------------------------------------------------
\* Looking around

\* The last node of the walk from x towards side s: begin() and end().
RECURSIVE Far(_, _, _)
Far(t, x, s) == IF t[s][x] = null THEN x ELSE Far(t, t[s][x], s)

Extreme(t, s) == IF t.root = null THEN NULL ELSE Far(t, t.root, s)

RECURSIVE Climb(_, _, _)
Climb(t, x, s) ==
    IF x # t.root /\ t[s][t.pp[x]] = x THEN Climb(t, t.pp[x], s) ELSE x

\* predecessor(x) for s = "ll", successor(x) for s = "rr".
Neighbour(t, x, s) ==
    IF t[s][x] = null /\ x # t.root
    THEN LET y == Climb(t, x, s) IN IF y = t.root THEN NULL ELSE t.pp[y]
    ELSE IF t[s][x] = null THEN NULL ELSE Far(t, t[s][x], Other(s))

\* find(): the key sought is stored in the sentinel, which ends the walk.
find(t0, kx) ==
    LET t == [t0 EXCEPT !.key[null] = kx]
        RECURSIVE walk(_)
        walk(v) == IF t.key[v] = kx THEN v
                   ELSE walk(IF kx < t.key[v] THEN t.ll[v] ELSE t.rr[v])
        v == walk(t.root)
    IN  IF v = null THEN NULL ELSE v

\* Mutant: the walk to the right stops the search.
lowerBoundNoBack(t, k) ==
    LET RECURSIVE left(_)
        left(v) == IF t.ll[v] # null /\ t.key[t.ll[v]] >= k THEN left(t.ll[v]) ELSE v
        right(v) == IF t.key[v] < k THEN t.rr[v] ELSE left(v)
    IN  IF t.root = null THEN NULL
        ELSE IF right(t.root) = null THEN Extreme(t, "rr") ELSE right(t.root)
lowerBound(t, k) ==
    LET RECURSIVE right(_), left(_, _)
        right(re) == IF re # null /\ t.key[re] < k THEN right(t.rr[re]) ELSE re
        left(v, re) == IF v = null THEN re
                       ELSE IF t.key[v] < k THEN left(t.rr[v], re)
                       ELSE left(t.ll[v], v)
        re == right(t.root)
    IN  IF t.root = null THEN NULL
        ELSE IF re = null THEN Extreme(t, "rr")
        ELSE left(t.ll[re], re)

kelement(t, k) ==
    LET RECURSIVE walk(_, _)
        walk(v, i) == LET before == t.size[t.ll[v]] IN
            IF before + 1 = i THEN v
            ELSE IF before >= i THEN walk(t.ll[v], i)
            ELSE walk(t.rr[v], i - before - 1)
    IN  IF t.size[t.root] < k THEN NULL ELSE walk(t.root, k)

count_not_greater_than(t, k) ==
    LET RECURSIVE walk(_)
        walk(v) == IF v = null THEN 0
                   ELSE IF k >= t.key[v]
                        THEN 1 + t.size[t.ll[v]] + walk(t.rr[v])
                   ELSE walk(t.ll[v])
    IN  walk(t.root)

\* DFS() of check(): the black height of the subtree, -1 when an assertion fails.
RECURSIVE DFS(_, _)
DFS(t, v) ==
    IF v = null THEN 1
    ELSE LET l == t.ll[v]
             r == t.rr[v]
             h == DFS(t, l) + (IF t.red[v] THEN 0 ELSE 1)
         IN  IF /\ l = null \/ t.pp[l] = v
                /\ r = null \/ t.pp[r] = v
                /\ t.red[v] => ~t.red[l] /\ ~t.red[r]
                /\ DFS(t, l) > 0 /\ DFS(t, l) = DFS(t, r)
                /\ h = t.bh[v]
                /\ t.size[v] = t.size[l] + t.size[r] + 1
             THEN h ELSE -1

RECURSIVE InOrder(_, _)
InOrder(t, v) ==
    IF v = null THEN <<>> ELSE InOrder(t, t.ll[v]) \o <<v>> \o InOrder(t, t.rr[v])

-----------------------------------------------------------------------------
\* Rebalancing

Resized(t, x) == [t EXCEPT !.size[x] = t.size[t.ll[x]] + t.size[t.rr[x]] + 1]

\* x, on side s of its parent, takes the parent's place:
\* leftRotate for "rr", rightRotate for "ll".
Rotate(t, x, s) ==
    LET o == Other(s)
        y == t.pp[x]
        z == t.pp[y]
        c == t[o][x]
        moved == [t EXCEPT ![s][y] = c, !.pp[c] = y, ![o][x] = y, !.pp[y] = x,
                           !.pp[x] = z, !.root = IF z = null THEN x ELSE @]
        linked == IF z = null THEN moved ELSE [moved EXCEPT ![SideOf(t, y)][z] = x]
    IN  Resized(Resized(Asserted(linked, x # null /\ y # null /\ t[s][y] = x), y), x)

\* z and its parent, both red, on one side: the parent takes the grandparent's place.
Straightened(t, z, o) == IF t[o][t.pp[z]] = z THEN Rotate(t, z, o) ELSE t
Lifted(t, top, o) ==
    Asserted([t EXCEPT !.red[t[o][top]] = TRUE, !.bh[t[o][top]] = @ - 1,
                       !.red[top] = FALSE, !.bh[top] = @ + 1],
             ~t.red[t[o][top]])

RECURSIVE insertFixup(_, _)
insertFixup(t, z) ==
    LET p == t.pp[z]
        g == t.pp[p]
        s == SideOf(t, p)
        o == Other(s)
        y == t[o][g]
        inner == t[o][p] = z
        top == IF inner THEN z ELSE p
        lower == IF inner THEN p ELSE z
        straight == Straightened(Asserted(t, z # null /\ p # null /\ g # null), z, o)
    IN  IF ~t.red[p]
        THEN [t EXCEPT !.red[t.root] = FALSE, !.bh[t.root] = t.bh[t.ll[t.root]] + 1]
        ELSE IF t.red[y]
        THEN insertFixup([t EXCEPT !.red[g] = TRUE, !.red[y] = FALSE, !.red[p] = FALSE,
                                   !.bh[p] = @ + 1, !.bh[y] = @ + 1], g)
        ELSE insertFixup(Lifted(Rotate(straight, top, s), top, o), lower)

\* The parts of removeFixup, where w is the sibling of x, on the side o of their
\* parent.  A red w goes up, above the parent.
BlackSibling(t, w, s) ==
    LET up(r, p) == [r EXCEPT !.red[w] = FALSE, !.bh[w] = @ + 1, !.red[p] = TRUE, !.bh[p] = @ - 1]
    IN  IF t.red[w] THEN up(Rotate(t, w, Other(s)), t.pp[w]) ELSE t
\* The far son of w is black: its near son n, which is red, takes the place of w.
NearUp(t, w, n, s) ==
    [Rotate(t, n, s) EXCEPT !.red[w] = TRUE, !.bh[w] = @ - 1, !.red[n] = FALSE, !.bh[n] = @ + 1]
\* The far son of w is red: w takes the place of the parent, a, and its colour.
SiblingUp(r, x, w, a, b) ==
    Asserted([r EXCEPT !.red[w] = r.red[a], !.bh[w] = r.bh[a], !.red[a] = FALSE,
                       !.bh[a] = r.bh[x] + 1, !.red[b] = FALSE, !.bh[b] = @ + 1],
             w # null /\ r.red[b])
Settled(r, x, w, s) == SiblingUp(r, x, w, r[s][w], r[Other(s)][w])

RECURSIVE removeFixup(_, _)
Nephews(t, x, w, s) ==
    LET n == t[s][w]
        far == t.red[t[Other(s)][w]]
    IN  IF ~t.red[n] /\ ~far
        THEN removeFixup([t EXCEPT !.red[w] = TRUE, !.bh[w] = @ - 1, !.bh[t.pp[x]] = @ - 1], t.pp[x])
        ELSE LET w2 == IF far THEN w ELSE n
                 turned == Rotate(IF far THEN t ELSE NearUp(t, w, n, s), w2, Other(s))
                 atRoot(r) == removeFixup(r, r.root)
             IN  atRoot(Settled(Asserted(turned, ~t.red[w]), x, w2, s))
removeFixup(t, x) ==
    LET s == SideOf(t, x)
        w == t[Other(s)][t.pp[x]]
    IN  IF x = t.root \/ t.red[x]
        THEN [t EXCEPT !.red[x] = FALSE, !.bh[x] = t.bh[t.ll[x]] + 1]
        ELSE Nephews(BlackSibling(Asserted(t, w # null), w, s), x, IF t.red[w] THEN t[s][w] ELSE w, s)

-----------------------------------------------------------------------------
\* Insertion, removal, concatenation

\* size += d from p up to the root.
RECURSIVE Count(_, _, _)
Count(t, p, d) == IF p = null THEN t ELSE Count([t EXCEPT !.size[p] = @ + d], t.pp[p], d)

\* Mutant: the new node is black.
HungBlack(t, z, k, p, s) ==
    [t EXCEPT !.ll[z] = null, !.rr[z] = null, !.pp[z] = p, !.size[z] = 1,
              !.red[z] = FALSE, !.bh[z] = 1, !.key[z] = k, ![s][p] = z]
\* A node of key k that is about to enter the tree below p, on side s.
Hung(t, z, k, p, s) ==
    [t EXCEPT !.ll[z] = null, !.rr[z] = null, !.pp[z] = p, !.size[z] = 1,
              !.red[z] = TRUE, !.bh[z] = 1, !.key[z] = k, ![s][p] = z]

\* insert(): after the nodes of equal key.
insert(t, z, k) ==
    LET side(x) == IF k < t.key[x] THEN "ll" ELSE "rr"
        RECURSIVE leaf(_)
        leaf(x) == IF t[side(x)][x] = null THEN x ELSE leaf(t[side(x)][x])
        y == leaf(t.root)
    IN  IF t.root = null
        THEN [t EXCEPT !.root = z, !.ll[z] = null, !.rr[z] = null, !.pp[z] = null,
                       !.size[z] = 1, !.red[z] = FALSE, !.bh[z] = 2, !.key[z] = k]
        ELSE insertFixup(Hung(Count(t, y, 1), z, k, y, side(y)), z)

\* preInsert(x, z) for s = "ll", sucInsert(x, z) for s = "rr".
insertBeside(t, x, z, k, s) ==
    LET y == Neighbour(t, x, s)
        p == IF t[s][x] = null THEN x ELSE y
        side == IF t[s][x] = null THEN s ELSE Other(s)
    IN  insertFixup(Asserted(Hung(Count(t, p, 1), z, k, p, side),
                             p \notin {null, NULL} /\ t[side][p] = null), z)

\* `if (p->ll == old) p->ll = new; else p->rr = new;'
Relink(t, p, old, new) == [t EXCEPT ![IF t.ll[p] = old THEN "ll" ELSE "rr"][p] = new]

\* remove() of a node with two children: its predecessor takes its place.
removeInner(t, x) ==
    LET y == Neighbour(t, x, "ll")
        cut(z) == Count(Relink([t EXCEPT !.pp[z] = t.pp[y]], t.pp[y], y, z), t.pp[y], -1)
        copied(a) == [a EXCEPT !.pp[y] = a.pp[x], !.ll[y] = a.ll[x], !.rr[y] = a.rr[x],
                               !.size[y] = a.size[x], !.bh[y] = a.bh[x],
                               !.root = IF @ = x THEN y ELSE @]
        placed(b) == Relink(b, b.pp[y], x, y)
        adopted(c) == [c EXCEPT !.pp[c.ll[y]] = y, !.pp[c.rr[y]] = y, !.red[y] = t.red[x]]
        replaced == adopted(placed(copied(cut(t.ll[y]))))
    IN  IF t.red[y] THEN replaced ELSE removeFixup(replaced, t.ll[y])

remove(t, x) ==
    LET z == IF t.ll[x] # null THEN t.ll[x] ELSE t.rr[x]
        spliced == Relink([Count(t, t.pp[x], -1) EXCEPT !.pp[z] = t.pp[x],
                                                        !.root = IF @ = x THEN z ELSE @],
                          t.pp[x], x, z)
    IN  IF t.ll[x] # null /\ t.rr[x] # null THEN removeInner(t, x)
        ELSE IF t.root = x /\ z = null THEN [t EXCEPT !.root = null]
        ELSE IF t.red[x] THEN spliced ELSE removeFixup(spliced, z)

\* join(): the tree of root r1, pm, and the tree of root r2, in one tree.
join(t, r1, pm, k, r2) ==
    LET deep == IF t.bh[r1] > t.bh[r2] THEN r1 ELSE r2
        flat == IF deep = r1 THEN r2 ELSE r1
        s == IF deep = r1 THEN "rr" ELSE "ll"
        RECURSIVE down(_)
        down(p) == IF t.bh[p] > t.bh[flat] THEN down(t[s][p]) ELSE p
        p0 == down(deep)
        p == IF t.red[p0] THEN t[s][p0] ELSE p0
        up == t.pp[p]
        hung == [t EXCEPT ![Other(s)][pm] = p, ![s][pm] = flat, !.pp[pm] = up,
                          ![s][up] = pm, !.pp[p] = pm, !.pp[flat] = pm,
                          !.red[pm] = TRUE, !.bh[pm] = t.bh[flat], !.root = deep,
                          !.size[pm] = t.size[p] + t.size[flat] + 1, !.key[pm] = k]
        even == [t EXCEPT !.ll[pm] = r1, !.rr[pm] = r2, !.pp[pm] = null, !.pp[r1] = pm,
                          !.pp[r2] = pm, !.red[pm] = FALSE, !.bh[pm] = t.bh[r1] + 1,
                          !.size[pm] = t.size[r1] + t.size[r2] + 1, !.root = pm,
                          !.key[pm] = k]
    IN  IF r2 = null THEN insert([t EXCEPT !.root = r1], pm, k)
        ELSE IF r1 = null THEN insert([t EXCEPT !.root = r2], pm, k)
        ELSE IF t.bh[r1] = t.bh[r2] THEN even
        ELSE insertFixup(Asserted(Count(hung, up, t.size[flat] + 1),
                                  p0 # null /\ ~t.red[p]), pm)
-----------------------------------------------------------------------------
\* What the walks and the look-ups should answer of a tree whose sorted sequence
\* is q.  Nothing is asked of lowerBound when every key is less: static_RBTree.cpp
\* promises 0 there (lines 49-50), and both trees return the last node.
Walks(t, q) ==
    /\ \A j \in 1..Len(q) - 1 : t.key[q[j]] <= t.key[q[j + 1]]
    /\ Extreme(t, "ll") = (IF q = <<>> THEN NULL ELSE q[1])
    /\ Extreme(t, "rr") = (IF q = <<>> THEN NULL ELSE q[Len(q)])
    /\ \A j \in 1..Len(q) :
        /\ kelement(t, j) = q[j]
        /\ Neighbour(t, q[j], "ll") = (IF j = 1 THEN NULL ELSE q[j - 1])
        /\ Neighbour(t, q[j], "rr") = (IF j = Len(q) THEN NULL ELSE q[j + 1])
LookUps(t, q, k) ==
    LET least == CHOOSE j \in 1..Len(q) + 1 :
                    /\ \A i \in 1..j - 1 : t.key[q[i]] < k
                    /\ j <= Len(q) => t.key[q[j]] >= k
    IN  /\ IF least <= Len(q) /\ t.key[q[least]] = k
           THEN find(t, k) # NULL /\ t.key[find(t, k)] = k
           ELSE find(t, k) = NULL
        /\ q = <<>> => lowerBound(t, k) = NULL
        /\ least <= Len(q) => lowerBound(t, k) = q[least]
        /\ count_not_greater_than(t, k) = Cardinality({j \in 1..Len(q) : t.key[q[j]] <= k})
=============================================================================
