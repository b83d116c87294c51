------------------------------ MODULE FibHeap ------------------------------
(***************************************************************************)
(* data-structures/FibHeap.cpp: Fibonacci heaps over nodes the caller owns.  *)
(* Siblings form a circular doubly linked list; root is some root with the   *)
(* least key.  Two heap objects exist so that merge() has an argument:       *)
(* h.root is the heap the operations work on, h.fh the root of the other.    *)
(***************************************************************************)
EXTENDS Integers, FiniteSets, SequencesExt

CONSTANTS HeapNodes,  \* the nodes, 1..n
          KeyOf,      \* the key a node is inserted with
          Ops         \* bound on the operations after the first insertions

VARIABLE s            \* [h : the heaps, ops : operations done, stale : see merge]

NULL == 0

Blank == [key |-> KeyOf, rank |-> [n \in HeapNodes |-> 0],
          mark |-> [n \in HeapNodes |-> FALSE], son |-> [n \in HeapNodes |-> NULL],
          pre |-> [n \in HeapNodes |-> NULL], next |-> [n \in HeapNodes |-> NULL],
          pp |-> [n \in HeapNodes |-> NULL], root |-> NULL, fh |-> NULL]

-----------------------------------------------------------------------------
\* pn becomes the successor of ph in its list.
doubleLink(h, ph, pn) ==
    [h EXCEPT !.next[ph] = pn, !.pre[pn] = ph, !.next[pn] = h.next[ph],
              !.pre[h.next[ph]] = pn]

\* The list of ph without it.
Unlinked(h, ph) == [h EXCEPT !.next[h.pre[ph]] = h.next[ph], !.pre[h.next[ph]] = h.pre[ph]]

\* The lists of a and b become one: a is followed by what followed b.
Spliced(h, a, b) ==
    [h EXCEPT !.next[a] = h.next[b], !.pre[h.next[b]] = a,
              !.next[b] = h.next[a], !.pre[h.next[a]] = b]

Least(h, p) == IF h.key[h.root] > h.key[p] THEN [h EXCEPT !.root = p] ELSE h

insert(h, pn) ==
    LET b == [h EXCEPT !.pp[pn] = NULL, !.son[pn] = NULL, !.rank[pn] = 0, !.mark[pn] = FALSE]
    IN  IF h.root = NULL
        THEN [b EXCEPT !.root = pn, !.pre[pn] = pn, !.next[pn] = pn]
        ELSE Least(doubleLink(b, h.root, pn), pn)

\* The comparison is the wrong way round: the root of the greater key is kept.
merge(h) ==
    LET j == Spliced(h, h.root, h.fh) IN
    IF h.root = NULL THEN [h EXCEPT !.root = h.fh, !.fh = NULL]
    ELSE IF h.fh = NULL THEN h
    ELSE [j EXCEPT !.root = IF h.key[@] < h.key[h.fh] THEN h.fh ELSE @, !.fh = NULL]

mergeTree(h, a, b) ==
    LET r1 == IF h.key[a] > h.key[b] THEN b ELSE a
        r2 == IF r1 = a THEN b ELSE a
        u == [h EXCEPT !.rank[r1] = @ + 1, !.pp[r2] = r1]
    IN  <<IF h.son[r1] = NULL
          THEN [u EXCEPT !.son[r1] = r2, !.pre[r2] = r2, !.next[r2] = r2]
          ELSE doubleLink(u, h.son[r1], r2), r1>>

\* The root list from p to the end of the (cut) list.
RECURSIVE RootsFrom(_, _, _)
RootsFrom(h, p, last) == <<p>> \o IF p = last THEN <<>> ELSE RootsFrom(h, h.next[p], last)

\* The roots are merged until their ranks differ, then linked in the order of
\* their ranks.
consolidate(h) ==
    LET RECURSIVE place(_, _, _)
        place(g, bucket, nr) ==
            LET r == g.rank[nr] m == mergeTree(g, nr, bucket[r]) IN
            IF bucket[r] = NULL THEN <<g, [bucket EXCEPT ![r] = nr]>>
            ELSE place(m[1], [bucket EXCEPT ![r] = NULL], m[2])
        each(acc, p) == place([acc[1] EXCEPT !.pp[p] = NULL, !.mark[p] = FALSE], acc[2], p)
        done == FoldLeft(each, <<h, [i \in 0..Cardinality(HeapNodes) |-> NULL]>>,
                         RootsFrom(h, h.root, h.pre[h.root]))
        ranks == {i \in DOMAIN done[2] : done[2][i] # NULL}
        RECURSIVE link(_, _)
        link(g, rest) ==
            IF rest = {} THEN g
            ELSE LET i == Min(rest)
                     p == done[2][i]
                 IN  link(IF g.root = NULL
                          THEN [g EXCEPT !.root = p, !.pre[p] = p, !.next[p] = p]
                          ELSE Least(doubleLink(g, g.root, p), p), rest \ {i})
    IN  link([done[1] EXCEPT !.root = NULL], ranks)

\* Mutant: the father keeps its rank.
cutKeepsRank(h, ph) ==
    LET p == h.pp[ph]
        u == IF h.rank[p] = 1 THEN [h EXCEPT !.son[p] = NULL]
             ELSE Unlinked([h EXCEPT !.son[p] = IF @ = ph THEN h.next[ph] ELSE @], ph)
    IN  [u EXCEPT !.pp[ph] = NULL, !.mark[ph] = FALSE]

\* cutHnode(): ph leaves the sons of its father.
cutHnode(h, ph) ==
    LET p == h.pp[ph]
        u == IF h.rank[p] = 1 THEN [h EXCEPT !.son[p] = NULL]
             ELSE Unlinked([h EXCEPT !.son[p] = IF @ = ph THEN h.next[ph] ELSE @], ph)
    IN  [u EXCEPT !.rank[p] = @ - 1, !.pp[ph] = NULL, !.mark[ph] = FALSE]

\* Mutant: the sons of the root leave with it.
extractWithSons(h) ==
    LET u == Unlinked(h, h.root) IN
    IF h.next[h.root] = h.root THEN [h EXCEPT !.root = NULL]
    ELSE consolidate([u EXCEPT !.root = h.pre[h.root]])

\* The sons of the root join the root list, which the root then leaves.
extractMin(h) ==
    LET r == h.root
        j == IF h.son[r] = NULL THEN h ELSE Spliced(h, r, h.son[r])
        u == Unlinked(j, r)
    IN  IF j.next[r] = r THEN [j EXCEPT !.root = NULL]
        ELSE consolidate([u EXCEPT !.root = j.pre[r]])

\* decrease(), after the caller lowered the key of ph: ph and, as long as they
\* were marked, its ancestors become roots.
decrease(h, ph) ==
    LET toRoot(g, x) == LET c == cutHnode(g, x) IN Least(doubleLink(c, c.root, x), x)
        RECURSIVE cascade(_, _)
        cascade(g, x) ==
            IF g.mark[x] THEN cascade(toRoot(g, x), g.pp[x])
            ELSE [g EXCEPT !.mark[x] = g.pp[x] # NULL]
    IN  IF h.pp[ph] = NULL THEN Least(h, ph)
        ELSE cascade(toRoot(h, ph), h.pp[ph])

-----------------------------------------------------------------------------
\* The nodes of the list of p, and of the trees below it.
Ring(h, p) == LET q == RootsFrom(h, p, h.pre[p]) IN {q[i] : i \in 1..Len(q)}
RECURSIVE Trees(_, _)
Trees(h, p) == IF p = NULL THEN {} ELSE UNION {{x} \cup Trees(h, h.son[x]) : x \in Ring(h, p)}
Members == Trees(s.h, s.h.root)
Others == Trees(s.h, s.h.fh)

MaxOther == 2     \* bound on the nodes the other heap starts with
\* n nodes in the heap, m in the other one.
RECURSIVE Filled(_, _, _)
Filled(h, from, to) == IF from > to THEN h ELSE Filled(insert(h, from), from + 1, to)
Init ==
    \E n \in 0..Cardinality(HeapNodes), m \in 0..MaxOther :
        /\ n + m <= Cardinality(HeapNodes)
        /\ LET a == Filled(Blank, n + 1, n + m)
           IN  s = [h |-> Filled([a EXCEPT !.root = NULL, !.fh = a.root], 1, n),
                    ops |-> 0, stale |-> FALSE]

Does(h, stale) == s.ops < Ops /\ s' = [h |-> h, ops |-> s.ops + 1, stale |-> stale]

\* A node outside the heaps keeps nothing but its key.
Forgotten(h, n) ==
    [h EXCEPT !.son[n] = NULL, !.pre[n] = NULL, !.next[n] = NULL, !.pp[n] = NULL,
              !.rank[n] = 0, !.mark[n] = FALSE]

Insert(n) == Does(insert(s.h, n), s.stale)

\* stale: the root may not be the least since merge(); extractMin() mends it.
Merge == /\ s.h.fh # NULL
         /\ Does(merge(s.h), s.stale \/ s.h.root # NULL)
ExtractMin == /\ s.h.root # NULL
              /\ Does(Forgotten(extractMin(s.h), s.h.root), FALSE)
Decrease(ph) == /\ s.h.key[ph] > 0
                /\ Does(decrease([s.h EXCEPT !.key[ph] = 0], ph), s.stale)

Next ==
    \/ \E n \in HeapNodes \ (Members \cup Others) : Insert(n)
    \/ Merge
    \/ ExtractMin
    \/ \E ph \in Members : Decrease(ph)

-----------------------------------------------------------------------------
\* The lists are closed both ways, a father knows its sons and their number,
\* and no son has a lesser key than its father.
RECURSIVE Sound(_, _, _)
Sound(h, p, father) ==
    p # NULL => \A x \in Ring(h, p) :
        /\ h.pre[h.next[x]] = x /\ h.next[h.pre[x]] = x /\ h.pp[x] = father
        /\ h.rank[x] = IF h.son[x] = NULL THEN 0 ELSE Cardinality(Ring(h, h.son[x]))
        /\ father # NULL => h.key[father] <= h.key[x]
        /\ Sound(h, h.son[x], x)
HeapSound ==
    /\ Sound(s.h, s.h.root, NULL) /\ Sound(s.h, s.h.fh, NULL)
    /\ Members \cap Others = {}
\* getMin() is the least key, unless a merge left the root at the wrong tree.
MinimumAtRoot == \/ s.stale
                 \/ \A x \in Members : s.h.key[s.h.root] <= s.h.key[x]
Spec == Init /\ [][Next]_s
=============================================================================
