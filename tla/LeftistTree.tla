---------------------------- MODULE LeftistTree ----------------------------
(***************************************************************************)
(* data-structures/LeftistTree.cpp: mergeable heaps in one array of S nodes, *)
(* kept leftist by size.  A tree is named by its root, 0 the empty one; the  *)
(* array never takes a node back before clear().                             *)
(***************************************************************************)
EXTENDS Integers, FiniteSets

CONSTANTS S, Keys

VARIABLE s      \* [t : the arrays and top, roots : the roots of two trees]

Blank == [ll |-> [i \in 0..S |-> 0], rr |-> [i \in 0..S |-> 0],
          size |-> [i \in 0..S |-> 0], key |-> [i \in 0..S |-> 0], top |-> 0]
Init == s = [t |-> Blank, roots |-> <<0, 0>>]

makeTree(t, kk) ==
    LET n == t.top + 1 IN
    [t EXCEPT !.top = n, !.ll[n] = 0, !.rr[n] = 0, !.size[n] = 1, !.key[n] = kk]

\* <<the arrays, the root of the union of the trees a and b>>
RECURSIVE merge(_, _, _)
merge(t, a, b) ==
    LET ra == IF t.key[a] > t.key[b] THEN b ELSE a
        rb == IF ra = a THEN b ELSE a
        m == merge(t, t.rr[ra], rb)
        u == [m[1] EXCEPT !.rr[ra] = m[2]]
        lighter == u.size[u.ll[ra]] < u.size[u.rr[ra]]
        v == IF lighter THEN [u EXCEPT !.ll[ra] = u.rr[ra], !.rr[ra] = u.ll[ra]] ELSE u
    IN  IF a = 0 THEN <<t, b>>
        ELSE IF b = 0 THEN <<t, a>>
        ELSE <<[v EXCEPT !.size[ra] = v.size[v.ll[ra]] + v.size[v.rr[ra]] + 1], ra>>

Becomes(i, m) == s' = [t |-> m[1], roots |-> [s.roots EXCEPT ![i] = m[2]]]

push(i, kk) ==
    LET t == makeTree(s.t, kk) IN
    /\ s.t.top < S
    /\ Becomes(i, IF s.roots[i] = 0 THEN <<t, t.top>> ELSE merge(t, t.top, s.roots[i]))
\* The root that leaves keeps its fields, which nothing reads again.
pop(i) ==
    LET r == s.roots[i]
        m == merge(s.t, s.t.ll[r], s.t.rr[r]) IN
    /\ r # 0
    /\ Becomes(i, <<[m[1] EXCEPT !.ll[r] = 0, !.rr[r] = 0, !.size[r] = 0, !.key[r] = 0], m[2]>>)
mergeRoots ==
    LET m == merge(s.t, s.roots[1], s.roots[2]) IN
    /\ s.roots[2] # 0
    /\ s' = [t |-> m[1], roots |-> <<m[2], 0>>]
clear == s.t.top > 0 /\ s' = [t |-> Blank, roots |-> <<0, 0>>]

Next == \/ \E i \in 1..2, kk \in Keys : push(i, kk)
        \/ \E i \in 1..2 : pop(i)
        \/ mergeRoots
        \/ clear

RECURSIVE Below(_, _)
Below(t, r) == IF r = 0 THEN {} ELSE {r} \cup Below(t, t.ll[r]) \cup Below(t, t.rr[r])

\* No key is less than that of the root above it, the left subtree is the
\* larger one (merge() asserts it), and sizes are what they say.
HeapSound ==
    /\ Below(s.t, s.roots[1]) \cap Below(s.t, s.roots[2]) = {}
    /\ \A i \in 1..2 : \A r \in Below(s.t, s.roots[i]) :
        /\ s.t.size[r] = Cardinality(Below(s.t, r))
        /\ s.t.size[s.t.ll[r]] >= s.t.size[s.t.rr[r]]
        /\ \A x \in Below(s.t, r) : s.t.key[r] <= s.t.key[x]
Spec == Init /\ [][Next]_s
=============================================================================
