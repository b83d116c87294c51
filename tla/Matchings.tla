----------------------------- MODULE Matchings -----------------------------
(***************************************************************************)
(* graph-algorithms/stableMarriage.cpp, Bipartite_matching.cpp and           *)
(* General_matching.cpp.  Vertices are 0..n-1; an array is a function, a     *)
(* loop over an array is a fold, and a record holds what a routine updates.  *)
(***************************************************************************)
EXTENDS Integers, FiniteSets, SequencesExt

Upto(n) == [i \in 1..n |-> i - 1]       \* the order of `for (i = 0; i < n; i++)'
Everywhere(D, v) == [i \in D |-> v]

-----------------------------------------------------------------------------
\* Stable marriage: pm[i] is how far the man i is down his list, pf[w] the man
\* the woman w holds, n when she holds none.
stable_marriage(male, female, n) ==
    LET frank(w, i) == IF i = n THEN n ELSE CHOOSE j \in 0..n - 1 : female[w][j] = i
        propose(st, i) ==
            LET w == male[i][st.pm[i] + 1] IN
            IF st.pm[i] # -1 /\ st.pf[male[i][st.pm[i]]] = i THEN st
            ELSE [f |-> TRUE, pm |-> [st.pm EXCEPT ![i] = @ + 1],
                  pf |-> IF frank(w, i) < frank(w, st.pf[w]) THEN [st.pf EXCEPT ![w] = i]
                         ELSE st.pf]
        RECURSIVE rounds(_)
        rounds(st) == IF st.f THEN rounds(FoldLeft(propose, [st EXCEPT !.f = FALSE], Upto(n)))
                      ELSE [i \in 0..n - 1 |-> male[i][st.pm[i]]]
    IN  rounds([f |-> TRUE, pm |-> Everywhere(0..n - 1, -1), pf |-> Everywhere(0..n - 1, n)])

IsStable(wife, male, female, n) ==
    LET likes(list, a, b) == (CHOOSE j \in 0..n - 1 : list[j] = a)
                                < (CHOOSE j \in 0..n - 1 : list[j] = b)
    IN  /\ {wife[i] : i \in 0..n - 1} = 0..n - 1
        /\ \A i, j \in 0..n - 1 : ~ /\ likes(male[i], wife[j], wife[i])
                                    /\ likes(female[wife[j]], i, j)

-----------------------------------------------------------------------------
\* Maximum weighted bipartite matching.  INF stands for Cost's maximum.
INF == 1000000

\* The alternating path that ends with the edge v - u is flipped, back to s.
flip(b, s, v, u) ==
    LET RECURSIVE back(_, _, _)
        back(c, x, y) ==
            LET d == [c EXCEPT !.lmatch[x] = y] IN
            IF x = s THEN d
            ELSE back([d EXCEPT !.rmatch[c.lmatch[x]] = c.lpred[x]], c.lpred[x], c.lmatch[x])
    IN  [back([b EXCEPT !.rmatch[u] = v], v, u) EXCEPT !.found = TRUE]

\* The left vertex v is reached across the right vertex u from p.
reach(b, v, p) == [b EXCEPT !.lset[v] = TRUE, !.lpred[v] = p, !.qq = Append(@, v)]

\* One step of the scan of v's edges.
scan(weight, s, v, b, u) ==
    LET t == b.llabel[v] + b.rlabel[u] - weight[v][u]
        c == IF t < b.delta[u] THEN [b EXCEPT !.delta[u] = t, !.rpred[u] = v] ELSE b
    IN  IF b.found THEN b
        ELSE IF t # 0 THEN c
        ELSE IF b.rmatch[u] = -1 THEN flip(c, s, v, u)
        ELSE IF b.lset[b.rmatch[u]] THEN c
        ELSE reach(c, b.rmatch[u], v)

\* The labels move by the least slack, which makes new edges tight.
relabel(b, s, n, m) ==
    LET del == Min({b.delta[u] : u \in {u \in 0..m - 1 : b.delta[u] # 0}} \cup {INF})
        tight == SelectSeq(Upto(m), LAMBDA u : b.delta[u] = del)
        moved == [b EXCEPT
            !.llabel = [v \in 0..n - 1 |-> IF b.lset[v] THEN @[v] - del ELSE @[v]],
            !.rlabel = [u \in 0..m - 1 |-> IF b.delta[u] = 0 THEN @[u] + del ELSE @[u]],
            !.delta = [u \in 0..m - 1 |-> IF b.delta[u] = 0 THEN 0 ELSE @[u] - del]]
        take(c, u) == IF c.found THEN c
                      ELSE IF c.rmatch[u] = -1 THEN flip(c, s, c.rpred[u], u)
                      ELSE reach(c, c.rmatch[u], c.rpred[u])
    IN  FoldLeft(take, moved, tight)

RECURSIVE BFS(_, _, _, _, _)
BFS(weight, s, b, n, m) ==
    IF b.found THEN b
    ELSE IF b.qq # <<>>
    THEN BFS(weight, s, FoldLeft(LAMBDA c, u : scan(weight, s, Head(b.qq), c, u),
                                 [b EXCEPT !.qq = Tail(@)], Upto(m)), n, m)
    ELSE BFS(weight, s, relabel(b, s, n, m), n, m)

\* match(): columns of zeros are added until there are at least n.
match(cost, n, m0) ==
    LET m == IF n > m0 THEN n ELSE m0
        weight == [v \in 0..n - 1 |-> [u \in 0..m - 1 |-> IF u < m0 THEN cost[v][u] ELSE 0]]
        L == 0..n - 1
        R == 0..m - 1
        start == [llabel |-> [v \in L |-> Max({weight[v][u] : u \in R})],
                  rlabel |-> Everywhere(R, 0), lmatch |-> Everywhere(L, -1),
                  rmatch |-> Everywhere(R, -1), lpred |-> Everywhere(L, -1),
                  rpred |-> Everywhere(R, -1), found |-> FALSE]
        one(b, s) == BFS(weight, s,
            [llabel |-> b.llabel, rlabel |-> b.rlabel, lmatch |-> b.lmatch, rmatch |-> b.rmatch,
             lpred |-> b.lpred, rpred |-> b.rpred, found |-> FALSE,
             lset |-> [v \in L |-> v = s], delta |-> Everywhere(R, INF), qq |-> <<s>>], n, m)
        end == FoldLeft(one, start, Upto(n))
    IN  [total |-> MapThenSumSet(LAMBDA v : weight[v][end.lmatch[v]], L), lmatch |-> end.lmatch]

BestAssignment(cost, n, m0) ==
    LET m == IF n > m0 THEN n ELSE m0
        w(v, u) == IF u < m0 THEN cost[v][u] ELSE 0
        RECURSIVE best(_, _)
        best(v, free) == IF v = n THEN 0
                         ELSE Max({w(v, u) + best(v + 1, free \ {u}) : u \in free})
    IN  best(0, 0..m - 1)

-----------------------------------------------------------------------------
\* Maximum cardinality bipartite matching, edge[v] the list of v's neighbours.
\* rset is not cleared after a failure: what failed once fails again.
RECURSIVE augment(_, _, _)
augment(b, v, edge) ==
    LET try(c, u) ==
            LET d == [c EXCEPT !.rset[u] = b.ff]
                deep == augment(d, c.rmatch[u], edge)
                e == IF c.rmatch[u] = -1 THEN [d EXCEPT !.found = TRUE] ELSE deep
            IN  IF c.found \/ c.rset[u] = b.ff THEN c
                ELSE IF e.found THEN [e EXCEPT !.rmatch[u] = v] ELSE e
    IN  FoldLeft(try, [b EXCEPT !.found = FALSE], edge[v])

maxMatch(edge, n, m) ==
    LET one(b, v) == LET c == augment(b, v, edge) IN
            IF c.found THEN [c EXCEPT !.res = @ + 1, !.ff = @ + 1] ELSE c
    IN  FoldLeft(one, [rset |-> Everywhere(0..m - 1, 0), rmatch |-> Everywhere(0..m - 1, -1),
                       ff |-> 1, res |-> 0, found |-> FALSE], Upto(n)).res

\* The size of a maximum matching of a set of edges, each a set of two ends.
RECURSIVE MaximumMatching(_)
MaximumMatching(E) ==
    IF E = {} THEN 0
    ELSE LET e == CHOOSE e \in E : TRUE
             with == 1 + MaximumMatching({f \in E : f \cap e = {}})
             without == MaximumMatching(E \ {e})
         IN  IF with > without THEN with ELSE without
=============================================================================
