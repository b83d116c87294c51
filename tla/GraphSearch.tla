----------------------------- MODULE GraphSearch -----------------------------
(***************************************************************************)
(* graph-algorithms/Strongly_connected_component.cpp, chordalGraph.cpp,       *)
(* tree-algorithms.cpp, graph-algorithms.cpp, Graph.h and its user            *)
(* LongestTrailSearch.cpp.  Vertices are 0..n-1 and an edge is a pair.         *)
(***************************************************************************)
EXTENDS Integers, FiniteSets, SequencesExt, FiniteSetsExt, Functions

To(n) == 0..n - 1
Loop(n) == [i \in 1..n |-> i - 1]       \* the order of `for (i = 0; i < n; i++)'

-----------------------------------------------------------------------------
\* forwardStar: the heads of v's edges, the last one given first.
forwardStar(edges, v) ==
    Reverse([i \in DOMAIN SelectSeq(edges, LAMBDA e : e[1] = v) |->
                SelectSeq(edges, LAMBDA e : e[1] = v)[i][2]])

\* The search state: what is left of each adjacency list (begin), flag (-1 not
\* met, -2 in a finished component, else the entry number ff), low, the stack, and
\* buffer, whose first btop entries are the vertices in no finished component.
\* Close pops v, the top of the stack.
Emit(x, v) ==
    LET p == CHOOSE p \in To(x.btop) : x.buffer[p] = v /\ \A q \in p + 1..x.btop - 1 : x.buffer[q] # v
        members == Reverse([i \in 1..x.btop - p |-> x.buffer[p + i - 1]])
    IN  [x EXCEPT !.btop = p, !.scc = Append(@, members),
                  !.flag = [u \in DOMAIN @ |-> IF u \in ToSet(members) THEN -2 ELSE @[u]]]
\* Mutant: the low of a closed vertex does not reach its father.
CloseAlone(x, v) ==
    LET y == [x EXCEPT !.stack = Front(@)]
    IN  IF y.low[v] = y.flag[v] THEN Emit(y, v) ELSE y
Close(x, v) ==
    LET rest == Front(x.stack)
        y == [x EXCEPT !.stack = rest,
                       !.low = IF rest = <<>> THEN @
                               ELSE [@ EXCEPT ![Last(rest)] = Min({@, x.low[v]})]]
    IN  IF y.low[v] = y.flag[v] THEN Emit(y, v) ELSE y
Open(x, u) == [x EXCEPT !.stack = Append(@, u), !.buffer[x.btop] = u, !.btop = @ + 1,
                        !.low[u] = x.ff, !.flag[u] = x.ff, !.ff = @ + 1]

RECURSIVE Explore(_)
Explore(x) ==
    IF x.stack = <<>> THEN x
    ELSE LET v == Last(x.stack)
             u == Head(x.begin[v])
             y == [x EXCEPT !.begin[v] = Tail(@)]
         IN  IF x.begin[v] = <<>> THEN Explore(Close(x, v))
             ELSE IF x.flag[u] = -1 THEN Explore(Open(y, u))
             ELSE IF x.flag[u] = -2 THEN Explore(y)
             ELSE Explore([y EXCEPT !.low[v] = Min({@, x.low[u]})])

\* `buffer' is what the global array holds before the call.
stronglyConnectedComponents(n, edges, buffer) ==
    FoldLeft(LAMBDA x, i : IF x.flag[i] = -1 THEN Explore(Open([x EXCEPT !.btop = 0], i)) ELSE x,
             [begin |-> [v \in To(n) |-> forwardStar(edges, v)], flag |-> [v \in To(n) |-> -1],
              low |-> [v \in To(n) |-> 0], buffer |-> buffer, btop |-> 0, stack |-> <<>>,
              ff |-> 0, scc |-> <<>>],
             Loop(n))

\* The literal 2i is the variable i, 2i + 1 its negation.  Only the first n entries
\* of buffer are cleared, and a component past them may find in place of its flag
\* f a vertex that this search, or an earlier one, left there.
Negation(a) == IF a % 2 = 0 THEN a + 1 ELSE a - 1
Xor(f, bit) == IF bit = 0 THEN f ELSE IF f % 2 = 0 THEN f + 1 ELSE f - 1
twoSAT(clauses, n, buffer) ==
    LET edges == FlattenSeq([i \in DOMAIN clauses |->
                    <<<<Negation(clauses[i][1]), clauses[i][2]>>,
                      <<Negation(clauses[i][2]), clauses[i][1]>>>>])
        found == stronglyConnectedComponents(2 * n, edges, buffer)
        scc == found.scc
        of == [a \in To(2 * n) |-> CHOOSE i \in DOMAIN scc : a \in ToSet(scc[i])]
        assign(x, i) ==
            LET f == x.buffer[i - 1] IN
            [sat |-> [k \in To(n) |->
                        LET mine == SelectSeq(scc[i], LAMBDA v : v \div 2 = k) IN
                        IF mine = <<>> THEN x.sat[k] ELSE Xor(f, Last(mine) % 2)],
             buffer |-> [j \in DOMAIN x.buffer |->
                            IF \E v \in ToSet(scc[i]) : of[Negation(v)] = j + 1 THEN 1
                            ELSE x.buffer[j]]]
    IN  IF \E k \in To(n) : of[2 * k] = of[2 * k + 1] THEN [ok |-> FALSE, sat |-> <<>>]
        ELSE [ok |-> TRUE,
              sat |-> FoldLeft(assign, [sat |-> [k \in To(n) |-> 0],
                                        buffer |-> [j \in To(2 * n) |->
                                                      IF j < n THEN 0 ELSE found.buffer[j]]],
                               [i \in DOMAIN scc |-> i]).sat]

-----------------------------------------------------------------------------
\* lexBFS: qq is the list of buckets, each the sequence of its vertices.  The
\* neighbours of v move, in the order of its edge list, to a bucket opened before
\* their own (the mark: one such bucket for each), and empty buckets go.
RECURSIVE lexBFS(_, _, _)
lexBFS(edge, qq, res) ==
    LET v == Head(Head(qq))
        cut == [qq EXCEPT ![1] = Tail(@)]
        near == edge[v]
        split(b) == <<SelectSeq(near, LAMBDA u : u \in ToSet(b)),
                      SelectSeq(b, LAMBDA u : u \notin ToSet(near))>>
        next == FlattenSeq([i \in DOMAIN cut |-> split(cut[i])])
    IN  IF qq = <<>> THEN res
        ELSE lexBFS(edge, SelectSeq(next, LAMBDA b : b # <<>>), Append(res, v))

\* Mutant: the list is left as it is.
unsorted(vv) == vv

\* `vv[--cnt[tmp[i]]] = tmp[i]': equal values are equal, so the order is all.
countingSort(vv) == SortSeq(vv, LAMBDA a, b : a < b)

\* Is the order a perfect elimination: u, the last neighbour before v, must have
\* all the other neighbours before v.  The sorted lists are merged.
chordalGraph(perfect, edge) ==
    LET n == Len(perfect)
        order == [v \in To(n) |-> CHOOSE i \in To(n) : perfect[i + 1] = v]
        before(v) == SelectSeq(edge[v], LAMBDA u : order[u] < order[v])
        last(v) == CHOOSE u \in ToSet(before(v)) : \A w \in ToSet(before(v)) : order[w] <= order[u]
        want(u) == countingSort(FlattenSeq([i \in 1..n |->
                      LET v == perfect[n + 1 - i] IN
                      IF before(v) # <<>> /\ last(v) = u THEN SelectSeq(before(v), LAMBDA w : w # u)
                      ELSE <<>>]))
        RECURSIVE covers(_, _)
        covers(have, w) == \/ w = <<>>
                           \/ /\ have # <<>>
                              /\ IF Head(have) = Head(w) THEN covers(have, Tail(w))
                                 ELSE covers(Tail(have), w)
    IN  \A u \in To(n) : covers(countingSort(edge[u]), want(u))

-----------------------------------------------------------------------------
\* offline_LCA: depth first, joining a finished subtree to its parent; a query
\* is answered at the second of its ends, from the root of the first.
get_root(root, a) == LET RECURSIVE up(_)
                         up(v) == IF root[v] = -1 THEN v ELSE up(root[v])
                     IN  up(a)
Compressed(root, a) ==
    LET RECURSIVE path(_)
        path(v) == IF root[v] = -1 THEN {} ELSE {v} \cup path(root[v])
    IN  [v \in DOMAIN root |-> IF v \in path(a) THEN get_root(root, a) ELSE root[v]]
RECURSIVE LCA_DFS(_, _, _, _)
LCA_DFS(x, v, son, want) ==
    LET down(y, u) == LET z == LCA_DFS(y, u, son, want) IN [z EXCEPT !.root[u] = v]
        reply(y, i) ==
            LET u == IF want[i][1] = v THEN want[i][2] ELSE want[i][1] IN
            IF v \notin ToSet(want[i]) \/ (y.color[u] # 2 /\ u # v) THEN y
            ELSE [y EXCEPT !.ans[i] = get_root(y.root, u), !.root = Compressed(@, u)]
        met == FoldLeft(down, [x EXCEPT !.color[v] = 1], son[v])
    IN  [FoldLeft(reply, met, [i \in DOMAIN want |-> i]) EXCEPT !.color[v] = 2]
offline_LCA(son, want, top) ==
    LCA_DFS([ans |-> [i \in DOMAIN want |-> -1], root |-> [v \in DOMAIN son |-> -1],
             color |-> [v \in DOMAIN son |-> 0]], top, son, want).ans

-----------------------------------------------------------------------------
\* Minimum mean cycle, after Karp.  dis[k][v] is the length of a shortest walk of
\* k edges to v; Len is a signed integer and inf stands for its maximum.
inf == 1000000
findMMWC(edge, n) ==
    LET relax(d) == [u \in To(n) |->
            Min({inf} \cup {d[e[1]] + e[3] : e \in {e \in edge : e[2] = u /\ d[e[1]] <= inf \div 2}})]
        dis[k \in 0..n] == IF k = 0 THEN [v \in To(n) |-> 0] ELSE relax(dis[k - 1])
        best(v) == FoldLeft(LAMBDA m, k :
                IF dis[k][v] < inf \div 2 /\ m[1] * (n - k) < (dis[n][v] - dis[k][v]) * m[2]
                THEN <<dis[n][v] - dis[k][v], n - k>> ELSE m, <<-1, 1>>, Loop(n))
        keep(b, v) == IF dis[n][v] < inf \div 2 /\ (~b.found \/ b.re[1] * best(v)[2] > best(v)[1] * b.re[2])
                      THEN [found |-> TRUE, re |-> best(v)] ELSE b
    IN  FoldLeft(keep, [found |-> FALSE, re |-> <<inf \div (n + 1), 1>>], Loop(n)).re

-----------------------------------------------------------------------------
\* DirectEdgeList: addEdge keeps numVerts_, finalize sorts the edges, appends a
\* sentinel whose ends are the greatest Vint and points each vertex to its first
\* edge.  A state of the list is [edges, numVerts, start]; an edge <<a, b, info>>.
MaxVint == 1000000
addEdge(el, a, b, info) == [el EXCEPT !.edges = Append(@, <<a, b, info>>),
                                      !.numVerts = Max({@, a + 1, b + 1})]
finalize(el) ==
    LET sorted == Append(SortSeq(el.edges, LAMBDA x, y : x[1] < y[1] \/ (x[1] = y[1] /\ x[2] < y[2])),
                         <<MaxVint, MaxVint, 0>>)
        RECURSIVE seek(_, _)
        seek(idx, v) == IF sorted[idx][1] < v THEN seek(idx + 1, v) ELSE idx
    IN  [el EXCEPT !.edges = sorted, !.start = [v \in To(el.numVerts) |-> seek(1, v)]]
\* What an Iterator from v yields until valid() fails.
edgeIterator(el, v) ==
    LET RECURSIVE from(_)
        from(idx) == IF el.edges[idx][1] # v THEN <<>> ELSE <<el.edges[idx]>> \o from(idx + 1)
    IN  from(el.start[v])
\* The heaviest trail from v; info is <<weight, id>>.
RECURSIVE dfs(_, _, _)
dfs(el, v, usedEdges) ==
    Max({0} \cup {e[3][1] + dfs(el, e[2], usedEdges \cup {e[3][2]}) :
                  e \in {e \in ToSet(edgeIterator(el, v)) : e[3][2] \notin usedEdges}})
-----------------------------------------------------------------------------
\* What the answers are compared with; E is a set of pairs.
RECURSIVE Closure(_, _)
Closure(E, S) == LET T == S \cup {e[2] : e \in {e \in E : e[1] \in S}} IN
                 IF T = S THEN S ELSE Closure(E, T)
\* The components come sinks first: none reaches a later one.  The source calls them
\* topologically sorted (Strongly_connected_component.cpp:26) and does not say which way.
IsCondensation(n, edges, scc) ==
    LET reach == [v \in To(n) |-> Closure(ToSet(edges), {v})] IN
    /\ \A v \in To(n) : Cardinality({<<i, j>> \in (1..Len(scc)) \X (1..n) :
                                       j <= Len(scc[i]) /\ scc[i][j] = v}) = 1
    /\ \A i, j \in DOMAIN scc : \A u \in ToSet(scc[i]), v \in ToSet(scc[j]) :
          /\ (i = j) <=> (u \in reach[v] /\ v \in reach[u])
          /\ i < j => v \notin reach[u]
Satisfies(f, clauses) == \A c \in ToSet(clauses) : \E a \in ToSet(c) : f[a \div 2] = a % 2
Satisfiable(clauses, n) == \E f \in [To(n) -> {0, 1}] : Satisfies(f, clauses)
\* Every cycle of four or more vertices has a chord.
IsChordal(V, E) ==
    \A S \in SUBSET V : Cardinality(S) >= 4 =>
        ~ /\ \A v \in S : Cardinality({u \in S : {u, v} \in E}) = 2
          /\ \A v \in S : Closure({e \in S \X S : {e[1], e[2]} \in E}, {v}) = S
LowestCommonAncestor(son, top, a, b) ==
    LET E == {<<v, u>> \in (DOMAIN son) \X (DOMAIN son) : u \in ToSet(son[v])}
        common == {v \in DOMAIN son : {a, b} \subseteq Closure(E, {v})}
    IN  CHOOSE v \in common : common \cap Closure(E, {v}) = {v}
\* The least w/k over the closed walks of k <= n edges and weight w.
MinimumMean(edge, n, re) ==
    LET walks[k \in 0..n] == IF k = 0 THEN {<<v, v, 0>> : v \in To(n)}
            ELSE {<<w[1], e[2], w[3] + e[3]>> : <<w, e>> \in {x \in walks[k - 1] \X edge : x[1][2] = x[2][1]}}
        closed == UNION {{<<w[3], k>> : w \in {w \in walks[k] : w[1] = w[2]}} : k \in 1..n}
    IN  IF closed = {} THEN re = <<inf \div (n + 1), 1>>
        ELSE /\ \A c \in closed : re[1] * c[2] <= c[1] * re[2]
             /\ \E c \in closed : re[1] * c[2] = c[1] * re[2]
\* The weight of a heaviest trail from v in the list E of edges, the i-th of the
\* weight i: all the trails are grown, one edge at a time.
HeaviestTrail(E, v) ==
    LET over(x, i) == <<IF E[i][1] = x[1] THEN E[i][2] ELSE E[i][1], x[2] \cup {i}>>
        grown[k \in 0..Len(E)] == IF k = 0 THEN {<<v, {}>>}
            ELSE UNION {{over(x, i) : i \in {i \in DOMAIN E \ x[2] : x[1] \in ToSet(E[i])}} : x \in grown[k - 1]}
    IN  Max({MapThenSumSet(LAMBDA i : i, x[2]) : x \in UNION {grown[k] : k \in 0..Len(E)}})
=============================================================================
