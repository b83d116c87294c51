------------------------------- MODULE Flows -------------------------------
(***************************************************************************)
(* graph-algorithms/MaxFlowDinic.cpp and minCostFlow.cpp.  Both keep an edge  *)
(* added i-th as the arc 2i and its reverse, of capacity 0, as the arc 2i+1.  *)
(* A network is [n, arcs], arcs a function of 0..2m-1 to records              *)
(* [aa, bb, cap, cost].                                                      *)
(***************************************************************************)
EXTENDS Integers, FiniteSets, SequencesExt, FiniteSetsExt

Heap == INSTANCE BinaryHeap WITH HeapItems <- {}, HeapCosts <- {},
                                 heap <- <<>>, hpos <- <<>>, mindis <- <<>>

\* add_edge, add_one_edge: edges is a sequence of <<tail, head, capacity, cost>>.
Network(n, edges) ==
    [n |-> n,
     arcs |-> [a \in 0..2 * Len(edges) - 1 |->
        LET e == edges[a \div 2 + 1] IN
        IF a % 2 = 0 THEN [aa |-> e[1], bb |-> e[2], cap |-> e[3], cost |-> e[4]]
        ELSE [aa |-> e[2], bb |-> e[1], cap |-> 0, cost |-> -e[4]]]]
Twin(a) == IF a % 2 = 0 THEN a + 1 ELSE a - 1

\* forwardStar, preprocess: the arcs that leave v, the last added first.
forwardStar(net, v) ==
    SetToSortSeq({a \in DOMAIN net.arcs : net.arcs[a].aa = v}, LAMBDA a, b : a > b)

-----------------------------------------------------------------------------
\* layerNetwork(): breadth first from t against the arcs that have room, a layer
\* at a time, until a layer holds s.  redge[u] is the stack of u's arcs to the
\* layer before; color is 1 in the layer being built and 2 in the older ones.
layerNetwork(net, flow, s, t) ==
    LET V == 0..net.n - 1
        arc(x, a) ==
            LET u == net.arcs[a].bb
                back == Twin(a)
                y == [x EXCEPT !.redge[u] = Append(@, back)]
            IN  IF x.color[u] = 2 \/ flow[back] = net.arcs[back].cap THEN x
                ELSE IF x.color[u] = 0 THEN [y EXCEPT !.color[u] = 1, !.next = Append(@, u)]
                ELSE y
        from(x, v) == FoldLeft(arc, x, forwardStar(net, v))
        RECURSIVE layers(_)
        layers(x) ==
            LET y == FoldLeft(from, [x EXCEPT !.next = <<>>], x.next) IN
            IF x.next = <<>> \/ x.color[s] # 0 THEN x
            ELSE layers([y EXCEPT !.color = [v \in V |-> IF v \in ToSet(y.next) THEN 2 ELSE @[v]]])
    IN  layers([color |-> [v \in V |-> IF v = t THEN 1 ELSE 0], next |-> <<t>>,
                redge |-> [v \in V |-> <<>>]])

\* The arcs of the path pre from s to v.
RECURSIVE PathTo(_, _, _, _)
PathTo(net, pre, s, v) ==
    IF v = s THEN {} ELSE {pre[v]} \cup PathTo(net, pre, s, net.arcs[pre[v]].aa)

\* Mutant: the reverse arcs get no room.
ShiftedOneWay(flow, path, f) ==
    [a \in DOMAIN flow |-> flow[a] + IF a \in path THEN f ELSE 0]

\* f more units along the arcs of path.
Shifted(flow, path, f) ==
    [a \in DOMAIN flow |-> flow[a] + (IF a \in path THEN f ELSE 0)
                                   - (IF Twin(a) \in path THEN f ELSE 0)]

\* blockFlow(): a walk from s that follows the top arc of each stack, drops the
\* arcs that are full and those that lead nowhere, and augments at t.
blockFlow(net, flow0, redge0, s, t) ==
    LET RECURSIVE walk(_, _, _, _, _)
        walk(flow, redge, pre, v, re) ==
            LET path == PathTo(net, pre, s, t)
                f == Min({net.arcs[a].cap - flow[a] : a \in path})
                more == Shifted(flow, path, f)
                full == {net.arcs[a].aa : a \in {a \in path : more[a] = net.arcs[a].cap}}
                top == Last(redge[v])
                w == net.arcs[pre[v]].aa
            IN  IF v = t
                THEN walk(more, [u \in DOMAIN redge |-> IF u \in full THEN Front(redge[u])
                                                        ELSE redge[u]], pre, s, re + f)
                ELSE IF redge[v] # <<>>
                THEN walk(flow, redge, [pre EXCEPT ![net.arcs[top].bb] = top],
                          net.arcs[top].bb, re)
                ELSE IF v = s THEN [flow |-> flow, re |-> re]
                ELSE walk(flow, [redge EXCEPT ![w] = Front(@)], pre, w, re)
    IN  walk(flow0, redge0, [v \in 0..net.n - 1 |-> -1], s, 0)

maxflow(net, s, t) ==
    LET RECURSIVE phases(_)
        phases(x) ==
            LET layer == layerNetwork(net, x.flow, s, t)
                b == blockFlow(net, x.flow, layer.redge, s, t)
            IN  IF layer.color[s] = 0 THEN x
                ELSE phases([flow |-> b.flow, re |-> x.re + b.re])
    IN  phases([flow |-> [a \in DOMAIN net.arcs |-> 0], re |-> 0])

-----------------------------------------------------------------------------
\* Dijkstra() over the reduced costs, in the heap of the solver, which compares
\* mindis; visited is "new", "seen" while in the heap, "done" after.  A vertex
\* that leaves the heap adds its distance to its label.
Dijkstra(net, flow, label0, s) ==
    LET V == 0..net.n - 1
        relax(d, a) ==
            LET v == net.arcs[a].aa
                u == net.arcs[a].bb
                reduced == net.arcs[a].cost + d.label[v] - d.label[u]
                t == d.mindis[v] + reduced
                lower == [d.mindis EXCEPT ![u] = t]
            IN  IF flow[a] = net.arcs[a].cap \/ d.visited[u] = "done" THEN d
                ELSE IF d.visited[u] = "new"
                THEN [d EXCEPT !.visited[u] = "seen", !.pre[u] = a, !.ok = @ /\ reduced >= 0,
                               !.mindis = lower, !.heap = Heap!pushHeap(@, u, lower)]
                ELSE IF t < d.mindis[u]
                THEN [d EXCEPT !.pre[u] = a, !.ok = @ /\ reduced >= 0,
                               !.mindis = lower, !.heap = Heap!adjustUp(@, u, lower)]
                ELSE [d EXCEPT !.ok = @ /\ reduced >= 0]
        RECURSIVE run(_)
        run(d) ==
            LET v == Heap!At(d.heap, 0)
                e == FoldLeft(relax, [d EXCEPT !.heap = Heap!popHeap(@, d.mindis)],
                              forwardStar(net, v))
            IN  IF d.heap.heap = <<>> THEN d
                ELSE run([e EXCEPT !.label[v] = @ + e.mindis[v], !.visited[v] = "done"])
        zero == [v \in V |-> 0]
        empty == [heap |-> <<>>, hpos |-> zero]
    IN  run([label |-> label0, visited |-> [v \in V |-> "new"], pre |-> [v \in V |-> -1],
             mindis |-> zero, heap |-> Heap!pushHeap(empty, s, zero), ok |-> TRUE])

\* minCostFlow(): at most upper units along shortest paths.  preprocess clears as
\* many labels as there are arcs; `left' is what an earlier call left in the others.
minCostFlow(net, s, t, upper, left) ==
    LET RECURSIVE augment(_)
        augment(x) ==
            LET d == Dijkstra(net, x.flow, x.label, s)
                path == PathTo(net, d.pre, s, t)
                add == Min({upper - x.sum} \cup {net.arcs[a].cap - x.flow[a] : a \in path})
            IN  IF x.sum >= upper \/ ~x.ok THEN x
                ELSE IF d.visited[t] = "new" THEN [x EXCEPT !.ok = d.ok]
                ELSE augment([flow |-> Shifted(x.flow, path, add), label |-> d.label,
                    sum |-> x.sum + add,
                    re |-> x.re + add * MapThenSumSet(LAMBDA a : net.arcs[a].cost, path),
                    ok |-> /\ x.ok /\ d.ok /\ add > 0
                           /\ \A a \in path : net.arcs[a].cost + d.label[net.arcs[a].aa]
                                                  = d.label[net.arcs[a].bb]])
    IN  augment([flow |-> [a \in DOMAIN net.arcs |-> 0],
                 label |-> [v \in 0..net.n - 1 |-> IF v \in DOMAIN net.arcs THEN 0 ELSE left[v]],
                 sum |-> 0, re |-> 0, ok |-> TRUE])

-----------------------------------------------------------------------------
\* What they should answer.

\* The least capacity of a cut between s and t.
MinimumCut(net, s, t) ==
    Min({MapThenSumSet(LAMBDA a : net.arcs[a].cap,
                       {a \in DOMAIN net.arcs : net.arcs[a].aa \in S /\ net.arcs[a].bb \notin S})
         : S \in {S \in SUBSET (0..net.n - 1) : s \in S /\ t \notin S}})

\* flow obeys the capacities and is conserved outside s and t, re units leave s.
IsFlow(net, flow, s, t, re) ==
    LET net_out(v) == MapThenSumSet(LAMBDA a : flow[a],
                          {a \in DOMAIN flow : a % 2 = 0 /\ net.arcs[a].aa = v})
                    - MapThenSumSet(LAMBDA a : flow[a],
                          {a \in DOMAIN flow : a % 2 = 0 /\ net.arcs[a].bb = v})
    IN  /\ \A a \in DOMAIN flow : flow[a] <= net.arcs[a].cap /\ flow[a] = -flow[Twin(a)]
        /\ \A v \in 0..net.n - 1 \ {t} : net_out(v) = IF v = s THEN re ELSE 0

\* A flow of given value has least cost when no cycle with room has negative
\* cost: no sequence of distinct vertices closes one.
NoCheaper(net, flow) ==
    LET room(u, v) == {a \in DOMAIN flow : /\ net.arcs[a].aa = u /\ net.arcs[a].bb = v
                                           /\ flow[a] < net.arcs[a].cap}
        step(u, v) == Min({net.arcs[a].cost : a \in room(u, v)})
        RECURSIVE cheap(_, _, _, _)
        cheap(first, v, rest, c) ==
            \/ room(v, first) # {} /\ c + step(v, first) < 0
            \/ \E u \in rest : room(v, u) # {} /\ cheap(first, u, rest \ {u}, c + step(v, u))
    IN  \A v \in 0..net.n - 1 : ~cheap(v, v, 0..net.n - 1 \ {v}, 0)
=============================================================================
