---------------------------- MODULE GraphProblems ----------------------------
(***************************************************************************)
(* Calls of the routines of GraphSearch: an initial state is a call with its  *)
(* arguments, and the step that answers it is the routine.                    *)
(***************************************************************************)
EXTENDS GraphSearch

CONSTANT Vertices     \* the number of vertices of the graphs taken all of

VARIABLES problem,    \* <<routine, arguments...>>
          answer      \* <<>>, then <<what the routine returned>>

Weights == {-1, 2}    \* findMMWC starts at -1: no mean below it is found
Pairs == Vertices^2
PairAt == [i \in 1..Pairs |-> <<(i - 1) \div Vertices, (i - 1) % Vertices>>]
Listed(E) == SelectSeq(PairAt, LAMBDA e : e \in E)
Numbered(S) == SelectSeq(Loop(Max(S \cup {0}) + 1), LAMBDA v : v \in S)
Neighbours(n, E) == [v \in To(n) |-> Numbered({u \in To(n) : {u, v} \in E})]
Sons(parent) == [v \in To(Len(parent) + 1) |->
                    Numbered({u \in 1..Len(parent) : parent[u] = v})]
\* LongestTrailSearch.cpp gives each edge to both of its ends, under one number.
Trails(E) == finalize(FoldLeft(
    LAMBDA el, i : addEdge(addEdge(el, E[i][1], E[i][2], <<i, i>>), E[i][2], E[i][1], <<i, i>>),
    [edges |-> <<>>, numVerts |-> 0, start |-> <<>>], [i \in DOMAIN E |-> i]))
Weighted(w) == {<<e[1], e[2], w[e]>> : e \in {e \in DOMAIN w : w[e] # inf}}

\* Cycles that share vertices: any of these edges.
Loops == <<<<0, 1>>, <<1, 2>>, <<2, 0>>, <<2, 3>>, <<3, 1>>, <<3, 2>>, <<0, 3>>, <<3, 4>>, <<4, 2>>>>

\* Stale contents of the global buffer, for twoSAT.
Garbage == [i \in To(6) |-> IF i % 2 = 0 THEN 0 ELSE i]
Init ==
    /\ answer = <<>>
    /\ \/ \E E \in SUBSET (To(Vertices) \X To(Vertices)) :
              problem \in {<<"components", Vertices, Listed(E)>>, <<"trail", Listed(E)>>}
       \/ \E E \in SUBSET DOMAIN Loops :
              problem = <<"components", 5, SelectSeq(Loops, LAMBDA e : \E i \in E : e = Loops[i])>>
       \/ \E c, d \in To(6) \X To(6), b \in To(6) : d[1] <= d[2] /\ problem = <<"2sat", <<<<0, b>>, c, d>>, 3>>
       \/ \E E \in SUBSET {e \in SUBSET To(5) : Cardinality(e) = 2} : problem = <<"chordal", 5, E>>
       \/ \E parent \in [1..4 -> To(4)], q \in To(5) \X To(5) :
              (\A i \in 1..4 : parent[i] < i) /\ problem = <<"lca", parent, <<q>>>>
       \/ \E w \in [(To(Vertices) \X To(Vertices)) \ {<<0, 0>>, <<2, 2>>} -> Weights \cup {inf}] :
              problem = <<"mean", Weighted(w), Vertices>>

Call(routine) == problem[1] = routine /\ answer = <<>> /\ UNCHANGED problem
Components == /\ Call("components")
              /\ answer' = <<stronglyConnectedComponents(problem[2], problem[3],
                                                         [i \in To(problem[2]) |-> 0]).scc>>
TwoSAT == Call("2sat") /\ answer' = <<twoSAT(problem[2], problem[3], Garbage)>>
Chordal == /\ Call("chordal")
           /\ LET near == Neighbours(problem[2], problem[3]) IN
              answer' = <<chordalGraph(lexBFS(near, <<Loop(problem[2])>>, <<>>), near)>>
Ancestors == Call("lca") /\ answer' = <<offline_LCA(Sons(problem[2]), problem[3], 0)>>
MeanCycle == Call("mean") /\ answer' = <<findMMWC(problem[2], problem[3])>>
LongestTrails == /\ Call("trail")
                 /\ LET el == Trails(problem[2]) IN
                    answer' = <<[v \in To(el.numVerts) |-> dfs(el, v, {})]>>
Next == Components \/ TwoSAT \/ Chordal \/ Ancestors \/ MeanCycle \/ LongestTrails

-----------------------------------------------------------------------------
Answered(routine) == problem[1] = routine /\ answer # <<>>
Right ==
    /\ Answered("components") => IsCondensation(problem[2], problem[3], answer[1])
    /\ Answered("2sat") => /\ answer[1].ok = Satisfiable(problem[2], problem[3])
                           /\ answer[1].ok => Satisfies(answer[1].sat, problem[2])
    /\ Answered("chordal") => answer[1] = IsChordal(To(problem[2]), problem[3])
    /\ Answered("lca") => \A i \in DOMAIN problem[3] :
           answer[1][i] = LowestCommonAncestor(Sons(problem[2]), 0, problem[3][i][1], problem[3][i][2])
    /\ Answered("mean") => MinimumMean(problem[2], problem[3], answer[1])
    /\ Answered("trail") => \A v \in DOMAIN answer[1] : answer[1][v] = HeaviestTrail(problem[2], v)
Spec == Init /\ [][Next]_<<problem, answer>>
=============================================================================
