-------------------------- MODULE MatchingProblems --------------------------
(***************************************************************************)
(* Calls of the routines of Matchings, GeneralMatching and Flows: an initial  *)
(* state is a call with its arguments, the step that answers it the routine.  *)
(***************************************************************************)
EXTENDS Integers, FiniteSets, SequencesExt, FiniteSetsExt

CONSTANT MaxCapacity  \* of the arcs of the larger network

VARIABLES problem,    \* <<routine, arguments...>>
          answer      \* <<>>, then <<what the routine returned>>

M == INSTANCE Matchings
G == INSTANCE GeneralMatching
F == INSTANCE Flows

Rankings(n) == {f \in [0..n - 1 -> 0..n - 1] : \A i, j \in 0..n - 1 : i # j => f[i] # f[j]}
Numbered(S) == SelectSeq(M!Upto(10), LAMBDA v : v \in S)
BothWays(E) == {e \in (0..6) \X (0..6) : e[1] # e[2] /\ {e[1], e[2]} \in E}
Pairs(n) == {e \in SUBSET (0..n - 1) : Cardinality(e) = 2}
\* Odd cycles with stems, and a blossom inside a blossom.
Blossoms == {{0, 1}, {1, 2}, {2, 3}, {3, 4}, {4, 0}, {4, 5}, {5, 6}, {6, 3}, {1, 3}}

Diamond == <<<<0, 1>>, <<0, 2>>, <<1, 2>>, <<2, 1>>, <<1, 3>>, <<2, 3>>>>
Crossing == <<<<0, 1>>, <<0, 2>>, <<1, 3>>, <<2, 3>>, <<3, 4>>, <<1, 4>>, <<4, 2>>>>
\* From 0 to 4 by way of u, or, when u is 4, by two arcs side by side.
Thin(u) == <<<<0, u>>, <<u % 4, 4>>>>
Arcs(ends, capacity, cost) ==
    [i \in DOMAIN ends |-> <<ends[i][1], ends[i][2], capacity[i], cost[i]>>]

Init ==
    /\ answer = <<>>
    /\ \/ \E a, b \in [0..1 -> Rankings(2)] : problem = <<"marriage", a, b, 2>>
       \/ \E a \in [0..2 -> Rankings(3)], f, g \in Rankings(3) :
              problem = <<"marriage", a, [w \in 0..2 |-> IF w = 1 THEN g ELSE f], 3>>
       \/ \E n, m \in 1..3 : \E cost \in [0..n - 1 -> [0..m - 1 -> 0..1]] :
              problem = <<"assignment", cost, n, m>>
       \/ \E cost \in [0..1 -> [0..2 -> 0..2]] : problem = <<"assignment", cost, 2, 3>>
       \/ \E n, m \in 1..3 : \E near \in [0..n - 1 -> SUBSET (0..m - 1)] :
              problem = <<"bipartite", [v \in 0..n - 1 |-> Numbered(near[v])], n, m>>
       \/ \E E \in SUBSET Pairs(5), order \in {M!Upto(5), Reverse(M!Upto(5))} :
              problem = <<"general", 5, E, order>>
       \/ \E E \in SUBSET Blossoms : problem = <<"general", 7, E, M!Upto(7)>>
       \/ \E c \in [DOMAIN Diamond -> 0..MaxCapacity] :
              problem = <<"flow", 4, Arcs(Diamond, c, [i \in 1..6 |-> 0])>>
       \/ \E c \in [DOMAIN Crossing -> 0..1] :
              problem = <<"flow", 5, Arcs(Crossing, c, [i \in 1..7 |-> 0])>>
       \/ \E c \in [DOMAIN Diamond -> 0..1], w \in [DOMAIN Diamond -> {1, 3}], up \in {1, 2} :
              problem = <<"cheapest", 4, Arcs(Diamond, c, w), up, [v \in 0..3 |-> up * v]>>
       \* Fewer arcs than vertices: the last label keeps what it had.
       \/ \E u \in 1..4, c \in [1..2 -> 0..2], w \in [1..2 -> {1, 3}], old \in 0..5 :
              problem = <<"cheapest", 5, Arcs(Thin(u), c, w), 2,
                          [v \in 0..4 |-> old]>>

Call(routine) == problem[1] = routine /\ answer = <<>> /\ UNCHANGED problem
Net == F!Network(problem[2], problem[3])
Marriage == Call("marriage") /\ answer' = <<M!stable_marriage(problem[2], problem[3], problem[4])>>
Assignment == Call("assignment") /\ answer' = <<M!match(problem[2], problem[3], problem[4])>>
Bipartite == Call("bipartite") /\ answer' = <<M!maxMatch(problem[2], problem[3], problem[4])>>
General == /\ Call("general")
           /\ answer' = <<G!generalMaximumMatching(problem[2], BothWays(problem[3]), problem[4])>>
MaximumFlow == Call("flow") /\ answer' = <<F!maxflow(Net, 0, problem[2] - 1)>>
CheapestFlow == /\ Call("cheapest")
                /\ answer' = <<F!minCostFlow(Net, 0, problem[2] - 1, problem[4], problem[5])>>
Next == Marriage \/ Assignment \/ Bipartite \/ General \/ MaximumFlow \/ CheapestFlow

-----------------------------------------------------------------------------
Answered(routine) == problem[1] = routine /\ answer # <<>>
Edges == UNION {{{v, 10 + problem[2][v][i]} : i \in DOMAIN problem[2][v]} : v \in DOMAIN problem[2]}
Optimal ==
    /\ Answered("marriage") => M!IsStable(answer[1], problem[2], problem[3], problem[4])
    /\ Answered("assignment") =>
           answer[1].total = M!BestAssignment(problem[2], problem[3], problem[4])
    /\ Answered("bipartite") => answer[1] = M!MaximumMatching(Edges)
    /\ Answered("general") =>
           LET mate == answer[1].match IN
           /\ answer[1].ok /\ answer[1].re = M!MaximumMatching(problem[3])
           /\ \A v \in 0..problem[2] - 1 : mate[v] # -1 => /\ mate[mate[v]] = v
                                                           /\ {v, mate[v]} \in problem[3]
    /\ Answered("flow") => /\ F!IsFlow(Net, answer[1].flow, 0, problem[2] - 1, answer[1].re)
                           /\ answer[1].re = F!MinimumCut(Net, 0, problem[2] - 1)
    /\ Answered("cheapest") =>
           LET r == answer[1]
               arcs == {a \in DOMAIN r.flow : a % 2 = 0}
               used == {v \in 0..problem[2] - 1 : problem[5][v] # 0} IN
           /\ used \subseteq DOMAIN r.flow => r.ok
           /\ r.ok =>
               /\ F!IsFlow(Net, r.flow, 0, problem[2] - 1, r.sum)
               /\ r.sum = Min({problem[4], F!MinimumCut(Net, 0, problem[2] - 1)})
               /\ F!NoCheaper(Net, r.flow)
               /\ r.re = MapThenSumSet(LAMBDA a : Net.arcs[a].cost * r.flow[a], arcs)
Spec == Init /\ [][Next]_<<problem, answer>>
=============================================================================
