----------------------------- MODULE Collection -----------------------------
(***************************************************************************)
(* The sequential part of the collection in one specification: a behaviour is *)
(* the life of one container, of two lists, of an indexed heap or of a segment *)
(* tree, or one call of an algorithm and its answer.                          *)
(***************************************************************************)
EXTENDS Containers, LinkedList, BinaryHeap, SegmentTree

CONSTANTS Vertices, MaxCapacity, MaxText, Reach, MaxFrequency

VARIABLES problem, answer       \* of the algorithms; <<>> in a life of a container

Graphs == INSTANCE GraphProblems
Matchings == INSTANCE MatchingProblems
Texts == INSTANCE TextProblems
Numbers == INSTANCE NumberProblems
Codes == INSTANCE CodeProblems

Called == Graphs!Init \/ Matchings!Init \/ Texts!Init \/ Numbers!Init \/ Codes!Init
Replied == Graphs!Next \/ Matchings!Next \/ Texts!Next \/ Numbers!Next \/ Codes!Next

NoContainer == s = <<>> /\ content = [i \in Ids |-> Absent]
NoList == value = [n \in Nodes |-> Min(Values)] /\ Init
NoHeap == mindis = [v \in HeapItems |-> Min(HeapCosts)] /\ HeapInit
NoTree == TreeInit
NoProblem == problem = <<>> /\ answer = <<>>

Start == \/ Created /\ NoList /\ NoHeap /\ NoTree /\ NoProblem
         \/ structure = "linked_list" /\ Init /\ NoContainer /\ NoHeap /\ NoTree /\ NoProblem
         \/ structure = "binaryHeap" /\ HeapInit /\ NoContainer /\ NoList /\ NoTree /\ NoProblem
         \/ structure = "segment_tree" /\ TreeInit /\ NoContainer /\ NoList /\ NoHeap /\ NoProblem
         \/ structure = "none" /\ Called /\ NoContainer /\ NoList /\ NoHeap /\ NoTree
Step == \/ /\ Operated
           /\ UNCHANGED <<vars, heapVars, treeVars, problem, answer>>
        \/ /\ structure = "linked_list" /\ Next
           /\ UNCHANGED <<structure, s, content, heapVars, treeVars, problem, answer>>
        \/ /\ structure = "binaryHeap" /\ HeapNext
           /\ UNCHANGED <<structure, s, content, vars, treeVars, problem, answer>>
        \/ /\ structure = "segment_tree" /\ TreeNext
           /\ UNCHANGED <<structure, s, content, vars, heapVars, problem, answer>>
        \/ /\ structure = "none" /\ Replied
           /\ UNCHANGED <<structure, s, content, vars, heapVars, treeVars>>
All == Start /\ [][Step]_<<structure, s, content, vars, heapVars, treeVars, problem, answer>>

-----------------------------------------------------------------------------
\* Strongly_connected_component.cpp, chordalGraph.cpp, tree-algorithms.cpp,
\* graph-algorithms.cpp, LongestTrailSearch.cpp: the components are the classes of
\* mutual reachability, in topological order of the arcs reversed: sinks first; twoSAT finds an assignment exactly when there is one, and one that
\* satisfies, whatever the global buffer held; a graph is called chordal exactly when
\* no long cycle lacks a chord; the common ancestor is the lowest one; the mean of no
\* cycle is less than the one found; no trail is heavier.
\* stableMarriage.cpp, Bipartite_matching.cpp, General_matching.cpp,
\* MaxFlowDinic.cpp, minCostFlow.cpp: no pair would rather have each other, a
\* matching is one and of the greatest weight or size, a flow is one and as large as
\* the least cut, and no cycle of spare capacity makes the cheapest flow cheaper.  Labels
\* that minCostFlow left from an earlier call may fail an assertion when there are fewer
\* arcs than vertices, but never make the answer wrong; no other assertion fails.
GraphsAnswered == answer # <<>> => Graphs!Right /\ Matchings!Optimal

\* string-algorithms/: every occurrence is found and nothing else, by KMP, by both
\* automata, by the double array and by the two-dimensional matcher; both suffix
\* arrays are the sorted suffixes, the common prefix of any two is the one the range
\* minimum gives, and the suffix tree spells the suffixes.
TextsAnswered == answer # <<>> => Texts!Right

\* Number.cpp, fraction.cpp, prime_generator.cpp, calculator.cpp: each answer is
\* what the definition of the function it computes gives: quotients and remainders of
\* either sign, congruences and their systems, powers and determinants modulo a
\* prime, primes by five methods, ranks of permutations and choices, expressions.  An
\* assertion fails only for a modulus of 1, and robinMiller divides by zero only for 2.
\* Huffman.cpp, LongestCommonSubsequence.cpp, interval_tree.cpp, MinMaxQuery.h,
\* SMAWK.cpp, 2015-10.py: a code has no code as its beginning, no code is
\* cheaper, and what was encoded is decoded to the names last given, also by a table
\* and a decoder that are used again; a range query answers as a scan of the
\* range does, a row minimum is one, and the network counts its ones.
NumbersAndCodesRight == answer # <<>> => Numbers!Right /\ Codes!Right
=============================================================================
