---------------------------- MODULE TextProblems ----------------------------
(***************************************************************************)
(* Calls of the routines of Strings, SuffixStructures and ACAuto: an initial  *)
(* state is a call with its arguments, the step that answers it the routine.  *)
(* A word is a sequence of letters; where the code takes an array, Array(w).  *)
(***************************************************************************)
EXTENDS Integers, FiniteSets, SequencesExt, FiniteSetsExt

CONSTANT MaxText      \* the length of the longest text

VARIABLES problem,    \* <<routine, arguments...>>
          answer      \* <<>>, then <<what the routine returned>>

S == INSTANCE Strings
X == INSTANCE SuffixStructures
AC == INSTANCE ACAuto

Words(k, alphabet) == UNION {[1..n -> alphabet] : n \in 1..k}
Array(w) == [i \in 0..Len(w) - 1 |-> w[i + 1]]
\* The text that longest_common_prefix takes is ended by a character of no pattern.
Ended(w) == [i \in 0..Len(w) |-> IF i < Len(w) THEN w[i + 1] ELSE -1]
Index(q) == [i \in DOMAIN q |-> i]

Patterns == {<<<<<<1, 2>>, <<2, 1>>>>, <<<<1, 2>>>>, <<<<2, 1>>, <<1, 1>>>>, <<<<1, 2>>, <<2, 1>>>>>>}
Init ==
    /\ answer = <<>>
    /\ \/ \E text \in Words(MaxText, 1..2), pattern \in Words(2, 1..2) \cup {<<1, 1, 2>>, <<2, 1, 2>>} :
              problem = <<"match", text, pattern>>
       \/ \E text \in Words(MaxText, 1..2) :
              problem = <<"prefixes", text, IF Len(text) > 2 THEN SubSeq(text, 1, 3) ELSE <<2, 1, 2, 2>>>>
       \/ \E a, b \in Words(3, 0..1), c \in Words(2, 0..1) : problem = <<"dictionary", <<a, b, c>>>>
       \/ \E n \in 3..4 : \E text \in [1..n -> 0..2] : problem = <<"suffixes", text>>
       \/ \E n \in 5..7 : \E text \in [1..n -> 0..1] : problem = <<"suffixes", text>>
       \/ \E text \in Words(6, 0..1) : problem = <<"tree", Append(text, 2)>>
       \/ \E a \in Words(2, 1..3), b \in Words(2, 1..2), c \in {<<1, 2, 3>>, <<3, 3, 1>>} :
              problem = <<"double array", <<a, b, c, <<3, 2, 1, 2>>>>>>
       \/ \E text \in [1..7 -> 1..2], patterns \in Patterns :
              problem = <<"planes", [r \in 1..3 |-> [c \in 1..3 |-> text[((3 * r + c - 4) % 7) + 1]]], patterns>>

Call(routine) == problem[1] = routine /\ answer = <<>> /\ UNCHANGED problem
Match == /\ Call("match")
         /\ answer' = <<S!KMPmatch(Array(problem[2]), Len(problem[2]), Array(problem[3]), Len(problem[3]))>>
PrefixArrays ==
    LET text == problem[2]
        n == Len(text)
        pattern == problem[3] IN
    /\ Call("prefixes")
    /\ answer' = <<[self |-> S!extended_kmp(Array(text), n),
                    other |-> S!longest_common_prefix(Array(pattern), Len(pattern), Ended(text), n),
                    radius |-> S!palindrom_extend(Array(text), n)]>>
Dictionary ==
    /\ Call("dictionary")
    /\ answer' = <<[trie |-> S!constructAutomaton(
                        FoldLeft(LAMBDA nodes, w : S!addTrie(nodes, w, 2), S!removeAll(2), problem[2]), 2),
                    counting |-> S!construct_automaton(
                        FoldLeft(LAMBDA nodes, w : S!add_str(nodes, w, 1), [i \in {0} |-> S!node_t(0)], problem[2]))]>>
SuffixArrays ==
    LET n == Len(problem[2])
        text == Array(problem[2])
        sa == X!sortSuffix(text, n) IN
    /\ Call("suffixes")
    /\ answer' = <<[sa |-> sa, dc3 |-> X!sort_suffix(text, n, 2, 0),
                    rmq |-> X!RMQpreprocess(X!LCP(X!WithSentinel(text, n), sa, n), n)]>>
SuffixTree == /\ Call("tree")
              /\ answer' = <<X!constructSuffixTree(Array(problem[2]), Len(problem[2]), 0..2)>>
DoubleArray ==
    /\ Call("double array")
    /\ answer' = <<AC!construct(FoldLeft(LAMBDA a, i : AC!insertString(a, problem[2][i], i),
                                         AC!ACAutoOf(2), Index(problem[2])))>>
Planes == Call("planes") /\ answer' = <<AC!twoDMatcher(problem[2], problem[3])>>
Next == Match \/ PrefixArrays \/ Dictionary \/ SuffixArrays \/ SuffixTree \/ DoubleArray \/ Planes

-----------------------------------------------------------------------------
Answered(routine) == problem[1] = routine /\ answer # <<>>
Suffix(w, i) == SubSeq(w, i + 1, Len(w))
Common(u, v) == Max({k \in 0..Min({Len(u), Len(v)}) : SubSeq(u, 1, k) = SubSeq(v, 1, k)})
Ends(w, text) == Len(w) <= Len(text) /\ Suffix(text, Len(text) - Len(w)) = w
Radius(w, i) == Max({k \in 0..Len(w) : /\ i - k >= 0 /\ i + k < Len(w)
                                       /\ \A j \in 1..k : w[i + 1 - j] = w[i + 1 + j]})

\* What the two automata say after text, against the words that end there.
SaysRight(a, words, text) ==
    LET r == FoldLeft(LAMBDA v, c : a.trie[v].next[c], 1, text)
        q == FoldLeft(LAMBDA v, c : S!go_next(a.counting, v, c), 0, text)
        found == {i \in DOMAIN words : Ends(words[i], text)}
    IN  /\ a.trie[r].end <=> found # {}
        /\ a.counting[q].sum = Cardinality(found)
        /\ a.trie[r].dep = a.counting[q].dep
        /\ a.trie[r].dep = Max({k \in 0..Len(text) : \E i \in DOMAIN words :
               Len(words[i]) >= k /\ SubSeq(words[i], 1, k) = Suffix(text, Len(text) - k)})

\* Following the links of the double array lists the words that end the text.
LinksRight(a, words, text) ==
    LET links == AC!Links(a, FoldLeft(LAMBDA v, c : AC!getNext(a, v, c), 0, text))
    IN  {words[a.array[links[i]].info] : i \in DOMAIN links} = {w \in ToSet(words) : Ends(w, text)}

Right ==
    /\ Answered("match") =>
           answer[1] = SelectSeq(S!Loop(0, Len(problem[2]) - Len(problem[3])), LAMBDA i :
                           SubSeq(problem[2], i + 1, i + Len(problem[3])) = problem[3])
    /\ Answered("prefixes") => \A i \in 0..Len(problem[2]) - 1 :
           /\ answer[1].self[i] = Common(problem[2], Suffix(problem[2], i))
           /\ answer[1].other[i] = Common(problem[3], Suffix(problem[2], i))
           /\ answer[1].radius[i] = Radius(problem[2], i)
    /\ Answered("dictionary") => \A text \in [1..4 -> 0..1] : SaysRight(answer[1], problem[2], text)
    /\ Answered("suffixes") =>
           LET n == Len(problem[2])
               text == Array(problem[2])
               sa == answer[1].sa IN
           /\ sa[n + 1] = n /\ X!IsSuffixArray(Front(sa), text, n) /\ answer[1].dc3 = Front(sa)
           /\ \A i, j \in 0..n - 1 : i # j =>
                  X!queryLCP(sa, answer[1].rmq, i, j) = X!CommonPrefix(text, n, i, j)
    /\ Answered("tree") => X!IsSuffixTree(answer[1], Array(problem[2]), Len(problem[2]))
    /\ Answered("double array") =>
           /\ AC!DoubleArraySound(answer[1], ToSet(problem[2]))
           /\ \A text \in [1..4 -> 1..3] : LinksRight(answer[1], problem[2], text)
    /\ Answered("planes") =>
           ToSet(answer[1]) = {x \in (0..2) \X (0..2) \X (DOMAIN problem[3]) :
                                   AC!Occurs(problem[2], problem[3][x[3]], x[1], x[2])}
Spec == Init /\ [][Next]_<<problem, answer>>
=============================================================================
