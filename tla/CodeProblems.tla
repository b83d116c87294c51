---------------------------- MODULE CodeProblems ----------------------------
(***************************************************************************)
(* Calls of the routines of Codes, Ranges and BitCounter: an initial state is *)
(* a call with its arguments, the step that answers it the routine.           *)
(***************************************************************************)
EXTENDS Integers, FiniteSets, SequencesExt, FiniteSetsExt

CONSTANT MaxFrequency \* of an item of a small alphabet

VARIABLES problem,    \* <<routine, arguments...>>
          answer      \* <<>>, then <<what the routine returned>>

H == INSTANCE Codes
R == INSTANCE Ranges
BC == INSTANCE BitCounter

Words(k, alphabet) == UNION {[1..n -> alphabet] : n \in 1..k}
Value == [i \in 0..8 |-> IF i % 3 = 0 THEN -i - 1 ELSE 2^i]
Square(n, m, a, b) == [e \in (0..n - 1) \X (0..m - 1) |-> (e[1] * a - b * e[2])^2]
\* A skewed alphabet gives codes of many lengths.
Skewed == {f \in [0..4 -> {1, 2, 3, 8, 15}] : \A i \in 0..3 : f[i] <= f[i + 1]}

\* Names of items, and other ones.
Names == [i \in 0..4 |-> 9 - i]
Others == [i \in 0..4 |-> (i + 3) % 5]

Init ==
    /\ answer = <<>>
    /\ \/ \E n \in 1..4 : \E f \in [0..n - 1 -> 0..MaxFrequency] : 
              problem = <<"code", <<[frequency |-> f, fn |-> n, map_t |-> Names]>>>>
       \/ \E f \in Skewed : problem = <<"code", <<[frequency |-> f, fn |-> 5, map_t |-> Names]>>>>
       \/ \E n, m \in 1..4, f \in [0..3 -> {1, 4}], first, second \in {H!NoMap, Names, Others} :
              problem = <<"code", <<[frequency |-> [i \in 0..3 |-> 3 - i], fn |-> n, map_t |-> first],
                                    [frequency |-> f, fn |-> m, map_t |-> second]>>>>
       \/ \E x, y \in Words(3, 0..2) \cup [1..4 -> 0..1] : problem = <<"subsequence", x, y>>
       \/ \E n \in 1..5 : \E key \in [0..n - 1 -> 0..2] : problem = <<"interval", n, key>>
       \/ \E key \in [0..6 -> 0..1] : problem = <<"interval", 7, key>>
       \/ \E n \in 1..6 : \E i, j \in 0..n - 1, v, w \in -1..2 : problem = <<"prefix", n, <<<<i, v>>, <<j, w>>>>>>
       \/ \E n \in 1..4, m \in 1..3 : \E A \in [(0..n - 1) \X (0..m - 1) -> 0..1] :
              R!TotallyMonotone(A, n, m) /\ problem = <<"minima", n, m, A>>
       \/ \E n \in 5..7, m \in 2..5, a \in 0..3, b \in 0..2 :
              R!TotallyMonotone(Square(n, m, a, b), n, m) /\ problem = <<"minima", n, m, Square(n, m, a, b)>>
       \/ \E x \in 0..4095 : problem = <<"bits", x>>

Call(routine) == problem[1] = routine /\ answer = <<>> /\ UNCHANGED problem
Code == /\ Call("code")
        /\ LET again(r, c) == LET table == H!create(r.table, c.frequency, c.fn, c.map_t) IN
                              [table |-> table, decoder |-> H!decode_create(r.decoder, table)]
               start == [table |-> H!NoTable, decoder |-> H!NoDecoder]
               r == FoldLeft(again, start, problem[2])
           IN  answer' = <<[r EXCEPT !.decoder = H!deserialization(H!NoDecoder, H!serialization(@))]>>
Subsequence == Call("subsequence") /\ answer' = <<H!longestCommonSubsequence(problem[2], problem[3])>>
Interval == Call("interval") /\ answer' = <<R!build_tree(problem[3], Value, problem[2])>>
Prefix ==
    LET n == problem[2]
        writes == problem[3] IN
    /\ Call("prefix")
    /\ answer' = <<[most |-> FoldLeft(LAMBDA t, w : R!maxUpdate(t, w[1], w[2]), R!range_maxer(n), writes),
                    sum |-> FoldLeft(LAMBDA t, w : R!sumUpdate(t, w[1] + 1, w[2]), [i \in 1..n |-> 0], writes)]>>
Minima == Call("minima") /\ answer' = <<R!row_minima(problem[4], problem[2], problem[3])>>
Bits == Call("bits") /\ answer' = <<BC!evaluate(problem[2])>>
Next == Code \/ Subsequence \/ Interval \/ Prefix \/ Minima \/ Bits

-----------------------------------------------------------------------------
Answered(routine) == problem[1] = routine /\ answer # <<>>
\* The names in force: the last ones given, unless the table was made anew since.
InForce(calls) ==
    LET last == calls[Len(calls)] IN
    IF last.map_t # H!NoMap \/ Len(calls) = 1 THEN last.map_t
    ELSE IF last.fn > 2 * calls[1].fn THEN H!NoMap ELSE calls[1].map_t
\* A stream decodes to the names of its message, and one that lacks its last bit to a failure.
DecodesBack(table, decoder, names, message) ==
    LET stream == H!Stream(table, message)
        decoded(bits) == H!Huffman_decode_nitem(decoder, bits, 0, Len(message)) IN
    /\ names # H!NoMap => decoded(stream) = [k \in DOMAIN message |-> names[message[k]]]
    /\ table.n > 1 => Last(decoded(Front(stream))) = -1
Right ==
    /\ Answered("code") =>
           LET table == answer[1].table
               last == problem[2][Len(problem[2])] IN
           /\ Len(problem[2]) = 1 \/ last.fn > 2 * problem[2][1].fn => table.n = last.fn
           /\ H!PrefixFree(table) /\ H!Cheapest(last.frequency, table)
           /\ \A message \in [1..3 -> 0..table.n - 1] :
                  DecodesBack(table, answer[1].decoder, InForce(problem[2]), message)
    /\ Answered("subsequence") => answer[1] = H!CommonSubsequence(problem[2], problem[3])
    /\ Answered("interval") =>
           \A end \in 0..problem[2] - 1 : \A start \in 0..end, upper \in -1..3 :
               R!query(answer[1], start, end, upper) = R!RangeSum(problem[3], Value, start..end, upper)
    /\ Answered("prefix") => \A pos \in 0..problem[2] - 1 :
           LET seen == {k \in DOMAIN problem[3] : problem[3][k][1] <= pos} IN
           /\ R!maxQuery(answer[1].most, pos) = Max({R!Least} \cup {problem[3][k][2] : k \in seen})
           /\ R!sumQuery(answer[1].sum, pos + 1) = MapThenSumSet(LAMBDA k : problem[3][k][2], seen)
    /\ Answered("minima") =>
           LET A == problem[4]
               minima == answer[1] IN
           /\ DOMAIN minima = 0..problem[2] - 1
           /\ \A i \in DOMAIN minima, j \in 0..problem[3] - 1 : A[i, minima[i]] <= A[i, j]
    /\ Answered("bits") => answer[1] = BC!CountBits(problem[2])
Spec == Init /\ [][Next]_<<problem, answer>>
=============================================================================
