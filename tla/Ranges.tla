------------------------------- MODULE Ranges -------------------------------
(***************************************************************************)
(* Structures that answer questions about ranges of an array:              *)
(*   src/data-structures/interval_tree.cpp   sums by index and key, with   *)
(*                                           fractional cascading,         *)
(*   src/data-structures/MinMaxQuery.h       the maximum of a prefix,      *)
(*   src/language-features/calculator.cpp    the sum of a prefix,          *)
(*   src/data-structures/SMAWK.cpp           the row minima of a totally   *)
(*                                           monotone matrix.              *)
(***************************************************************************)
EXTENDS Integers, Sequences, FiniteSets, SequencesExt, FiniteSetsExt

(* Bound: the size of a segment that is not split further, 5 in the code.  *)
B == 2

Least == -1000        \* numeric_limits<T>::min()

-----------------------------------------------------------------------------
(* interval_tree.cpp.  A node covers the indices low .. high; sindex lists *)
(* them by key, psum is the running sum of their values and rsum the       *)
(* number of them that went to the right half.                             *)
RECURSIVE Merge(_, _, _)
Merge(key, left, right) ==
  IF left = << >> THEN right
  ELSE IF right = << >> THEN left
  ELSE IF key[Head(left)] < key[Head(right)]
       THEN << Head(left) >> \o Merge(key, Tail(left), right)
       ELSE << Head(right) >> \o Merge(key, left, Tail(right))

(* The insertion sort of a short segment: stable. *)
SortedIndices(key, low, high) ==
  SortSeq([k \in 1 .. high + 1 - low |-> low + k - 1],
          LAMBDA i, j : key[i] < key[j] \/ (key[i] = key[j] /\ i < j))

Running(s, f(_)) == [k \in 0 .. Len(s) - 1 |->
                       FoldLeft(LAMBDA sum, i : sum + f(i), 0, SubSeq(s, 1, k + 1))]

RECURSIVE build_tree_helper(_, _, _, _)
build_tree_helper(key, value, low, high) ==
  LET mid == (low + high) \div 2
      left == build_tree_helper(key, value, low, mid)
      right == build_tree_helper(key, value, mid + 1, high)
      sindex == Merge(key, left.sindex, right.sindex)
      short == SortedIndices(key, low, high)
  IN  IF high + 1 - low <= B
      THEN [sindex |-> short, psum |-> Running(short, LAMBDA i : value[i])]
      ELSE [sindex |-> sindex, left |-> left, right |-> right,
            psum |-> Running(sindex, LAMBDA i : value[i]),
            rsum |-> Running(sindex, LAMBDA i : IF i > mid THEN 1 ELSE 0)]

build_tree(key, value, n) ==
  [n |-> n, key |-> key, value |-> value, root |-> build_tree_helper(key, value, 0, n - 1)]

(* bsearch_key: the last position of the root's list with a key not above  *)
(* key_upper, or -1.                                                       *)
RECURSIVE Halve(_, _, _, _)
Halve(t, key_upper, low, high) ==
  LET mid == 1 + (low + high) \div 2
  IN  IF low >= high THEN low
      ELSE IF t.key[t.root.sindex[mid + 1]] <= key_upper
           THEN Halve(t, key_upper, mid, high)
           ELSE Halve(t, key_upper, low, mid - 1)

bsearch_key(t, key_upper) ==
  IF t.key[t.root.sindex[1]] > key_upper THEN -1 ELSE Halve(t, key_upper, 0, t.n - 1)

RECURSIVE Descend(_, _, _, _, _, _)
Descend(t, node, low, high, pos, end_index) ==
  LET mid == (low + high) \div 2
      left_link == pos - node.rsum[pos]
      right_link == node.rsum[pos] - 1
      whole_left == IF left_link = -1 THEN 0 ELSE node.left.psum[left_link]
  IN  IF pos < 0 THEN 0
      ELSE IF end_index = high THEN node.psum[pos]
      ELSE IF high + 1 - low <= B
      THEN MapThenSumSet(LAMBDA i : t.value[i],
                         {node.sindex[k] : k \in 1 .. pos + 1} \cap 0 .. end_index)
      ELSE IF end_index <= mid
      THEN Descend(t, node.left, low, mid, left_link, end_index)
      ELSE whole_left + Descend(t, node.right, mid + 1, high, right_link, end_index)

prefixQuery(t, end_index, key_upper) ==
  Descend(t, t.root, 0, t.n - 1, bsearch_key(t, key_upper), end_index)

(* Mutant: the element at start_index is taken away as well. *)
queryPastStart(t, start_index, end_index, key_upper) ==
  prefixQuery(t, end_index, key_upper) - prefixQuery(t, start_index, key_upper)

(* query: the sum over start_index .. end_index as a difference. *)
query(t, start_index, end_index, key_upper) ==
  prefixQuery(t, end_index, key_upper)
    - IF start_index = 0 THEN 0 ELSE prefixQuery(t, start_index - 1, key_upper)

-----------------------------------------------------------------------------
(* Low(x), lowbit(x): the lowest bit of x > 0. *)
RECURSIVE lowbit(_)
lowbit(x) == IF x % 2 = 1 THEN 1 ELSE 2 * lowbit(x \div 2)

(* MinMaxQuery.h: range_maxer_t over the cells 0 .. len-1. *)
range_maxer(len) == [pos \in 0 .. len - 1 |-> Least]

RECURSIVE maxUpdate(_, _, _)
maxUpdate(tree, pos, v) ==
  IF pos \notin DOMAIN tree THEN tree
  ELSE maxUpdate([tree EXCEPT ![pos] = Max({@, v})], pos + lowbit(pos + 1), v)

RECURSIVE maxQuery(_, _)
maxQuery(tree, right_bound) ==
  IF right_bound < 0 THEN Least
  ELSE Max({tree[right_bound], maxQuery(tree, right_bound - lowbit(right_bound + 1))})

(* calculator.cpp: the binary indexed tree, a sequence of n cells. *)
RECURSIVE sumUpdate(_, _, _)
sumUpdate(tree, pos, add) ==
  IF pos > Len(tree) THEN tree
  ELSE sumUpdate([tree EXCEPT ![pos] = @ + add], pos + lowbit(pos), add)

RECURSIVE sumQuery(_, _)
sumQuery(tree, pos) ==
  IF pos = 0 THEN 0 ELSE tree[pos] + sumQuery(tree, pos - lowbit(pos))

-----------------------------------------------------------------------------
(* SMAWK.cpp.  A matrix is a function of << row, column >>; the columns    *)
(* that survive the reduction against every inc-th row.                    *)
RECURSIVE Pop(_, _, _, _)
Pop(A, inc, cols, c) ==
  LET row == inc * (Len(cols) - 1)
  IN  IF cols # << >> /\ A[row, Last(cols)] >= A[row, c]
      THEN Pop(A, inc, Front(cols), c) ELSE cols

Reduce(A, inc, cols, row_size) ==
  FoldLeft(LAMBDA kept, c : LET left == Pop(A, inc, kept, c)
                            IN  IF Len(left) < row_size THEN Append(left, c) ELSE left,
           << >>, cols)

(* An odd row between two solved ones: the last of the smallest entries in *)
(* the columns from the minimum above to the minimum below.                *)
Between(A, n, inc, cols, minima, i) ==
  LET low == minima[i - inc]
      high == IF i + inc < n THEN minima[i + inc] ELSE Last(cols)
      range == {c \in ToSet(cols) : c \in low .. high}
  IN  Max({c \in range : \A d \in range : A[i, c] <= A[i, d]})

RECURSIVE SMAWK(_, _, _, _)
SMAWK(A, n, inc, cols) ==
  LET row_size == (n + inc - 1) \div inc
      kept == Reduce(A, inc, cols, row_size)
      even == SMAWK(A, n, 2 * inc, kept)
      odd == {i \in 0 .. n - 1 : i % (2 * inc) = inc}
  IN  IF row_size = 1 THEN [i \in {0} |-> Head(kept)]
      ELSE [i \in DOMAIN even \cup odd |->
              IF i \in odd THEN Between(A, n, inc, kept, even, i) ELSE even[i]]

row_minima(A, n, m) == SMAWK(A, n, 1, [c \in 1 .. m |-> c - 1])

-----------------------------------------------------------------------------
(* Reference definitions. *)

RangeSum(key, value, indices, key_upper) ==
  MapThenSumSet(LAMBDA i : value[i], {i \in indices : key[i] <= key_upper})

TotallyMonotone(A, n, m) ==
  \A i2 \in 0 .. n - 1 : \A i1 \in 0 .. i2 - 1 : \A j2 \in 0 .. m - 1 : \A j1 \in 0 .. j2 - 1 :
    A[i2, j1] < A[i2, j2] => A[i1, j1] < A[i1, j2]
=============================================================================
