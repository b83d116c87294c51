------------------------------- MODULE Codes -------------------------------
(***************************************************************************)
(* src/Misc/Huffman.cpp: a canonical Huffman code is built from the        *)
(* frequencies of n items by two queues, and a decoder that keeps only the *)
(* first code and the offset of every length reads it back; and            *)
(* src/Misc/LongestCommonSubsequence.cpp.  Items are 0 .. n-1, a code is a *)
(* number and its length, a bit stream a sequence of bits.                 *)
(***************************************************************************)
EXTENDS Integers, Sequences, FiniteSets, SequencesExt, FiniteSetsExt, Functions

(* Bound: the radix of the two sorting passes, 2^16 in the code. *)
Radix == 4

RECURSIVE Pow2(_)
Pow2(n) == IF n = 0 THEN 1 ELSE 2 * Pow2(n - 1)

(* counting_sort: the items by ascending value, a tie in the order given. *)
counting_sort(item, value, count_size) ==
  FlattenSeq([v \in 1 .. count_size |->
                SelectSeq(item, LAMBDA i : value[i] = v - 1)])

(* Mutant: one pass, over the low digit. *)
ByLowDigit(frequency, n) ==
  counting_sort([k \in 1 .. n |-> k - 1], [i \in 0 .. n - 1 |-> frequency[i] % Radix], Radix)

ByFrequency(frequency, n) ==
  LET low == [i \in 0 .. n - 1 |-> frequency[i] % Radix]
      high == [i \in 0 .. n - 1 |-> frequency[i] \div Radix]
      items == [k \in 1 .. n |-> k - 1]
  IN  counting_sort(counting_sort(items, low, Radix), high, Radix)

(* The two queues of create(): the leaves by frequency and the inner nodes *)
(* in the order they were made.  The lighter front leaves; a leaf wins a   *)
(* tie.  Node i < n - 1 is inner, node n - 1 + i is the leaf of item i.    *)
LeafFirst(q) ==
  \/ q.inner = << >>
  \/ q.leaves # << >> /\ q.value[Head(q.leaves)] <= q.value[Head(q.inner)]

Lightest(q) == IF LeafFirst(q) THEN Head(q.leaves) ELSE Head(q.inner)

Dequeued(q) == IF LeafFirst(q) THEN [q EXCEPT !.leaves = Tail(@)]
                               ELSE [q EXCEPT !.inner = Tail(@)]

(* One new inner node `top' over the two lightest. *)
Join(q, top) ==
  LET a == Lightest(q)
      q1 == Dequeued(q)
      b == Lightest(q1)
      q2 == Dequeued(q1)
  IN  [q2 EXCEPT !.value[top] = q.value[a] + q.value[b],
                 !.zero[top] = a, !.one[top] = b,
                 !.inner = Append(@, top)]

HuffmanTree(frequency, n) ==
  LET start == [leaves |-> [k \in 1 .. n |-> ByFrequency(frequency, n)[k] + n - 1],
                inner |-> << >>,
                value |-> [v \in 0 .. 2 * n - 2 |->
                             IF v < n - 1 THEN 0 ELSE frequency[v - (n - 1)]],
                zero |-> [v \in 0 .. n - 2 |-> 0],
                one |-> [v \in 0 .. n - 2 |-> 0]]
  IN  FoldLeft(Join, start, [k \in 1 .. n - 1 |-> n - 1 - k])

Depths(tree, n) ==
  FoldLeft(LAMBDA d, i : [d EXCEPT ![tree.zero[i]] = d[i] + 1, ![tree.one[i]] = d[i] + 1],
           [v \in 0 .. 2 * n - 2 |-> 0], [k \in 1 .. n - 1 |-> k - 1])

(* The canonical codes, from the longest to the shortest. *)
Assign(order, length, n) ==
  FoldLeft(LAMBDA code, k :
             LET i == order[k]
                 longer == order[k + 1]
             IN  [code EXCEPT ![i] =
                    (code[longer] + 1) \div Pow2(length[longer] - length[i])],
           [i \in 0 .. n - 1 |-> 0], [k \in 1 .. n - 1 |-> n - k])

(* Huffman_encode_table_t: the table before any create().  map_table names *)
(* the items; Unset is what an entry holds that was allocated and not set. *)
NoTable == [capacity |-> 0, n |-> 0, code |-> << >>, length |-> << >>, map_table |-> << >>]
Unset == -2

(* resize: a table that is large enough keeps its n and what it holds. *)
resize(table, size) ==
  IF table.capacity >= size THEN table
  ELSE [table EXCEPT !.capacity = 2 * size, !.n = size,
                     !.map_table = [i \in 0 .. size - 1 |-> Unset]]

(* create: the frequencies, and the names if map_t is given, of resize()'s *)
(* n items, whatever fn was; both arrays are read up to n.                 *)
NoMap == << >>
create(table, frequency, fn, map_t) ==
  LET resized == resize(table, fn)
      n == resized.n
      t == IF map_t = NoMap THEN resized
           ELSE [resized EXCEPT !.map_table = [i \in 0 .. n - 1 |-> map_t[i]]]
      depth == Depths(HuffmanTree(frequency, n), n)
      length == [i \in 0 .. n - 1 |-> depth[n - 1 + i]]
      order == counting_sort([k \in 1 .. n |-> k - 1], length, n)
  IN  IF fn <= 0 THEN table
      ELSE IF n = 1
      THEN [t EXCEPT !.code = [i \in {0} |-> 0], !.length = [i \in {0} |-> 0]]
      ELSE [t EXCEPT !.length = length, !.code = Assign(order, length, n)]

(* get_code: -1 for an index out of the table. *)
get_code(table, i) ==
  IF i \in 0 .. table.n - 1 THEN << table.code[i], table.length[i] >> ELSE -1

(* Huffman_decode_table_t::create *)
FirstCodes(counts, n) ==
  FoldLeft(LAMBDA f, i : [f EXCEPT ![i] = (f[i + 1] + counts[i + 1]) \div 2],
           [i \in 0 .. n - 1 |-> 0], [k \in 1 .. n - 1 |-> n - 1 - k])

Offsets(counts, n) ==
  FoldLeft(LAMBDA o, i : [o EXCEPT ![i] = counts[i + 1] + o[i + 1]],
           [i \in 0 .. n - 1 |-> 0], [k \in 1 .. n - 1 |-> n - 1 - k])

NoDecoder == [capacity |-> 0, n |-> 0]

(* Mutant: items are decoded to their numbers. *)
NumberOf(table, at) == IF at = {} THEN Unset ELSE Max(at)
NameOf(table, at) == IF at = {} THEN Unset ELSE table.map_table[Max(at)]

(* The decoder has a resize() of its own, as that of the table, and works  *)
(* with the n it has then.                                                 *)
decode_create(decoder, table) ==
  LET room == decoder.capacity >= table.n
      n == IF room THEN decoder.n ELSE table.n
      counts == [len \in 0 .. n - 1 |-> Cardinality({i \in 0 .. n - 1 : table.length[i] = len})]
      first == FirstCodes(counts, n)
      offset == Offsets(counts, n)
      slot(i) == offset[table.length[i]] + table.code[i] - first[table.length[i]]
  IN  [capacity |-> IF room THEN decoder.capacity ELSE 2 * n, n |-> n,
       first_code |-> first, offset |-> offset,
       min_code_length |-> Min({table.length[i] : i \in 0 .. n - 1}),
       map_table |-> [s \in 0 .. n - 1 |-> NameOf(table, {i \in 0 .. n - 1 : slot(i) = s})]]

(* serialization and deserialization, into a decoder that may have been    *)
(* used: n, then the four parts; n is read before resize() is called.      *)
serialization(d) == << d.n, d.map_table, d.min_code_length, d.first_code, d.offset >>

deserialization(decoder, file) ==
  [capacity |-> IF decoder.capacity >= file[1] THEN decoder.capacity ELSE 2 * file[1],
   n |-> file[1], map_table |-> file[2], min_code_length |-> file[3],
   first_code |-> file[4], offset |-> file[5]]

(* The bits past the end of the stream are the padding of its last word. *)
Bit(stream, at) == IF at < Len(stream) THEN stream[at + 1] ELSE 0

RECURSIVE ReadBits(_, _, _, _)
ReadBits(stream, at, code, count) ==
  IF count = 0 THEN code
  ELSE ReadBits(stream, at + 1, 2 * code + Bit(stream, at), count - 1)

(* The code grows until it is not below the first code of its length. *)
RECURSIVE Extend(_, _, _, _, _)
Extend(d, stream, at, code, len) ==
  IF code >= d.first_code[len] THEN [at |-> at, code |-> code, len |-> len]
  ELSE Extend(d, stream, at + 1, 2 * code + Bit(stream, at), len + 1)

(* Huffman_decode_nitem: the items read, or -1. *)
RECURSIVE Huffman_decode_nitem(_, _, _, _)
Huffman_decode_nitem(d, stream, at, items) ==
  LET m == d.min_code_length
      r == Extend(d, stream, at + m, ReadBits(stream, at, 0, m), m)
  IN  IF items = 0 THEN << >>
      ELSE IF r.at > Len(stream) \/ r.code >= d.n THEN << -1 >>
      ELSE << d.map_table[d.offset[r.len] + r.code - d.first_code[r.len]] >>
             \o Huffman_decode_nitem(d, stream, r.at, items - 1)

-----------------------------------------------------------------------------
(* LongestCommonSubsequence.cpp, preprocess: where `symbol' occurs next in *)
(* str at or after position i; the length of str when it does not.         *)
nextPos(str, i, symbol) ==
  Min({Len(str)} \cup {j \in i .. Len(str) - 1 : str[j + 1] = symbol})

(* The shift of a match row: from cell k every entry not below `c' takes   *)
(* it and hands on the next position after its own.                        *)
RECURSIVE Shift(_, _, _, _, _)
Shift(match, k, c, str, symbol) ==
  IF c >= Len(str) THEN match
  ELSE IF match[k] >= c
       THEN Shift([match EXCEPT ![k] = c], k + 1, nextPos(str, match[k] + 1, symbol), str, symbol)
       ELSE Shift(match, k + 1, c, str, symbol)

(* One turn of the main loop: row i of the shorter string, then column i.  *)
Turn(str1, str2, s, i) ==
  LET a == str1[i + 1]
      b == str2[i + 1]
      atCol == s.col[s.low] = i
      c == nextPos(str2, IF atCol THEN s.row[s.low] + 1 ELSE i, a)
      low1 == IF atCol THEN s.low + 1 ELSE s.low
      row == Shift(s.row, low1, c, str2, a)
      atRow == row[low1] = i
      r == nextPos(str1, IF atRow THEN s.col[low1] + 1 ELSE i + 1, b)
      low2 == IF atRow THEN low1 + 1 ELSE low1
  IN  [low |-> low2, row |-> row, col |-> Shift(s.col, low2, r, str1, b)]

longestCommonSubsequence(x, y) ==
  LET str1 == IF Len(x) > Len(y) THEN y ELSE x
      str2 == IF Len(x) > Len(y) THEN x ELSE y
      n == Len(str1)
      m == Len(str2)
      start == [low |-> 1,
                row |-> [k \in 0 .. n + 2 |-> IF k = 0 THEN -1 ELSE m],
                col |-> [k \in 0 .. n + 2 |-> IF k = 0 THEN -1 ELSE n]]
      last == FoldLeft(LAMBDA s, i : Turn(str1, str2, s, i), start, [k \in 1 .. n |-> k - 1])
  IN  Min({k \in last.low .. n + 1 : last.row[k] >= m}) - 1

-----------------------------------------------------------------------------
(* Reference definitions. *)

(* Code a of length la begins code b of length lb. *)
Begins(a, b) == a[2] <= b[2] /\ b[1] \div Pow2(b[2] - a[2]) = a[1]

PrefixFree(table) ==
  \A i, j \in 0 .. table.n - 1 : i # j => ~Begins(get_code(table, i), get_code(table, j))

(* No complete prefix code of the items is cheaper (Kraft's equality). *)
Cheapest(frequency, table) ==
  LET n == table.n
      full(length) == MapThenSumSet(LAMBDA i : Pow2(n - 1 - length[i]), 0 .. n - 1) = Pow2(n - 1)
      cost(length) == MapThenSumSet(LAMBDA i : frequency[i] * length[i], 0 .. n - 1)
  IN  \A length \in {l \in [0 .. n - 1 -> 0 .. n - 1] : full(l)} :
        cost(table.length) <= cost(length)

(* The bits of a code, the highest first, and of a message. *)
Bits(code) == [k \in 1 .. code[2] |-> (code[1] \div Pow2(code[2] - k)) % 2]

Stream(table, message) ==
  FlattenSeq([k \in DOMAIN message |-> Bits(get_code(table, message[k]))])

RECURSIVE CommonSubsequence(_, _)
CommonSubsequence(x, y) ==
  IF x = << >> \/ y = << >> THEN 0
  ELSE IF Head(x) = Head(y) THEN 1 + CommonSubsequence(Tail(x), Tail(y))
  ELSE Max({CommonSubsequence(Tail(x), y), CommonSubsequence(x, Tail(y))})
=============================================================================
