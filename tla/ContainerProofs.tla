-------------------------- MODULE ContainerProofs --------------------------
(***************************************************************************)
(* Proofs about LinkedList, for any number of lists, sorted or not, and of *)
(* nodes: every list is linked both ways and known to its head, the sorted *)
(* ones are sorted, and an operation changes one of them by one node.      *)
(* Behind them, proofs about BinaryHeap and about SegmentTree, of any size. *)
(***************************************************************************)
EXTENDS LinkedList, BinaryHeap, SegmentTree, FiniteLemmas, SequenceTheorems

USE DEF NULL

\* The pointers of the list l spell out q.
Spelled(q, l, h, link, back) ==
  /\ h = IF Len(q) = 0 THEN NULL ELSE q[1]
  /\ \A i \in 1 .. Len(q) :
       /\ link[q[i]] = IF i = Len(q) THEN NULL ELSE q[i + 1]
       /\ back[q[i]] = IF i = 1 THEN -l ELSE q[i - 1]

Distinct(L) ==
  \A l, m \in Lists : \A i \in 1 .. Len(L[l]), j \in 1 .. Len(L[m]) :
    L[l][i] = L[m][j] => l = m /\ i = j

Ordered(L, val) ==
  \A l \in Sorted : \A i, j \in 1 .. Len(L[l]) :
    i <= j => val[L[l][i]] <= val[L[l][j]]

\* L has the nodes of every list.
Spells(L, h, link, back, val) ==
  /\ \A l \in Lists : Spelled(L[l], l, h[l], link, back)
  /\ Distinct(L)
  /\ Ordered(L, val)
  /\ \A n \in Nodes : back[n] # NULL => \E l \in Lists : \E i \in 1 .. Len(L[l]) : L[l][i] = n

Spellings == [Lists -> Seq(Nodes)]

ListInv == TypeOK /\ \E L \in Spellings : Spells(L, head, next, prev, value)

\* q2 is q with n at the place i; q2 is q without what was at the place i.
Inserted(q2, q, i, n) ==
  /\ q2 \in Seq(Nodes) /\ Len(q2) = Len(q) + 1
  /\ \A j \in 1 .. Len(q) + 1 : q2[j] = IF j < i THEN q[j] ELSE IF j = i THEN n ELSE q[j - 1]

Removed(q2, q, i) ==
  /\ q2 \in Seq(Nodes) /\ Len(q2) = Len(q) - 1
  /\ \A j \in 1 .. Len(q) - 1 : q2[j] = IF j < i THEN q[j] ELSE q[j + 1]

-----------------------------------------------------------------------------
(* Sequences. *)

LEMMA Numbers ==
  /\ Nodes \in SUBSET Nat /\ 0 \notin Nodes /\ IsFiniteSet(Nodes)
  /\ Cardinality(Nodes) \in Nat
  /\ \A l \in Lists : l \in Nat \ {0}
  /\ Sorted \subseteq Lists /\ Values \subseteq Int
<1>1. Nodes \subseteq Nat \ {0} /\ IsFiniteSet(Nodes)
  BY ListAssumption
<1>2. Cardinality(Nodes) \in Nat
  BY <1>1, FS_CardinalityType
<1>3. /\ Lists \subseteq Nat \ {0} /\ Sorted \subseteq Lists
      /\ Values \subseteq Int
  BY ListAssumption
<1> QED BY <1>1, <1>2, <1>3

LEMMA SeqTyped ==
  ASSUME NEW q \in Seq(Nodes)
  PROVE  /\ Len(q) \in Nat /\ q \in [1 .. Len(q) -> Nodes]
         /\ \A i \in 1 .. Len(q) : q[i] \in Nodes /\ q[i] \in Nat /\ q[i] # 0
<1>1. Len(q) \in Nat /\ q \in [1 .. Len(q) -> Nodes]
  BY LenProperties
<1> QED BY <1>1, Numbers

\* Without repetition a sequence is no longer than there are nodes.
LEMMA SeqShort ==
  ASSUME NEW q \in Seq(Nodes), \A i, j \in 1 .. Len(q) : q[i] = q[j] => i = j
  PROVE  Len(q) <= Cardinality(Nodes)
<1>1. Len(q) \in Nat /\ q \in [1 .. Len(q) -> Nodes]
  BY SeqTyped
<1>2. q \in Injection(1 .. Len(q), Nodes)
  BY <1>1 DEF Injection, IsInjective
<1>3. IsFiniteSet(1 .. Len(q)) /\ Cardinality(1 .. Len(q)) = Len(q)
  BY <1>1, FS_Interval
<1> QED BY <1>2, <1>3, Numbers, FS_Injection

LEMMA Insertion ==
  ASSUME NEW q \in Seq(Nodes), NEW n \in Nodes, NEW i \in 1 .. Len(q) + 1
  PROVE  Inserted(SubSeq(q, 1, i - 1) \o <<n>> \o SubSeq(q, i, Len(q)), q, i, n)
<1> DEFINE a == SubSeq(q, 1, i - 1)
           b == SubSeq(q, i, Len(q))
<1>1. Len(q) \in Nat /\ \A j \in 1 .. Len(q) : q[j] \in Nodes
  BY SeqTyped
<1>2. /\ a \in Seq(Nodes) /\ Len(a) = i - 1
      /\ \A j \in 1 .. i - 1 : a[j] = q[j]
  <2>1. \A j \in 1 .. i - 1 : q[j] \in Nodes
    BY <1>1
  <2>2. 1 \in Int /\ i - 1 \in Int
    BY <1>1
  <2>3. /\ a \in Seq(Nodes)
        /\ Len(a) = IF 1 <= i - 1 THEN (i - 1) - 1 + 1 ELSE 0
        /\ \A j \in 1 .. (i - 1) - 1 + 1 : a[j] = q[1 + j - 1]
    BY <2>1, <2>2, SubSeqProperties
  <2> QED BY <1>1, <2>3
<1>3. /\ b \in Seq(Nodes) /\ Len(b) = Len(q) + 1 - i
      /\ \A j \in 1 .. Len(q) + 1 - i : b[j] = q[i + j - 1]
  <2>1. \A j \in i .. Len(q) : q[j] \in Nodes
    BY <1>1
  <2>2. i \in Int /\ Len(q) \in Int
    BY <1>1
  <2>3. /\ b \in Seq(Nodes)
        /\ Len(b) = IF i <= Len(q) THEN Len(q) - i + 1 ELSE 0
        /\ \A j \in 1 .. Len(q) - i + 1 : b[j] = q[i + j - 1]
    BY <2>1, <2>2, SubSeqProperties
  <2> QED BY <1>1, <2>3
<1> HIDE DEF a, b
<1>4. <<n>> \in Seq(Nodes) /\ Len(<<n>>) = 1 /\ <<n>>[1] = n
  OBVIOUS
<1>5. /\ a \o <<n>> \in Seq(Nodes) /\ Len(a \o <<n>>) = i
      /\ \A j \in 1 .. i : (a \o <<n>>)[j] = IF j < i THEN q[j] ELSE n
  <2>1. /\ a \o <<n>> \in Seq(Nodes) /\ Len(a \o <<n>>) = Len(a) + Len(<<n>>)
        /\ \A j \in 1 .. Len(a) + Len(<<n>>) :
             (a \o <<n>>)[j] = IF j <= Len(a) THEN a[j] ELSE <<n>>[j - Len(a)]
    BY <1>2, <1>4, ConcatProperties
  <2> QED BY <1>1, <1>2, <1>4, <2>1
<1> DEFINE c == a \o <<n>>
<1> HIDE DEF c
<1>6. /\ c \o b \in Seq(Nodes) /\ Len(c \o b) = Len(q) + 1
      /\ \A j \in 1 .. Len(q) + 1 :
           (c \o b)[j] = IF j <= i THEN c[j] ELSE b[j - i]
  <2>1. c \in Seq(Nodes) /\ Len(c) = i
    BY <1>5 DEF c
  <2>2. /\ c \o b \in Seq(Nodes) /\ Len(c \o b) = Len(c) + Len(b)
        /\ \A j \in 1 .. Len(c) + Len(b) :
             (c \o b)[j] = IF j <= Len(c) THEN c[j] ELSE b[j - Len(c)]
    BY <1>3, <2>1, ConcatProperties
  <2> QED BY <1>1, <1>3, <2>1, <2>2
<1>7. ASSUME NEW j \in 1 .. Len(q) + 1
      PROVE  (c \o b)[j] = IF j < i THEN q[j] ELSE IF j = i THEN n ELSE q[j - 1]
  <2>1. CASE j <= i
    BY <1>1, <1>5, <1>6, <2>1 DEF c
  <2>2. CASE ~(j <= i)
    <3>1. /\ j - i \in 1 .. Len(q) + 1 - i /\ i + (j - i) - 1 = j - 1
          /\ ~(j <= i) /\ ~(j < i) /\ j # i
      BY <1>1, <2>2
    <3>2. b[j - i] = q[j - 1]
      BY <1>3, <3>1
    <3> QED BY <1>6, <3>1, <3>2
  <2> QED BY <1>1, <2>1, <2>2
<1>8. Inserted(c \o b, q, i, n)
  BY <1>6, <1>7 DEF Inserted
<1> QED BY <1>8 DEF a, b, c

LEMMA InFront ==
  ASSUME NEW q \in Seq(Nodes), NEW n \in Nodes
  PROVE  Inserted(<<n>> \o q, q, 1, n)
<1>1. Len(q) \in Nat
  BY SeqTyped
<1>2. <<n>> \in Seq(Nodes) /\ Len(<<n>>) = 1 /\ <<n>>[1] = n
  OBVIOUS
<1>3. /\ <<n>> \o q \in Seq(Nodes) /\ Len(<<n>> \o q) = Len(<<n>>) + Len(q)
      /\ \A j \in 1 .. Len(<<n>>) + Len(q) :
           (<<n>> \o q)[j] = IF j <= Len(<<n>>) THEN <<n>>[j] ELSE q[j - Len(<<n>>)]
  BY <1>2, ConcatProperties
<1> QED BY <1>1, <1>2, <1>3 DEF Inserted

LEMMA Removal ==
  ASSUME NEW q \in Seq(Nodes), NEW i \in 1 .. Len(q)
  PROVE  Removed(SubSeq(q, 1, i - 1) \o SubSeq(q, i + 1, Len(q)), q, i)
<1> DEFINE a == SubSeq(q, 1, i - 1)
           b == SubSeq(q, i + 1, Len(q))
<1>1. Len(q) \in Nat /\ \A j \in 1 .. Len(q) : q[j] \in Nodes
  BY SeqTyped
<1>2. /\ a \in Seq(Nodes) /\ Len(a) = i - 1
      /\ \A j \in 1 .. i - 1 : a[j] = q[j]
  <2>1. \A j \in 1 .. i - 1 : q[j] \in Nodes
    BY <1>1
  <2>2. 1 \in Int /\ i - 1 \in Int
    BY <1>1
  <2>3. /\ a \in Seq(Nodes)
        /\ Len(a) = IF 1 <= i - 1 THEN (i - 1) - 1 + 1 ELSE 0
        /\ \A j \in 1 .. (i - 1) - 1 + 1 : a[j] = q[1 + j - 1]
    BY <2>1, <2>2, SubSeqProperties
  <2> QED BY <1>1, <2>3
<1>3. /\ b \in Seq(Nodes) /\ Len(b) = Len(q) - i
      /\ \A j \in 1 .. Len(q) - i : b[j] = q[i + j]
  <2>1. \A j \in i + 1 .. Len(q) : q[j] \in Nodes
    BY <1>1
  <2>2. i + 1 \in Int /\ Len(q) \in Int
    BY <1>1
  <2>3. /\ b \in Seq(Nodes)
        /\ Len(b) = IF i + 1 <= Len(q) THEN Len(q) - (i + 1) + 1 ELSE 0
        /\ \A j \in 1 .. Len(q) - (i + 1) + 1 : b[j] = q[(i + 1) + j - 1]
    BY <2>1, <2>2, SubSeqProperties
  <2> QED BY <1>1, <2>3
<1> HIDE DEF a, b
<1>4. /\ a \o b \in Seq(Nodes) /\ Len(a \o b) = Len(a) + Len(b)
      /\ \A j \in 1 .. Len(a) + Len(b) :
           (a \o b)[j] = IF j <= Len(a) THEN a[j] ELSE b[j - Len(a)]
  BY <1>2, <1>3, ConcatProperties
<1>5. ASSUME NEW j \in 1 .. Len(q) - 1
      PROVE  (a \o b)[j] = IF j < i THEN q[j] ELSE q[j + 1]
  <2>1. CASE j < i
    BY <1>1, <1>2, <1>3, <1>4, <2>1
  <2>2. CASE ~(j < i)
    <3>1. /\ j - (i - 1) \in 1 .. Len(q) - i /\ i + (j - (i - 1)) = j + 1
          /\ ~(j <= i - 1) /\ ~(j < i) /\ j \in 1 .. Len(a) + Len(b)
      BY <1>1, <1>2, <1>3, <2>2
    <3>2. b[j - (i - 1)] = q[j + 1]
      BY <1>3, <3>1
    <3> QED BY <1>2, <1>4, <3>1, <3>2
  <2> QED BY <1>1, <2>1, <2>2
<1>6. Len(a \o b) = Len(q) - 1
  BY <1>1, <1>2, <1>3, <1>4
<1>7. Removed(a \o b, q, i)
  BY <1>4, <1>5, <1>6 DEF Removed
<1> QED BY <1>7 DEF a, b
-----------------------------------------------------------------------------
(* Reading a list. *)

\* The walk along the links of q, which is recursive, comes through q.
Walk(c, h, link) ==
  c = CHOOSE f : f = [d \in 0 .. Cardinality(Nodes) |->
                        IF d = 0 THEN h ELSE IF f[d - 1] = NULL THEN NULL ELSE link[f[d - 1]]]

Read(c) == [i \in 1 .. Cardinality({j \in DOMAIN c : c[j] # NULL}) |-> c[i - 1]]
Once(q) == \A i, j \in 1 .. Len(q) : q[i] = q[j] => i = j

LEMMA Walked ==
  ASSUME NEW q \in Seq(Nodes), NEW l, NEW h, NEW link, NEW back, Spelled(q, l, h, link, back),
         NEW c, Walk(c, h, link)
  PROVE  /\ DOMAIN c = 0 .. Cardinality(Nodes)
         /\ \A d \in 0 .. Cardinality(Nodes) : c[d] = IF d < Len(q) THEN q[d + 1] ELSE NULL
<1> DEFINE N == Cardinality(Nodes)
           k == Len(q)
           g == [d \in 0 .. N |-> IF d < k THEN q[d + 1] ELSE NULL]
           Down(f) == f = [d \in 0 .. N |->
                     IF d = 0 THEN h ELSE IF f[d - 1] = NULL THEN NULL ELSE link[f[d - 1]]]
<1>1. /\ N \in Nat /\ k \in Nat
      /\ \A i \in 1 .. k : q[i] # 0
      /\ h = IF k = 0 THEN NULL ELSE q[1]
      /\ \A i \in 1 .. k : link[q[i]] = IF i = k THEN NULL ELSE q[i + 1]
  BY SeqTyped, Numbers DEF Spelled
<1>2. c = CHOOSE f : Down(f)
  BY DEF Walk
<1> HIDE DEF N, k
<1>3. ASSUME NEW d \in 0 .. N
      PROVE  g[d] = IF d = 0 THEN h ELSE IF g[d - 1] = NULL THEN NULL ELSE link[g[d - 1]]
  <2>1. CASE d = 0
    BY <1>1, <2>1
  <2>2. CASE d # 0 /\ d - 1 < k
    <3>1. d - 1 \in 0 .. N /\ d \in 1 .. k /\ (d - 1) + 1 = d /\ (d = k <=> ~(d < k))
      BY <1>1, <2>2
    <3>2. g[d - 1] = q[d]
      BY <2>2, <3>1
    <3> QED BY <1>1, <2>2, <3>1, <3>2
  <2>3. CASE d # 0 /\ ~(d - 1 < k)
    <3>1. d - 1 \in 0 .. N /\ ~(d < k)
      BY <1>1, <2>3
    <3> QED BY <2>3, <3>1
  <2> QED BY <2>1, <2>2, <2>3
<1>4. Down(g) /\ \A d \in 0 .. N : g[d] = IF d < k THEN q[d + 1] ELSE NULL
  BY <1>3
<1> HIDE DEF g
<1>5. Down(c)
  BY <1>2, <1>4
<1> DEFINE G == {d \in Nat : d <= N => c[d] = g[d]}
<1>6. 0 \in G
  BY <1>1, <1>3, <1>5
<1>7. ASSUME NEW d \in G
      PROVE  d + 1 \in G
  <2> SUFFICES ASSUME d + 1 <= N
               PROVE  c[d + 1] = g[d + 1]
    OBVIOUS
  <2>1. d + 1 \in 0 .. N /\ d + 1 # 0 /\ (d + 1) - 1 = d
    BY <1>1
  <2>2. c[d] = g[d]
    BY <1>1, <2>1
  <2>3. c[d + 1] = IF c[d] = NULL THEN NULL ELSE link[c[d]]
    BY <1>5, <2>1
  <2>4. g[d + 1] = IF g[d] = NULL THEN NULL ELSE link[g[d]]
    BY <1>3, <2>1
  <2> QED BY <2>2, <2>3, <2>4
<1>8. G = Nat
  <2>1. G \in SUBSET Nat
    OBVIOUS
  <2> HIDE DEF G
  <2> QED BY <1>6, <1>7, <2>1, NumberInduction
<1>9. ASSUME NEW d \in 0 .. N
      PROVE  c[d] = g[d]
  <2>1. d \in G
    BY <1>1, <1>8
  <2> QED BY <1>1, <2>1
<1> QED BY <1>4, <1>5, <1>9 DEF N, k

\* What is read is q.
LEMMA ReadOff ==
  ASSUME NEW q \in Seq(Nodes), NEW l, NEW h, NEW link, NEW back, Spelled(q, l, h, link, back),
         Once(q), NEW c, Walk(c, h, link)
  PROVE  Read(c) = q
<1> DEFINE N == Cardinality(Nodes)
           R == {j \in DOMAIN c : c[j] # NULL}
<1>1. N \in Nat /\ Len(q) \in Nat /\ Len(q) <= N /\ q \in [1 .. Len(q) -> Nodes]
  BY Numbers, SeqTyped, SeqShort DEF Once
<1>2. \A i \in 1 .. Len(q) : q[i] # NULL
  BY SeqTyped
<1>3. /\ DOMAIN c = 0 .. N
      /\ \A d \in 0 .. N : c[d] = IF d < Len(q) THEN q[d + 1] ELSE NULL
  BY Walked
<1> HIDE DEF N
<1>4. R = 0 .. Len(q) - 1
  <2>1. ASSUME NEW d \in 0 .. N
        PROVE  c[d] # NULL <=> d \in 0 .. Len(q) - 1
    <3>1. d < Len(q) <=> d \in 0 .. Len(q) - 1
      BY <1>1
    <3>2. d < Len(q) => d + 1 \in 1 .. Len(q)
      BY <1>1
    <3> QED BY <1>2, <1>3, <3>1, <3>2
  <2>2. 0 .. Len(q) - 1 \subseteq 0 .. N
    BY <1>1
  <2> QED BY <1>3, <2>1, <2>2
<1>5. Cardinality(R) = Len(q)
  <2>1. 0 \in Int /\ Len(q) - 1 \in Int
    BY <1>1
  <2>2. Cardinality(0 .. Len(q) - 1) = IF 0 > Len(q) - 1 THEN 0 ELSE (Len(q) - 1) - 0 + 1
    BY <2>1, FS_Interval
  <2>3. (IF 0 > Len(q) - 1 THEN 0 ELSE (Len(q) - 1) - 0 + 1) = Len(q)
    BY <1>1
  <2> QED BY <1>4, <2>2, <2>3
<1>6. ASSUME NEW i \in 1 .. Len(q)
      PROVE  c[i - 1] = q[i]
  <2>1. i - 1 \in 0 .. N /\ i - 1 < Len(q) /\ (i - 1) + 1 = i
    BY <1>1
  <2> QED BY <1>3, <2>1
<1> HIDE DEF R
<1>7. [i \in 1 .. Cardinality(R) |-> c[i - 1]] = [i \in 1 .. Len(q) |-> q[i]]
  BY <1>5, <1>6
<1>8. [i \in 1 .. Len(q) |-> q[i]] = q
  BY <1>1
<1> QED BY <1>7, <1>8 DEF R, Read

LEMMA ListedNow ==
  ASSUME NEW L \in Spellings, Spells(L, head, next, prev, value), NEW l \in Lists
  PROVE  Listed(l) = L[l]
<1> DEFINE c == Chain(head[l])
<1>1. /\ L[l] \in Seq(Nodes) /\ Spelled(L[l], l, head[l], next, prev)
      /\ Once(L[l])
  BY DEF Spells, Spellings, Distinct, Once
<1>2. Walk(c, head[l], next)
  BY DEF Chain, Walk
<1>3. Listed(l) = Read(c)
  BY DEF Listed, Read
<1> HIDE DEF c
<1>4. Read(c) = L[l]
  BY <1>1, <1>2, ReadOff
<1> QED BY <1>3, <1>4

LEMMA ListedNext ==
  ASSUME NEW L \in Spellings, Spells(L, head', next', prev', value'), NEW l \in Lists
  PROVE  Listed(l)' = L[l]
<1> DEFINE c == Chain(head[l])'
<1>1. /\ L[l] \in Seq(Nodes) /\ Spelled(L[l], l, head'[l], next', prev')
      /\ Once(L[l])
  BY DEF Spells, Spellings, Distinct, Once
<1>2. Walk(c, head'[l], next')
  BY DEF Chain, Walk
<1>3. Listed(l)' = Read(c)
  BY DEF Listed, Read
<1> HIDE DEF c
<1>4. Read(c) = L[l]
  BY <1>1, <1>2, ReadOff
<1> QED BY <1>3, <1>4
-----------------------------------------------------------------------------
(* One list changes by one node. *)

\* n becomes the i-th node of the list l, which was q.
Hooked(q, l, i, n, h, h2, link, link2, back, back2) ==
  /\ h2 = IF i = 1 THEN n ELSE h
  /\ link2[n] = IF i = Len(q) + 1 THEN NULL ELSE q[i]
  /\ back2[n] = IF i = 1 THEN -l ELSE q[i - 1]
  /\ \A j \in 1 .. Len(q) :
       /\ link2[q[j]] = IF j = i - 1 THEN n ELSE link[q[j]]
       /\ back2[q[j]] = IF j = i THEN n ELSE back[q[j]]

\* The i-th node leaves it.
Unhooked(q, i, h, h2, link, link2, back, back2) ==
  /\ h2 = IF i = 1 THEN link[q[i]] ELSE h
  /\ \A j \in 1 .. Len(q) : j # i =>
       /\ link2[q[j]] = IF j = i - 1 THEN link[q[i]] ELSE link[q[j]]
       /\ back2[q[j]] = IF j = i + 1 THEN back[q[i]] ELSE back[q[j]]

LEMMA SpelledFrame ==
  ASSUME NEW q, NEW l, NEW h, NEW link, NEW link2, NEW back, NEW back2,
         Spelled(q, l, h, link, back),
         \A i \in 1 .. Len(q) : link2[q[i]] = link[q[i]] /\ back2[q[i]] = back[q[i]]
  PROVE  Spelled(q, l, h, link2, back2)
BY DEF Spelled

LEMMA SpelledInsert ==
  ASSUME NEW q \in Seq(Nodes), NEW l, NEW h, NEW h2, NEW link, NEW link2, NEW back, NEW back2,
         Spelled(q, l, h, link, back), NEW n, NEW i \in 1 .. Len(q) + 1,
         NEW q2, Inserted(q2, q, i, n), Hooked(q, l, i, n, h, h2, link, link2, back, back2)
  PROVE  Spelled(q2, l, h2, link2, back2)
<1> DEFINE k == Len(q)
<1>1. k \in Nat
  BY SeqTyped
<1>2. /\ Len(q2) = k + 1
      /\ \A j \in 1 .. k + 1 : q2[j] = IF j < i THEN q[j] ELSE IF j = i THEN n ELSE q[j - 1]
  BY DEF Inserted
<1>3. /\ h = IF k = 0 THEN NULL ELSE q[1]
      /\ \A j \in 1 .. k : /\ link[q[j]] = IF j = k THEN NULL ELSE q[j + 1]
                           /\ back[q[j]] = IF j = 1 THEN -l ELSE q[j - 1]
  BY DEF Spelled
<1>4. /\ h2 = IF i = 1 THEN n ELSE h
      /\ link2[n] = IF i = k + 1 THEN NULL ELSE q[i]
      /\ back2[n] = IF i = 1 THEN -l ELSE q[i - 1]
      /\ \A j \in 1 .. k : /\ link2[q[j]] = IF j = i - 1 THEN n ELSE link[q[j]]
                           /\ back2[q[j]] = IF j = i THEN n ELSE back[q[j]]
  BY DEF Hooked
<1> HIDE DEF k
<1>5. i \in 1 .. k + 1
  BY DEF k
<1>6. h2 = IF k + 1 = 0 THEN NULL ELSE q2[1]
  BY <1>1, <1>2, <1>3, <1>4, <1>5
<1>7. ASSUME NEW j \in 1 .. k + 1
      PROVE  /\ link2[q2[j]] = IF j = k + 1 THEN NULL ELSE q2[j + 1]
             /\ back2[q2[j]] = IF j = 1 THEN -l ELSE q2[j - 1]
  <2>1. CASE j < i
    <3>1. j \in 1 .. k /\ q2[j] = q[j] /\ j # i /\ j # k + 1 /\ j + 1 \in 1 .. k + 1
      BY <1>1, <1>2, <1>5, <2>1
    <3>2. link2[q[j]] = q2[j + 1]
      <4>1. CASE j = i - 1
        BY <1>1, <1>2, <1>4, <1>5, <3>1, <4>1
      <4>2. CASE j # i - 1
        <5>1. j + 1 < i /\ j # k
          BY <1>1, <1>5, <2>1, <4>2
        <5> QED BY <1>2, <1>3, <1>4, <3>1, <4>2, <5>1
      <4> QED BY <4>1, <4>2
    <3>3. j # 1 => j - 1 \in 1 .. k + 1 /\ j - 1 < i
      BY <1>1, <1>5, <2>1
    <3> QED BY <1>2, <1>3, <1>4, <3>1, <3>2, <3>3
  <2>2. CASE j = i
    <3>1. q2[j] = n /\ (j = 1 <=> i = 1) /\ (j = k + 1 <=> i = k + 1)
      BY <1>2, <2>2
    <3>2. j # k + 1 => q2[j + 1] = q[i]
      BY <1>1, <1>2, <2>2
    <3>3. j # 1 => q2[j - 1] = q[i - 1]
      BY <1>1, <1>2, <2>2
    <3> QED BY <1>4, <3>1, <3>2, <3>3
  <2>3. CASE ~(j < i) /\ j # i
    <3>1. /\ j - 1 \in 1 .. k /\ q2[j] = q[j - 1] /\ j - 1 # i - 1 /\ j # 1
          /\ (j - 1 = k <=> j = k + 1) /\ (j - 1) + 1 = j
      BY <1>1, <1>2, <1>5, <2>3
    <3>2. j # k + 1 => q2[j + 1] = q[j]
      <4> SUFFICES ASSUME j # k + 1
                   PROVE  q2[j + 1] = q[j]
        OBVIOUS
      <4>1. j + 1 \in 1 .. k + 1 /\ ~(j + 1 < i) /\ j + 1 # i /\ (j + 1) - 1 = j
        BY <1>1, <1>5, <2>3
      <4> QED BY <1>2, <4>1
    <3>3. back2[q[j - 1]] = q2[j - 1]
      <4>1. CASE j - 1 = i
        BY <1>1, <1>2, <1>4, <3>1, <4>1
      <4>2. CASE j - 1 # i
        <5>1. /\ j - 1 # 1 /\ ~(j - 1 < i) /\ j - 1 \in 1 .. k + 1
          BY <1>1, <1>5, <2>3, <4>2
        <5> QED BY <1>2, <1>3, <1>4, <3>1, <4>2, <5>1
      <4> QED BY <4>1, <4>2
    <3> QED BY <1>3, <1>4, <3>1, <3>2, <3>3
  <2> QED BY <2>1, <2>2, <2>3
<1> QED BY <1>2, <1>6, <1>7 DEF Spelled

LEMMA SpelledRemove ==
  ASSUME NEW q \in Seq(Nodes), NEW l, NEW h, NEW h2, NEW link, NEW link2, NEW back, NEW back2,
         Spelled(q, l, h, link, back), NEW i \in 1 .. Len(q),
         NEW q2, Removed(q2, q, i), Unhooked(q, i, h, h2, link, link2, back, back2)
  PROVE  Spelled(q2, l, h2, link2, back2)
<1> DEFINE k == Len(q)
<1>1. k \in Nat
  BY SeqTyped
<1>2. /\ Len(q2) = k - 1
      /\ \A j \in 1 .. k - 1 : q2[j] = IF j < i THEN q[j] ELSE q[j + 1]
  BY DEF Removed
<1>3. /\ h = IF k = 0 THEN NULL ELSE q[1]
      /\ \A j \in 1 .. k : /\ link[q[j]] = IF j = k THEN NULL ELSE q[j + 1]
                           /\ back[q[j]] = IF j = 1 THEN -l ELSE q[j - 1]
  BY DEF Spelled
<1>4. /\ h2 = IF i = 1 THEN link[q[i]] ELSE h
      /\ \A j \in 1 .. k : j # i =>
           /\ link2[q[j]] = IF j = i - 1 THEN link[q[i]] ELSE link[q[j]]
           /\ back2[q[j]] = IF j = i + 1 THEN back[q[i]] ELSE back[q[j]]
  BY DEF Unhooked
<1> HIDE DEF k
<1>5. i \in 1 .. k
  BY DEF k
<1>6. h2 = IF k - 1 = 0 THEN NULL ELSE q2[1]
  <2>1. CASE i = 1
    <3>1. k - 1 # 0 => 1 \in 1 .. k - 1
      BY <1>1, <1>5
    <3>2. k - 1 = 0 <=> i = k
      BY <1>1, <1>5, <2>1
    <3> QED BY <1>2, <1>3, <1>4, <1>5, <2>1, <3>1, <3>2
  <2>2. CASE i # 1
    <3>1. 1 \in 1 .. k - 1 /\ 1 < i /\ k - 1 # 0 /\ k # 0
      BY <1>1, <1>5, <2>2
    <3> QED BY <1>2, <1>3, <1>4, <2>2, <3>1
  <2> QED BY <2>1, <2>2
<1>7. ASSUME NEW j \in 1 .. k - 1
      PROVE  /\ link2[q2[j]] = IF j = k - 1 THEN NULL ELSE q2[j + 1]
             /\ back2[q2[j]] = IF j = 1 THEN -l ELSE q2[j - 1]
  <2>1. CASE j < i
    <3>1. /\ j \in 1 .. k /\ q2[j] = q[j] /\ j # i /\ j # k /\ j # i + 1
      BY <1>1, <1>2, <1>5, <2>1
    <3>2. link2[q[j]] = IF j = k - 1 THEN NULL ELSE q2[j + 1]
      <4>1. CASE j = i - 1
        <5>1. (j = k - 1 <=> i = k) /\ (i # k => j + 1 \in 1 .. k - 1) /\ ~(j + 1 < i)
              /\ (j + 1) + 1 = i + 1
          BY <1>1, <1>5, <4>1
        <5> QED BY <1>2, <1>3, <1>4, <1>5, <3>1, <4>1, <5>1
      <4>2. CASE j # i - 1
        <5>1. j + 1 < i /\ j # k - 1 /\ j + 1 \in 1 .. k - 1
          BY <1>1, <1>5, <2>1, <4>2
        <5> QED BY <1>2, <1>3, <1>4, <3>1, <4>2, <5>1
      <4> QED BY <4>1, <4>2
    <3>3. j # 1 => j - 1 \in 1 .. k - 1 /\ j - 1 < i
      BY <1>1, <1>5, <2>1
    <3> QED BY <1>2, <1>3, <1>4, <3>1, <3>2, <3>3
  <2>2. CASE ~(j < i)
    <3>1. /\ j + 1 \in 1 .. k /\ q2[j] = q[j + 1] /\ j + 1 # i /\ j + 1 # i - 1 /\ j + 1 # 1
          /\ (j + 1 = k <=> j = k - 1) /\ (j + 1) - 1 = j
      BY <1>1, <1>2, <1>5, <2>2
    <3>2. j # k - 1 => q2[j + 1] = q[(j + 1) + 1]
      <4> SUFFICES ASSUME j # k - 1
                   PROVE  q2[j + 1] = q[(j + 1) + 1]
        OBVIOUS
      <4>1. j + 1 \in 1 .. k - 1 /\ ~(j + 1 < i)
        BY <1>1, <1>5, <2>2
      <4> QED BY <1>2, <4>1
    <3>3. back2[q[j + 1]] = IF j = 1 THEN -l ELSE q2[j - 1]
      <4>1. CASE j = i
        <5>1. j # 1 => j - 1 \in 1 .. k - 1 /\ j - 1 < i
          BY <1>1, <4>1
        <5> QED BY <1>2, <1>3, <1>4, <1>5, <3>1, <4>1, <5>1
      <4>2. CASE j # i
        <5>1. j # 1 /\ j - 1 \in 1 .. k - 1 /\ ~(j - 1 < i) /\ (j - 1) + 1 = j /\ j + 1 # i + 1
          BY <1>1, <1>5, <2>2, <4>2
        <5> QED BY <1>2, <1>3, <1>4, <3>1, <5>1
      <4> QED BY <4>1, <4>2
    <3> QED BY <1>3, <1>4, <3>1, <3>2, <3>3
  <2> QED BY <2>1, <2>2
<1> QED BY <1>2, <1>6, <1>7 DEF Spelled
-----------------------------------------------------------------------------
(* The other lists, and all of them together. *)

\* The lists but l keep their heads and pointers.
Elsewhere(L, l, h, h2, link, link2, back, back2) ==
  \A m \in Lists \ {l} :
    /\ h2[m] = h[m]
    /\ \A j \in 1 .. Len(L[m]) :
         link2[L[m][j]] = link[L[m][j]] /\ back2[L[m][j]] = back[L[m][j]]

\* The place i for the value v is behind all that is less.
Fits(q, i, v, val) == \A j \in 1 .. Len(q) : val[q[j]] < v <=> j < i

\* No node but n gets a prev, or another value.
Untouched(n, back, back2, val, val2) ==
  \A x \in Nodes \ {n} : (back2[x] # NULL => back[x] # NULL) /\ val2[x] = val[x]

\* A node without a prev is in no list.
LEMMA NotThere ==
  ASSUME NEW L \in Spellings, NEW h, NEW link, NEW back, NEW val, Spells(L, h, link, back, val),
         NEW n, back[n] = NULL, NEW l \in Lists, NEW i \in 1 .. Len(L[l])
  PROVE  L[l][i] # n
<1>1. L[l] \in Seq(Nodes) /\ Spelled(L[l], l, h[l], link, back)
  BY DEF Spells, Spellings
<1>2. Len(L[l]) \in Nat /\ \A j \in 1 .. Len(L[l]) : L[l][j] # 0
  BY <1>1, SeqTyped
<1>3. l \in Nat \ {0}
  BY Numbers
<1>4. back[L[l][i]] = IF i = 1 THEN -l ELSE L[l][i - 1]
  BY <1>1 DEF Spelled
<1>5. i # 1 => i - 1 \in 1 .. Len(L[l])
  BY <1>2
<1>6. back[L[l][i]] # 0
  BY <1>2, <1>3, <1>4, <1>5
<1> QED BY <1>6

LEMMA SpellsInsert ==
  ASSUME NEW L \in Spellings, NEW h, NEW h2, NEW link, NEW link2, NEW back, NEW back2,
         NEW val \in [Nodes -> Values], NEW val2 \in [Nodes -> Values],
         Spells(L, h, link, back, val),
         NEW l \in Lists, NEW n \in Nodes, back[n] = NULL, NEW i \in 1 .. Len(L[l]) + 1,
         NEW q2, Inserted(q2, L[l], i, n),
         Hooked(L[l], l, i, n, h[l], h2[l], link, link2, back, back2),
         Elsewhere(L, l, h, h2, link, link2, back, back2),
         Untouched(n, back, back2, val, val2), l \in Sorted => Fits(L[l], i, val2[n], val)
  PROVE  /\ [L EXCEPT ![l] = q2] \in Spellings
         /\ Spells([L EXCEPT ![l] = q2], h2, link2, back2, val2)
<1> DEFINE q == L[l]
           M == [L EXCEPT ![l] = q2]
<1>1. /\ L \in [Lists -> Seq(Nodes)] /\ q \in Seq(Nodes) /\ q2 \in Seq(Nodes)
      /\ Len(q) \in Nat /\ Len(q2) = Len(q) + 1
      /\ \A j \in 1 .. Len(q) + 1 : q2[j] = IF j < i THEN q[j] ELSE IF j = i THEN n ELSE q[j - 1]
  BY SeqTyped DEF Spellings, Inserted
<1>2. M \in Spellings /\ M[l] = q2 /\ \A m \in Lists \ {l} : M[m] = L[m]
  BY <1>1 DEF Spellings
<1>3. /\ \A m \in Lists : Spelled(L[m], m, h[m], link, back)
      /\ Distinct(L) /\ Ordered(L, val)
      /\ \A x \in Nodes : back[x] # NULL =>
           \E m \in Lists : \E j \in 1 .. Len(L[m]) : L[m][j] = x
  BY DEF Spells
<1>4. \A m \in Lists : \A j \in 1 .. Len(L[m]) : L[m][j] # n /\ L[m][j] \in Nodes
  BY <1>1, NotThere, SeqTyped
<1> DEFINE Old(j) == IF j < i THEN j ELSE j - 1
<1>5. ASSUME NEW j \in 1 .. Len(q) + 1
      PROVE  IF j = i THEN q2[j] = n ELSE Old(j) \in 1 .. Len(q) /\ q2[j] = q[Old(j)]
  <2>1. CASE j < i
    BY <1>1, <2>1
  <2>2. CASE j = i
    BY <1>1, <2>2
  <2>3. CASE ~(j < i) /\ j # i
    <3>1. j - 1 \in 1 .. Len(q)
      BY <1>1, <2>3
    <3> QED BY <1>1, <2>3, <3>1
  <2> QED BY <2>1, <2>2, <2>3
<1>6. \A j, k \in 1 .. Len(q) + 1 :
        j # i /\ k # i => (Old(j) = Old(k) => j = k) /\ (j <= k => Old(j) <= Old(k))
  BY <1>1
<1>7. ASSUME NEW j \in 1 .. Len(q)
      PROVE  \E k \in 1 .. Len(q) + 1 : q2[k] = q[j]
  <2>1. CASE j < i
    <3>1. j \in 1 .. Len(q) + 1 /\ q2[j] = q[j]
      BY <1>1, <2>1
    <3> QED BY <3>1
  <2>2. CASE ~(j < i)
    <3>1. j + 1 \in 1 .. Len(q) + 1 /\ ~(j + 1 < i) /\ j + 1 # i /\ (j + 1) - 1 = j
      BY <1>1, <2>2
    <3>2. q2[j + 1] = q[j]
      BY <1>1, <3>1
    <3> QED BY <3>1, <3>2
  <2> QED BY <2>1, <2>2
<1> HIDE DEF Old, M
<1>8. ASSUME NEW m \in Lists
      PROVE  Spelled(M[m], m, h2[m], link2, back2)
  <2>1. CASE m = l
    <3>1. Spelled(q, l, h[l], link, back)
      BY <1>3
    <3>2. Spelled(q2, l, h2[l], link2, back2)
      BY <1>1, <3>1, SpelledInsert
    <3> QED BY <1>2, <2>1, <3>2
  <2>2. CASE m # l
    <3>1. /\ h2[m] = h[m] /\ Spelled(L[m], m, h[m], link, back)
          /\ \A j \in 1 .. Len(L[m]) :
               link2[L[m][j]] = link[L[m][j]] /\ back2[L[m][j]] = back[L[m][j]]
      BY <1>3, <2>2 DEF Elsewhere
    <3>2. Spelled(L[m], m, h[m], link2, back2)
      BY <3>1, SpelledFrame
    <3> QED BY <1>2, <2>2, <3>1, <3>2
  <2> QED BY <2>1, <2>2
<1>9. ASSUME NEW m1 \in Lists, NEW m2 \in Lists,
             NEW j \in 1 .. Len(M[m1]), NEW k \in 1 .. Len(M[m2]), M[m1][j] = M[m2][k]
      PROVE  m1 = m2 /\ j = k
  <2>1. CASE m1 = l /\ m2 = l
    <3>1. j \in 1 .. Len(q) + 1 /\ k \in 1 .. Len(q) + 1 /\ q2[j] = q2[k]
      BY <1>1, <1>2, <1>9, <2>1
    <3>2. \A a \in 1 .. Len(q) : q[a] # n
      BY <1>4
    <3>3. j = i <=> k = i
      BY <1>5, <3>1, <3>2
    <3>4. CASE j # i
      <4>1. /\ Old(j) \in 1 .. Len(q) /\ Old(k) \in 1 .. Len(q)
            /\ q[Old(j)] = q[Old(k)]
        BY <1>5, <3>1, <3>3, <3>4
      <4>2. Old(j) = Old(k)
        BY <1>3, <4>1 DEF Distinct
      <4> QED BY <1>6, <2>1, <3>1, <3>3, <3>4, <4>2
    <3> QED BY <2>1, <3>3, <3>4
  <2>2. CASE m1 = l /\ m2 # l
    <3>1. j \in 1 .. Len(q) + 1 /\ k \in 1 .. Len(L[m2]) /\ q2[j] = L[m2][k]
      BY <1>1, <1>2, <1>9, <2>2
    <3>2. Old(j) \in 1 .. Len(q) /\ q[Old(j)] = L[m2][k]
      BY <1>4, <1>5, <3>1
    <3> QED BY <1>3, <2>2, <3>1, <3>2 DEF Distinct
  <2>3. CASE m1 # l /\ m2 = l
    <3>1. j \in 1 .. Len(L[m1]) /\ k \in 1 .. Len(q) + 1 /\ L[m1][j] = q2[k]
      BY <1>1, <1>2, <1>9, <2>3
    <3>2. Old(k) \in 1 .. Len(q) /\ L[m1][j] = q[Old(k)]
      BY <1>4, <1>5, <3>1
    <3> QED BY <1>3, <2>3, <3>1, <3>2 DEF Distinct
  <2>4. CASE m1 # l /\ m2 # l
    BY <1>2, <1>3, <1>9, <2>4 DEF Distinct
  <2> QED BY <2>1, <2>2, <2>3, <2>4
<1>10. ASSUME NEW m \in Sorted, NEW j \in 1 .. Len(M[m]), NEW k \in 1 .. Len(M[m]), j <= k
       PROVE  val2[M[m][j]] <= val2[M[m][k]]
  <2>1. m \in Lists
    BY Numbers
  <2>2. CASE m # l
    <3>1. M[m] = L[m] /\ val2[L[m][j]] = val[L[m][j]] /\ val2[L[m][k]] = val[L[m][k]]
      BY <1>2, <1>4, <2>1, <2>2 DEF Untouched
    <3> QED BY <1>3, <1>10, <3>1 DEF Ordered
  <2>3. CASE m = l
    <3>1. j \in 1 .. Len(q) + 1 /\ k \in 1 .. Len(q) + 1 /\ M[m] = q2 /\ Fits(q, i, val2[n], val)
      BY <1>1, <1>2, <2>3
    <3>2. \A a \in 1 .. Len(q) : val2[q[a]] = val[q[a]] /\ val[q[a]] \in Int
      BY <1>4, Numbers DEF Untouched
    <3>3. val2[n] \in Int
      BY Numbers
    <3>4. CASE j = i /\ k = i
      BY <1>5, <3>1, <3>3, <3>4
    <3>5. CASE j = i /\ k # i
      <4>1. Old(k) \in 1 .. Len(q) /\ q2[k] = q[Old(k)] /\ q2[j] = n
        BY <1>5, <3>1, <3>5
      <4>2. ~(Old(k) < i)
        BY <1>1, <1>10, <3>1, <3>5 DEF Old
      <4> QED BY <3>1, <3>2, <3>3, <4>1, <4>2 DEF Fits
    <3>6. CASE j # i /\ k = i
      <4>1. Old(j) \in 1 .. Len(q) /\ q2[j] = q[Old(j)] /\ q2[k] = n
        BY <1>5, <3>1, <3>6
      <4>2. Old(j) < i
        BY <1>1, <1>10, <3>1, <3>6 DEF Old
      <4> QED BY <3>1, <3>2, <3>3, <4>1, <4>2 DEF Fits
    <3>7. CASE j # i /\ k # i
      <4>1. /\ Old(j) \in 1 .. Len(q) /\ q2[j] = q[Old(j)]
            /\ Old(k) \in 1 .. Len(q) /\ q2[k] = q[Old(k)] /\ Old(j) <= Old(k)
        BY <1>5, <1>6, <1>10, <3>1, <3>7
      <4>2. val[q[Old(j)]] <= val[q[Old(k)]]
        BY <1>3, <2>3, <4>1 DEF Ordered
      <4> QED BY <3>1, <3>2, <4>1, <4>2
    <3> QED BY <3>4, <3>5, <3>6, <3>7
  <2> QED BY <2>2, <2>3
<1>11. ASSUME NEW x \in Nodes, back2[x] # NULL
       PROVE  \E m \in Lists : \E j \in 1 .. Len(M[m]) : M[m][j] = x
  <2>1. CASE x = n
    <3>1. i \in 1 .. Len(M[l]) /\ M[l][i] = n
      BY <1>1, <1>2, <1>5
    <3> QED BY <2>1, <3>1
  <2>2. CASE x # n
    <3>0. PICK m \in Lists : \E j \in 1 .. Len(L[m]) : L[m][j] = x
      BY <1>3, <1>11, <2>2 DEF Untouched
    <3>1. PICK j \in 1 .. Len(L[m]) : L[m][j] = x
      BY <3>0
    <3>2. CASE m = l
      <4>1. PICK k \in 1 .. Len(q) + 1 : q2[k] = q[j]
        BY <1>7, <3>1, <3>2
      <4> QED BY <1>1, <1>2, <3>1, <3>2, <4>1
    <3>3. CASE m # l
      BY <1>2, <3>1, <3>3
    <3> QED BY <3>2, <3>3
  <2> QED BY <2>1, <2>2
<1>12. Distinct(M) /\ Ordered(M, val2)
  BY <1>9, <1>10 DEF Distinct, Ordered
<1>13. Spells(M, h2, link2, back2, val2)
  BY <1>8, <1>11, <1>12 DEF Spells
<1> QED BY <1>2, <1>13 DEF M

LEMMA SpellsRemove ==
  ASSUME NEW L \in Spellings, NEW h, NEW h2, NEW link, NEW link2, NEW back, NEW back2,
         NEW val, Spells(L, h, link, back, val),
         NEW l \in Lists, NEW i \in 1 .. Len(L[l]), back2[L[l][i]] = NULL,
         NEW q2, Removed(q2, L[l], i),
         Unhooked(L[l], i, h[l], h2[l], link, link2, back, back2),
         Elsewhere(L, l, h, h2, link, link2, back, back2),
         Untouched(L[l][i], back, back2, val, val)
  PROVE  /\ [L EXCEPT ![l] = q2] \in Spellings
         /\ Spells([L EXCEPT ![l] = q2], h2, link2, back2, val)
<1> DEFINE q == L[l]
           M == [L EXCEPT ![l] = q2]
           Old(j) == IF j < i THEN j ELSE j + 1
<1>1. /\ L \in [Lists -> Seq(Nodes)] /\ q \in Seq(Nodes) /\ q2 \in Seq(Nodes)
      /\ Len(q) \in Nat /\ Len(q2) = Len(q) - 1
      /\ \A j \in 1 .. Len(q) - 1 : q2[j] = IF j < i THEN q[j] ELSE q[j + 1]
  BY SeqTyped DEF Spellings, Removed
<1>2. M \in Spellings /\ M[l] = q2 /\ \A m \in Lists \ {l} : M[m] = L[m]
  BY <1>1 DEF Spellings
<1>3. /\ \A m \in Lists : Spelled(L[m], m, h[m], link, back)
      /\ Distinct(L) /\ Ordered(L, val)
      /\ \A x \in Nodes : back[x] # NULL =>
           \E m \in Lists : \E j \in 1 .. Len(L[m]) : L[m][j] = x
  BY DEF Spells
<1>4. ASSUME NEW j \in 1 .. Len(q) - 1
      PROVE  Old(j) \in 1 .. Len(q) /\ q2[j] = q[Old(j)]
  BY <1>1
<1>5. \A j, k \in 1 .. Len(q) - 1 : (Old(j) = Old(k) => j = k) /\ (j <= k => Old(j) <= Old(k))
  BY <1>1
<1>6. ASSUME NEW j \in 1 .. Len(q), j # i
      PROVE  \E k \in 1 .. Len(q) - 1 : q2[k] = q[j]
  <2>1. CASE j < i
    <3>1. j \in 1 .. Len(q) - 1 /\ q2[j] = q[j]
      BY <1>1, <2>1
    <3> QED BY <3>1
  <2>2. CASE ~(j < i)
    <3>1. j - 1 \in 1 .. Len(q) - 1 /\ ~(j - 1 < i) /\ (j - 1) + 1 = j
      BY <1>1, <1>6, <2>2
    <3>2. q2[j - 1] = q[j]
      BY <1>1, <3>1
    <3> QED BY <3>1, <3>2
  <2> QED BY <2>1, <2>2
<1> HIDE DEF Old, M
<1>7. ASSUME NEW m \in Lists
      PROVE  Spelled(M[m], m, h2[m], link2, back2)
  <2>1. CASE m = l
    <3>1. Spelled(q, l, h[l], link, back)
      BY <1>3
    <3>2. Spelled(q2, l, h2[l], link2, back2)
      BY <1>1, <3>1, SpelledRemove
    <3> QED BY <1>2, <2>1, <3>2
  <2>2. CASE m # l
    <3>1. /\ h2[m] = h[m] /\ Spelled(L[m], m, h[m], link, back)
          /\ \A j \in 1 .. Len(L[m]) :
               link2[L[m][j]] = link[L[m][j]] /\ back2[L[m][j]] = back[L[m][j]]
      BY <1>3, <2>2 DEF Elsewhere
    <3>2. Spelled(L[m], m, h[m], link2, back2)
      BY <3>1, SpelledFrame
    <3> QED BY <1>2, <2>2, <3>1, <3>2
  <2> QED BY <2>1, <2>2
<1>8. ASSUME NEW m \in Lists, NEW j \in 1 .. Len(M[m])
      PROVE  \E a \in 1 .. Len(L[m]) :
               M[m][j] = L[m][a] /\ a = IF m = l THEN Old(j) ELSE j
  <2>1. CASE m = l
    <3>1. j \in 1 .. Len(q) - 1
      BY <1>1, <1>2, <2>1
    <3> QED BY <1>2, <1>4, <2>1, <3>1
  <2>2. CASE m # l
    BY <1>2, <2>2
  <2> QED BY <2>1, <2>2
<1>9. ASSUME NEW m1 \in Lists, NEW m2 \in Lists,
             NEW j \in 1 .. Len(M[m1]), NEW k \in 1 .. Len(M[m2]), M[m1][j] = M[m2][k]
      PROVE  m1 = m2 /\ j = k
  <2>1. PICK a \in 1 .. Len(L[m1]) : M[m1][j] = L[m1][a] /\ a = IF m1 = l THEN Old(j) ELSE j
    BY <1>8
  <2>2. PICK b \in 1 .. Len(L[m2]) : M[m2][k] = L[m2][b] /\ b = IF m2 = l THEN Old(k) ELSE k
    BY <1>8
  <2>3. m1 = m2 /\ a = b
    <3>1. L[m1][a] = L[m2][b]
      BY <1>9, <2>1, <2>2
    <3> QED BY <1>3, <3>1 DEF Distinct
  <2>4. CASE m1 = l
    <3>1. j \in 1 .. Len(q) - 1 /\ k \in 1 .. Len(q) - 1 /\ Old(j) = Old(k)
      BY <1>1, <1>2, <2>1, <2>2, <2>3, <2>4
    <3> QED BY <1>5, <2>3, <3>1
  <2>5. CASE m1 # l
    BY <2>1, <2>2, <2>3, <2>5
  <2> QED BY <2>4, <2>5
<1>10. ASSUME NEW m \in Sorted, NEW j \in 1 .. Len(M[m]), NEW k \in 1 .. Len(M[m]), j <= k
       PROVE  val[M[m][j]] <= val[M[m][k]]
  <2>1. m \in Lists
    BY Numbers
  <2>2. PICK a \in 1 .. Len(L[m]) : M[m][j] = L[m][a] /\ a = IF m = l THEN Old(j) ELSE j
    BY <1>8, <2>1
  <2>3. PICK b \in 1 .. Len(L[m]) : M[m][k] = L[m][b] /\ b = IF m = l THEN Old(k) ELSE k
    BY <1>8, <2>1
  <2>4. a <= b
    <3>1. CASE m = l
      <4>1. j \in 1 .. Len(q) - 1 /\ k \in 1 .. Len(q) - 1
        BY <1>1, <1>2, <3>1
      <4> QED BY <1>5, <1>10, <2>2, <2>3, <3>1, <4>1
    <3>2. CASE m # l
      BY <1>10, <2>2, <2>3, <3>2
    <3> QED BY <3>1, <3>2
  <2> QED BY <1>3, <2>2, <2>3, <2>4 DEF Ordered
<1>11. ASSUME NEW x \in Nodes, back2[x] # NULL
       PROVE  \E m \in Lists : \E j \in 1 .. Len(M[m]) : M[m][j] = x
  <2>1. x # q[i] /\ back[x] # NULL
    BY <1>11 DEF Untouched
  <2>2. PICK m \in Lists : \E j \in 1 .. Len(L[m]) : L[m][j] = x
    BY <1>3, <2>1
  <2>3. PICK j \in 1 .. Len(L[m]) : L[m][j] = x
    BY <2>2
  <2>4. CASE m = l
    <3>1. PICK k \in 1 .. Len(q) - 1 : q2[k] = q[j]
      BY <1>6, <2>1, <2>3, <2>4
    <3> QED BY <1>1, <1>2, <2>3, <2>4, <3>1
  <2>5. CASE m # l
    BY <1>2, <2>3, <2>5
  <2> QED BY <2>4, <2>5
<1>12. Distinct(M) /\ Ordered(M, val)
  BY <1>9, <1>10 DEF Distinct, Ordered
<1>13. Spells(M, h2, link2, back2, val)
  BY <1>7, <1>11, <1>12 DEF Spells
<1> QED BY <1>2, <1>13 DEF M

-----------------------------------------------------------------------------
(* The operations. *)

\* What an operation makes of the lists: l has q2 now.
Becomes(L, l, q2) ==
  /\ [L EXCEPT ![l] = q2] \in Spellings
  /\ Spells([L EXCEPT ![l] = q2], head', next', prev', value')

\* n hooked in between two neighbours.
Hooks(q, l, i, n) ==
  LET before == IF i = 1 THEN -l ELSE q[i - 1]
      after == IF i = Len(q) + 1 THEN NULL ELSE q[i]
  IN  /\ head' = IF i = 1 THEN [head EXCEPT ![l] = n] ELSE head
      /\ next' = IF i = 1 THEN [next EXCEPT ![n] = after]
                 ELSE [next EXCEPT ![n] = after, ![before] = n]
      /\ prev' = IF after = NULL THEN [prev EXCEPT ![n] = before]
                 ELSE [prev EXCEPT ![n] = before, ![after] = n]

LEMMA HookStep ==
  ASSUME TypeOK, NEW L \in Spellings, Spells(L, head, next, prev, value),
         NEW l \in Lists, NEW n \in Nodes, NEW v \in Values, New(n, v),
         NEW i \in 1 .. Len(L[l]) + 1, l \in Sorted => Fits(L[l], i, v, value),
         Hooks(L[l], l, i, n)
  PROVE  TypeOK' /\ \A q2 : Inserted(q2, L[l], i, n) => Becomes(L, l, q2)
<1> DEFINE q == L[l]
           before == IF i = 1 THEN -l ELSE q[i - 1]
           after == IF i = Len(q) + 1 THEN NULL ELSE q[i]
<1>1. /\ L \in [Lists -> Seq(Nodes)] /\ q \in Seq(Nodes) /\ Len(q) \in Nat
      /\ \A j \in 1 .. Len(q) : q[j] \in Nodes /\ q[j] # 0
      /\ l \in Nat \ {0} /\ n # 0
  BY SeqTyped, Numbers DEF Spellings
<1>2. /\ next \in [Nodes -> Nodes \cup {NULL}]
      /\ prev \in [Nodes -> Nodes \cup {NULL} \cup {-m : m \in Lists}]
      /\ value \in [Nodes -> Values] /\ head \in [Lists -> Nodes \cup {NULL}]
  BY DEF TypeOK
<1>3. prev[n] = NULL /\ value' = [value EXCEPT ![n] = v]
  BY DEF New
<1>4. /\ head' = IF i = 1 THEN [head EXCEPT ![l] = n] ELSE head
      /\ next' = IF i = 1 THEN [next EXCEPT ![n] = after]
                 ELSE [next EXCEPT ![n] = after, ![before] = n]
      /\ prev' = IF after = NULL THEN [prev EXCEPT ![n] = before]
                 ELSE [prev EXCEPT ![n] = before, ![after] = n]
  BY DEF Hooks
<1>5. \A m \in Lists : \A j \in 1 .. Len(L[m]) : L[m][j] # n /\ L[m][j] \in Nodes
  BY <1>1, <1>3, NotThere, SeqTyped
<1>6. i # 1 => i - 1 \in 1 .. Len(q)
  BY <1>1
<1>7. i # Len(q) + 1 => i \in 1 .. Len(q)
  BY <1>1
<1>8. /\ i # 1 => before = q[i - 1] /\ before \in Nodes /\ before # n
      /\ i = 1 => before = -l
  BY <1>1, <1>5, <1>6
<1>9. /\ i # Len(q) + 1 => after = q[i] /\ after \in Nodes /\ after # n /\ after # NULL
      /\ i = Len(q) + 1 => after = NULL
  BY <1>1, <1>5, <1>7
<1>10. Distinct(L)
  BY DEF Spells
<1> HIDE DEF before, after
<1>11. /\ next'[n] = after /\ prev'[n] = before
       /\ \A x \in Nodes \ {n} :
            /\ next'[x] = IF i # 1 /\ x = before THEN n ELSE next[x]
            /\ prev'[x] = IF i # Len(q) + 1 /\ x = after THEN n ELSE prev[x]
  BY <1>2, <1>4, <1>8, <1>9
<1>12. TypeOK'
  <2>1. head' \in [Lists -> Nodes \cup {NULL}]
    BY <1>2, <1>4
  <2>2. next' \in [Nodes -> Nodes \cup {NULL}]
    BY <1>2, <1>4, <1>8, <1>9
  <2>3. prev' \in [Nodes -> Nodes \cup {NULL} \cup {-m : m \in Lists}]
    BY <1>2, <1>4, <1>8, <1>9
  <2>4. value' \in [Nodes -> Values]
    BY <1>2, <1>3
  <2> QED BY <2>1, <2>2, <2>3, <2>4 DEF TypeOK
<1>13. Hooked(q, l, i, n, head[l], head'[l], next, next', prev, prev')
  <2>1. head'[l] = IF i = 1 THEN n ELSE head[l]
    BY <1>2, <1>4
  <2>2. ASSUME NEW j \in 1 .. Len(q)
        PROVE  /\ next'[q[j]] = IF j = i - 1 THEN n ELSE next[q[j]]
               /\ prev'[q[j]] = IF j = i THEN n ELSE prev[q[j]]
    <3>1. q[j] \in Nodes \ {n}
      BY <1>5
    <3>2. i # 1 => (q[j] = q[i - 1] => j = i - 1)
      BY <1>6, <1>10 DEF Distinct
    <3>3. i # Len(q) + 1 => (q[j] = q[i] => j = i)
      BY <1>7, <1>10 DEF Distinct
    <3>4. (j = i - 1 => i # 1) /\ (j = i => i # Len(q) + 1)
      BY <1>1
    <3> QED BY <1>8, <1>9, <1>11, <3>1, <3>2, <3>3, <3>4
  <2> QED BY <1>11, <2>1, <2>2 DEF Hooked, before, after
<1>14. Elsewhere(L, l, head, head', next, next', prev, prev')
  <2> SUFFICES ASSUME NEW m \in Lists \ {l}
               PROVE  /\ head'[m] = head[m]
                      /\ \A j \in 1 .. Len(L[m]) : next'[L[m][j]] = next[L[m][j]]
                                                   /\ prev'[L[m][j]] = prev[L[m][j]]
    BY DEF Elsewhere
  <2>1. head'[m] = head[m]
    BY <1>2, <1>4
  <2>2. ASSUME NEW j \in 1 .. Len(L[m])
        PROVE  next'[L[m][j]] = next[L[m][j]] /\ prev'[L[m][j]] = prev[L[m][j]]
    <3>1. L[m][j] \in Nodes \ {n}
      BY <1>5
    <3>2. \A k \in 1 .. Len(q) : L[m][j] # q[k]
      BY <1>10 DEF Distinct
    <3>3. (i # 1 => L[m][j] # before) /\ (i # Len(q) + 1 => L[m][j] # after)
      BY <1>6, <1>7, <1>8, <1>9, <3>2
    <3> QED BY <1>11, <3>1, <3>3
  <2> QED BY <2>1, <2>2
<1>15. Untouched(n, prev, prev', value, value')
  <2>1. i # Len(q) + 1 => prev[after] # NULL
    <3>1. ASSUME i # Len(q) + 1, prev[after] = NULL
          PROVE  FALSE
      <4>1. q[i] = after /\ i \in 1 .. Len(q)
        BY <1>7, <1>9, <3>1
      <4>2. L[l][i] # after
        BY <3>1, <4>1, NotThere
      <4> QED BY <4>1, <4>2
    <3> QED BY <3>1
  <2>2. \A x \in Nodes \ {n} : value'[x] = value[x]
    BY <1>2, <1>3
  <2> QED BY <1>11, <2>1, <2>2 DEF Untouched
<1>16. value' \in [Nodes -> Values] /\ value'[n] = v
  BY <1>2, <1>3
<1>17. ASSUME NEW q2, Inserted(q2, q, i, n)
       PROVE  Becomes(L, l, q2)
  <2>1. l \in Sorted => Fits(L[l], i, value'[n], value)
    BY <1>16
  <2>2. /\ [L EXCEPT ![l] = q2] \in Spellings
        /\ Spells([L EXCEPT ![l] = q2], head', next', prev', value')
    BY <1>2, <1>3, <1>13, <1>14, <1>15, <1>16, <1>17, <2>1, SpellsInsert
  <2> QED BY <2>2 DEF Becomes
<1> QED BY <1>12, <1>17

LEMMA PushHooks ==
  ASSUME TypeOK, NEW L \in Spellings, Spells(L, head, next, prev, value),
         NEW l \in Lists, NEW n \in Nodes, pushFront(l, n)
  PROVE  Hooks(L[l], l, 1, n)
<1> DEFINE q == L[l]
           h == head[l]
<1>1. /\ q \in Seq(Nodes) /\ Len(q) \in Nat
      /\ \A j \in 1 .. Len(q) : q[j] # 0
  BY SeqTyped DEF Spellings
<1>2. /\ h = IF Len(q) = 0 THEN NULL ELSE q[1]
      /\ \A j \in 1 .. Len(q) : prev[q[j]] = IF j = 1 THEN -l ELSE q[j - 1]
  BY DEF Spells, Spelled
<1>3. /\ next' = [next EXCEPT ![n] = h]
      /\ prev' = IF h = NULL THEN [prev EXCEPT ![n] = -l]
                 ELSE [prev EXCEPT ![n] = prev[h], ![h] = n]
      /\ head' = [head EXCEPT ![l] = n]
  BY DEF pushFront
<1> HIDE DEF h
<1>4. h = IF 1 = Len(q) + 1 THEN NULL ELSE q[1]
  BY <1>1, <1>2
<1>5. h # NULL => prev[h] = -l
  <2>1. h # NULL => 1 \in 1 .. Len(q) /\ h = q[1]
    BY <1>1, <1>2
  <2> QED BY <1>2, <2>1
<1> QED BY <1>3, <1>4, <1>5 DEF Hooks

\* The walk of insert_node_after() stops behind all nodes that are less.
LEMMA WalkHooks ==
  ASSUME TypeOK, NEW L \in Spellings, Spells(L, head, next, prev, value),
         NEW l \in Sorted, NEW n \in Nodes, NEW v \in Values,
         head[l] # NULL, ~(v <= value[head[l]]), insert_node_after(head[l], n, v)
  PROVE  \E i \in 1 .. Len(L[l]) + 1 : Hooks(L[l], l, i, n) /\ Fits(L[l], i, v, value)
<1> DEFINE q == L[l]
           N == Cardinality(Nodes)
           c == Chain(head[l])
           stops == {d \in 0 .. N :
                       c[d] # NULL /\ (next[c[d]] = NULL \/ v <= value[next[c[d]]])}
           s == Min(stops)
           p == c[s]
           r == next[p]
<1>1. /\ l \in Lists /\ q \in Seq(Nodes) /\ Len(q) \in Nat /\ N \in Nat
      /\ \A j \in 1 .. Len(q) : q[j] \in Nodes /\ q[j] # 0
  BY SeqTyped, Numbers DEF Spellings
<1>2. v \in Int /\ \A j \in 1 .. Len(q) : value[q[j]] \in Int
  BY <1>1, Numbers DEF TypeOK
<1>3. /\ Spelled(q, l, head[l], next, prev)
      /\ head[l] = IF Len(q) = 0 THEN NULL ELSE q[1]
      /\ \A j \in 1 .. Len(q) : next[q[j]] = IF j = Len(q) THEN NULL ELSE q[j + 1]
      /\ Once(q)
      /\ \A j, k \in 1 .. Len(q) : j <= k => value[q[j]] <= value[q[k]]
  BY <1>1 DEF Spells, Spelled, Distinct, Once, Ordered
<1>4. Len(q) # 0 /\ value[q[1]] < v
  BY <1>1, <1>2, <1>3
<1>5. Len(q) <= N
  BY <1>1, <1>3, SeqShort DEF Once
<1>6. \A d \in 0 .. N : c[d] = IF d < Len(q) THEN q[d + 1] ELSE NULL
  <2>1. Walk(c, head[l], next)
    BY DEF Chain, Walk
  <2> HIDE DEF c
  <2> QED BY <1>1, <1>3, <2>1, Walked
<1>7. /\ next' = [next EXCEPT ![n] = r, ![p] = n]
      /\ prev' = IF r = NULL THEN [prev EXCEPT ![n] = p]
                 ELSE [prev EXCEPT ![n] = p, ![r] = n]
      /\ head' = head
  BY DEF insert_node_after
<1> HIDE DEF N, c
<1>8. Len(q) - 1 \in stops
  <2>1. Len(q) - 1 \in 0 .. N /\ (Len(q) - 1) + 1 = Len(q) /\ Len(q) \in 1 .. Len(q)
    BY <1>1, <1>4, <1>5
  <2>2. c[Len(q) - 1] = q[Len(q)]
    BY <1>1, <1>6, <2>1
  <2> QED BY <1>1, <1>3, <2>1, <2>2
<1>9. s \in stops /\ \A d \in stops : s <= d
  <2>1. stops \in SUBSET Nat /\ stops # {}
    BY <1>1, <1>8
  <2> HIDE DEF stops
  <2> QED BY <2>1, LeastNumber
<1> HIDE DEF s
<1>10. /\ s \in 0 .. Len(q) - 1 /\ s \in 0 .. N /\ s + 1 \in 1 .. Len(q) /\ p = q[s + 1]
       /\ r = NULL \/ v <= value[r]
       /\ r = IF s + 1 = Len(q) THEN NULL ELSE q[s + 2]
  <2>1. s \in 0 .. N /\ c[s] # NULL /\ (r = NULL \/ v <= value[r])
    BY <1>9
  <2>2. s < Len(q) /\ p = q[s + 1]
    BY <1>6, <2>1
  <2>3. s + 1 \in 1 .. Len(q) /\ (s + 1) + 1 = s + 2
    BY <1>1, <2>1, <2>2
  <2> QED BY <1>1, <1>3, <2>1, <2>2, <2>3
<1>11. ASSUME NEW j \in 1 .. Len(q), j < s + 2
       PROVE  value[q[j]] < v
  <2>1. CASE j = 1
    BY <1>4, <2>1
  <2>2. CASE j # 1
    <3>1. /\ j - 2 \in 0 .. N /\ j - 2 < s /\ j - 2 < Len(q) /\ (j - 2) + 1 = j - 1
          /\ j - 1 \in 1 .. Len(q) /\ j - 1 # Len(q) /\ (j - 1) + 1 = j
      BY <1>1, <1>5, <1>10, <1>11, <2>2
    <3>2. c[j - 2] = q[j - 1] /\ next[q[j - 1]] = q[j]
      BY <1>3, <1>6, <3>1
    <3>3. j - 2 \notin stops
      BY <1>9, <1>10, <3>1
    <3>4. ~(v <= value[q[j]])
      BY <1>1, <3>1, <3>2, <3>3
    <3> QED BY <1>2, <3>4
  <2> QED BY <2>1, <2>2
<1>12. ASSUME NEW j \in 1 .. Len(q), ~(j < s + 2)
       PROVE  ~(value[q[j]] < v)
  <2>1. s + 2 \in 1 .. Len(q) /\ s + 2 <= j /\ s + 1 # Len(q)
    BY <1>1, <1>10, <1>12
  <2>2. v <= value[q[s + 2]]
    BY <1>1, <1>10, <2>1
  <2>3. value[q[s + 2]] <= value[q[j]]
    BY <1>3, <2>1
  <2> QED BY <1>2, <2>1, <2>2, <2>3
<1>13. s + 2 \in 1 .. Len(q) + 1 /\ s + 2 # 1 /\ (s + 2) - 1 = s + 1
       /\ (s + 2 = Len(q) + 1 <=> s + 1 = Len(q))
  BY <1>1, <1>10
<1>14. Fits(q, s + 2, v, value)
  BY <1>11, <1>12 DEF Fits
<1>15. Hooks(q, l, s + 2, n)
  <2>1. p = IF s + 2 = 1 THEN -l ELSE q[(s + 2) - 1]
    BY <1>10, <1>13
  <2>2. r = IF s + 2 = Len(q) + 1 THEN NULL ELSE q[s + 2]
    BY <1>10, <1>13
  <2> HIDE DEF p, r
  <2> QED BY <1>7, <1>13, <2>1, <2>2 DEF Hooks
<1> QED BY <1>13, <1>14, <1>15

LEMMA RemoveStep ==
  ASSUME TypeOK, NEW L \in Spellings, Spells(L, head, next, prev, value),
         NEW n \in Nodes, remove_node(n)
  PROVE  /\ TypeOK' /\ value' = value
         /\ \E l \in Lists : \E i \in 1 .. Len(L[l]) :
              L[l][i] = n /\ \A q2 : Removed(q2, L[l], i) => Becomes(L, l, q2)
<1> DEFINE p == prev[n]
           r == next[n]
<1>1. /\ p # NULL /\ value' = value
      /\ head' = IF IsList(p) THEN [head EXCEPT ![-p] = r] ELSE head
      /\ next' = IF IsList(p) THEN [next EXCEPT ![n] = NULL]
                 ELSE [next EXCEPT ![p] = r, ![n] = NULL]
      /\ prev' = IF r = NULL THEN [prev EXCEPT ![n] = NULL]
                 ELSE [prev EXCEPT ![r] = p, ![n] = NULL]
  BY DEF remove_node
<1>2. PICK l \in Lists : \E j \in 1 .. Len(L[l]) : L[l][j] = n
  BY <1>1 DEF Spells
<1>3. PICK i \in 1 .. Len(L[l]) : L[l][i] = n
  BY <1>2
<1> DEFINE q == L[l]
<1>4. /\ q \in Seq(Nodes) /\ Len(q) \in Nat /\ l \in Nat \ {0} /\ n # 0
      /\ \A j \in 1 .. Len(q) : q[j] \in Nodes /\ q[j] \in Nat /\ q[j] # 0
  BY SeqTyped, Numbers DEF Spellings
<1>5. /\ Spelled(q, l, head[l], next, prev) /\ Distinct(L)
      /\ p = IF i = 1 THEN -l ELSE q[i - 1]
      /\ r = IF i = Len(q) THEN NULL ELSE q[i + 1]
  BY <1>3 DEF Spells, Spelled
<1>6. /\ next \in [Nodes -> Nodes \cup {NULL}]
      /\ prev \in [Nodes -> Nodes \cup {NULL} \cup {-m : m \in Lists}]
      /\ value \in [Nodes -> Values] /\ head \in [Lists -> Nodes \cup {NULL}]
  BY DEF TypeOK
<1>7. /\ i # 1 => i - 1 \in 1 .. Len(q) /\ p = q[i - 1] /\ p \in Nodes /\ ~IsList(p) /\ p # n
      /\ i = 1 => IsList(p) /\ -p = l
  <2>1. CASE i = 1
    <3>1. p = -l /\ -l < 0 /\ -(-l) = l
      BY <1>4, <1>5, <2>1
    <3> QED BY <2>1, <3>1 DEF IsList
  <2>2. CASE i # 1
    <3>1. i - 1 \in 1 .. Len(q) /\ p = q[i - 1] /\ i - 1 # i
      BY <1>4, <1>5, <2>2
    <3>2. p \in Nodes /\ ~(p < 0)
      BY <1>4, <3>1
    <3>3. p # n
      BY <1>3, <1>5, <3>1 DEF Distinct
    <3> QED BY <2>2, <3>1, <3>2, <3>3 DEF IsList
  <2> QED BY <2>1, <2>2
<1>8. /\ i # Len(q) => i + 1 \in 1 .. Len(q) /\ r = q[i + 1] /\ r \in Nodes /\ r # NULL /\ r # n
      /\ i = Len(q) => r = NULL
  <2>1. CASE i # Len(q)
    <3>1. i + 1 \in 1 .. Len(q) /\ r = q[i + 1] /\ i + 1 # i
      BY <1>4, <1>5, <2>1
    <3>2. r # n
      BY <1>3, <1>5, <3>1 DEF Distinct
    <3> QED BY <1>4, <2>1, <3>1, <3>2
  <2> QED BY <1>5, <2>1
<1>9. p \in Nodes \cup {NULL} \cup {-m : m \in Lists} /\ r \in Nodes \cup {NULL}
  BY <1>6
<1> HIDE DEF p, r
<1>10. /\ head' = IF i = 1 THEN [head EXCEPT ![l] = r] ELSE head
       /\ next'[n] = NULL /\ prev'[n] = NULL
       /\ \A x \in Nodes \ {n} :
            /\ next'[x] = IF i # 1 /\ x = p THEN r ELSE next[x]
            /\ prev'[x] = IF i # Len(q) /\ x = r THEN p ELSE prev[x]
  BY <1>1, <1>6, <1>7, <1>8
<1>11. TypeOK'
  <2>1. head' \in [Lists -> Nodes \cup {NULL}]
    BY <1>6, <1>9, <1>10
  <2>2. next' \in [Nodes -> Nodes \cup {NULL}]
    BY <1>1, <1>6, <1>7, <1>9
  <2>3. prev' \in [Nodes -> Nodes \cup {NULL} \cup {-m : m \in Lists}]
    BY <1>1, <1>6, <1>8, <1>9
  <2> QED BY <1>1, <1>6, <2>1, <2>2, <2>3 DEF TypeOK
<1>12. Unhooked(q, i, head[l], head'[l], next, next', prev, prev')
  <2>1. head'[l] = IF i = 1 THEN next[q[i]] ELSE head[l]
    BY <1>3, <1>6, <1>10 DEF r
  <2>2. ASSUME NEW j \in 1 .. Len(q), j # i
        PROVE  /\ next'[q[j]] = IF j = i - 1 THEN next[q[i]] ELSE next[q[j]]
               /\ prev'[q[j]] = IF j = i + 1 THEN prev[q[i]] ELSE prev[q[j]]
    <3>1. q[j] \in Nodes \ {n}
      BY <1>3, <1>4, <1>5, <2>2 DEF Distinct
    <3>2. i # 1 => (q[j] = q[i - 1] => j = i - 1)
      BY <1>5, <1>7 DEF Distinct
    <3>3. i # Len(q) => (q[j] = q[i + 1] => j = i + 1)
      BY <1>5, <1>8 DEF Distinct
    <3>4. (j = i - 1 => i # 1) /\ (j = i + 1 => i # Len(q))
      BY <1>4
    <3>5. r = next[q[i]] /\ p = prev[q[i]]
      BY <1>3 DEF r, p
    <3> QED BY <1>7, <1>8, <1>10, <3>1, <3>2, <3>3, <3>4, <3>5
  <2> QED BY <2>1, <2>2 DEF Unhooked
<1>13. Elsewhere(L, l, head, head', next, next', prev, prev')
  <2> SUFFICES ASSUME NEW m \in Lists \ {l}
               PROVE  /\ head'[m] = head[m]
                      /\ \A j \in 1 .. Len(L[m]) : next'[L[m][j]] = next[L[m][j]]
                                                   /\ prev'[L[m][j]] = prev[L[m][j]]
    BY DEF Elsewhere
  <2>1. head'[m] = head[m]
    BY <1>6, <1>10
  <2>2. ASSUME NEW j \in 1 .. Len(L[m])
        PROVE  next'[L[m][j]] = next[L[m][j]] /\ prev'[L[m][j]] = prev[L[m][j]]
    <3>1. L[m][j] \in Nodes
      BY SeqTyped DEF Spellings
    <3>2. \A k \in 1 .. Len(q) : L[m][j] # q[k]
      BY <1>5 DEF Distinct
    <3>3. /\ L[m][j] # n /\ (i # 1 => L[m][j] # p) /\ (i # Len(q) => L[m][j] # r)
      BY <1>3, <1>7, <1>8, <3>2
    <3> QED BY <1>10, <3>1, <3>3
  <2> QED BY <2>1, <2>2
<1>14. Untouched(L[l][i], prev, prev', value, value)
  <2>1. i # Len(q) => prev[r] # NULL
    <3>1. ASSUME i # Len(q), prev[r] = NULL
          PROVE  FALSE
      <4>1. q[i + 1] = r /\ i + 1 \in 1 .. Len(q)
        BY <1>8, <3>1
      <4>2. L[l][i + 1] # r
        BY <3>1, <4>1, NotThere
      <4> QED BY <4>1, <4>2
    <3> QED BY <3>1
  <2> QED BY <1>3, <1>10, <2>1 DEF Untouched
<1>15. ASSUME NEW q2, Removed(q2, q, i)
       PROVE  Becomes(L, l, q2)
  <2>1. prev'[L[l][i]] = NULL
    BY <1>3, <1>10
  <2>2. /\ [L EXCEPT ![l] = q2] \in Spellings
        /\ Spells([L EXCEPT ![l] = q2], head', next', prev', value)
    BY <1>12, <1>13, <1>14, <1>15, <2>1, SpellsRemove
  <2> QED BY <1>1, <2>2 DEF Becomes
<1> QED BY <1>1, <1>3, <1>11, <1>15
-----------------------------------------------------------------------------
(* The invariant. *)

LEMMA InitInv ==
  ASSUME Init
  PROVE  ListInv /\ Spells([l \in Lists |-> <<>>], head, next, prev, value)
<1> DEFINE L == [l \in Lists |-> <<>>]
<1>1. L \in Spellings
  BY DEF Spellings
<1>2. TypeOK
  BY DEF Init, TypeOK
<1>3. \A l \in Lists : L[l] = <<>> /\ Len(L[l]) = 0 /\ 1 .. Len(L[l]) = {}
  OBVIOUS
<1> HIDE DEF L
<1>4. \A l \in Lists : Spelled(L[l], l, head[l], next, prev)
  BY <1>3 DEF Spelled, Init
<1>5. Distinct(L)
  BY <1>3 DEF Distinct
<1>6. Ordered(L, value)
  BY <1>3, Numbers DEF Ordered
<1>7. Spells(L, head, next, prev, value)
  BY <1>4, <1>5, <1>6 DEF Spells, Init
<1> QED BY <1>1, <1>2, <1>7 DEF ListInv, L

\* The new node goes to the front of an unsorted list.
LEMMA AddStep ==
  ASSUME TypeOK, NEW L \in Spellings, Spells(L, head, next, prev, value),
         NEW l \in Lists \ Sorted, NEW n \in Nodes, NEW v \in Values, add_node(l, n, v)
  PROVE  TypeOK' /\ \A q2 : Inserted(q2, L[l], 1, n) => Becomes(L, l, q2)
<1>1. New(n, v) /\ pushFront(l, n)
  BY DEF add_node
<1>2. 1 \in 1 .. Len(L[l]) + 1
  BY SeqTyped DEF Spellings
<1>3. Hooks(L[l], l, 1, n)
  BY <1>1, PushHooks
<1> QED BY <1>1, <1>2, <1>3, HookStep

\* In a sorted list it goes where it fits.
LEMMA AddSortedStep ==
  ASSUME TypeOK, NEW L \in Spellings, Spells(L, head, next, prev, value),
         NEW l \in Sorted, NEW n \in Nodes, NEW v \in Values, add_sorted_node(l, n, v)
  PROVE  /\ TypeOK'
         /\ \E i \in 1 .. Len(L[l]) + 1 :
              Fits(L[l], i, v, value) /\ \A q2 : Inserted(q2, L[l], i, n) => Becomes(L, l, q2)
<1> DEFINE q == L[l]
<1>1. /\ l \in Lists /\ q \in Seq(Nodes) /\ Len(q) \in Nat /\ New(n, v)
      /\ \A j \in 1 .. Len(q) : q[j] \in Nodes /\ q[j] # 0
  BY SeqTyped, Numbers DEF Spellings, add_sorted_node
<1>2. \E i \in 1 .. Len(q) + 1 : Hooks(q, l, i, n) /\ Fits(q, i, v, value)
  <2>1. CASE head[l] = NULL \/ v <= value[head[l]]
    <3>1. Hooks(q, l, 1, n)
      BY <1>1, <2>1, PushHooks DEF add_sorted_node
    <3>2. /\ head[l] = IF Len(q) = 0 THEN NULL ELSE q[1]
          /\ \A j, k \in 1 .. Len(q) : j <= k => value[q[j]] <= value[q[k]]
      BY <1>1 DEF Spells, Spelled, Ordered
    <3>3. v \in Int /\ \A j \in 1 .. Len(q) : value[q[j]] \in Int
      BY <1>1, Numbers DEF TypeOK
    <3>4. ASSUME NEW j \in 1 .. Len(q)
          PROVE  ~(value[q[j]] < v) /\ ~(j < 1)
      <4>1. 1 \in 1 .. Len(q) /\ 1 <= j /\ Len(q) # 0
        BY <1>1
      <4>2. v <= value[q[1]] /\ value[q[1]] <= value[q[j]]
        BY <1>1, <2>1, <3>2, <4>1
      <4> QED BY <3>3, <4>1, <4>2
    <3>5. Fits(q, 1, v, value)
      BY <3>4 DEF Fits
    <3>6. 1 \in 1 .. Len(q) + 1
      BY <1>1
    <3> QED BY <3>1, <3>5, <3>6
  <2>2. CASE ~(head[l] = NULL \/ v <= value[head[l]])
    <3>1. insert_node_after(head[l], n, v)
      BY <2>2 DEF add_sorted_node
    <3> QED BY <2>2, <3>1, WalkHooks
  <2> QED BY <2>1, <2>2
<1>3. PICK i \in 1 .. Len(q) + 1 : Hooks(q, l, i, n) /\ Fits(q, i, v, value)
  BY <1>2
<1>4. TypeOK' /\ \A q2 : Inserted(q2, L[l], i, n) => Becomes(L, l, q2)
  BY <1>1, <1>3, HookStep
<1> QED BY <1>3, <1>4

LEMMA BecomesInv ==
  ASSUME TypeOK', NEW L \in Spellings, NEW l \in Lists, NEW q2, Becomes(L, l, q2)
  PROVE  ListInv'
BY DEF Becomes, ListInv

LEMMA NextInv ==
  ASSUME ListInv, [Next]_vars
  PROVE  ListInv'
<1>1. TypeOK
  BY DEF ListInv
<1>2. PICK L \in Spellings : Spells(L, head, next, prev, value)
  BY DEF ListInv
<1>3. ASSUME NEW l \in Lists \ Sorted, NEW n \in Nodes, NEW v \in Values, add_node(l, n, v)
      PROVE  ListInv'
  <2>1. TypeOK' /\ \A q2 : Inserted(q2, L[l], 1, n) => Becomes(L, l, q2)
    BY <1>1, <1>2, <1>3, AddStep
  <2>2. Inserted(<<n>> \o L[l], L[l], 1, n)
    BY InFront DEF Spellings
  <2> QED BY <2>1, <2>2, BecomesInv
<1>4. ASSUME NEW l \in Sorted, NEW n \in Nodes, NEW v \in Values, add_sorted_node(l, n, v)
      PROVE  ListInv'
  <2>1. TypeOK'
    BY <1>1, <1>2, <1>4, AddSortedStep
  <2>2. PICK i \in 1 .. Len(L[l]) + 1 :
          \A q2 : Inserted(q2, L[l], i, n) => Becomes(L, l, q2)
    BY <1>1, <1>2, <1>4, AddSortedStep
  <2>3. l \in Lists /\ L[l] \in Seq(Nodes)
    BY Numbers DEF Spellings
  <2>4. \E q2 : Inserted(q2, L[l], i, n)
    BY <2>3, Insertion
  <2> QED BY <2>1, <2>2, <2>3, <2>4, BecomesInv
<1>5. ASSUME NEW n \in Nodes, remove_node(n)
      PROVE  ListInv'
  <2>1. TypeOK'
    BY <1>1, <1>2, <1>5, RemoveStep
  <2>2. PICK l \in Lists : \E i \in 1 .. Len(L[l]) :
              L[l][i] = n /\ \A q2 : Removed(q2, L[l], i) => Becomes(L, l, q2)
    BY <1>1, <1>2, <1>5, RemoveStep
  <2>3. PICK i \in 1 .. Len(L[l]) :
              L[l][i] = n /\ \A q2 : Removed(q2, L[l], i) => Becomes(L, l, q2)
    BY <2>2
  <2>4. \E q2 : Removed(q2, L[l], i)
    BY Removal DEF Spellings
  <2> QED BY <2>1, <2>3, <2>4, BecomesInv
<1>6. CASE UNCHANGED vars
  BY <1>1, <1>2, <1>6 DEF vars, ListInv, TypeOK
<1> QED BY <1>3, <1>4, <1>5, <1>6 DEF Next

\* After any add_node, add_sorted_node and remove_node there are sequences of nodes, one
\* for each list, that the heads and both pointers of the nodes spell out; no node is twice
\* in them, every node with a prev is in one, and those of the sorted lists are sorted.
THEOREM Inductive == Spec => []ListInv
<1>1. Init => ListInv
  BY InitInv
<1>2. ListInv /\ [Next]_vars => ListInv'
  BY NextInv
<1> QED BY <1>1, <1>2, PTL DEF Spec

\* Type correctness: next leads to nodes only, prev to nodes and lists, whichever node
\* remove_node takes out.
THEOREM TypeCorrect == Spec => []TypeOK
<1>1. ListInv => TypeOK
  BY DEF ListInv
<1> QED BY <1>1, Inductive, PTL

LEMMA InvSound ==
  ASSUME ListInv
  PROVE  ListsSound
<1>1. PICK L \in Spellings : Spells(L, head, next, prev, value)
  BY DEF ListInv
<1>2. \A l \in Lists : Listed(l) = L[l] /\ L[l] \in Seq(Nodes)
  BY <1>1, ListedNow DEF Spellings
<1>3. /\ \A l \in Lists : Spelled(L[l], l, head[l], next, prev)
      /\ Distinct(L) /\ Ordered(L, value)
      /\ \A n \in Nodes : prev[n] # NULL =>
           \E l \in Lists : \E i \in 1 .. Len(L[l]) : L[l][i] = n
  BY <1>1 DEF Spells
<1>4. ASSUME NEW l \in Lists, NEW i \in 1 .. Len(L[l])
      PROVE  /\ prev[L[l][i]] = IF i = 1 THEN -l ELSE L[l][i - 1]
             /\ l \in Sorted /\ i > 1 => value[L[l][i - 1]] <= value[L[l][i]]
  <2>1. prev[L[l][i]] = IF i = 1 THEN -l ELSE L[l][i - 1]
    BY <1>3 DEF Spelled
  <2>2. ASSUME l \in Sorted, i > 1
        PROVE  value[L[l][i - 1]] <= value[L[l][i]]
    <3>1. i - 1 \in 1 .. Len(L[l]) /\ i - 1 <= i
      BY <1>2, <2>2, SeqTyped
    <3> QED BY <1>3, <2>2, <3>1 DEF Ordered
  <2> QED BY <2>1, <2>2
<1>5. ASSUME NEW n \in Nodes, prev[n] # NULL
      PROVE  \E l \in Lists : n \in Range(L[l])
  <2>1. PICK l \in Lists : \E i \in 1 .. Len(L[l]) : L[l][i] = n
    BY <1>3, <1>5
  <2>2. PICK i \in 1 .. Len(L[l]) : L[l][i] = n
    BY <2>1
  <2>3. i \in DOMAIN L[l]
    BY <1>2, SeqTyped
  <2> QED BY <2>2, <2>3 DEF Range
<1> QED BY <1>2, <1>3, <1>4, <1>5 DEF ListsSound, Distinct

\* Whoever follows next from a head comes to the end, to nodes whose prev leads back, the
\* first one's to the list itself, and of all lists together to every node with a prev once;
\* check_sorted_list returns true.
THEOREM Sound == Spec => []ListsSound
<1>1. ListInv => ListsSound
  BY InvSound
<1> QED BY <1>1, Inductive, PTL
-----------------------------------------------------------------------------
(* The sequences read off the lists. *)

Mapped == [l \in Lists |-> Listed(l)]

LEMMA MappedNow ==
  ASSUME NEW L \in Spellings, Spells(L, head, next, prev, value)
  PROVE  Mapped = L
<1>1. \A l \in Lists : Listed(l) = L[l]
  BY ListedNow
<1> QED BY <1>1 DEF Mapped, Spellings

LEMMA MappedNext ==
  ASSUME NEW L \in Spellings, NEW l \in Lists, NEW q2, Becomes(L, l, q2)
  PROVE  Mapped' = [L EXCEPT ![l] = q2]
<1> DEFINE M == [L EXCEPT ![l] = q2]
<1>1. M \in Spellings /\ Spells(M, head', next', prev', value')
  BY DEF Becomes
<1> HIDE DEF M
<1>2. \A m \in Lists : Listed(m)' = M[m]
  BY <1>1, ListedNext
<1>3. Mapped' = M
  BY <1>1, <1>2 DEF Mapped, Spellings
<1> QED BY <1>3 DEF M

\* What NodeLists says, of any sequences in place of its variable.
Puts(L, M, l, n, v) ==
  /\ \A m \in Lists : n \notin Range(L[m])
  /\ value' = [value EXCEPT ![n] = v]
  /\ IF l \in Sorted
     THEN \E i \in 1 .. Len(L[l]) + 1 :
            /\ \A j \in 1 .. Len(L[l]) : value[L[l][j]] < v <=> j < i
            /\ M = [L EXCEPT ![l] = SubSeq(@, 1, i - 1) \o <<n>> \o SubSeq(@, i, Len(@))]
     ELSE M = [L EXCEPT ![l] = <<n>> \o @]

TakesOut(L, M, l, n) ==
  /\ \E i \in 1 .. Len(L[l]) :
       L[l][i] = n /\ M = [L EXCEPT ![l] = SubSeq(@, 1, i - 1) \o SubSeq(@, i + 1, Len(@))]
  /\ UNCHANGED value

LEMMA Absent ==
  ASSUME NEW L \in Spellings, Spells(L, head, next, prev, value), NEW n \in Nodes, prev[n] = NULL
  PROVE  \A m \in Lists : n \notin Range(L[m])
<1> SUFFICES ASSUME NEW m \in Lists, n \in Range(L[m])
             PROVE  FALSE
  OBVIOUS
<1>1. L[m] \in [1 .. Len(L[m]) -> Nodes]
  BY SeqTyped DEF Spellings
<1>2. PICK i \in 1 .. Len(L[m]) : L[m][i] = n
  BY <1>1 DEF Range
<1> QED BY <1>2, NotThere

LEMMA Longer ==
  ASSUME NEW q \in Seq(Nodes), NEW q2, NEW i, NEW n, Inserted(q2, q, i, n)
  PROVE  q2 # q
<1>1. Len(q) \in Nat /\ Len(q2) = Len(q) + 1
  BY SeqTyped DEF Inserted
<1> QED BY <1>1

LEMMA Shorter ==
  ASSUME NEW q \in Seq(Nodes), NEW q2, NEW i, Removed(q2, q, i)
  PROVE  q2 # q
<1>1. Len(q) \in Nat /\ Len(q2) = Len(q) - 1
  BY SeqTyped DEF Removed
<1> QED BY <1>1

LEMMA StepMapped ==
  ASSUME ListInv, [Next]_vars
  PROVE  \/ \E l \in Lists :
              /\ Mapped'[l] # Mapped[l]
              /\ \E n \in Nodes : \/ TakesOut(Mapped, Mapped', l, n)
                                 \/ \E v \in Values : Puts(Mapped, Mapped', l, n, v)
         \/ UNCHANGED <<Mapped, value>>
<1>1. TypeOK
  BY DEF ListInv
<1>2. PICK L \in Spellings : Spells(L, head, next, prev, value)
  BY DEF ListInv
<1>3. Mapped = L /\ \A l \in Lists : L[l] \in Seq(Nodes)
  BY <1>2, MappedNow DEF Spellings
<1>4. ASSUME NEW l \in Lists \ Sorted, NEW n \in Nodes, NEW v \in Values, add_node(l, n, v)
      PROVE  Mapped'[l] # L[l] /\ Puts(L, Mapped', l, n, v)
  <2>1. prev[n] = NULL /\ value' = [value EXCEPT ![n] = v]
    BY <1>4 DEF add_node, New
  <2>2. Becomes(L, l, <<n>> \o L[l]) /\ <<n>> \o L[l] # L[l]
    <3>1. \A q2 : Inserted(q2, L[l], 1, n) => Becomes(L, l, q2)
      BY <1>1, <1>2, <1>4, AddStep
    <3>2. Inserted(<<n>> \o L[l], L[l], 1, n)
      BY <1>3, InFront
    <3> QED BY <1>3, <3>1, <3>2, Longer
  <2>3. Mapped' = [L EXCEPT ![l] = <<n>> \o L[l]]
    BY <2>2, MappedNext
  <2>4. \A m \in Lists : n \notin Range(L[m])
    BY <1>2, <2>1, Absent
  <2>5. Mapped'[l] # L[l]
    BY <2>2, <2>3 DEF Spellings
  <2> QED BY <1>4, <2>1, <2>3, <2>4, <2>5 DEF Puts
<1>5. ASSUME NEW l \in Sorted, NEW n \in Nodes, NEW v \in Values, add_sorted_node(l, n, v)
      PROVE  l \in Lists /\ Mapped'[l] # L[l] /\ Puts(L, Mapped', l, n, v)
  <2> DEFINE q == L[l]
  <2>1. prev[n] = NULL /\ value' = [value EXCEPT ![n] = v] /\ l \in Lists
    BY <1>5, Numbers DEF add_sorted_node, New
  <2>2. PICK i \in 1 .. Len(q) + 1 :
          Fits(q, i, v, value) /\ \A q2 : Inserted(q2, q, i, n) => Becomes(L, l, q2)
    BY <1>1, <1>2, <1>5, AddSortedStep
  <2> DEFINE q2 == SubSeq(q, 1, i - 1) \o <<n>> \o SubSeq(q, i, Len(q))
  <2>3. Becomes(L, l, q2) /\ q2 # q
    <3>1. Inserted(q2, q, i, n)
      BY <1>3, <2>1, Insertion
    <3> HIDE DEF q2
    <3> QED BY <1>3, <2>1, <2>2, <3>1, Longer
  <2> HIDE DEF q2
  <2>4. Mapped' = [L EXCEPT ![l] = q2]
    BY <2>1, <2>3, MappedNext
  <2>5. \A m \in Lists : n \notin Range(L[m])
    BY <1>2, <2>1, Absent
  <2>6. Mapped'[l] # L[l]
    BY <2>1, <2>3, <2>4 DEF Spellings
  <2> QED BY <1>3, <2>1, <2>2, <2>4, <2>5, <2>6 DEF Puts, Fits, q2
<1>6. ASSUME NEW n \in Nodes, remove_node(n)
      PROVE  \E l \in Lists : Mapped'[l] # L[l] /\ TakesOut(L, Mapped', l, n)
  <2>1. value' = value
    BY <1>6 DEF remove_node
  <2>2. PICK l \in Lists : \E i \in 1 .. Len(L[l]) :
              L[l][i] = n /\ \A q2 : Removed(q2, L[l], i) => Becomes(L, l, q2)
    BY <1>1, <1>2, <1>6, RemoveStep
  <2> DEFINE q == L[l]
  <2>3. PICK i \in 1 .. Len(q) :
              q[i] = n /\ \A q2 : Removed(q2, q, i) => Becomes(L, l, q2)
    BY <2>2
  <2> DEFINE q2 == SubSeq(q, 1, i - 1) \o SubSeq(q, i + 1, Len(q))
  <2>4. Becomes(L, l, q2) /\ q2 # q
    <3>1. Removed(q2, q, i)
      BY <1>3, Removal
    <3> HIDE DEF q2
    <3> QED BY <1>3, <2>3, <3>1, Shorter
  <2> HIDE DEF q2
  <2>5. Mapped' = [L EXCEPT ![l] = q2]
    BY <2>4, MappedNext
  <2>6. Mapped'[l] # L[l]
    BY <2>4, <2>5 DEF Spellings
  <2> QED BY <1>3, <2>1, <2>3, <2>5, <2>6 DEF TakesOut, q2
<1>7. CASE UNCHANGED vars
  BY <1>7 DEF vars, Mapped, Listed, Chain
<1> QED BY <1>3, <1>4, <1>5, <1>6, <1>7 DEF Next

\* Each operation changes one of the sequences by one node: add_node puts it in front,
\* add_sorted_node behind all nodes that are less and before the others, and remove_node,
\* which is given no list, takes it out of the one it is in.
THEOREM Implements == Spec => ImplementsLists
<1>1. Init => Abstract!Init
  <2> SUFFICES ASSUME Init
               PROVE  Abstract!Init
    OBVIOUS
  <2>1. Mapped = [l \in Lists |-> <<>>]
    <3>1. [l \in Lists |-> <<>>] \in Spellings
      BY DEF Spellings
    <3> QED BY <3>1, InitInv, MappedNow
  <2> QED BY <2>1 DEF Abstract!Init, Init, Mapped
<1>2. ListInv /\ [Next]_vars => [Abstract!Next]_<<Mapped, value>>
  <2> SUFFICES ASSUME ListInv, [Next]_vars
               PROVE  [Abstract!Next]_<<Mapped, value>>
    OBVIOUS
  <2>1. ASSUME NEW l \in Lists, NEW n \in Nodes, TakesOut(Mapped, Mapped', l, n)
        PROVE  Abstract!TakeOut(l, n)
    BY <2>1 DEF TakesOut, Abstract!TakeOut, Abstract!RemoveAt, Mapped
  <2>2. ASSUME NEW l \in Lists, NEW n \in Nodes, NEW v \in Values,
               Puts(Mapped, Mapped', l, n, v)
        PROVE  Abstract!Put(l, n, v)
    BY <2>2 DEF Puts, Abstract!Put, Abstract!Place, Abstract!Push, Abstract!InsertAt,
                Abstract!Listed, Abstract!Range, Range, Mapped
  <2> USE DEF Mapped
  <2> QED BY <2>1, <2>2, StepMapped DEF Abstract!Next
<1> QED BY <1>1, <1>2, Inductive, PTL DEF Spec, ImplementsLists, Abstract!Spec, Mapped

-----------------------------------------------------------------------------
(***************************************************************************)
(* The indexed heap, for any number of items and any costs: after every    *)
(* operation it is a heap whose positions are right, and what leaves it is *)
(* one of the least.                                                       *)
(***************************************************************************)

\* An array of items, with the place of each; the same with a hole.
Arrays == [heap : Seq(HeapItems), hpos : [HeapItems -> Nat]]
Holed == [heap : Seq(HeapItems), hpos : [HeapItems -> Nat], pos : Nat]

Comparisons == [HeapItems -> Int]

\* X are the items of g but for what is in the hole, each at its place, and not key.
Sited(g, n, key, X) ==
  /\ g \in Holed /\ Len(g.heap) = n /\ g.pos < n
  /\ \A i \in 0 .. n - 1 : i # g.pos =>
       /\ At(g, i) \in HeapItems /\ At(g, i) # key /\ At(g, i) \in X
       /\ g.hpos[At(g, i)] = i
  /\ \A v \in X : \E i \in 0 .. n - 1 : i # g.pos /\ At(g, i) = v

\* The heap order around the hole.
OrderedBut(g, n, c) ==
  \A i \in 1 .. n - 1 :
    /\ i # g.pos /\ Father(i) # g.pos => c[At(g, Father(i))] <= c[At(g, i)]
    /\ Father(i) = g.pos /\ g.pos > 0 => c[At(g, Father(g.pos))] <= c[At(g, i)]

\* key may stand above the sons of the hole, and below its father.
FitsAbove(g, n, key, c) == \A i \in 1 .. n - 1 : Father(i) = g.pos => c[key] <= c[At(g, i)]
FitsBelow(g, key, c) == g.pos > 0 => c[At(g, Father(g.pos))] <= c[key]

\* h is a heap of the items X.
Heaped(h, n, X, c) ==
  /\ h \in Arrays /\ Len(h.heap) = n
  /\ \A i \in 0 .. n - 1 :
       At(h, i) \in HeapItems /\ At(h, i) \in X /\ h.hpos[At(h, i)] = i
  /\ \A i \in 1 .. n - 1 : c[At(h, Father(i))] <= c[At(h, i)]
  /\ \A v \in X : \E i \in 0 .. n - 1 : At(h, i) = v

\* r is h with v at p.
IsPut(r, h, p, v) ==
  /\ r \in Arrays /\ Len(r.heap) = Len(h.heap)
  /\ \A i \in 0 .. Len(h.heap) - 1 : At(r, i) = IF i = p THEN v ELSE At(h, i)
  /\ \A u \in HeapItems : r.hpos[u] = IF u = v THEN p ELSE h.hpos[u]

-----------------------------------------------------------------------------
LEMMA Fathers ==
  ASSUME NEW i \in Nat \ {0}
  PROVE  /\ Father(i) \in Nat /\ Father(i) < i
         /\ i = 2 * Father(i) + 1 \/ i = 2 * Father(i) + 2
BY DEF Father

LEMMA Sons ==
  ASSUME NEW p \in Nat
  PROVE  /\ Father(2 * p + 1) = p /\ Father(2 * p + 2) = p
         /\ p < 2 * p + 1 /\ 2 * p + 1 \in Nat \ {0} /\ 2 * p + 2 \in Nat \ {0}
BY DEF Father

LEMMA PutAt ==
  ASSUME NEW h, h.heap \in Seq(HeapItems), h.hpos \in [HeapItems -> Nat],
         NEW p \in 0 .. Len(h.heap) - 1, NEW v \in HeapItems
  PROVE  IsPut(Put(h, p, v), h, p, v)
<1> DEFINE q == h.heap
<1>1. Len(q) \in Nat /\ q \in [1 .. Len(q) -> HeapItems] /\ p + 1 \in 1 .. Len(q)
  BY LenProperties
<1>2. /\ [q EXCEPT ![p + 1] = v] \in Seq(HeapItems)
      /\ Len([q EXCEPT ![p + 1] = v]) = Len(q)
  BY <1>1, ExceptSeq
<1>3. ASSUME NEW i \in 0 .. Len(q) - 1
      PROVE  [q EXCEPT ![p + 1] = v][i + 1] = IF i = p THEN v ELSE q[i + 1]
  <2>1. i + 1 \in 1 .. Len(q) /\ (i + 1 = p + 1 <=> i = p)
    BY <1>1
  <2> QED BY <1>1, <2>1
<1> QED BY <1>1, <1>2, <1>3 DEF IsPut, Put, At, Arrays

LEMMA AtTyped ==
  ASSUME NEW h, h.heap \in Seq(HeapItems), NEW i \in 0 .. Len(h.heap) - 1
  PROVE  At(h, i) \in HeapItems
<1>1. Len(h.heap) \in Nat /\ h.heap \in [1 .. Len(h.heap) -> HeapItems]
  BY LenProperties
<1>2. i + 1 \in 1 .. Len(h.heap)
  BY <1>1
<1> QED BY <1>1, <1>2 DEF At

\* A turn of either loop.
LEMMA TurnMoves ==
  ASSUME NEW n \in Nat, NEW key \in HeapItems, NEW X, NEW g, Sited(g, n, key, X),
         NEW q \in 0 .. n - 1, q # g.pos
  PROVE  /\ Sited(Moved(g, q), n, key, X) /\ Moved(g, q).pos = q
         /\ \A i \in 0 .. n - 1 : At(Moved(g, q), i) = IF i = g.pos THEN At(g, q) ELSE At(g, i)
<1> DEFINE u == At(g, q)
           m == Put(g, g.pos, u)
           w == Moved(g, q)
<1>1. /\ g.heap \in Seq(HeapItems) /\ g.hpos \in [HeapItems -> Nat] /\ g.pos \in 0 .. n - 1
      /\ Len(g.heap) = n
  BY DEF Sited, Holed
<1>2. u \in HeapItems /\ u # key /\ u \in X
  BY DEF Sited
<1>3. /\ m \in Arrays /\ Len(m.heap) = n
      /\ \A i \in 0 .. n - 1 : At(m, i) = IF i = g.pos THEN u ELSE At(g, i)
      /\ \A x \in HeapItems : m.hpos[x] = IF x = u THEN g.pos ELSE g.hpos[x]
  <2>1. g.pos \in 0 .. Len(g.heap) - 1
    BY <1>1
  <2>2. /\ m \in Arrays /\ Len(m.heap) = Len(g.heap)
        /\ \A i \in 0 .. Len(g.heap) - 1 : At(m, i) = IF i = g.pos THEN u ELSE At(g, i)
        /\ \A x \in HeapItems : m.hpos[x] = IF x = u THEN g.pos ELSE g.hpos[x]
    <3>1. IsPut(m, g, g.pos, u)
      BY <1>1, <1>2, <2>1, PutAt
    <3> QED BY <3>1 DEF IsPut
  <2> QED BY <1>1, <2>2
<1> HIDE DEF m
<1>4. w.heap = m.heap /\ w.hpos = m.hpos /\ w.pos = q /\ w \in Holed /\ w.pos \in Nat
  BY <1>3 DEF Moved, Hole, Arrays, Holed, m
<1>5. \A i \in 0 .. n - 1 : At(w, i) = IF i = g.pos THEN u ELSE At(g, i)
  BY <1>3, <1>4 DEF At
<1> HIDE DEF w
<1>6. ASSUME NEW i \in 0 .. n - 1, i # q
      PROVE  /\ At(w, i) \in HeapItems /\ At(w, i) # key /\ At(w, i) \in X
             /\ w.hpos[At(w, i)] = i
  <2>1. CASE i = g.pos
    BY <1>2, <1>3, <1>4, <1>5, <2>1
  <2>2. CASE i # g.pos
    <3>1. /\ At(w, i) = At(g, i)
          /\ At(g, i) \in HeapItems /\ At(g, i) # key /\ At(g, i) \in X
          /\ g.hpos[At(g, i)] = i /\ g.hpos[u] = q
      BY <1>5, <2>2 DEF Sited
    <3> QED BY <1>3, <1>4, <1>6, <3>1
  <2> QED BY <2>1, <2>2
<1>7. ASSUME NEW v \in X
      PROVE  \E i \in 0 .. n - 1 : i # q /\ At(w, i) = v
  <2>1. PICK j \in 0 .. n - 1 : j # g.pos /\ At(g, j) = v
    BY DEF Sited
  <2> QED BY <1>1, <1>5, <2>1
<1>8. Sited(w, n, key, X)
  BY <1>3, <1>4, <1>6, <1>7 DEF Sited
<1> QED BY <1>4, <1>5, <1>8 DEF w, u

\* The key fills the hole.
LEMMA FilledHeap ==
  ASSUME NEW n \in Nat, NEW key \in HeapItems, NEW X, NEW g, NEW c,
         Sited(g, n, key, X), OrderedBut(g, n, c), FitsAbove(g, n, key, c), FitsBelow(g, key, c)
  PROVE  Heaped(Filled(g, key), n, X \cup {key}, c)
<1> DEFINE r == Filled(g, key)
<1>1. /\ g.heap \in Seq(HeapItems) /\ g.hpos \in [HeapItems -> Nat] /\ g.pos \in 0 .. n - 1
      /\ Len(g.heap) = n
  BY DEF Sited, Holed
<1>2. /\ r \in Arrays /\ Len(r.heap) = n
      /\ \A i \in 0 .. n - 1 : At(r, i) = IF i = g.pos THEN key ELSE At(g, i)
      /\ \A x \in HeapItems : r.hpos[x] = IF x = key THEN g.pos ELSE g.hpos[x]
  <2>1. g.pos \in 0 .. Len(g.heap) - 1
    BY <1>1
  <2>2. /\ r \in Arrays /\ Len(r.heap) = Len(g.heap)
        /\ \A i \in 0 .. Len(g.heap) - 1 : At(r, i) = IF i = g.pos THEN key ELSE At(g, i)
        /\ \A x \in HeapItems : r.hpos[x] = IF x = key THEN g.pos ELSE g.hpos[x]
    <3>1. IsPut(Put(g, g.pos, key), g, g.pos, key)
      BY <1>1, <2>1, PutAt
    <3> QED BY <3>1 DEF IsPut, Filled
  <2> QED BY <1>1, <2>2
<1> HIDE DEF r
<1>3. ASSUME NEW i \in 0 .. n - 1
      PROVE  At(r, i) \in HeapItems /\ At(r, i) \in X \cup {key} /\ r.hpos[At(r, i)] = i
  <2>1. CASE i = g.pos
    BY <1>2, <2>1
  <2>2. CASE i # g.pos
    BY <1>2, <2>2 DEF Sited
  <2> QED BY <2>1, <2>2
<1>4. ASSUME NEW i \in 1 .. n - 1
      PROVE  c[At(r, Father(i))] <= c[At(r, i)]
  <2>1. Father(i) \in 0 .. n - 1 /\ Father(i) # i /\ i \in 0 .. n - 1
    BY Fathers
  <2>2. CASE i = g.pos
    BY <1>2, <2>1, <2>2 DEF FitsBelow
  <2>3. CASE Father(i) = g.pos
    BY <1>2, <2>1, <2>3 DEF FitsAbove
  <2>4. CASE i # g.pos /\ Father(i) # g.pos
    BY <1>2, <2>1, <2>4 DEF OrderedBut
  <2> QED BY <2>2, <2>3, <2>4
<1>5. ASSUME NEW v \in X \cup {key}
      PROVE  \E i \in 0 .. n - 1 : At(r, i) = v
  <2>1. CASE v = key
    BY <1>1, <1>2, <2>1
  <2>2. CASE v \in X
    BY <1>2, <2>2 DEF Sited
  <2> QED BY <2>1, <2>2
<1> QED BY <1>2, <1>3, <1>4, <1>5 DEF Heaped, r

\* The items around the hole have a cost.
LEMMA Costed ==
  ASSUME NEW n \in Nat, NEW key, NEW X, NEW g, NEW c \in Comparisons, Sited(g, n, key, X),
         NEW i \in 0 .. n - 1, i # g.pos
  PROVE  c[At(g, i)] \in Int
BY DEF Sited, Comparisons

\* What a turn of adjustUp keeps.
CanClimb(g, key, c) == g.pos > 0 /\ c[key] < c[At(g, Father(g.pos))]
Climbing(g, n, key, X, c) ==
  Sited(g, n, key, X) /\ OrderedBut(g, n, c) /\ FitsAbove(g, n, key, c)

LEMMA ClimbTurn ==
  ASSUME NEW n \in Nat, NEW key \in HeapItems, NEW X, NEW g, NEW c \in Comparisons,
         Climbing(g, n, key, X, c), CanClimb(g, key, c)
  PROVE  /\ Climbing(Climb(g, key, c), n, key, X, c)
         /\ Climb(g, key, c).pos < g.pos
<1> DEFINE p == g.pos
           q == Father(p)
           w == Moved(g, q)
<1>1. /\ p \in Nat \ {0} /\ p \in 0 .. n - 1
      /\ Sited(g, n, key, X) /\ OrderedBut(g, n, c) /\ FitsAbove(g, n, key, c)
      /\ c[key] < c[At(g, q)] /\ c[key] \in Int
  BY DEF Climbing, CanClimb, Sited, Holed, Comparisons
<1>2. q \in 0 .. n - 1 /\ q < p /\ q \in Nat
  BY <1>1, Fathers
<1>3. Climb(g, key, c) = w
  BY DEF CanClimb, Climb
<1>4. /\ Sited(w, n, key, X) /\ w.pos = q
      /\ \A i \in 0 .. n - 1 : At(w, i) = IF i = p THEN At(g, q) ELSE At(g, i)
  BY <1>1, <1>2, TurnMoves
<1>5. \A i \in 0 .. n - 1 : i # p => c[At(g, i)] \in Int
  BY <1>1, Costed
<1>6. \A i \in 1 .. n - 1 : Father(i) \in 0 .. n - 1 /\ Father(i) < i /\ i \in 0 .. n - 1
  BY Fathers
<1> HIDE DEF w, q
<1>7. ASSUME NEW i \in 1 .. n - 1, Father(i) = p
      PROVE  c[At(g, q)] <= c[At(g, i)]
  BY <1>1, <1>7 DEF OrderedBut, q
<1>8. ASSUME NEW i \in 1 .. n - 1, Father(i) = q, i # p
      PROVE  c[At(g, q)] <= c[At(g, i)]
  <2>1. Father(i) # p
    BY <1>2, <1>8
  <2> QED BY <1>1, <1>8, <2>1 DEF OrderedBut
<1>9. ASSUME NEW i \in 1 .. n - 1, i # q, Father(i) # q
      PROVE  c[At(w, Father(i))] <= c[At(w, i)]
  <2>1. i # p
    BY <1>9 DEF q
  <2>2. At(w, i) = At(g, i)
    BY <1>4, <1>6, <2>1
  <2>3. CASE Father(i) = p
    BY <1>4, <1>6, <1>7, <2>2, <2>3
  <2>4. CASE Father(i) # p
    BY <1>1, <1>4, <1>6, <2>1, <2>2, <2>4 DEF OrderedBut
  <2> QED BY <2>3, <2>4
<1>10. ASSUME q > 0
       PROVE  /\ Father(q) \in 0 .. n - 1 /\ Father(q) # p /\ At(w, Father(q)) = At(g, Father(q))
              /\ c[At(g, Father(q))] <= c[At(g, q)]
  <2>1. q \in 1 .. n - 1
    BY <1>2, <1>10
  <2>2. Father(q) \in 0 .. n - 1 /\ Father(q) < q
    BY <1>6, <2>1
  <2>3. Father(q) # p /\ q # p
    BY <1>1, <1>2, <2>2
  <2> QED BY <1>1, <1>4, <2>1, <2>2, <2>3 DEF OrderedBut
<1>11. ASSUME NEW i \in 1 .. n - 1, Father(i) = q
       PROVE  /\ c[At(g, q)] <= c[At(w, i)]
              /\ c[At(w, i)] \in Int
  <2>1. i \in 0 .. n - 1 /\ q # p /\ c[At(g, q)] \in Int
    BY <1>1, <1>2, <1>5
  <2>2. CASE i = p
    BY <1>4, <2>1, <2>2
  <2>3. CASE i # p
    BY <1>4, <1>5, <1>8, <1>11, <2>1, <2>3
  <2> QED BY <2>2, <2>3
<1>12. OrderedBut(w, n, c)
  <2> SUFFICES ASSUME NEW i \in 1 .. n - 1
               PROVE  /\ i # q /\ Father(i) # q => c[At(w, Father(i))] <= c[At(w, i)]
                      /\ Father(i) = q /\ q > 0 => c[At(w, Father(q))] <= c[At(w, i)]
    BY <1>4 DEF OrderedBut
  <2>1. ASSUME Father(i) = q, q > 0
        PROVE  c[At(w, Father(q))] <= c[At(w, i)]
    <3>1. c[At(g, Father(q))] \in Int /\ c[At(g, q)] \in Int
      BY <1>1, <1>2, <1>5, <1>10, <2>1
    <3> QED BY <1>10, <1>11, <2>1, <3>1
  <2> QED BY <1>9, <2>1
<1>13. FitsAbove(w, n, key, c)
  <2>1. c[At(g, q)] \in Int
    BY <1>1, <1>2, <1>5
  <2> QED BY <1>1, <1>4, <1>11, <2>1 DEF FitsAbove
<1> QED BY <1>2, <1>3, <1>4, <1>12, <1>13 DEF Climbing

\* The function of the turns exists.
Climbs(g, N, x, key, c) ==
  g = [i \in 0 .. N |-> IF i = 0 THEN x ELSE Climb(g[i - 1], key, c)]

LEMMA ClimbsExist ==
  ASSUME NEW x, NEW key, NEW c, NEW N \in Nat
  PROVE  \E g : Climbs(g, N, x, key, c)
<1> DEFINE G == {n \in Nat : \E g : Climbs(g, n, x, key, c)}
<1>1. 0 \in G
  <2>1. Climbs([i \in 0 .. 0 |-> x], 0, x, key, c)
    BY DEF Climbs
  <2> QED BY <2>1
<1>2. ASSUME NEW n \in G
      PROVE  n + 1 \in G
  <2>1. PICK g : Climbs(g, n, x, key, c)
    OBVIOUS
  <2> DEFINE h == [i \in 0 .. n + 1 |-> IF i = n + 1 THEN Climb(g[n], key, c) ELSE g[i]]
  <2>2. ASSUME NEW i \in 0 .. n + 1
        PROVE  h[i] = IF i = 0 THEN x ELSE Climb(h[i - 1], key, c)
    <3>1. CASE i = n + 1
      <4>1. n \in 0 .. n + 1 /\ n # n + 1 /\ i # 0 /\ i - 1 = n
        BY <3>1
      <4> QED BY <3>1, <4>1
    <3>2. CASE i # n + 1
      <4>1. i \in 0 .. n /\ h[i] = g[i]
        BY <3>2
      <4>2. i # 0 => i - 1 \in 0 .. n + 1 /\ i - 1 # n + 1
        BY <4>1
      <4>3. g[i] = IF i = 0 THEN x ELSE Climb(g[i - 1], key, c)
        BY <2>1, <4>1 DEF Climbs
      <4> QED BY <4>1, <4>2, <4>3
    <3> QED BY <3>1, <3>2
  <2> HIDE DEF h
  <2>3. h = [i \in 0 .. n + 1 |-> IF i = 0 THEN x ELSE Climb(h[i - 1], key, c)]
    <3>1. h = [i \in 0 .. n + 1 |-> h[i]]
      BY DEF h
    <3> QED BY <2>2, <3>1
  <2> QED BY <2>3 DEF Climbs
<1>3. G = Nat
  <2>1. G \in SUBSET Nat
    OBVIOUS
  <2> HIDE DEF G
  <2> QED BY <1>1, <1>2, <2>1, NumberInduction
<1> QED BY <1>3

\* adjustUp: the key finds its place among its ancestors.
LEMMA AdjustedUp ==
  ASSUME NEW h, NEW n \in Nat, NEW key \in HeapItems, NEW X, NEW c \in Comparisons,
         Len(h.heap) = n, Climbing(Hole(h, h.hpos[key]), n, key, X, c)
  PROVE  Heaped(adjustUp(h, key, c), n, X \cup {key}, c)
<1> DEFINE x == Hole(h, h.hpos[key])
           g == CHOOSE f : Climbs(f, n, x, key, c)
           D == {i \in Nat : i <= n => /\ Climbing(g[i], n, key, X, c)
                                       /\ g[i].pos + i <= x.pos \/ ~CanClimb(g[i], key, c)}
<1>1. Climbs(g, n, x, key, c)
  BY ClimbsExist
<1>2. adjustUp(h, key, c) = Filled(g[n], key)
  BY DEF adjustUp, Climbs
<1>3. x.pos \in Nat /\ x.pos < n
  BY DEF Climbing, Sited, Holed
<1> HIDE DEF g, x
<1>4. /\ g[0] = x
      /\ \A i \in 1 .. n : g[i] = Climb(g[i - 1], key, c)
  BY <1>1 DEF Climbs
<1>5. 0 \in D
  BY <1>3, <1>4 DEF x
<1>6. ASSUME NEW i \in D
      PROVE  i + 1 \in D
  <2> SUFFICES ASSUME i + 1 <= n
               PROVE  /\ Climbing(g[i + 1], n, key, X, c)
                      /\ \/ g[i + 1].pos + (i + 1) <= x.pos
                         \/ ~CanClimb(g[i + 1], key, c)
    OBVIOUS
  <2>1. /\ Climbing(g[i], n, key, X, c)
        /\ g[i].pos + i <= x.pos \/ ~CanClimb(g[i], key, c)
    BY <1>6
  <2>2. g[i + 1] = Climb(g[i], key, c)
    <3>1. i + 1 \in 1 .. n /\ (i + 1) - 1 = i
      BY <1>6
    <3> QED BY <1>4, <3>1
  <2>3. CASE CanClimb(g[i], key, c)
    <3>1. Climbing(g[i + 1], n, key, X, c) /\ g[i + 1].pos < g[i].pos
      BY <2>1, <2>2, <2>3, ClimbTurn
    <3>2. g[i + 1].pos \in Nat /\ g[i].pos \in Nat
      BY <2>1, <3>1 DEF Climbing, Sited, Holed
    <3> QED BY <1>3, <2>1, <2>3, <3>1, <3>2
  <2>4. CASE ~CanClimb(g[i], key, c)
    <3>1. g[i + 1] = g[i]
      BY <2>2, <2>4 DEF CanClimb, Climb
    <3> QED BY <2>1, <2>4, <3>1
  <2> QED BY <2>3, <2>4
<1>7. D = Nat
  <2>1. D \in SUBSET Nat
    OBVIOUS
  <2> HIDE DEF D
  <2> QED BY <1>5, <1>6, <2>1, NumberInduction
<1>8. Climbing(g[n], n, key, X, c) /\ ~CanClimb(g[n], key, c)
  <2>1. n \in D
    BY <1>7
  <2>2. /\ Climbing(g[n], n, key, X, c)
        /\ g[n].pos + n <= x.pos \/ ~CanClimb(g[n], key, c)
    BY <2>1
  <2>3. g[n].pos \in Nat
    BY <2>2 DEF Climbing, Sited, Holed
  <2> QED BY <1>3, <2>2, <2>3
<1>9. FitsBelow(g[n], key, c)
  <2> SUFFICES ASSUME g[n].pos > 0
               PROVE  c[At(g[n], Father(g[n].pos))] <= c[key]
    BY DEF FitsBelow
  <2> DEFINE p == g[n].pos
  <2>1. /\ Sited(g[n], n, key, X) /\ p \in Nat \ {0} /\ p < n /\ c[key] \in Int
        /\ ~(c[key] < c[At(g[n], Father(p))])
    <3>1. Sited(g[n], n, key, X) /\ c[key] \in Int
      BY <1>8 DEF Climbing, Comparisons
    <3>2. p \in Nat /\ p < n
      BY <3>1 DEF Sited, Holed
    <3> QED BY <1>8, <3>1, <3>2 DEF CanClimb
  <2>2. Father(p) \in 0 .. n - 1 /\ Father(p) # p
    BY <2>1, Fathers
  <2> HIDE DEF p
  <2>3. c[At(g[n], Father(p))] \in Int
    BY <2>1, <2>2, Costed DEF p
  <2> QED BY <2>1, <2>3 DEF p
<1> QED BY <1>2, <1>8, <1>9, FilledHeap DEF Climbing

\* What a turn of adjustDown keeps.
CanSink(g, key, c) ==
  2 * g.pos + 1 < Len(g.heap) /\ ~(c[key] < c[At(g, LesserSon(g, c))])
Sinking(g, n, key, X, c) ==
  Sited(g, n, key, X) /\ OrderedBut(g, n, c) /\ FitsBelow(g, key, c)

LEMMA LesserSonIs ==
  ASSUME NEW n \in Nat, NEW key, NEW X, NEW g, NEW c \in Comparisons,
         Sited(g, n, key, X), 2 * g.pos + 1 < Len(g.heap)
  PROVE  /\ LesserSon(g, c) \in 1 .. n - 1 /\ Father(LesserSon(g, c)) = g.pos
         /\ LesserSon(g, c) > g.pos
         /\ \A i \in 1 .. n - 1 : Father(i) = g.pos => c[At(g, LesserSon(g, c))] <= c[At(g, i)]
<1> DEFINE p == g.pos
           l == 2 * p + 1
           m == LesserSon(g, c)
<1>1. p \in Nat /\ p < n /\ Len(g.heap) = n /\ l < n
  BY DEF Sited, Holed
<1>2. /\ Father(l) = p /\ Father(l + 1) = p /\ p < l
      /\ l \in 1 .. n - 1 /\ l \in 0 .. n - 1 /\ l # p
  <2>1. l + 1 = 2 * p + 2
    BY <1>1
  <2>2. Father(2 * p + 1) = p /\ Father(2 * p + 2) = p
    <3> HIDE DEF p
    <3> QED BY <1>1, Sons
  <2> QED BY <1>1, <2>1, <2>2
<1>3. c[At(g, l)] \in Int
  BY <1>2, Costed
<1>4. l + 1 < n => /\ l + 1 \in 1 .. n - 1 /\ l + 1 \in 0 .. n - 1 /\ l + 1 # p
                   /\ c[At(g, l + 1)] \in Int
  <2> SUFFICES ASSUME l + 1 < n
               PROVE  /\ l + 1 \in 1 .. n - 1 /\ l + 1 \in 0 .. n - 1 /\ l + 1 # p
                      /\ c[At(g, l + 1)] \in Int
    OBVIOUS
  <2>1. l + 1 \in 1 .. n - 1 /\ l + 1 \in 0 .. n - 1 /\ l + 1 # p
    BY <1>1
  <2>2. c[At(g, l + 1)] \in Int
    BY <2>1, Costed
  <2> QED BY <2>1, <2>2
<1>5. m = IF l + 1 < n /\ c[At(g, l + 1)] < c[At(g, l)] THEN l + 1 ELSE l
  BY <1>1 DEF LesserSon
<1> HIDE DEF m
<1>6. ASSUME NEW i \in 1 .. n - 1, Father(i) = p
      PROVE  i = l \/ i = l + 1
  BY <1>1, <1>6, Fathers
<1> HIDE DEF l
<1>7. m \in 1 .. n - 1 /\ Father(m) = p /\ m > p
  BY <1>1, <1>2, <1>4, <1>5
<1>8. ASSUME NEW i \in 1 .. n - 1, Father(i) = p
      PROVE  c[At(g, m)] <= c[At(g, i)]
  <2>1. i = l \/ i = l + 1
    BY <1>6, <1>8
  <2>2. l \in Nat /\ i < n
    BY <1>1, <1>2
  <2> QED BY <1>3, <1>4, <1>5, <2>1, <2>2
<1> QED BY <1>7, <1>8 DEF m

LEMMA SinkTurn ==
  ASSUME NEW n \in Nat, NEW key \in HeapItems, NEW X, NEW g, NEW c \in Comparisons,
         Sinking(g, n, key, X, c), CanSink(g, key, c)
  PROVE  /\ Sinking(Sink(g, key, c), n, key, X, c)
         /\ Sink(g, key, c).pos > g.pos
<1> DEFINE p == g.pos
           m == LesserSon(g, c)
           w == Moved(g, m)
<1>1. /\ p \in Nat /\ p < n /\ p \in 0 .. n - 1 /\ Len(g.heap) = n
      /\ Sited(g, n, key, X) /\ OrderedBut(g, n, c)
      /\ c[key] \in Int /\ ~(c[key] < c[At(g, m)]) /\ 2 * p + 1 < Len(g.heap)
  BY DEF Sinking, CanSink, Sited, Holed, Comparisons
<1>2. /\ m \in 1 .. n - 1 /\ Father(m) = p /\ m > p
      /\ \A i \in 1 .. n - 1 : Father(i) = p => c[At(g, m)] <= c[At(g, i)]
  BY <1>1, LesserSonIs
<1>3. Sink(g, key, c) = w
  BY DEF CanSink, Sink
<1> HIDE DEF m
<1>4. m \in 0 .. n - 1 /\ m # p /\ m \in Nat
  BY <1>1, <1>2
<1>5. /\ Sited(w, n, key, X) /\ w.pos = m
      /\ \A i \in 0 .. n - 1 : At(w, i) = IF i = p THEN At(g, m) ELSE At(g, i)
  BY <1>1, <1>4, TurnMoves
<1> HIDE DEF w
<1>6. \A i \in 0 .. n - 1 : i # p => c[At(g, i)] \in Int
  BY <1>1, Costed
<1>7. \A i \in 1 .. n - 1 : Father(i) \in 0 .. n - 1 /\ Father(i) < i /\ i \in 0 .. n - 1
  BY Fathers
<1>8. c[At(g, m)] \in Int /\ c[At(g, m)] <= c[key]
  BY <1>1, <1>4, <1>6
<1>9. ASSUME NEW i \in 1 .. n - 1, i # m, Father(i) # m
      PROVE  c[At(w, Father(i))] <= c[At(w, i)]
  <2>1. CASE i = p
    <3>1. p > 0 /\ Father(p) \in 0 .. n - 1 /\ Father(p) # p
      BY <1>1, <1>7, <2>1
    <3>2. At(w, i) = At(g, m) /\ At(w, Father(i)) = At(g, Father(p))
      BY <1>5, <1>7, <2>1, <3>1
    <3> QED BY <1>1, <1>2, <3>1, <3>2 DEF OrderedBut
  <2>2. CASE Father(i) = p
    <3>1. i # p
      BY <1>1, <1>7, <2>2
    <3>2. At(w, i) = At(g, i) /\ At(w, Father(i)) = At(g, m)
      BY <1>5, <1>7, <2>2, <3>1
    <3> QED BY <1>2, <2>2, <3>2
  <2>3. CASE i # p /\ Father(i) # p
    <3>1. At(w, i) = At(g, i) /\ At(w, Father(i)) = At(g, Father(i))
      BY <1>5, <1>7, <2>3
    <3> QED BY <1>1, <2>3, <3>1 DEF OrderedBut
  <2> QED BY <2>1, <2>2, <2>3
<1>10. At(w, p) = At(g, m)
  BY <1>1, <1>5
<1>11. ASSUME NEW i \in 1 .. n - 1, Father(i) = m
       PROVE  c[At(w, p)] <= c[At(w, i)]
  <2>1. i # p /\ i \in 0 .. n - 1 /\ i # m
    BY <1>1, <1>2, <1>7, <1>11
  <2>2. At(w, i) = At(g, i)
    BY <1>5, <2>1
  <2>3. c[At(g, m)] <= c[At(g, i)]
    BY <1>1, <1>4, <1>11, <2>1 DEF OrderedBut
  <2> QED BY <1>10, <2>2, <2>3
<1>12. OrderedBut(w, n, c)
  BY <1>2, <1>5, <1>9, <1>11 DEF OrderedBut
<1>13. FitsBelow(w, key, c)
  BY <1>2, <1>5, <1>8, <1>10 DEF FitsBelow
<1> QED BY <1>2, <1>3, <1>5, <1>12, <1>13 DEF Sinking, w

Sinks(g, N, x, key, c) ==
  g = [i \in 0 .. N |-> IF i = 0 THEN x ELSE Sink(g[i - 1], key, c)]

LEMMA SinksExist ==
  ASSUME NEW x, NEW key, NEW c, NEW N \in Nat
  PROVE  \E g : Sinks(g, N, x, key, c)
<1> DEFINE G == {n \in Nat : \E g : Sinks(g, n, x, key, c)}
<1>1. 0 \in G
  <2>1. Sinks([i \in 0 .. 0 |-> x], 0, x, key, c)
    BY DEF Sinks
  <2> QED BY <2>1
<1>2. ASSUME NEW n \in G
      PROVE  n + 1 \in G
  <2>1. PICK g : Sinks(g, n, x, key, c)
    OBVIOUS
  <2> DEFINE h == [i \in 0 .. n + 1 |-> IF i = n + 1 THEN Sink(g[n], key, c) ELSE g[i]]
  <2>2. ASSUME NEW i \in 0 .. n + 1
        PROVE  h[i] = IF i = 0 THEN x ELSE Sink(h[i - 1], key, c)
    <3>1. CASE i = n + 1
      <4>1. n \in 0 .. n + 1 /\ n # n + 1 /\ i # 0 /\ i - 1 = n
        BY <3>1
      <4> QED BY <3>1, <4>1
    <3>2. CASE i # n + 1
      <4>1. i \in 0 .. n /\ h[i] = g[i]
        BY <3>2
      <4>2. i # 0 => i - 1 \in 0 .. n + 1 /\ i - 1 # n + 1
        BY <4>1
      <4>3. g[i] = IF i = 0 THEN x ELSE Sink(g[i - 1], key, c)
        BY <2>1, <4>1 DEF Sinks
      <4> QED BY <4>1, <4>2, <4>3
    <3> QED BY <3>1, <3>2
  <2> HIDE DEF h
  <2>3. h = [i \in 0 .. n + 1 |-> IF i = 0 THEN x ELSE Sink(h[i - 1], key, c)]
    <3>1. h = [i \in 0 .. n + 1 |-> h[i]]
      BY DEF h
    <3> QED BY <2>2, <3>1
  <2> QED BY <2>3 DEF Sinks
<1>3. G = Nat
  <2>1. G \in SUBSET Nat
    OBVIOUS
  <2> HIDE DEF G
  <2> QED BY <1>1, <1>2, <2>1, NumberInduction
<1> QED BY <1>3

\* adjustDown: the key finds its place below.
LEMMA AdjustedDown ==
  ASSUME NEW h, NEW n \in Nat, NEW key \in HeapItems, NEW X, NEW c \in Comparisons,
         Len(h.heap) = n, Sinking(Hole(h, h.hpos[key]), n, key, X, c)
  PROVE  Heaped(adjustDown(h, key, c), n, X \cup {key}, c)
<1> DEFINE x == Hole(h, h.hpos[key])
           g == CHOOSE f : Sinks(f, n, x, key, c)
           D == {i \in Nat : i <= n => /\ Sinking(g[i], n, key, X, c)
                                       /\ g[i].pos >= i \/ ~CanSink(g[i], key, c)}
<1>1. Sinks(g, n, x, key, c)
  BY SinksExist
<1>2. adjustDown(h, key, c) = Filled(g[n], key)
  BY DEF adjustDown, Sinks
<1>3. x.pos \in Nat /\ x.pos < n
  BY DEF Sinking, Sited, Holed
<1> HIDE DEF g, x
<1>4. /\ g[0] = x
      /\ \A i \in 1 .. n : g[i] = Sink(g[i - 1], key, c)
  BY <1>1 DEF Sinks
<1>5. 0 \in D
  BY <1>3, <1>4 DEF x
<1>6. ASSUME NEW i \in D
      PROVE  i + 1 \in D
  <2> SUFFICES ASSUME i + 1 <= n
               PROVE  /\ Sinking(g[i + 1], n, key, X, c)
                      /\ g[i + 1].pos >= i + 1 \/ ~CanSink(g[i + 1], key, c)
    OBVIOUS
  <2>1. /\ Sinking(g[i], n, key, X, c)
        /\ g[i].pos >= i \/ ~CanSink(g[i], key, c)
    BY <1>6
  <2>2. g[i + 1] = Sink(g[i], key, c)
    <3>1. i + 1 \in 1 .. n /\ (i + 1) - 1 = i
      BY <1>6
    <3> QED BY <1>4, <3>1
  <2>3. CASE CanSink(g[i], key, c)
    <3>1. Sinking(g[i + 1], n, key, X, c) /\ g[i + 1].pos > g[i].pos
      BY <2>1, <2>2, <2>3, SinkTurn
    <3>2. g[i + 1].pos \in Nat /\ g[i].pos \in Nat
      BY <2>1, <3>1 DEF Sinking, Sited, Holed
    <3> QED BY <2>1, <2>3, <3>1, <3>2
  <2>4. CASE ~CanSink(g[i], key, c)
    <3>1. g[i + 1] = g[i]
      BY <2>2, <2>4 DEF CanSink, Sink
    <3> QED BY <2>1, <2>4, <3>1
  <2> QED BY <2>3, <2>4
<1>7. D = Nat
  <2>1. D \in SUBSET Nat
    OBVIOUS
  <2> HIDE DEF D
  <2> QED BY <1>5, <1>6, <2>1, NumberInduction
<1>8. Sinking(g[n], n, key, X, c) /\ ~CanSink(g[n], key, c)
  <2>1. n \in D
    BY <1>7
  <2>2. /\ Sinking(g[n], n, key, X, c)
        /\ g[n].pos >= n \/ ~CanSink(g[n], key, c)
    BY <2>1
  <2>3. g[n].pos \in Nat /\ g[n].pos < n
    BY <2>2 DEF Sinking, Sited, Holed
  <2> QED BY <2>2, <2>3
<1>9. FitsAbove(g[n], n, key, c)
  <2> SUFFICES ASSUME NEW i \in 1 .. n - 1, Father(i) = g[n].pos
               PROVE  c[key] <= c[At(g[n], i)]
    BY DEF FitsAbove
  <2> DEFINE e == g[n]
             m == LesserSon(e, c)
  <2>1. /\ Sited(e, n, key, X) /\ e.pos \in Nat /\ e.pos < n /\ Len(e.heap) = n
        /\ c[key] \in Int
    BY <1>8 DEF Sinking, Sited, Holed, Comparisons
  <2>2. 2 * e.pos + 1 < Len(e.heap)
    BY <2>1, Fathers
  <2>3. c[key] < c[At(e, m)]
    BY <1>8, <2>2 DEF CanSink
  <2> HIDE DEF e
  <2>4. m \in 1 .. n - 1 /\ m > e.pos /\ c[At(e, m)] <= c[At(e, i)]
    BY <2>1, <2>2, LesserSonIs DEF e
  <2>5. m \in 0 .. n - 1 /\ m # e.pos /\ i \in 0 .. n - 1 /\ i # e.pos
    <3>1. Father(i) < i
      BY Fathers
    <3> QED BY <2>1, <2>4, <3>1 DEF e
  <2> HIDE DEF m
  <2>6. c[At(e, m)] \in Int /\ c[At(e, i)] \in Int
    BY <2>1, <2>5, Costed
  <2> QED BY <2>1, <2>3, <2>4, <2>6 DEF e
<1> QED BY <1>2, <1>8, <1>9, FilledHeap DEF Sinking

-----------------------------------------------------------------------------
(* The operations on a heap. *)

\* pushHeap(key), of an item that is not there.
LEMMA Pushed ==
  ASSUME NEW h, NEW n \in Nat, NEW X, NEW c \in Comparisons, Heaped(h, n, X, c),
         NEW key \in HeapItems, key \notin X
  PROVE  Heaped(pushHeap(h, key, c), n + 1, X \cup {key}, c)
<1> DEFINE a == [heap |-> Append(h.heap, key), hpos |-> [h.hpos EXCEPT ![key] = Len(h.heap)]]
           g == Hole(a, a.hpos[key])
<1>1. /\ h.heap \in Seq(HeapItems) /\ h.hpos \in [HeapItems -> Nat] /\ Len(h.heap) = n
  BY DEF Heaped, Arrays
<1>2. /\ a.heap \in Seq(HeapItems) /\ Len(a.heap) = n + 1
      /\ a.hpos \in [HeapItems -> Nat] /\ a.hpos[key] = n
      /\ \A v \in HeapItems : v # key => a.hpos[v] = h.hpos[v]
  BY <1>1, AppendProperties
<1>3. ASSUME NEW i \in 0 .. n - 1
      PROVE  At(a, i) = At(h, i)
  <2>1. i + 1 \in 1 .. Len(h.heap)
    BY <1>1
  <2> QED BY <1>1, <2>1, AppendProperties DEF At
<1> HIDE DEF a
<1>4. /\ g \in Holed /\ Len(g.heap) = n + 1 /\ g.pos = n /\ g.hpos = a.hpos
      /\ \A i \in 0 .. n - 1 : At(g, i) = At(h, i)
  BY <1>2, <1>3 DEF Hole, Holed, At
<1> HIDE DEF g
<1>5. ASSUME NEW i \in 0 .. n, i # n
      PROVE  /\ At(g, i) \in HeapItems /\ At(g, i) # key /\ At(g, i) \in X
             /\ g.hpos[At(g, i)] = i
  <2>1. i \in 0 .. n - 1
    BY <1>5
  <2>2. At(h, i) \in HeapItems /\ At(h, i) \in X /\ h.hpos[At(h, i)] = i
    BY <2>1 DEF Heaped
  <2> QED BY <1>2, <1>4, <2>1, <2>2
<1>6. ASSUME NEW v \in X
      PROVE  \E i \in 0 .. n : i # n /\ At(g, i) = v
  <2>1. PICK i \in 0 .. n - 1 : At(h, i) = v
    BY DEF Heaped
  <2> QED BY <1>4, <2>1
<1>7. \A i \in 1 .. n : /\ Father(i) \in 0 .. n - 1
                        /\ i # n => i \in 1 .. n - 1 /\ i \in 0 .. n - 1
  BY Fathers
<1>8. ASSUME NEW i \in 1 .. n, i # n
      PROVE  c[At(g, Father(i))] <= c[At(g, i)]
  BY <1>4, <1>7, <1>8 DEF Heaped
<1>9. (n + 1) - 1 = n /\ n + 1 \in Nat
  OBVIOUS
<1>10. Climbing(g, n + 1, key, X, c)
  <2>1. Sited(g, n + 1, key, X)
    BY <1>4, <1>5, <1>6, <1>9 DEF Sited
  <2>2. \A i \in 1 .. n : Father(i) # n
    BY <1>7
  <2>3. OrderedBut(g, n + 1, c)
    BY <1>4, <1>8, <1>9, <2>2 DEF OrderedBut
  <2>4. FitsAbove(g, n + 1, key, c)
    BY <1>4, <1>9, <2>2 DEF FitsAbove
  <2> QED BY <2>1, <2>3, <2>4 DEF Climbing
<1>11. Heaped(adjustUp(a, key, c), n + 1, X \cup {key}, c)
  BY <1>2, <1>9, <1>10, AdjustedUp DEF g
<1> QED BY <1>11 DEF pushHeap, a

\* adjustUp(key), of an item whose cost was lowered.
LEMMA Lowered ==
  ASSUME NEW h, NEW n \in Nat, NEW X, NEW b \in Comparisons, NEW c \in Comparisons,
         Heaped(h, n, X, b), NEW key \in HeapItems, key \in X,
         \A v \in HeapItems : v # key => c[v] = b[v], c[key] <= b[key]
  PROVE  Heaped(adjustUp(h, key, c), n, X, c)
<1> DEFINE p == h.hpos[key]
           g == Hole(h, p)
           Y == X \ {key}
<1>1. /\ h \in Arrays /\ h.heap \in Seq(HeapItems) /\ h.hpos \in [HeapItems -> Nat]
      /\ Len(h.heap) = n
      /\ \A i \in 0 .. n - 1 :
           At(h, i) \in HeapItems /\ At(h, i) \in X /\ h.hpos[At(h, i)] = i
      /\ \A i \in 1 .. n - 1 : b[At(h, Father(i))] <= b[At(h, i)]
      /\ \A v \in X : \E i \in 0 .. n - 1 : At(h, i) = v
  BY DEF Heaped, Arrays
<1>2. p \in 0 .. n - 1 /\ At(h, p) = key
  <2>1. PICK i \in 0 .. n - 1 : At(h, i) = key
    BY <1>1
  <2> QED BY <1>1, <2>1
<1>3. \A i \in 0 .. n - 1 : At(h, i) = key => i = p
  BY <1>1
<1> HIDE DEF p
<1>4. /\ g \in Holed /\ Len(g.heap) = n /\ g.pos = p /\ g.hpos = h.hpos
      /\ \A i \in 0 .. n - 1 : At(g, i) = At(h, i)
  BY <1>1, <1>2 DEF Hole, Holed, At
<1> HIDE DEF g
<1>5. Sited(g, n, key, Y)
  <2>1. ASSUME NEW v \in Y
        PROVE  \E i \in 0 .. n - 1 : i # p /\ At(g, i) = v
    <3>1. PICK i \in 0 .. n - 1 : At(h, i) = v
      BY <1>1
    <3> QED BY <1>2, <1>4, <3>1
  <2> QED BY <1>1, <1>2, <1>3, <1>4, <2>1 DEF Sited
<1>6. \A i \in 1 .. n - 1 : Father(i) \in 0 .. n - 1 /\ Father(i) < i /\ i \in 0 .. n - 1
  BY Fathers
<1>7. \A i \in 0 .. n - 1 : b[At(h, i)] \in Int /\ (i # p => c[At(h, i)] = b[At(h, i)])
  BY <1>1, <1>3 DEF Comparisons
<1>8. b[At(h, p)] = b[key] /\ c[key] \in Int /\ c[key] <= b[key]
  BY <1>2 DEF Comparisons
<1>9. OrderedBut(g, n, c)
  <2> SUFFICES ASSUME NEW i \in 1 .. n - 1
               PROVE  /\ i # p /\ Father(i) # p => c[At(h, Father(i))] <= c[At(h, i)]
                      /\ Father(i) = p /\ p > 0 => c[At(h, Father(p))] <= c[At(h, i)]
    <3>1. p > 0 => Father(p) \in 0 .. n - 1
      BY <1>2, <1>6
    <3> QED BY <1>4, <1>6, <3>1 DEF OrderedBut
  <2>1. ASSUME i # p, Father(i) # p
        PROVE  c[At(h, Father(i))] <= c[At(h, i)]
    BY <1>1, <1>6, <1>7, <2>1
  <2>2. ASSUME Father(i) = p, p > 0
        PROVE  c[At(h, Father(p))] <= c[At(h, i)]
    <3>1. p \in 1 .. n - 1
      BY <1>2, <2>2
    <3>2. /\ Father(p) \in 0 .. n - 1 /\ Father(p) # p /\ i \in 0 .. n - 1 /\ i # p
          /\ b[At(h, Father(p))] <= b[At(h, p)] /\ b[At(h, p)] <= b[At(h, i)]
      BY <1>1, <1>6, <2>2, <3>1
    <3> QED BY <1>2, <1>7, <3>2
  <2> QED BY <2>1, <2>2
<1>10. FitsAbove(g, n, key, c)
  <2> SUFFICES ASSUME NEW i \in 1 .. n - 1, Father(i) = p
               PROVE  c[key] <= c[At(h, i)]
    BY <1>4, <1>6 DEF FitsAbove
  <2>1. i \in 0 .. n - 1 /\ i # p /\ b[At(h, p)] <= b[At(h, i)]
    BY <1>1, <1>6
  <2>2. c[At(h, i)] = b[At(h, i)] /\ b[At(h, i)] \in Int /\ b[At(h, p)] \in Int
    BY <1>2, <1>7, <2>1
  <2> QED BY <1>8, <2>1, <2>2
<1>11. Heaped(adjustUp(h, key, c), n, Y \cup {key}, c)
  <2>1. Climbing(g, n, key, Y, c)
    BY <1>5, <1>9, <1>10 DEF Climbing
  <2> QED BY <1>1, <2>1, AdjustedUp DEF g, p
<1> QED BY <1>11

\* The first item is one of the least.
LEMMA RootLeast ==
  ASSUME NEW h, NEW n \in Nat \ {0}, NEW X, NEW c \in Comparisons, Heaped(h, n, X, c)
  PROVE  /\ At(h, 0) \in X /\ At(h, 0) \in HeapItems
         /\ \A v \in X : c[At(h, 0)] <= c[v]
<1> DEFINE Wrong == {i \in Nat : i < n /\ ~(c[At(h, 0)] <= c[At(h, i)])}
<1>1. /\ 0 \in 0 .. n - 1
      /\ \A i \in 0 .. n - 1 : At(h, i) \in HeapItems /\ At(h, i) \in X /\ c[At(h, i)] \in Int
  BY DEF Heaped, Comparisons
<1>2. ASSUME NEW i \in Wrong, \A j \in Wrong : i <= j
      PROVE  FALSE
  <2>1. i # 0 /\ i \in 1 .. n - 1 /\ i \in 0 .. n - 1
    BY <1>1
  <2>2. Father(i) \in 0 .. n - 1 /\ Father(i) < i /\ Father(i) \in Nat
    BY <2>1, Fathers
  <2>3. Father(i) \notin Wrong
    BY <1>2, <2>2
  <2>4. c[At(h, Father(i))] <= c[At(h, i)]
    BY <2>1 DEF Heaped
  <2> QED BY <1>1, <2>1, <2>2, <2>3, <2>4
<1>3. Wrong = {}
  <2>1. Wrong \in SUBSET Nat
    OBVIOUS
  <2> HIDE DEF Wrong
  <2> QED BY <1>2, <2>1, LeastNumber
<1>4. ASSUME NEW v \in X
      PROVE  c[At(h, 0)] <= c[v]
  <2>1. PICK i \in 0 .. n - 1 : At(h, i) = v
    BY DEF Heaped
  <2> QED BY <1>3, <2>1
<1> QED BY <1>1, <1>4

\* popHeap(): the first item leaves, the others stay.
LEMMA Popped ==
  ASSUME NEW h, NEW n \in Nat \ {0}, NEW X, NEW c \in Comparisons, Heaped(h, n, X, c)
  PROVE  Heaped(popHeap(h, c), n - 1, X \ {At(h, 0)}, c)
<1> DEFINE re == At(h, 0)
           last == At(h, n - 1)
           s == WithoutLast(h)
<1>1. /\ h.heap \in Seq(HeapItems) /\ h.hpos \in [HeapItems -> Nat] /\ Len(h.heap) = n
      /\ n - 1 \in Nat /\ 0 \in 0 .. n - 1 /\ n - 1 \in 0 .. n - 1
      /\ \A i \in 0 .. n - 1 :
           At(h, i) \in HeapItems /\ At(h, i) \in X /\ h.hpos[At(h, i)] = i
      /\ \A v \in X : \E i \in 0 .. n - 1 : At(h, i) = v
  BY DEF Heaped, Arrays
<1>2. /\ s.heap \in Seq(HeapItems) /\ Len(s.heap) = n - 1 /\ s.hpos = h.hpos
      /\ s \in Arrays
      /\ \A i \in 0 .. n - 2 : At(s, i) = At(h, i)
  <2>1. \A i \in 1 .. n - 1 : h.heap[i] \in HeapItems
    BY <1>1, LenProperties
  <2>2. 1 \in Int /\ n - 1 \in Int
    BY <1>1
  <2>3. /\ SubSeq(h.heap, 1, n - 1) \in Seq(HeapItems)
        /\ Len(SubSeq(h.heap, 1, n - 1)) = IF 1 <= n - 1 THEN (n - 1) - 1 + 1 ELSE 0
        /\ \A i \in 1 .. (n - 1) - 1 + 1 :
             SubSeq(h.heap, 1, n - 1)[i] = h.heap[1 + i - 1]
    BY <2>1, <2>2, SubSeqProperties
  <2>4. s.heap = SubSeq(h.heap, 1, n - 1) /\ s.hpos = h.hpos
    BY <1>1 DEF WithoutLast
  <2>5. ASSUME NEW i \in 0 .. n - 2
        PROVE  SubSeq(h.heap, 1, n - 1)[i + 1] = h.heap[i + 1]
    <3>1. i + 1 \in 1 .. (n - 1) - 1 + 1 /\ 1 + (i + 1) - 1 = i + 1
      BY <1>1
    <3> QED BY <2>3, <3>1
  <2>6. Len(s.heap) = n - 1
    BY <1>1, <2>3, <2>4
  <2>7. s \in Arrays
    BY <1>1, <2>3 DEF WithoutLast, Arrays
  <2> QED BY <2>3, <2>4, <2>5, <2>6, <2>7 DEF At
<1>3. last = h.heap[Len(h.heap)]
  BY <1>1 DEF At
<1> HIDE DEF s, last, re
<1>4. CASE n = 1
  <2>1. popHeap(h, c) = s
    BY <1>1, <1>4 DEF popHeap, s
  <2>2. X \ {re} = {}
    <3>1. ASSUME NEW v \in X
          PROVE  v = re
      <4>1. PICK i \in 0 .. n - 1 : At(h, i) = v
        BY <1>1
      <4>2. i = 0
        BY <1>4
      <4> QED BY <4>1, <4>2 DEF re
    <3> QED BY <3>1
  <2> QED BY <1>2, <1>4, <2>1, <2>2 DEF Heaped, re
<1>5. CASE n # 1
  <2> DEFINE a == Put(s, 0, last)
             g == Hole(a, 0)
             Y == X \ {re, last}
             k == n - 1
  <2>1. /\ k \in Nat \ {0} /\ 0 \in 0 .. k - 1 /\ \A i \in 0 .. k - 1 : i \in 0 .. n - 1 /\ i # k
        /\ k - 1 = n - 2
    BY <1>1, <1>5
  <2>2. last \in HeapItems /\ last \in X /\ h.hpos[last] = k
    BY <1>1 DEF last
  <2>3. IsPut(a, s, 0, last)
    BY <1>1, <1>2, <2>1, <2>2, PutAt
  <2> HIDE DEF a, k
  <2>4. /\ a \in Arrays /\ Len(a.heap) = k /\ a.hpos[last] = 0
        /\ \A i \in 0 .. k - 1 : At(a, i) = IF i = 0 THEN last ELSE At(h, i)
        /\ \A u \in HeapItems : u # last => a.hpos[u] = h.hpos[u]
    BY <1>2, <2>1, <2>2, <2>3 DEF IsPut, k
  <2>5. /\ g \in Holed /\ Len(g.heap) = k /\ g.pos = 0 /\ g.hpos = a.hpos
        /\ \A i \in 0 .. k - 1 : At(g, i) = IF i = 0 THEN last ELSE At(h, i)
    BY <2>4 DEF Hole, Holed, Arrays, At
  <2> HIDE DEF g
  <2>6. ASSUME NEW i \in 0 .. k - 1, i # 0
        PROVE  /\ At(g, i) \in HeapItems /\ At(g, i) # last /\ At(g, i) \in Y
               /\ g.hpos[At(g, i)] = i
    <3>1. At(g, i) = At(h, i) /\ i \in 0 .. n - 1 /\ i # k
      BY <2>1, <2>5, <2>6
    <3>2. At(h, i) \in HeapItems /\ At(h, i) \in X /\ h.hpos[At(h, i)] = i
      BY <1>1, <3>1
    <3>3. At(h, i) # last /\ At(h, i) # re
      BY <1>1, <2>2, <2>6, <3>1, <3>2 DEF re
    <3> QED BY <2>4, <2>5, <3>1, <3>2, <3>3
  <2>7. ASSUME NEW v \in Y
        PROVE  \E i \in 0 .. k - 1 : i # 0 /\ At(g, i) = v
    <3>1. PICK i \in 0 .. n - 1 : At(h, i) = v
      BY <1>1
    <3>2. i # 0 /\ i # n - 1
      BY <3>1 DEF re, last
    <3>3. i \in 0 .. k - 1
      BY <1>1, <3>2 DEF k
    <3> QED BY <2>5, <3>1, <3>2, <3>3
  <2>8. Sited(g, k, last, Y)
    BY <2>1, <2>5, <2>6, <2>7 DEF Sited
  <2>9. OrderedBut(g, k, c)
    <3> SUFFICES ASSUME NEW i \in 1 .. k - 1, i # 0, Father(i) # 0
                 PROVE  c[At(g, Father(i))] <= c[At(g, i)]
      BY <2>5 DEF OrderedBut
    <3>1. i \in 1 .. n - 1 /\ i \in 0 .. k - 1 /\ Father(i) \in 0 .. k - 1
      BY <2>1, Fathers DEF k
    <3> QED BY <2>5, <3>1 DEF Heaped
  <2>10. Sinking(g, k, last, Y, c)
    BY <2>5, <2>8, <2>9 DEF Sinking, FitsBelow
  <2>11. Heaped(adjustDown(a, last, c), k, Y \cup {last}, c)
    <3>1. g = Hole(a, a.hpos[last])
      BY <2>4 DEF g
    <3> QED BY <2>1, <2>2, <2>4, <2>10, <3>1, AdjustedDown
  <2>12. popHeap(h, c) = adjustDown(a, last, c)
    BY <1>1, <1>3, <1>5 DEF popHeap, a, s
  <2>13. Y \cup {last} = X \ {re}
    <3>1. last # re
      BY <1>1, <1>5, <2>2 DEF k, re
    <3> QED BY <2>2, <3>1
  <2> QED BY <2>11, <2>12, <2>13 DEF k, re
<1> QED BY <1>4, <1>5

-----------------------------------------------------------------------------
(* The inductive invariant. *)

HeapInv == HeapTypeOK /\ Heaped(Queue, Len(heap), Inside, mindis)

LEMMA Compared ==
  ASSUME HeapTypeOK
  PROVE  mindis \in Comparisons
BY HeapAssumption DEF HeapTypeOK, Comparisons

\* A state that an operation leaves.
LEMMA HeapLeft ==
  ASSUME NEW r, NEW n \in Nat, NEW X \in SUBSET HeapItems, Heaped(r, n, X, mindis'),
         SetTo(r), mindis' \in [HeapItems -> HeapCosts]
  PROVE  HeapInv' /\ Inside' = X
<1>1. /\ r \in Arrays /\ heap' = r.heap /\ hpos' = r.hpos /\ Len(r.heap) = n
      /\ r.heap \in Seq(HeapItems) /\ r.hpos \in [HeapItems -> Nat]
  BY DEF Heaped, SetTo, Arrays
<1>2. Queue' = r
  BY <1>1 DEF Queue, Arrays
<1>3. \A i \in 0 .. n - 1 : i + 1 \in 1 .. n /\ At(r, i) = heap'[i + 1]
  BY <1>1 DEF At
<1>4. \A i \in 1 .. n : i - 1 \in 0 .. n - 1 /\ (i - 1) + 1 = i
  OBVIOUS
<1>5. ASSUME NEW v \in HeapItems
      PROVE  v \in X <=> \E i \in 1 .. n : heap'[i] = v
  <2>1. ASSUME v \in X
        PROVE  \E i \in 1 .. n : heap'[i] = v
    <3>1. PICK i \in 0 .. n - 1 : At(r, i) = v
      BY <2>1 DEF Heaped
    <3> QED BY <1>3, <3>1
  <2>2. ASSUME NEW i \in 1 .. n, heap'[i] = v
        PROVE  v \in X
    <3>1. At(r, i - 1) = v
      BY <1>3, <1>4, <2>2
    <3> QED BY <1>4, <3>1 DEF Heaped
  <2> QED BY <2>1, <2>2
<1>6. Inside' = X
  BY <1>1, <1>5 DEF Inside, InHeap
<1>7. HeapTypeOK'
  BY <1>1 DEF HeapTypeOK
<1> QED BY <1>1, <1>2, <1>6, <1>7 DEF HeapInv

LEMMA Now ==
  ASSUME HeapInv
  PROVE  /\ Len(heap) \in Nat /\ heap \in [1 .. Len(heap) -> HeapItems]
         /\ mindis \in Comparisons /\ mindis \in [HeapItems -> HeapCosts]
         /\ Inside \in SUBSET HeapItems
         /\ Heaped(Queue, Len(heap), Inside, mindis)
BY Compared, LenProperties DEF HeapInv, HeapTypeOK, Inside

LEMMA InitHeap ==
  ASSUME HeapInit
  PROVE  HeapInv /\ Inside = {}
<1>1. heap = << >> /\ Len(heap) = 0 /\ heap \in Seq(HeapItems)
  BY DEF HeapInit
<1>2. Inside = {}
  BY <1>1 DEF Inside, InHeap
<1>3. HeapTypeOK
  BY <1>1 DEF HeapInit, HeapTypeOK
<1>4. Queue \in Arrays /\ Queue.heap = heap
  BY <1>3 DEF Queue, Arrays, HeapTypeOK
<1>5. Heaped(Queue, 0, {}, mindis)
  BY <1>1, <1>4 DEF Heaped
<1> QED BY <1>1, <1>2, <1>3, <1>5 DEF HeapInv

\* The same heap under costs that differ outside.
LEMMA Recosted ==
  ASSUME NEW h, NEW n \in Nat, NEW X, NEW b, NEW c, Heaped(h, n, X, b),
         \A v \in X : c[v] = b[v]
  PROVE  Heaped(h, n, X, c)
<1>1. \A i \in 1 .. n - 1 : i \in 0 .. n - 1 /\ Father(i) \in 0 .. n - 1
  BY Fathers
<1> QED BY <1>1 DEF Heaped

LEMMA PushStep ==
  ASSUME HeapInv, NEW v \in HeapItems, NEW c \in HeapCosts, Push(v, c)
  PROVE  /\ HeapInv' /\ Inside' = Inside \cup {v} /\ v \notin Inside
         /\ mindis' = [mindis EXCEPT ![v] = c]
<1>1. /\ v \notin Inside /\ mindis' = [mindis EXCEPT ![v] = c]
      /\ SetTo(pushHeap(Queue, v, mindis'))
  BY DEF Push, Inside
<1>2. mindis' \in [HeapItems -> HeapCosts] /\ mindis' \in Comparisons
  BY <1>1, Now, HeapAssumption DEF Comparisons
<1>3. Heaped(Queue, Len(heap), Inside, mindis')
  BY <1>1, Now, Recosted
<1> DEFINE n == Len(heap)
<1>4. n \in Nat /\ n + 1 \in Nat /\ Inside \cup {v} \in SUBSET HeapItems
  BY Now
<1> HIDE DEF n
<1>5. Heaped(pushHeap(Queue, v, mindis'), n + 1, Inside \cup {v}, mindis')
  BY <1>1, <1>2, <1>3, <1>4, Pushed DEF n
<1> QED BY <1>1, <1>2, <1>4, <1>5, HeapLeft

LEMMA LowerStep ==
  ASSUME HeapInv, NEW v \in HeapItems, NEW c \in HeapCosts, Lower(v, c)
  PROVE  /\ HeapInv' /\ Inside' = Inside /\ v \in Inside /\ c < mindis[v]
         /\ mindis' = [mindis EXCEPT ![v] = c]
<1>1. /\ v \in Inside /\ mindis' = [mindis EXCEPT ![v] = c] /\ c < mindis[v]
      /\ SetTo(adjustUp(Queue, v, mindis'))
  BY DEF Lower, Inside
<1>2. mindis' \in [HeapItems -> HeapCosts] /\ mindis' \in Comparisons
  BY <1>1, Now, HeapAssumption DEF Comparisons
<1>3. /\ \A u \in HeapItems : u # v => mindis'[u] = mindis[u]
      /\ mindis'[v] <= mindis[v]
  <2>1. mindis'[v] = c /\ c \in Int /\ mindis[v] \in Int
    BY <1>1, Now, HeapAssumption DEF Comparisons
  <2> QED BY <1>1, <2>1, Now
<1>4. Heaped(adjustUp(Queue, v, mindis'), Len(heap), Inside, mindis')
  BY <1>1, <1>2, <1>3, Now, Lowered
<1> QED BY <1>1, <1>2, <1>4, Now, HeapLeft

LEMMA PopStep ==
  ASSUME HeapInv, Pop
  PROVE  /\ HeapInv' /\ mindis' = mindis
         /\ heap[1] \in Inside /\ Inside' = Inside \ {heap[1]}
         /\ \A u \in Inside : mindis[heap[1]] <= mindis[u]
<1> DEFINE n == Len(heap)
<1>1. heap # << >> /\ mindis' = mindis /\ SetTo(popHeap(Queue, mindis))
  BY DEF Pop
<1>2. n \in Nat \ {0} /\ n - 1 \in Nat
  <2>1. heap \in Seq(HeapItems)
    BY DEF HeapInv, HeapTypeOK
  <2> QED BY <1>1, <2>1, EmptySeq, LenProperties
<1>3. At(Queue, 0) = heap[1]
  BY DEF At, Queue
<1> HIDE DEF n
<1>4. Heaped(Queue, n, Inside, mindis)
  BY Now DEF n
<1>5. /\ heap[1] \in Inside
      /\ \A u \in Inside : mindis[heap[1]] <= mindis[u]
  BY <1>2, <1>3, <1>4, Now, RootLeast
<1>6. Heaped(popHeap(Queue, mindis), n - 1, Inside \ {heap[1]}, mindis')
  BY <1>1, <1>2, <1>3, <1>4, Now, Popped
<1>7. Inside \ {heap[1]} \in SUBSET HeapItems /\ mindis' \in [HeapItems -> HeapCosts]
  BY <1>1, Now
<1> QED BY <1>1, <1>2, <1>5, <1>6, <1>7, HeapLeft

LEMMA ClearStep ==
  ASSUME HeapInv, clear
  PROVE  HeapInv' /\ Inside' = {}
<1> DEFINE r == [heap |-> << >>, hpos |-> hpos]
<1>1. SetTo(r) /\ mindis' \in [HeapItems -> HeapCosts]
  BY Now DEF clear, SetTo
<1>2. r \in Arrays /\ Len(r.heap) = 0
  BY DEF HeapInv, HeapTypeOK, Arrays
<1> HIDE DEF r
<1>3. Heaped(r, 0, {}, mindis')
  BY <1>2 DEF Heaped
<1>4. {} \in SUBSET HeapItems /\ 0 \in Nat
  OBVIOUS
<1> QED BY <1>1, <1>3, <1>4, HeapLeft

\* The heap is one at all times, as every operation leaves one.
THEOREM HeapInductive == HeapSpec => []HeapInv
<1>1. HeapInit => HeapInv
  BY InitHeap
<1>2. HeapInv /\ [HeapNext]_heapVars => HeapInv'
  <2> SUFFICES ASSUME HeapInv, [HeapNext]_heapVars
               PROVE  HeapInv'
    OBVIOUS
  <2>1. ASSUME NEW v \in HeapItems, NEW c \in HeapCosts, Push(v, c)
        PROVE  HeapInv'
    BY <2>1, PushStep
  <2>2. ASSUME NEW v \in HeapItems, NEW c \in HeapCosts, Lower(v, c)
        PROVE  HeapInv'
    BY <2>2, LowerStep
  <2>3. CASE Pop
    BY <2>3, PopStep
  <2>4. CASE clear
    BY <2>4, ClearStep
  <2>5. CASE UNCHANGED heapVars
    BY <2>5 DEF heapVars, HeapInv, HeapTypeOK, Queue, Inside, InHeap
  <2> QED BY <2>1, <2>2, <2>3, <2>4, <2>5 DEF HeapNext
<1> QED BY <1>1, <1>2, PTL DEF HeapSpec

\* binaryHeap: no item costs less than its father, hpos finds every item, and the
\* array is long enough.
THEOREM HeapsSound == HeapSpec => []IndexedHeapSound
<1>1. HeapInv => IndexedHeapSound
  <2> SUFFICES ASSUME HeapInv
               PROVE  IndexedHeapSound
    OBVIOUS
  <2> DEFINE n == Len(heap)
  <2>1. /\ n \in Nat /\ heap \in [1 .. n -> HeapItems]
        /\ Heaped(Queue, n, Inside, mindis)
    BY Now
  <2>2. Queue.hpos = hpos
    BY DEF Queue
  <2>3. ASSUME NEW i \in 1 .. n, NEW j \in 1 .. n, heap[i] = heap[j]
        PROVE  i = j
    <3>1. i - 1 \in 0 .. n - 1 /\ j - 1 \in 0 .. n - 1 /\ (i - 1) + 1 = i /\ (j - 1) + 1 = j
      BY <2>1
    <3>2. At(Queue, i - 1) = heap[i] /\ At(Queue, j - 1) = heap[j]
      BY <3>1 DEF At, Queue
    <3>3. i - 1 = j - 1
      BY <2>1, <2>3, <3>1, <3>2 DEF Heaped
    <3> QED BY <2>1, <3>3
  <2>4. heap \in Injection(1 .. n, HeapItems)
    BY <2>1, <2>3 DEF Injection, IsInjective
  <2>5. IsFiniteSet(1 .. n) /\ Cardinality(1 .. n) = n
    BY <2>1, FS_Interval
  <2>6. n <= Cardinality(HeapItems)
    BY <2>4, <2>5, HeapAssumption, FS_Injection
  <2>7. ASSUME NEW i \in 0 .. n - 1
        PROVE  /\ hpos[At(Queue, i)] = i
               /\ i > 0 => mindis[At(Queue, Father(i))] <= mindis[At(Queue, i)]
    <3>1. i > 0 => i \in 1 .. n - 1
      OBVIOUS
    <3> QED BY <2>1, <2>2, <3>1 DEF Heaped
  <2> QED BY <2>6, <2>7 DEF IndexedHeapSound
<1> QED BY <1>1, HeapInductive, PTL

\* It is the priority queue Dijkstra takes it for.
THEOREM HeapImplements == HeapSpec => ImplementsQueue
<1> DEFINE queue == [v \in Inside |-> mindis[v]]
<1>1. HeapInit => Waiting!Init
  BY InitHeap DEF Waiting!Init
<1>2. HeapInv /\ [HeapNext]_heapVars => [Waiting!Next]_queue
  <2> SUFFICES ASSUME HeapInv, [HeapNext]_heapVars
               PROVE  [Waiting!Next]_queue
    OBVIOUS
  <2>1. ASSUME NEW v \in HeapItems, NEW c \in HeapCosts, Push(v, c)
        PROVE  Waiting!Next
    <3>1. /\ Inside' = Inside \cup {v} /\ v \notin Inside
          /\ mindis' = [mindis EXCEPT ![v] = c]
      BY <2>1, PushStep
    <3>2. \A u \in Inside' : mindis'[u] = IF u = v THEN c ELSE mindis[u]
      BY <3>1, Now
    <3>3. Waiting!Push(v, c)
      BY <3>1, <3>2 DEF Waiting!Push
    <3> QED BY <3>3 DEF Waiting!Next
  <2>2. ASSUME NEW v \in HeapItems, NEW c \in HeapCosts, Lower(v, c)
        PROVE  Waiting!Next
    <3>1. /\ Inside' = Inside /\ v \in Inside /\ c < mindis[v]
          /\ mindis' = [mindis EXCEPT ![v] = c]
      BY <2>2, LowerStep
    <3>2. \A u \in Inside : mindis'[u] = IF u = v THEN c ELSE mindis[u]
      BY <3>1, Now
    <3>3. [u \in Inside |-> mindis'[u]] = [queue EXCEPT ![v] = c]
      BY <3>1, <3>2
    <3>4. Waiting!Lower(v, c)
      BY <3>1, <3>3 DEF Waiting!Lower
    <3> QED BY <3>4 DEF Waiting!Next
  <2>3. CASE Pop
    <3>1. /\ mindis' = mindis /\ heap[1] \in Inside /\ Inside' = Inside \ {heap[1]}
          /\ \A u \in Inside : mindis[heap[1]] <= mindis[u]
      BY <2>3, PopStep
    <3>2. PICK v \in HeapItems : v = heap[1]
      BY <3>1 DEF Inside
    <3>3. Waiting!Pop(v)
      BY <3>1, <3>2 DEF Waiting!Pop
    <3> QED BY <3>2, <3>3 DEF Waiting!Next
  <2>4. CASE clear
    BY <2>4, ClearStep DEF Waiting!Clear, Waiting!Next
  <2>5. CASE UNCHANGED heapVars
    BY <2>5 DEF heapVars, Inside, InHeap
  <2> HIDE DEF queue
  <2> QED BY <2>1, <2>2, <2>3, <2>4, <2>5 DEF HeapNext
<1> QED BY <1>1, <1>2, HeapInductive, PTL DEF HeapSpec, ImplementsQueue, Waiting!Spec

-----------------------------------------------------------------------------
(* SegmentTree: sums of ranges. *)

LEMMA RangeFinite ==
  ASSUME NEW lo \in Int, NEW hi \in Int
  PROVE  IsFiniteSet(lo .. hi)
BY FS_Interval

\* The fold is the sum.
LEMMA TotalIsSum ==
  ASSUME NEW a \in [Positions -> Int], NEW lo \in Int, NEW hi \in Int, lo .. hi \subseteq Positions
  PROVE  Total(a, lo, hi) = SumOf([k \in lo .. hi |-> a[k]])
<1> DEFINE S == lo .. hi
           f == [k \in S |-> a[k]]
           Adder(h) == h = [T \in SUBSET S |->
             IF T = {} THEN 0 ELSE LET x == CHOOSE x \in T : TRUE IN a[x] + h[T \ {x}]]
           h == CHOOSE h : Adder(h)
<1>1. Total(a, lo, hi) = h[S]
  BY DEF Total, MapThenSumSet, MapThenFoldSet
<1>2. f \in [S -> Int] /\ IsFiniteSet(S)
  BY RangeFinite
<1> HIDE DEF S
<1>3. PICK g : Adds(f, S, g)
  BY <1>2, AddsExists
<1>4. Adder(g)
  <2>1. g = [T \in SUBSET S |-> g[T]] /\ g[{}] = 0
    BY <1>3 DEF Adds
  <2>2. \A T \in SUBSET S : T # {} => (CHOOSE x \in T : TRUE) \in T
    OBVIOUS
  <2>3. \A T \in SUBSET S : \A x \in T : g[T] = a[x] + g[T \ {x}]
    BY <1>3 DEF Adds
  <2> QED BY <2>1, <2>2, <2>3
<1>5. Adder(h)
  BY <1>4
<1> HIDE DEF h
<1>6. AddsSomehow(f, S, h)
  <2>1. h[{}] = 0
    BY <1>5
  <2>2. ASSUME NEW T \in SUBSET S, T # {}
        PROVE  \E x \in T : h[T] = f[x] + h[T \ {x}]
    <3>1. h[T] = LET x == CHOOSE x \in T : TRUE IN a[x] + h[T \ {x}]
      BY <1>5, <2>2
    <3>2. (CHOOSE x \in T : TRUE) \in T
      BY <2>2
    <3> QED BY <3>1, <3>2
  <2> QED BY <2>1, <2>2 DEF AddsSomehow
<1>7. h[S] = SumOf(f)
  <2> HIDE DEF f
  <2> QED BY <1>2, <1>6, FoldIsSum
<1> QED BY <1>1, <1>7 DEF S

\* No position, no sum; one position more at the end.
LEMMA TotalNone ==
  ASSUME NEW a \in [Positions -> Int], NEW lo \in Int, NEW hi \in Int, hi < lo
  PROVE  Total(a, lo, hi) = 0
<1>1. lo .. hi = {}
  OBVIOUS
<1>2. Total(a, lo, hi) = SumOf([k \in lo .. hi |-> a[k]])
  BY <1>1, TotalIsSum
<1>3. DOMAIN [k \in lo .. hi |-> a[k]] = {}
  BY <1>1
<1> QED BY <1>2, <1>3, SumEmpty

LEMMA TotalNext ==
  ASSUME NEW a \in [Positions -> Int], NEW lo \in Positions, NEW hi \in Positions, lo <= hi
  PROVE  /\ Total(a, lo, hi) = Total(a, lo, hi - 1) + a[hi]
         /\ Total(a, lo, hi - 1) \in Int /\ Total(a, lo, hi) \in Int
<1> DEFINE f == [k \in lo .. hi - 1 |-> a[k]]
           g == [k \in lo .. hi |-> a[k]]
<1>1. /\ lo .. hi = (lo .. hi - 1) \cup {hi} /\ hi \notin lo .. hi - 1
      /\ lo .. hi \subseteq Positions /\ lo .. hi - 1 \subseteq Positions
      /\ lo \in Int /\ hi \in Int /\ hi - 1 \in Int
  BY ArrayAssumption DEF Positions
<1>2. Total(a, lo, hi) = SumOf(g) /\ Total(a, lo, hi - 1) = SumOf(f)
  BY <1>1, TotalIsSum
<1>3. /\ f \in [lo .. hi - 1 -> Int] /\ g \in [(lo .. hi - 1) \cup {hi} -> Int]
      /\ \A k \in lo .. hi - 1 : g[k] = f[k]
      /\ g[hi] = a[hi] /\ a[hi] \in Int /\ IsFiniteSet(lo .. hi - 1)
  BY <1>1, RangeFinite
<1> HIDE DEF f, g
<1>4. SumOf(g) = SumOf(f) + g[hi] /\ SumOf(f) \in Int
  <2> DEFINE S == lo .. hi - 1
  <2>1. IsFiniteSet(S) /\ f \in [S -> Int] /\ hi \notin S /\ g \in [S \cup {hi} -> Int]
        /\ \A k \in S : g[k] = f[k]
    BY <1>1, <1>3
  <2> HIDE DEF S
  <2> QED BY <2>1, SumAdd
<1> QED BY <1>2, <1>3, <1>4

\* Every range has a sum; it is that of its two parts, and an amount added to each
\* element counts once for each.
Sums(a, b, c, lo, mid, hi) ==
  /\ Total(a, lo, hi) \in Int
  /\ lo <= mid /\ mid <= hi + 1 => Total(a, lo, hi) = Total(a, lo, mid - 1) + Total(a, mid, hi)
  /\ (\A k \in lo .. hi : b[k] = a[k] + c) =>
        Total(b, lo, hi) = Total(a, lo, hi) + (hi + 1 - lo) * c
  /\ (\A k \in lo .. hi : a[k] = c) => Total(a, lo, hi) = (hi + 1 - lo) * c

LEMMA TotalSums ==
  ASSUME NEW a \in [Positions -> Int], NEW b \in [Positions -> Int], NEW c \in Int,
         NEW lo \in Positions, NEW mid \in Positions, NEW hi \in Positions,
         lo <= hi + 1
  PROVE  Sums(a, b, c, lo, mid, hi)
<1> DEFINE G == {n \in Nat : lo + n - 1 \in Positions => Sums(a, b, c, lo, mid, lo + n - 1)}
<1>0. /\ lo \in Int /\ mid \in Int /\ hi \in Int /\ lo >= 0 /\ mid >= 0
      /\ ArrayLength \in Nat
      /\ \A k : k \in Positions <=> k \in Int /\ 0 <= k /\ k < ArrayLength
  BY ArrayAssumption DEF Positions
<1>1. 0 \in G
  <2>1. lo + 0 - 1 = lo - 1 /\ lo .. (lo - 1) = {} /\ ((lo - 1) + 1 - lo) * c = 0
    BY <1>0
  <2>2. Total(a, lo, lo - 1) = 0 /\ Total(b, lo, lo - 1) = 0
    BY <1>0, TotalNone
  <2>3. lo <= mid /\ mid <= (lo - 1) + 1 => mid = lo
    BY <1>0
  <2>4. Sums(a, b, c, lo, mid, lo - 1)
    BY <2>1, <2>2, <2>3, <1>0 DEF Sums
  <2> QED BY <2>1, <2>4
<1>2. ASSUME NEW n \in G
      PROVE  n + 1 \in G
  <2> DEFINE h == lo + n
  <2> SUFFICES ASSUME h \in Positions
               PROVE  Sums(a, b, c, lo, mid, h)
    BY <1>0
  <2>1. n \in Nat /\ h \in Int /\ h - 1 = lo + n - 1 /\ lo <= h
    BY <1>0
  <2>2. Total(a, lo, h) = Total(a, lo, h - 1) + a[h] /\ Total(a, lo, h - 1) \in Int
        /\ Total(b, lo, h) = Total(b, lo, h - 1) + b[h] /\ Total(a, lo, h) \in Int
        /\ a[h] \in Int
    BY <2>1, TotalNext
  <2>3. n = 0 => Total(a, lo, h - 1) = 0 /\ Total(b, lo, h - 1) = 0
    BY <1>0, <2>1, TotalNone
  <2>4. n > 0 => Sums(a, b, c, lo, mid, h - 1)
    BY <1>0, <2>1
  <2>5. h \in lo .. h /\ lo .. (h - 1) \subseteq lo .. h
    BY <1>0, <2>1
  <2>6. ASSUME lo <= mid, mid <= h + 1
        PROVE  Total(a, lo, h) = Total(a, lo, mid - 1) + Total(a, mid, h)
    <3>1. CASE mid = h + 1
      <4>1. Total(a, mid, h) = 0
        BY <1>0, <2>1, <3>1, TotalNone
      <4>2. mid - 1 = h
        BY <2>1, <3>1
      <4> QED BY <2>2, <4>1, <4>2
    <3>2. CASE mid <= h
      <4>1. Total(a, mid, h) = Total(a, mid, h - 1) + a[h] /\ Total(a, mid, h - 1) \in Int
        BY <3>2, TotalNext
      <4>2. CASE n = 0
        <5>1. mid = lo /\ mid - 1 = h - 1 /\ mid = h
          BY <1>0, <2>1, <2>6, <3>2, <4>2
        <5>2. Total(a, lo, mid - 1) = 0
          BY <2>3, <4>2, <5>1
        <5> QED BY <2>2, <5>1, <5>2
      <4>3. CASE n > 0
        <5>1. Total(a, lo, h - 1) = Total(a, lo, mid - 1) + Total(a, mid, h - 1)
          BY <1>0, <2>1, <2>4, <2>6, <3>2, <4>3 DEF Sums
        <5>2. Total(a, lo, mid - 1) \in Int
          <6>1. CASE mid = lo
            BY <1>0, <6>1, TotalNone
          <6>2. CASE mid # lo
            <7>1. mid - 1 \in Positions /\ lo <= mid - 1
              BY <1>0, <2>6, <6>2
            <7> QED BY <7>1, TotalNext
          <6> QED BY <6>1, <6>2
        <5> QED BY <2>2, <4>1, <5>1, <5>2
      <4> QED BY <2>1, <4>2, <4>3
    <3> QED BY <1>0, <2>1, <2>6, <3>1, <3>2
  <2>7. ASSUME \A k \in lo .. h : b[k] = a[k] + c
        PROVE  Total(b, lo, h) = Total(a, lo, h) + (h + 1 - lo) * c
    <3>1. Total(b, lo, h - 1) = Total(a, lo, h - 1) + n * c
      <4>1. CASE n = 0
        BY <2>3, <4>1
      <4>2. CASE n > 0
        <5>1. Total(b, lo, h - 1) = Total(a, lo, h - 1) + ((h - 1) + 1 - lo) * c
          BY <2>4, <2>5, <2>7, <4>2 DEF Sums
        <5>2. (h - 1) + 1 - lo = n
          BY <1>0, <2>1
        <5> QED BY <5>1, <5>2
      <4> QED BY <2>1, <4>1, <4>2
    <3>2. b[h] = a[h] + c /\ h + 1 - lo = n + 1
      BY <1>0, <2>1, <2>5, <2>7
    <3>3. (n + 1) * c = n * c + c /\ n * c \in Int
      BY <2>1
    <3> QED BY <2>2, <3>1, <3>2, <3>3
  <2>8. ASSUME \A k \in lo .. h : a[k] = c
        PROVE  Total(a, lo, h) = (h + 1 - lo) * c
    <3>1. Total(a, lo, h - 1) = n * c
      <4>1. CASE n = 0
        BY <2>3, <4>1
      <4>2. CASE n > 0
        <5>1. Total(a, lo, h - 1) = ((h - 1) + 1 - lo) * c
          BY <2>4, <2>5, <2>8, <4>2 DEF Sums
        <5>2. (h - 1) + 1 - lo = n
          BY <1>0, <2>1
        <5> QED BY <5>1, <5>2
      <4> QED BY <2>1, <4>1, <4>2
    <3>2. a[h] = c /\ h + 1 - lo = n + 1
      BY <1>0, <2>1, <2>5, <2>8
    <3>3. (n + 1) * c = n * c + c /\ n * c \in Int
      BY <2>1
    <3> QED BY <2>2, <3>1, <3>2, <3>3
  <2> QED BY <2>2, <2>6, <2>7, <2>8 DEF Sums
<1>3. G = Nat
  <2>1. G \in SUBSET Nat
    OBVIOUS
  <2> HIDE DEF G
  <2> QED BY <1>1, <1>2, <2>1, NumberInduction
<1> DEFINE m == hi + 1 - lo
<1>4. m \in Nat /\ lo + m - 1 = hi
  BY <1>0
<1>5. m \in G
  BY <1>3, <1>4
<1> HIDE DEF m
<1> QED BY <1>4, <1>5

\* Sums of the same numbers are the same.
LEMMA TotalSame ==
  ASSUME NEW a \in [Positions -> Int], NEW b \in [Positions -> Int],
         NEW lo \in Positions, NEW hi \in Positions, \A k \in lo .. hi : a[k] = b[k]
  PROVE  Total(a, lo, hi) = Total(b, lo, hi)
<1>1. lo \in Int /\ hi \in Int /\ lo .. hi \subseteq Positions
  BY ArrayAssumption DEF Positions
<1>2. [k \in lo .. hi |-> a[k]] = [k \in lo .. hi |-> b[k]]
  OBVIOUS
<1>3. Total(a, lo, hi) = SumOf([k \in lo .. hi |-> a[k]])
  BY <1>1, TotalIsSum
<1>4. Total(b, lo, hi) = SumOf([k \in lo .. hi |-> b[k]])
  BY <1>1, TotalIsSum
<1> QED BY <1>2, <1>3, <1>4

-----------------------------------------------------------------------------
(* The vector and its nodes. *)

\* The room for an array of length n, while n is at most m.
RoomIs(f, m) == f = [n \in 1 .. m |-> IF n > 1 THEN 2 * f[Half(n)] ELSE 2]

LEMMA RoomExists ==
  ASSUME NEW m \in Nat
  PROVE  \E f : RoomIs(f, m)
<1> DEFINE G == {k \in Nat : \E f : RoomIs(f, k)}
<1>1. 0 \in G
  <2> DEFINE f == [n \in 1 .. 0 |-> 2]
  <2>1. RoomIs(f, 0)
    BY DEF RoomIs
  <2> QED BY <2>1
<1>2. ASSUME NEW k \in G
      PROVE  k + 1 \in G
  <2>1. PICK f : RoomIs(f, k)
    OBVIOUS
  <2> DEFINE g == [n \in 1 .. k + 1 |-> IF n > 1 THEN 2 * f[Half(n)] ELSE 2]
  <2>2. ASSUME NEW n \in 1 .. k + 1, n > 1
        PROVE  g[Half(n)] = f[Half(n)]
    <3>1. Half(n) \in 1 .. k /\ Half(n) \in 1 .. k + 1
      BY <2>2 DEF Half
    <3>2. f[Half(n)] = IF Half(n) > 1 THEN 2 * f[Half(Half(n))] ELSE 2
      BY <2>1, <3>1 DEF RoomIs
    <3> QED BY <3>1, <3>2
  <2>3. g = [n \in 1 .. k + 1 |-> IF n > 1 THEN 2 * g[Half(n)] ELSE 2]
    BY <2>2
  <2> HIDE DEF g
  <2>4. RoomIs(g, k + 1)
    BY <2>3 DEF RoomIs
  <2> QED BY <2>4
<1>3. G = Nat
  <2>1. G \in SUBSET Nat
    OBVIOUS
  <2> HIDE DEF G
  <2> QED BY <1>1, <1>2, <2>1, NumberInduction
<1> QED BY <1>3

LEMMA RoomFacts ==
  /\ \A n \in 1 .. ArrayLength : room[n] \in Nat /\ room[n] >= 2
  /\ \A n \in 1 .. ArrayLength : n > 1 => room[n] = 2 * room[Half(n)]
<1>0. ArrayLength \in Nat
  BY ArrayAssumption
<1>1. RoomIs(room, ArrayLength)
  <2>1. room = CHOOSE f : RoomIs(f, ArrayLength)
    BY DEF room, RoomIs
  <2> QED BY <1>0, <2>1, RoomExists
<1>2. \A n \in 1 .. ArrayLength : room[n] = IF n > 1 THEN 2 * room[Half(n)] ELSE 2
  BY <1>1 DEF RoomIs
<1> DEFINE G == {m \in Nat : \A n \in 1 .. ArrayLength :
                               n <= m => room[n] \in Nat /\ room[n] >= 2}
<1>3. 0 \in G
  BY <1>0
<1>4. ASSUME NEW m \in G
      PROVE  m + 1 \in G
  <2> SUFFICES ASSUME NEW n \in 1 .. ArrayLength, n <= m + 1
               PROVE  room[n] \in Nat /\ room[n] >= 2
    OBVIOUS
  <2>1. CASE n > 1
    <3>1. Half(n) \in 1 .. ArrayLength /\ Half(n) <= m
      BY <1>0, <2>1 DEF Half
    <3>2. room[Half(n)] \in Nat /\ room[Half(n)] >= 2
      BY <3>1
    <3> QED BY <1>2, <2>1, <3>2
  <2>2. CASE ~(n > 1)
    BY <1>2, <2>2
  <2> QED BY <2>1, <2>2
<1>5. G = Nat
  <2>1. G \in SUBSET Nat
    OBVIOUS
  <2> HIDE DEF G
  <2> QED BY <1>3, <1>4, <2>1, NumberInduction
<1>6. ArrayLength \in G
  BY <1>0, <1>5
<1> QED BY <1>2, <1>6

\* The span of the son i of a node with the span f.
SonSpan(f, i) ==
  IF i = ll(father(i)) THEN [low |-> f.low, high |-> middle(f)]
  ELSE [low |-> middle(f) + 1, high |-> f.high]
SpanIs(g, m) ==
  g = [i \in 0 .. m - 1 |-> IF i = 0 THEN [low |-> 0, high |-> ArrayLength - 1]
                            ELSE SonSpan(g[father(i)], i)]

LEMMA SpanExists ==
  ASSUME NEW m \in Nat
  PROVE  \E g : SpanIs(g, m)
<1> DEFINE G == {k \in Nat : \E g : SpanIs(g, k)}
<1>1. 0 \in G
  <2> DEFINE g == [i \in 0 .. 0 - 1 |-> 2]
  <2>1. SpanIs(g, 0)
    BY DEF SpanIs
  <2> QED BY <2>1
<1>2. ASSUME NEW k \in G
      PROVE  k + 1 \in G
  <2>1. PICK f : SpanIs(f, k)
    OBVIOUS
  <2> DEFINE g == [i \in 0 .. (k + 1) - 1 |-> IF i = 0 THEN [low |-> 0, high |-> ArrayLength - 1]
                                              ELSE SonSpan(f[father(i)], i)]
  <2>2. ASSUME NEW i \in 0 .. (k + 1) - 1, i # 0
        PROVE  g[father(i)] = f[father(i)]
    <3>1. father(i) \in 0 .. k - 1 /\ father(i) \in 0 .. (k + 1) - 1
      BY <2>2 DEF father
    <3>2. f[father(i)] = IF father(i) = 0 THEN [low |-> 0, high |-> ArrayLength - 1]
                         ELSE SonSpan(f[father(father(i))], father(i))
      BY <2>1, <3>1 DEF SpanIs
    <3> QED BY <3>1, <3>2
  <2>3. g = [i \in 0 .. (k + 1) - 1 |-> IF i = 0 THEN [low |-> 0, high |-> ArrayLength - 1]
                                        ELSE SonSpan(g[father(i)], i)]
    BY <2>2
  <2> HIDE DEF g
  <2>4. SpanIs(g, k + 1)
    BY <2>3 DEF SpanIs
  <2> QED BY <2>4
<1>3. G = Nat
  <2>1. G \in SUBSET Nat
    OBVIOUS
  <2> HIDE DEF G
  <2> QED BY <1>1, <1>2, <2>1, NumberInduction
<1> QED BY <1>3

LEMMA SpanFacts ==
  /\ 0 \in TreeNodes /\ span[0] = [low |-> 0, high |-> ArrayLength - 1]
  /\ \A i \in TreeNodes : i # 0 => span[i] = SonSpan(span[father(i)], i)
<1>1. room[ArrayLength] - 1 \in Nat /\ room[ArrayLength] - 1 >= 1
  BY RoomFacts, ArrayAssumption
<1> DEFINE m == room[ArrayLength] - 1
<1>2. TreeNodes = 0 .. m - 1
  <2>1. room[ArrayLength] \in Nat
    BY RoomFacts, ArrayAssumption
  <2>2. m - 1 = room[ArrayLength] - 2
    BY <2>1
  <2> QED BY <2>2 DEF TreeNodes
<1>3. span = CHOOSE g : g = [i \in TreeNodes |->
                IF i = 0 THEN [low |-> 0, high |-> ArrayLength - 1] ELSE SonSpan(g[father(i)], i)]
  BY DEF span, SonSpan
<1> HIDE DEF m
<1>4. span = CHOOSE g : SpanIs(g, m)
  BY <1>2, <1>3 DEF SpanIs
<1>5. SpanIs(span, m)
  BY <1>1, <1>4, SpanExists DEF m
<1> QED BY <1>1, <1>2, <1>5 DEF SpanIs, m

Wide(i) == span[i].low < span[i].high

\* A node for n positions has room below it.
HasRoom(i, n) == \E m \in 1 .. ArrayLength : n <= m /\ (i + 2) * room[m] <= 2 * room[ArrayLength]

\* A node stands for positions of the array, none at all if a leaf is above it.
Placed(i) ==
  /\ span[i] = [low |-> span[i].low, high |-> span[i].high]
  /\ span[i].low \in Nat /\ span[i].high \in Int /\ span[i].high < ArrayLength
  /\ span[i].low <= span[i].high + 1
  /\ i \in Used => span[i].low <= span[i].high /\ HasRoom(i, span[i].high + 1 - span[i].low)
  /\ Wide(i) => i \in Used

\* What is left of a half fits below a son.
LEMMA SonFits ==
  ASSUME NEW f \in Nat, NEW i \in Nat, NEW n \in Nat, NEW k \in Nat, n > 1,
         HasRoom(f, n), i = 2 * f + 1 \/ i = 2 * f + 2, k <= Half(n)
  PROVE  HasRoom(i, k) /\ 2 * f + 2 \in TreeNodes
<1>1. PICK m \in 1 .. ArrayLength : n <= m /\ (f + 2) * room[m] <= 2 * room[ArrayLength]
  BY DEF HasRoom
<1>2. /\ ArrayLength \in Nat /\ ArrayLength \in 1 .. ArrayLength /\ m \in Nat /\ m > 1
      /\ Half(m) \in 1 .. ArrayLength /\ Half(n) <= Half(m) /\ Half(n) \in Nat /\ Half(m) \in Nat
  BY <1>1, ArrayAssumption DEF Half
<1> DEFINE r == room[Half(m)]
           q == room[ArrayLength]
<1>3. room[m] = 2 * r /\ r \in Nat /\ r >= 2 /\ q \in Nat
  BY <1>2, RoomFacts
<1> HIDE DEF r, q
<1>4. (f + 2) * (2 * r) <= 2 * q
  BY <1>1, <1>3 DEF q
<1>5. (i + 2) * r <= 2 * q
  <2>1. i + 2 <= 2 * (f + 2)
    OBVIOUS
  <2>2. (i + 2) * r <= (2 * (f + 2)) * r
    BY <1>3, <2>1
  <2>3. (2 * (f + 2)) * r = (f + 2) * (2 * r)
    BY <1>3
  <2>4. (i + 2) * r \in Int /\ (2 * (f + 2)) * r \in Int
    BY <1>3
  <2> QED BY <1>3, <1>4, <2>2, <2>3, <2>4
<1>6. HasRoom(i, k)
  BY <1>2, <1>5 DEF HasRoom, r, q
<1>7. 2 * f + 2 <= q - 2
  <2>1. (f + 2) * (2 * 2) <= (f + 2) * (2 * r)
    BY <1>3
  <2>2. (f + 2) * (2 * 2) = 4 * f + 8 /\ (f + 2) * (2 * r) \in Int
    BY <1>3
  <2> QED BY <1>3, <1>4, <2>1, <2>2
<1> QED BY <1>3, <1>6, <1>7 DEF TreeNodes, q

LEMMA AllPlaced == \A i \in TreeNodes : Placed(i)
<1>0. /\ ArrayLength \in Nat /\ ArrayLength > 0 /\ room[ArrayLength] \in Nat
      /\ TreeNodes \subseteq Nat /\ 0 \in TreeNodes
  BY ArrayAssumption, RoomFacts, SpanFacts DEF TreeNodes
<1> DEFINE G == {m \in Nat : \A i \in TreeNodes : i <= m => Placed(i)}
<1>1. 0 \in G
  <2>1. span[0] = [low |-> 0, high |-> ArrayLength - 1]
    BY SpanFacts
  <2>2. 0 \in Used
    BY <1>0 DEF Used
  <2>3. HasRoom(0, ArrayLength)
    BY <1>0 DEF HasRoom
  <2>4. Placed(0)
    <3>1. ArrayLength - 1 + 1 - 0 = ArrayLength /\ ArrayLength - 1 \in Int
      BY <1>0
    <3> QED BY <1>0, <2>1, <2>2, <2>3, <3>1 DEF Placed, Wide
  <2>5. \A i \in TreeNodes : i <= 0 => i = 0
    BY <1>0
  <2> QED BY <2>4, <2>5
<1>2. ASSUME NEW m \in G
      PROVE  m + 1 \in G
  <2> SUFFICES ASSUME NEW i \in TreeNodes, i <= m + 1, i # 0
               PROVE  Placed(i)
    BY <1>1
  <2> DEFINE f == father(i)
             lo == span[f].low
             hi == span[f].high
             mid == middle(span[f])
  <2>1. /\ f \in TreeNodes /\ f \in Nat /\ f <= m /\ i \in Nat
        /\ i = 2 * f + 1 \/ i = 2 * f + 2
    BY <1>0 DEF father, TreeNodes
  <2>2. Placed(f)
    BY <2>1
  <2>3. lo \in Nat /\ hi \in Int /\ hi < ArrayLength /\ lo <= hi + 1 /\ mid = (lo + hi) \div 2
    BY <2>2 DEF Placed, middle
  <2>4. \/ span[i] = [low |-> lo, high |-> mid]
        \/ span[i] = [low |-> mid + 1, high |-> hi]
    BY <2>1, SpanFacts DEF SonSpan
  <2>5. i \in Used <=> lo < hi
    BY <2>1 DEF Used
  <2> HIDE DEF f
  <2>6. CASE lo < hi
    <3>1. lo <= mid /\ mid < hi /\ mid \in Nat
      BY <2>3, <2>6
    <3>2. /\ span[i] = [low |-> span[i].low, high |-> span[i].high]
          /\ span[i].low \in Nat /\ span[i].high \in Nat /\ span[i].high < ArrayLength
          /\ span[i].low <= span[i].high
          /\ span[i].high + 1 - span[i].low <= Half(hi + 1 - lo)
      <4>1. CASE span[i] = [low |-> lo, high |-> mid]
        BY <1>0, <2>3, <3>1, <4>1 DEF Half
      <4>2. CASE span[i] = [low |-> mid + 1, high |-> hi]
        BY <1>0, <2>3, <3>1, <4>2 DEF Half
      <4> QED BY <2>4, <4>1, <4>2
    <3>3. f \in Used /\ HasRoom(f, hi + 1 - lo)
      BY <2>2, <2>6 DEF Placed, Wide
    <3>4. hi + 1 - lo \in Nat /\ hi + 1 - lo > 1 /\ span[i].high + 1 - span[i].low \in Nat
      BY <2>3, <2>6, <3>2
    <3>5. HasRoom(i, span[i].high + 1 - span[i].low)
      BY <2>1, <3>2, <3>3, <3>4, SonFits
    <3> QED BY <2>5, <2>6, <3>2, <3>5 DEF Placed
  <2>7. CASE ~(lo < hi)
    <3>1. (lo = hi /\ mid = lo) \/ (lo = hi + 1 /\ mid = hi)
      BY <2>3, <2>7
    <3>2. /\ span[i] = [low |-> span[i].low, high |-> span[i].high]
          /\ span[i].low \in Nat /\ span[i].high \in Int /\ span[i].high < ArrayLength
          /\ span[i].low <= span[i].high + 1 /\ ~(span[i].low < span[i].high)
      <4>1. CASE span[i] = [low |-> lo, high |-> mid]
        BY <1>0, <2>3, <3>1, <4>1
      <4>2. CASE span[i] = [low |-> mid + 1, high |-> hi]
        BY <1>0, <2>3, <3>1, <4>2
      <4> QED BY <2>4, <4>1, <4>2
    <3> QED BY <2>5, <2>7, <3>2 DEF Placed, Wide
  <2> QED BY <2>6, <2>7
<1>3. G = Nat
  <2>1. G \in SUBSET Nat
    OBVIOUS
  <2> HIDE DEF G
  <2> QED BY <1>1, <1>2, <2>1, NumberInduction
<1> QED BY <1>0, <1>3

\* A node in use has positions, and if it has more than one, sons that halve them.
LEMMA UsedNode ==
  ASSUME NEW i \in Used
  PROVE  /\ i \in TreeNodes /\ i \in Nat
         /\ span[i].low \in Positions /\ span[i].high \in Positions
         /\ span[i].low \in Nat /\ span[i].high \in Nat
         /\ span[i].low <= span[i].high
<1>1. i \in TreeNodes /\ Placed(i) /\ ArrayLength \in Nat
  BY AllPlaced, ArrayAssumption DEF Used
<1>2. /\ span[i].low \in Nat /\ span[i].high \in Int /\ span[i].high < ArrayLength
      /\ span[i].low <= span[i].high
  BY <1>1 DEF Placed
<1>3. i \in Nat
  BY <1>1 DEF TreeNodes
<1> QED BY <1>1, <1>2, <1>3 DEF Positions

LEMMA UsedSons ==
  ASSUME NEW i \in Used, Wide(i)
  PROVE  /\ ll(i) \in Used /\ rr(i) \in Used
         /\ span[ll(i)] = [low |-> span[i].low, high |-> middle(span[i])]
         /\ span[rr(i)] = [low |-> middle(span[i]) + 1, high |-> span[i].high]
         /\ middle(span[i]) \in Nat /\ middle(span[i]) \in Positions
         /\ middle(span[i]) + 1 \in Positions
         /\ span[i].low <= middle(span[i]) /\ middle(span[i]) < span[i].high
<1>1. /\ i \in TreeNodes /\ i \in Nat /\ span[i].low \in Nat /\ span[i].high \in Nat
      /\ span[i].high \in Positions /\ ArrayLength \in Nat
  BY UsedNode, ArrayAssumption
<1>2. Placed(i)
  BY <1>1, AllPlaced
<1>3. HasRoom(i, span[i].high + 1 - span[i].low)
  BY <1>2 DEF Placed
<1>4. span[i].high + 1 - span[i].low \in Nat /\ span[i].high + 1 - span[i].low > 1
      /\ Half(span[i].high + 1 - span[i].low) \in Nat
  BY <1>1 DEF Wide, Half
<1>5. 2 * i + 2 \in TreeNodes
  BY <1>1, <1>3, <1>4, SonFits
<1>6. /\ ll(i) \in TreeNodes /\ rr(i) \in TreeNodes /\ ll(i) # 0 /\ rr(i) # 0
      /\ father(ll(i)) = i /\ father(rr(i)) = i /\ rr(i) # ll(i)
  <2>1. room[ArrayLength] \in Nat
    BY RoomFacts, ArrayAssumption
  <2>2. 2 * i + 1 \in TreeNodes
    BY <1>1, <1>5, <2>1 DEF TreeNodes
  <2>3. (2 * i + 1 - 1) \div 2 = i /\ (2 * i + 2 - 1) \div 2 = i
    <3>1. \A k \in Nat : (2 * k + 1 - 1) \div 2 = k /\ (2 * k + 2 - 1) \div 2 = k
      OBVIOUS
    <3> QED BY <1>1, <3>1
  <2> QED BY <1>1, <1>5, <2>2, <2>3 DEF ll, rr, father
<1>7. /\ span[ll(i)] = [low |-> span[i].low, high |-> middle(span[i])]
      /\ span[rr(i)] = [low |-> middle(span[i]) + 1, high |-> span[i].high]
  BY <1>6, SpanFacts DEF SonSpan
<1>8. /\ middle(span[i]) \in Nat
      /\ span[i].low <= middle(span[i]) /\ middle(span[i]) < span[i].high
  BY <1>1 DEF middle, Wide
<1>9. middle(span[i]) \in Positions /\ middle(span[i]) + 1 \in Positions
  BY <1>1, <1>8 DEF Positions
<1>10. ll(i) \in Used /\ rr(i) \in Used
  BY <1>6 DEF Used, Wide
<1> QED BY <1>7, <1>8, <1>9, <1>10

-----------------------------------------------------------------------------
(* The walks. *)

\* What a walk does at a node, when f does what is done below it.
UpdateBody(f, x, new) ==
  LET mid == middle(span[x.i])
      a == pushDown(x.t, x.i)
      b == IF x.start <= mid THEN f[Call(a, x.start, Lesser(mid, x.end), ll(x.i))] ELSE a
      c == IF x.end > mid THEN f[Call(b, Greater(x.start, mid + 1), x.end, rr(x.i))] ELSE b
  IN  IF Exact(x) THEN [x.t EXCEPT ![x.i] = rewrite(@, new)] ELSE pushDown(c, x.i)

QueryBody(f, x) ==
  LET mid == middle(span[x.i])
      a == pushDown(x.t, x.i)
      b == IF x.start <= mid THEN f[Call(a, x.start, mid, ll(x.i))] ELSE [t |-> a, sum |-> 0]
      c == f[Call(b.t, Greater(x.start, mid + 1), x.end, rr(x.i))]
  IN  IF Exact(x) THEN [t |-> x.t, sum |-> getSum(x.t[x.i], span[x.i].low, span[x.i].high)]
      ELSE IF mid >= x.end THEN f[Call(a, x.start, x.end, ll(x.i))]
      ELSE [t |-> c.t, sum |-> b.sum + c.sum]

Updates(f, C, new) == f = [x \in C |-> UpdateBody(f, x, new)]
Queries(f, C) == f = [x \in C |-> QueryBody(f, x)]

\* The calls at nodes for at most n positions.
Size(i) == span[i].high + 1 - span[i].low
Short(n) == {x \in Calls : Size(x.i) <= n}

News == [covered : BOOLEAN, v : Int]

\* The parts of a call.
LEMMA CallParts ==
  ASSUME NEW x \in Calls
  PROVE  /\ x.t \in Trees /\ x.start \in Positions /\ x.end \in Positions /\ x.i \in Used
         /\ x.start \in Nat /\ x.end \in Nat
         /\ span[x.i].low <= x.start /\ x.start <= x.end /\ x.end <= span[x.i].high
         /\ ~Exact(x) => Wide(x.i)
<1>1. /\ x.t \in Trees /\ x.start \in Positions /\ x.end \in Positions /\ x.i \in Used
      /\ span[x.i].low <= x.start /\ x.start <= x.end /\ x.end <= span[x.i].high
  BY DEF Calls
<1>2. x.start \in Nat /\ x.end \in Nat /\ span[x.i].low \in Nat /\ span[x.i].high \in Nat
  BY <1>1, UsedNode, ArrayAssumption DEF Positions
<1> QED BY <1>1, <1>2 DEF Exact, Wide

LEMMA CallMade ==
  ASSUME NEW t \in Trees, NEW start \in Positions, NEW end \in Positions, NEW i \in Used,
         span[i].low <= start, start <= end, end <= span[i].high
  PROVE  /\ Call(t, start, end, i) \in Calls
         /\ Call(t, start, end, i).t = t /\ Call(t, start, end, i).start = start
         /\ Call(t, start, end, i).end = end /\ Call(t, start, end, i).i = i
BY DEF Call, Calls


\* What becomes of a node.
LEMMA NodeFields ==
  ASSUME NEW x \in Node
  PROVE  x.covered \in BOOLEAN /\ x.s \in Int /\ x.v \in Int /\ x.add \in Int
BY DEF Node

LEMMA Covered ==
  ASSUME NEW x \in Node, NEW w \in Int
  PROVE  /\ Covering(x, w) \in Node /\ Covering(x, w).covered
         /\ Covering(x, w).v = w /\ Covering(x, w).add = 0
<1> DEFINE y == [x EXCEPT !.v = w]
           z == [y EXCEPT !.covered = TRUE]
<1>1. y \in Node
  BY DEF Node
<1>2. z \in Node
  <2> HIDE DEF y
  <2> QED BY <1>1 DEF Node
<1>3. [z EXCEPT !.add = 0] \in Node
  <2> HIDE DEF z
  <2> QED BY <1>2 DEF Node
<1>4. Covering(x, w) = [z EXCEPT !.add = 0]
  BY DEF Covering
<1>5. Covering(x, w).covered /\ Covering(x, w).v = w /\ Covering(x, w).add = 0
  BY DEF Node, Covering
<1> QED BY <1>3, <1>4, <1>5

LEMMA Added ==
  ASSUME NEW x \in Node, NEW w \in Int
  PROVE  /\ Adding(x, w) \in Node /\ Adding(x, w).covered = x.covered
         /\ Adding(x, w).v = x.v /\ Adding(x, w).add = x.add + w /\ Adding(x, w).s = x.s
<1>1. x.add + w \in Int
  BY NodeFields
<1>2. [x EXCEPT !.add = x.add + w] \in Node
  BY <1>1 DEF Node
<1> QED BY <1>2 DEF Node, Adding

LEMMA EmptiedNode ==
  ASSUME NEW x \in Node
  PROVE  Emptied(x) \in Node /\ ~Emptied(x).covered /\ Emptied(x).add = 0
<1>1. CASE x.covered
  <2> DEFINE y == [x EXCEPT !.covered = FALSE]
             z == [y EXCEPT !.v = x.v + x.add]
  <2>0. x.v + x.add \in Int
    BY NodeFields
  <2>1. y \in Node
    BY DEF Node
  <2>2. z \in Node
    <3> HIDE DEF y
    <3> QED BY <2>0, <2>1 DEF Node
  <2>3. [z EXCEPT !.add = 0] \in Node
    <3> HIDE DEF z
    <3> QED BY <2>2 DEF Node
  <2>4. Emptied(x) = [z EXCEPT !.add = 0]
    BY <1>1 DEF Emptied
  <2>5. ~Emptied(x).covered /\ Emptied(x).add = 0
    BY <1>1 DEF Emptied, Node
  <2> QED BY <2>3, <2>4, <2>5
<1>2. CASE ~x.covered
  <2>1. [x EXCEPT !.add = 0] \in Node
    BY DEF Node
  <2> QED BY <1>2, <2>1 DEF Emptied, Node
<1> QED BY <1>1, <1>2

LEMMA GivenNode ==
  ASSUME NEW x \in Node, NEW son \in Node
  PROVE  /\ Given(x, son) \in Node
         /\ x.covered => /\ Given(x, son).covered
                         /\ Given(x, son).v = x.v + x.add /\ Given(x, son).add = 0
         /\ ~x.covered => /\ Given(x, son).covered = son.covered
                          /\ Given(x, son).v = son.v /\ Given(x, son).s = son.s
                          /\ Given(x, son).add = son.add + x.add
<1>1. x.v + x.add \in Int /\ x.add \in Int
  BY NodeFields
<1>2. CASE x.covered
  BY <1>1, <1>2, Covered DEF Given
<1>3. CASE ~x.covered
  BY <1>1, <1>3, Added DEF Given
<1> QED BY <1>2, <1>3

\* A node and its sons are three nodes of the vector.
LEMMA ThreeNodes ==
  ASSUME NEW i \in Used, Wide(i)
  PROVE  /\ i \in TreeNodes /\ ll(i) \in TreeNodes /\ rr(i) \in TreeNodes
         /\ i # ll(i) /\ i # rr(i) /\ ll(i) # rr(i)
<1>1. i \in TreeNodes /\ i \in Nat /\ ll(i) \in Used /\ rr(i) \in Used
  BY UsedNode, UsedSons
<1>2. ll(i) \in TreeNodes /\ rr(i) \in TreeNodes
  BY <1>1, UsedNode
<1> QED BY <1>1, <1>2 DEF ll, rr

\* What pushing down leaves at the node, at its sons and elsewhere.
Pushing(t, i, u) ==
  LET lo == span[i].low
      hi == span[i].high
      mid == middle(span[i])
  IN  /\ u \in Trees
      /\ ~u[i].covered /\ u[i].add = 0
      /\ u[i].s = getSum(u[ll(i)], lo, mid) + getSum(u[rr(i)], mid + 1, hi)
      /\ u[ll(i)] = Given(t[i], t[ll(i)]) /\ u[rr(i)] = Given(t[i], t[rr(i)])
      /\ \A j \in TreeNodes \ {i, ll(i), rr(i)} : u[j] = t[j]

LEMMA PushDown ==
  ASSUME NEW t \in Trees, NEW i \in Used, Wide(i)
  PROVE  Pushing(t, i, pushDown(t, i))
<1> DEFINE mid == middle(span[i])
           l == ll(i)
           r == rr(i)
           u == Passed(t, i)
           sum == getSum(u[l], span[i].low, mid) + getSum(u[r], mid + 1, span[i].high)
<1>1. /\ i \in TreeNodes /\ l \in TreeNodes /\ r \in TreeNodes
      /\ i # l /\ i # r /\ l # r
      /\ span[i].low \in Int /\ span[i].high \in Int /\ mid \in Int /\ mid + 1 \in Int
  <2>1. /\ i \in TreeNodes /\ l \in TreeNodes /\ r \in TreeNodes
        /\ i # l /\ i # r /\ l # r
    BY ThreeNodes
  <2>2. span[i].low \in Nat /\ span[i].high \in Nat
    BY UsedNode
  <2>3. mid \in Nat
    BY UsedSons
  <2> QED BY <2>1, <2>2, <2>3
<1>2. t[i] \in Node /\ t[l] \in Node /\ t[r] \in Node
  BY <1>1 DEF Trees
<1>3. /\ Emptied(t[i]) \in Node /\ ~Emptied(t[i]).covered /\ Emptied(t[i]).add = 0
      /\ Given(t[i], t[l]) \in Node /\ Given(t[i], t[r]) \in Node
  BY <1>2, EmptiedNode, GivenNode
<1>4. /\ u \in Trees /\ u[i] = Emptied(t[i])
      /\ u[l] = Given(t[i], t[l]) /\ u[r] = Given(t[i], t[r])
      /\ \A j \in TreeNodes \ {i, l, r} : u[j] = t[j]
  <2>1. u = [t EXCEPT ![i] = Emptied(t[i]), ![l] = Given(t[i], t[l]), ![r] = Given(t[i], t[r])]
    BY <1>1 DEF Passed, Trees
  <2> HIDE DEF u, l, r
  <2> QED BY <1>1, <1>3, <2>1 DEF Trees
<1>5. pushDown(t, i) = [u EXCEPT ![i] = [u[i] EXCEPT !.s = sum]]
  <2>1. pushDown(t, i) = [u EXCEPT ![i].s = sum]
    BY DEF pushDown
  <2> HIDE DEF u, sum
  <2> QED BY <1>1, <1>4, <2>1 DEF Trees
<1>6. sum \in Int
  <2>1. u[l] \in Node /\ u[r] \in Node
    BY <1>1, <1>4 DEF Trees
  <2> HIDE DEF u, l, r, mid
  <2>2. /\ getSum(u[l], span[i].low, mid) \in Int
        /\ getSum(u[r], mid + 1, span[i].high) \in Int
    BY <1>1, <2>1, NodeFields DEF getSum
  <2> QED BY <2>2
<1> HIDE DEF u
<1>7. u[i] \in Node
  BY <1>1, <1>4 DEF Trees
<1> DEFINE n == [u[i] EXCEPT !.s = sum]
<1>8. n \in Node /\ n.s = sum /\ ~n.covered /\ n.add = 0
  <2> HIDE DEF sum
  <2>1. u[i].covered \in BOOLEAN /\ ~u[i].covered /\ u[i].add = 0
    BY <1>3, <1>4, <1>7 DEF Node
  <2> QED BY <1>6, <1>7, <2>1 DEF Node
<1> HIDE DEF n, l, r
<1>9. /\ [u EXCEPT ![i] = n] \in Trees /\ [u EXCEPT ![i] = n][i] = n
      /\ \A j \in TreeNodes \ {i} : [u EXCEPT ![i] = n][j] = u[j]
  BY <1>1, <1>4, <1>8 DEF Trees
<1> QED BY <1>1, <1>4, <1>5, <1>8, <1>9 DEF Pushing, n, l, r

\* The walk goes on at the sons, about fewer positions.
LEMMA Descend ==
  ASSUME NEW x \in Calls, ~Exact(x), NEW t \in Trees, NEW n \in Nat, x \in Short(n + 1)
  PROVE  LET mid == middle(span[x.i])
         IN  /\ x.start <= mid => Call(t, x.start, Lesser(mid, x.end), ll(x.i)) \in Short(n)
             /\ x.end > mid => Call(t, Greater(x.start, mid + 1), x.end, rr(x.i)) \in Short(n)
<1> DEFINE i == x.i
           mid == middle(span[i])
<1>1. /\ i \in Used /\ Wide(i) /\ x.start \in Positions /\ x.end \in Positions
      /\ x.start \in Nat /\ x.end \in Nat
      /\ span[i].low <= x.start /\ x.start <= x.end /\ x.end <= span[i].high
  BY CallParts
<1>2. span[i].low \in Nat /\ span[i].high \in Nat
  BY <1>1, UsedNode
<1>3. /\ ll(i) \in Used /\ rr(i) \in Used
      /\ span[ll(i)] = [low |-> span[i].low, high |-> mid]
      /\ span[rr(i)] = [low |-> mid + 1, high |-> span[i].high]
      /\ mid \in Nat /\ mid \in Positions /\ mid + 1 \in Positions
      /\ span[i].low <= mid /\ mid < span[i].high
  BY <1>1, UsedSons
<1>4. Size(i) <= n + 1
  BY DEF Short
<1> HIDE DEF i, mid
<1>5. Size(ll(i)) <= n /\ Size(rr(i)) <= n
  BY <1>2, <1>3, <1>4 DEF Size
<1>6. ASSUME x.start <= mid
      PROVE  Call(t, x.start, Lesser(mid, x.end), ll(i)) \in Short(n)
  <2> DEFINE e == Lesser(mid, x.end)
  <2>1. /\ e \in Positions /\ span[ll(i)].low <= x.start /\ x.start <= e /\ e <= span[ll(i)].high
    BY <1>1, <1>3, <1>6 DEF Lesser
  <2> HIDE DEF e
  <2>2. x.start \in Positions /\ ll(i) \in Used
    BY <1>1, <1>3
  <2>3. /\ Call(t, x.start, e, ll(i)) \in Calls /\ Call(t, x.start, e, ll(i)).i = ll(i)
    BY <2>1, <2>2, CallMade
  <2> QED BY <1>5, <2>3 DEF Short, e
<1>7. ASSUME x.end > mid
      PROVE  Call(t, Greater(x.start, mid + 1), x.end, rr(i)) \in Short(n)
  <2> DEFINE b == Greater(x.start, mid + 1)
  <2>1. /\ b \in Positions /\ span[rr(i)].low <= b /\ b <= x.end /\ x.end <= span[rr(i)].high
    BY <1>1, <1>3, <1>7 DEF Greater
  <2> HIDE DEF b
  <2>2. x.end \in Positions /\ rr(i) \in Used
    BY <1>1, <1>3
  <2>3. /\ Call(t, b, x.end, rr(i)) \in Calls /\ Call(t, b, x.end, rr(i)).i = rr(i)
    BY <2>1, <2>2, CallMade
  <2> QED BY <1>5, <2>3 DEF Short, b
<1> QED BY <1>6, <1>7 DEF i, mid

\* A rewritten node.
LEMMA RewrittenNode ==
  ASSUME NEW x \in Node, NEW new \in News
  PROVE  rewrite(x, new) \in Node
BY Covered, Added DEF rewrite, News

\* What is done at a node depends on what is done below it only.
LEMMA UpdateBelow ==
  ASSUME NEW n \in Nat, NEW f, NEW g, NEW new \in News,
         \A y \in Short(n) : f[y] \in Trees /\ g[y] = f[y],
         NEW x \in Short(n + 1)
  PROVE  UpdateBody(f, x, new) \in Trees /\ UpdateBody(g, x, new) = UpdateBody(f, x, new)
<1> DEFINE i == x.i
           mid == middle(span[i])
<1>1. x \in Calls /\ x.t \in Trees /\ i \in Used /\ (~Exact(x) => Wide(i))
  <2>1. x \in Calls
    BY DEF Short
  <2> QED BY <2>1, CallParts
<1>2. CASE Exact(x)
  <2>1. i \in TreeNodes
    BY <1>1, UsedNode
  <2>2. x.t[i] \in Node
    BY <1>1, <2>1 DEF Trees
  <2>3. rewrite(x.t[i], new) \in Node
    BY <2>2, RewrittenNode
  <2>4. [x.t EXCEPT ![i] = rewrite(@, new)] \in Trees
    BY <1>1, <2>1, <2>3 DEF Trees
  <2> QED BY <1>2, <2>4 DEF UpdateBody
<1>3. CASE ~Exact(x)
  <2> DEFINE a == pushDown(x.t, i)
             b(h) == IF x.start <= mid THEN h[Call(a, x.start, Lesser(mid, x.end), ll(i))] ELSE a
             c(h) == IF x.end > mid THEN h[Call(b(h), Greater(x.start, mid + 1), x.end, rr(i))]
                     ELSE b(h)
  <2>1. a \in Trees
    BY <1>1, <1>3, PushDown DEF Pushing
  <2>2. b(f) \in Trees /\ b(g) = b(f)
    <3>1. x.start <= mid => Call(a, x.start, Lesser(mid, x.end), ll(i)) \in Short(n)
      BY <1>1, <1>3, <2>1, Descend
    <3> QED BY <2>1, <3>1
  <2> HIDE DEF b
  <2>3. c(f) \in Trees /\ c(g) = c(f)
    <3>1. x.end > mid => Call(b(f), Greater(x.start, mid + 1), x.end, rr(i)) \in Short(n)
      BY <1>1, <1>3, <2>2, Descend
    <3> QED BY <2>2, <3>1
  <2>4. UpdateBody(f, x, new) = pushDown(c(f), i) /\ UpdateBody(g, x, new) = pushDown(c(g), i)
    BY <1>3 DEF UpdateBody, b
  <2> HIDE DEF c, i
  <2>5. pushDown(c(f), i) \in Trees
    BY <1>1, <1>3, <2>3, PushDown DEF Pushing
  <2> QED BY <2>3, <2>4, <2>5
<1> QED BY <1>2, <1>3

LEMMA Sizes ==
  /\ Calls = Short(ArrayLength) /\ Short(0) = {}
  /\ \A n \in Nat : Short(n) \subseteq Short(n + 1)
<1>1. ASSUME NEW x \in Calls
      PROVE  Size(x.i) <= ArrayLength /\ ~(Size(x.i) <= 0) /\ Size(x.i) \in Nat
  <2>1. x.i \in Used
    BY CallParts
  <2>2. /\ span[x.i].low \in Nat /\ span[x.i].high \in Nat /\ span[x.i].high \in Positions
        /\ span[x.i].low <= span[x.i].high
    BY <2>1, UsedNode
  <2> QED BY <2>2, ArrayAssumption DEF Size, Positions
<1> QED BY <1>1, ArrayAssumption DEF Short

LEMMA UpdatesExist ==
  ASSUME NEW new \in News
  PROVE  \E f \in [Calls -> Trees] : Updates(f, Calls, new)
<1> DEFINE G == {n \in Nat : \E f \in [Short(n) -> Trees] : Updates(f, Short(n), new)}
<1>0. Calls = Short(ArrayLength) /\ ArrayLength \in Nat /\ Short(0) = {}
  BY Sizes, ArrayAssumption
<1>1. 0 \in G
  <2> DEFINE f == [x \in Short(0) |-> 0]
  <2>1. f \in [Short(0) -> Trees] /\ Updates(f, Short(0), new)
    BY <1>0 DEF Updates
  <2> QED BY <2>1
<1>2. ASSUME NEW n \in G
      PROVE  n + 1 \in G
  <2>1. PICK f \in [Short(n) -> Trees] : Updates(f, Short(n), new)
    OBVIOUS
  <2> DEFINE g == [x \in Short(n + 1) |-> UpdateBody(f, x, new)]
  <2>2. Short(n) \subseteq Short(n + 1)
    BY Sizes
  <2>3. \A y \in Short(n) : f[y] \in Trees /\ g[y] = f[y]
    BY <2>1, <2>2 DEF Updates
  <2> HIDE DEF g
  <2>4. \A x \in Short(n + 1) : UpdateBody(f, x, new) \in Trees
                                /\ UpdateBody(g, x, new) = UpdateBody(f, x, new)
    BY <2>3, UpdateBelow
  <2>5. g = [x \in Short(n + 1) |-> UpdateBody(g, x, new)]
    BY <2>4 DEF g
  <2>6. g \in [Short(n + 1) -> Trees]
    BY <2>4 DEF g
  <2> QED BY <2>5, <2>6 DEF Updates
<1>3. G = Nat
  <2>1. G \in SUBSET Nat
    OBVIOUS
  <2> HIDE DEF G
  <2> QED BY <1>1, <1>2, <2>1, NumberInduction
<1>4. ArrayLength \in G
  BY <1>0, <1>3
<1> QED BY <1>0, <1>4
LEMMA UpdateHelper ==
  ASSUME NEW t \in Trees, NEW start \in Positions, NEW end \in Positions, NEW new \in News
  PROVE  \E f : /\ Updates(f, Calls, new)
                /\ update_helper(t, start, end, new) = f[Call(t, start, end, 0)]
<1> DEFINE f == CHOOSE f : Updates(f, Calls, new)
<1>1. Updates(f, Calls, new)
  BY UpdatesExist
<1>2. update_helper(t, start, end, new) = f[Call(t, start, end, 0)]
  BY DEF update_helper, Updates, UpdateBody
<1> QED BY <1>1, <1>2

\* The same for the queries.
Answers == [t : Trees, sum : Int]

LEMMA QueryBelow ==
  ASSUME NEW n \in Nat, NEW f, NEW g,
         \A y \in Short(n) : f[y] \in Answers /\ g[y] = f[y],
         NEW x \in Short(n + 1)
  PROVE  QueryBody(f, x) \in Answers /\ QueryBody(g, x) = QueryBody(f, x)
<1> DEFINE i == x.i
           mid == middle(span[i])
<1>1. x \in Calls /\ x.t \in Trees /\ i \in Used /\ (~Exact(x) => Wide(i))
      /\ mid \in Int /\ x.end \in Int
      /\ x.start \in Int
  <2>1. x \in Calls
    BY DEF Short
  <2>2. span[i].low \in Nat /\ span[i].high \in Nat
    BY <2>1, CallParts, UsedNode
  <2>3. mid \in Int
    BY <2>2 DEF middle
  <2> QED BY <2>1, <2>3, CallParts
<1>2. CASE Exact(x)
  <2>1. i \in TreeNodes /\ span[i].low \in Nat /\ span[i].high \in Nat
    BY <1>1, UsedNode
  <2>2. x.t[i] \in Node
    BY <1>1, <2>1 DEF Trees
  <2>3. getSum(x.t[i], span[i].low, span[i].high) \in Int
    BY <2>1, <2>2, NodeFields DEF getSum
  <2> QED BY <1>1, <1>2, <2>3 DEF QueryBody, Answers
<1>3. CASE ~Exact(x)
  <2> DEFINE a == pushDown(x.t, i)
             b(h) == IF x.start <= mid THEN h[Call(a, x.start, mid, ll(i))]
                     ELSE [t |-> a, sum |-> 0]
             c(h) == h[Call(b(h).t, Greater(x.start, mid + 1), x.end, rr(i))]
  <2>1. a \in Trees
    BY <1>1, <1>3, PushDown DEF Pushing
  <2>2. x.start <= mid => Call(a, x.start, Lesser(mid, x.end), ll(i)) \in Short(n)
    BY <1>1, <1>3, <2>1, Descend
  <2>3. CASE mid >= x.end
    <3>1. Lesser(mid, x.end) = x.end /\ x.start <= mid
      <4>1. x.start <= x.end
        BY <1>1, CallParts
      <4> QED BY <1>1, <2>3, <4>1 DEF Lesser
    <3>2. \A h : QueryBody(h, x) = h[Call(a, x.start, x.end, ll(i))]
      BY <1>3, <2>3 DEF QueryBody
    <3> QED BY <2>2, <3>1, <3>2
  <2>4. CASE ~(mid >= x.end)
    <3>1. Lesser(mid, x.end) = mid
      BY <1>1, <2>4 DEF Lesser
    <3>2. b(f) \in Answers /\ b(g) = b(f)
      BY <2>1, <2>2, <3>1 DEF Answers
    <3> HIDE DEF b
    <3>3. b(f).t \in Trees /\ b(f).sum \in Int
      BY <3>2 DEF Answers
    <3>4. c(f) \in Answers /\ c(g) = c(f)
      <4>1. x.end > mid
        BY <1>1, <2>4
      <4>2. Call(b(f).t, Greater(x.start, mid + 1), x.end, rr(i)) \in Short(n)
        BY <1>1, <1>3, <3>3, <4>1, Descend
      <4> QED BY <3>2, <4>2
    <3>5. \A h : QueryBody(h, x) = [t |-> c(h).t, sum |-> b(h).sum + c(h).sum]
      BY <1>3, <2>4 DEF QueryBody, b
    <3> HIDE DEF c
    <3>6. c(f).t \in Trees /\ c(f).sum \in Int
      BY <3>4 DEF Answers
    <3> QED BY <3>2, <3>3, <3>4, <3>5, <3>6 DEF Answers
  <2> QED BY <2>3, <2>4
<1> QED BY <1>2, <1>3

LEMMA QueriesExist ==
  \E f \in [Calls -> Answers] : Queries(f, Calls)
<1> DEFINE G == {n \in Nat : \E f \in [Short(n) -> Answers] : Queries(f, Short(n))}
<1>0. Calls = Short(ArrayLength) /\ ArrayLength \in Nat /\ Short(0) = {}
  BY Sizes, ArrayAssumption
<1>1. 0 \in G
  <2> DEFINE f == [x \in Short(0) |-> 0]
  <2>1. f \in [Short(0) -> Answers] /\ Queries(f, Short(0))
    BY <1>0 DEF Queries
  <2> QED BY <2>1
<1>2. ASSUME NEW n \in G
      PROVE  n + 1 \in G
  <2>1. PICK f \in [Short(n) -> Answers] : Queries(f, Short(n))
    OBVIOUS
  <2> DEFINE g == [x \in Short(n + 1) |-> QueryBody(f, x)]
  <2>2. Short(n) \subseteq Short(n + 1)
    BY Sizes
  <2>3. \A y \in Short(n) : f[y] \in Answers /\ g[y] = f[y]
    BY <2>1, <2>2 DEF Queries
  <2> HIDE DEF g
  <2>4. \A x \in Short(n + 1) : QueryBody(f, x) \in Answers
                                /\ QueryBody(g, x) = QueryBody(f, x)
    BY <2>3, QueryBelow
  <2>5. g = [x \in Short(n + 1) |-> QueryBody(g, x)]
    BY <2>4 DEF g
  <2>6. g \in [Short(n + 1) -> Answers]
    BY <2>4 DEF g
  <2> QED BY <2>5, <2>6 DEF Queries
<1>3. G = Nat
  <2>1. G \in SUBSET Nat
    OBVIOUS
  <2> HIDE DEF G
  <2> QED BY <1>1, <1>2, <2>1, NumberInduction
<1>4. ArrayLength \in G
  BY <1>0, <1>3
<1> QED BY <1>0, <1>4
LEMMA QueryHelper ==
  ASSUME NEW t \in Trees, NEW start \in Positions, NEW end \in Positions
  PROVE  \E f : Queries(f, Calls) /\ query_helper(t, start, end) = f[Call(t, start, end, 0)]
<1> DEFINE f == CHOOSE f : Queries(f, Calls)
<1>1. Queries(f, Calls)
  BY QueriesExist
<1>2. query_helper(t, start, end) = f[Call(t, start, end, 0)]
  BY DEF query_helper, Queries, QueryBody
<1> QED BY <1>1, <1>2

-----------------------------------------------------------------------------
(* What the nodes stand for. *)

\* The nodes at and below a node.
Closed(C) == \A k \in C : Wide(k) => ll(k) \in C /\ rr(k) \in C
Under(i) == {j \in Used : \A C \in SUBSET Used : i \in C /\ Closed(C) => j \in C}

LEMMA UnderNodes ==
  ASSUME NEW i \in Used
  PROVE  /\ i \in Under(i) /\ Under(i) \subseteq Used
         /\ \A j \in Under(i) : span[i].low <= span[j].low /\ span[j].high <= span[i].high
         /\ \A j \in Under(i) : Wide(j) => ll(j) \in Under(i) /\ rr(j) \in Under(i)
<1>1. i \in Under(i) /\ Under(i) \subseteq Used
  BY DEF Under
<1>2. ASSUME NEW j \in Under(i)
      PROVE  span[i].low <= span[j].low /\ span[j].high <= span[i].high
  <2> DEFINE C == {k \in Used : span[i].low <= span[k].low /\ span[k].high <= span[i].high}
  <2>1. i \in C
    BY UsedNode
  <2>2. ASSUME NEW k \in C, Wide(k)
        PROVE  ll(k) \in C /\ rr(k) \in C
    <3>1. k \in Used /\ span[i].low <= span[k].low /\ span[k].high <= span[i].high
      OBVIOUS
    <3>2. span[i].low \in Nat /\ span[i].high \in Nat /\ span[k].low \in Nat /\ span[k].high \in Nat
      BY <3>1, UsedNode
    <3>3. /\ ll(k) \in Used /\ rr(k) \in Used
          /\ span[ll(k)] = [low |-> span[k].low, high |-> middle(span[k])]
          /\ span[rr(k)] = [low |-> middle(span[k]) + 1, high |-> span[k].high]
          /\ middle(span[k]) \in Nat
          /\ span[k].low <= middle(span[k]) /\ middle(span[k]) < span[k].high
      BY <2>2, <3>1, UsedSons
    <3> QED BY <3>1, <3>2, <3>3
  <2>3. Closed(C) /\ C \in SUBSET Used
    BY <2>2 DEF Closed
  <2> HIDE DEF C
  <2>4. j \in C
    BY <2>1, <2>3 DEF Under
  <2> QED BY <2>4 DEF C
<1>3. ASSUME NEW j \in Under(i), Wide(j)
      PROVE  ll(j) \in Under(i) /\ rr(j) \in Under(i)
  <2>1. j \in Used
    BY DEF Under
  <2>2. ll(j) \in Used /\ rr(j) \in Used
    BY <1>3, <2>1, UsedSons
  <2> QED BY <1>3, <2>2 DEF Under, Closed
<1> QED BY <1>1, <1>2, <1>3

LEMMA UnderSons ==
  ASSUME NEW i \in Used, Wide(i)
  PROVE  /\ Under(ll(i)) \subseteq Under(i) /\ Under(rr(i)) \subseteq Under(i)
         /\ Under(i) \subseteq {i} \cup Under(ll(i)) \cup Under(rr(i))
         /\ i \notin Under(ll(i)) /\ i \notin Under(rr(i))
         /\ Under(ll(i)) \cap Under(rr(i)) = {}
<1> DEFINE l == ll(i)
           r == rr(i)
<1>1. /\ l \in Used /\ r \in Used
      /\ span[l] = [low |-> span[i].low, high |-> middle(span[i])]
      /\ span[r] = [low |-> middle(span[i]) + 1, high |-> span[i].high]
      /\ middle(span[i]) \in Nat
      /\ span[i].low <= middle(span[i]) /\ middle(span[i]) < span[i].high
  BY UsedSons
<1>2. span[i].low \in Nat /\ span[i].high \in Nat
  BY UsedNode
<1>3. /\ l \in Under(l) /\ Under(l) \subseteq Used
      /\ \A j \in Under(l) : span[l].low <= span[j].low /\ span[j].high <= span[l].high
      /\ Closed(Under(l))
  <2> HIDE DEF l
  <2> QED BY <1>1, UnderNodes DEF Closed
<1>4. /\ r \in Under(r) /\ Under(r) \subseteq Used
      /\ \A j \in Under(r) : span[r].low <= span[j].low /\ span[j].high <= span[r].high
      /\ Closed(Under(r))
  <2> HIDE DEF r
  <2> QED BY <1>1, UnderNodes DEF Closed
<1>5. Under(l) \subseteq Under(i) /\ Under(r) \subseteq Under(i)
  <2>1. \A C : i \in C /\ Closed(C) => l \in C /\ r \in C
    BY DEF Closed
  <2> HIDE DEF l, r
  <2> QED BY <2>1 DEF Under
<1>6. Under(i) \subseteq {i} \cup Under(l) \cup Under(r)
  <2> DEFINE C == {i} \cup Under(l) \cup Under(r)
  <2>1. C \in SUBSET Used
    BY <1>3, <1>4
  <2>2. Closed(C)
    <3>1. ll(i) \in C /\ rr(i) \in C
      BY <1>3, <1>4
    <3> HIDE DEF l, r
    <3>2. \A k \in Under(l) \cup Under(r) : Wide(k) => ll(k) \in C /\ rr(k) \in C
      BY <1>3, <1>4 DEF Closed
    <3> QED BY <3>1, <3>2 DEF Closed
  <2>3. i \in C
    OBVIOUS
  <2> HIDE DEF C
  <2>4. Under(i) \subseteq C
    BY <2>1, <2>2, <2>3 DEF Under
  <2> QED BY <2>4 DEF C
<1>7. i \notin Under(l) /\ i \notin Under(r)
  BY <1>1, <1>2, <1>3, <1>4
<1>8. ASSUME NEW j \in Under(l), j \in Under(r)
      PROVE  FALSE
  <2>1. j \in Used /\ span[j].high <= middle(span[i]) /\ middle(span[i]) + 1 <= span[j].low
    BY <1>1, <1>3, <1>4, <1>8
  <2>2. span[j].low <= span[j].high /\ span[j].low \in Nat /\ span[j].high \in Nat
    BY <2>1, UsedNode
  <2> QED BY <1>1, <2>1, <2>2
<1> QED BY <1>5, <1>6, <1>7, <1>8

\* A view: the array as each node sees it, what waits at the node and below it counted.
Views == [TreeNodes -> [Positions -> Int]]

\* What an uncovered node has below it, with what waits at it; a covered node says itself.
Relates(t, B, i) ==
  LET lo == span[i].low
      hi == span[i].high
      mid == middle(span[i])
  IN  /\ t[i].covered => \A k \in lo .. hi : B[i][k] = t[i].v + t[i].add
      /\ ~t[i].covered /\ Wide(i) =>
           /\ \A k \in lo .. mid : B[i][k] = B[ll(i)][k] + t[i].add
           /\ \A k \in mid + 1 .. hi : B[i][k] = B[rr(i)][k] + t[i].add
Counts(t, B, i) == getSum(t[i], span[i].low, span[i].high) = Total(B[i], span[i].low, span[i].high)
Local(t, B, i) == Counts(t, B, i) /\ Relates(t, B, i)
Locals(t, B, i) == \A j \in Under(i) : Local(t, B, j)

\* That is about the node and its sons.
LEMMA LocalsFrame ==
  ASSUME NEW t, NEW u, NEW B, NEW C, NEW i \in Used,
         \A j \in Under(i) : u[j] = t[j] /\ C[j] = B[j], Locals(t, B, i)
  PROVE  Locals(u, C, i)
<1> SUFFICES ASSUME NEW j \in Under(i)
             PROVE  Local(u, C, j)
  BY DEF Locals
<1>1. Local(t, B, j) /\ u[j] = t[j] /\ C[j] = B[j]
  BY DEF Locals
<1>2. Wide(j) => C[ll(j)] = B[ll(j)] /\ C[rr(j)] = B[rr(j)]
  BY UnderNodes
<1> QED BY <1>1, <1>2 DEF Local, Counts, Relates

LEMMA LocalsParts ==
  ASSUME NEW t, NEW B, NEW i \in Used, Locals(t, B, i)
  PROVE  Local(t, B, i) /\ (Wide(i) => Locals(t, B, ll(i)) /\ Locals(t, B, rr(i)))
<1>1. Local(t, B, i)
  BY UnderNodes DEF Locals
<1>2. Wide(i) => Under(ll(i)) \subseteq Under(i) /\ Under(rr(i)) \subseteq Under(i)
  BY UnderSons
<1> QED BY <1>1, <1>2 DEF Locals

LEMMA LocalsWhole ==
  ASSUME NEW t, NEW B, NEW i \in Used, Wide(i), Local(t, B, i),
         Locals(t, B, ll(i)), Locals(t, B, rr(i))
  PROVE  Locals(t, B, i)
<1>1. Under(i) \subseteq {i} \cup Under(ll(i)) \cup Under(rr(i))
  BY UnderSons
<1> QED BY <1>1 DEF Locals

\* The new elements of a node that is rewritten.
Renewed(b, c, i, new) ==
  \A k \in span[i].low .. span[i].high : c[k] = IF new.covered THEN new.v ELSE b[k] + new.v

\* To rewrite a node is to rewrite the elements it stands for.
LEMMA RewriteLocal ==
  ASSUME NEW t \in Trees, NEW u \in Trees, NEW B \in Views, NEW C \in Views,
         NEW i \in Used, NEW new \in News, Local(t, B, i),
         u[i] = rewrite(t[i], new), Renewed(B[i], C[i], i, new),
         Wide(i) => C[ll(i)] = B[ll(i)] /\ C[rr(i)] = B[rr(i)]
  PROVE  Local(u, C, i)
<1> DEFINE lo == span[i].low
           hi == span[i].high
           mid == middle(span[i])
           x == t[i]
           y == u[i]
           w == new.v
<1>1. /\ i \in TreeNodes /\ lo \in Nat /\ hi \in Nat /\ lo \in Positions /\ hi \in Positions
      /\ lo <= hi
  BY UsedNode
<1>2. /\ x \in Node /\ w \in Int /\ B[i] \in [Positions -> Int] /\ C[i] \in [Positions -> Int]
      /\ new.covered \in BOOLEAN
  BY <1>1 DEF Trees, Views, News
<1>3. /\ lo <= hi + 1 /\ lo .. hi \subseteq Positions /\ hi + 1 - lo \in Int
      /\ (hi + 1 - lo) * w \in Int
  <2>1. lo <= hi + 1 /\ lo .. hi \subseteq Positions /\ hi + 1 - lo \in Int
    BY <1>1, ArrayAssumption DEF Positions
  <2> HIDE DEF w, lo, hi
  <2> QED BY <1>2, <2>1
<1>4. Sums(B[i], C[i], w, lo, lo, hi) /\ Sums(C[i], C[i], w, lo, lo, hi)
  BY <1>1, <1>2, <1>3, TotalSums
<1>5. CASE new.covered
  <2>1. y = Covering(x, w)
    BY <1>5 DEF rewrite
  <2>2. y.covered /\ y.v = w /\ y.add = 0
    BY <1>2, <2>1, Covered
  <2>3. \A k \in lo .. hi : C[i][k] = w
    BY <1>5 DEF Renewed
  <2>4. Total(C[i], lo, hi) = (hi + 1 - lo) * w
    BY <1>4, <2>3 DEF Sums
  <2>5. getSum(y, lo, hi) = (hi + 1 - lo) * w
    BY <1>3, <2>2 DEF getSum
  <2>6. Relates(u, C, i)
    BY <1>2, <2>2, <2>3 DEF Relates
  <2> QED BY <2>4, <2>5, <2>6 DEF Local, Counts
<1>6. CASE ~new.covered
  <2>1. y = Adding(x, w)
    BY <1>6 DEF rewrite
  <2>2. y.covered = x.covered /\ y.v = x.v /\ y.add = x.add + w /\ y.s = x.s
    BY <1>2, <2>1, Added
  <2>3. \A k \in lo .. hi : C[i][k] = B[i][k] + w
    BY <1>6 DEF Renewed
  <2>4. Total(C[i], lo, hi) = Total(B[i], lo, hi) + (hi + 1 - lo) * w
    BY <1>4, <2>3 DEF Sums
  <2>5. getSum(y, lo, hi) = getSum(x, lo, hi) + (hi + 1 - lo) * w
    <3>1. ASSUME NEW n \in Int, NEW p \in Int, NEW q \in Int
          PROVE  n * (p + q) = n * p + n * q /\ n * p \in Int /\ n * q \in Int
      OBVIOUS
    <3> DEFINE n == hi + 1 - lo
               z == IF x.covered THEN n * x.v ELSE x.s
    <3>2. x.add \in Int /\ x.v \in Int /\ x.s \in Int /\ n \in Int
      BY <1>2, <1>3, NodeFields
    <3> HIDE DEF n, x, w, y
    <3>3. z \in Int
      BY <3>2
    <3>4. n * (x.add + w) = n * x.add + n * w /\ n * x.add \in Int /\ n * w \in Int
      BY <1>2, <3>1, <3>2
    <3>5. getSum(y, lo, hi) = z + n * (x.add + w) /\ getSum(x, lo, hi) = z + n * x.add
      BY <2>2 DEF getSum, n
    <3> HIDE DEF z
    <3>6. z + (n * x.add + n * w) = (z + n * x.add) + n * w
      BY <3>3, <3>4
    <3> QED BY <3>4, <3>5, <3>6 DEF n
  <2>6. Relates(u, C, i)
    <3>1. x.add \in Int /\ x.v \in Int
      BY <1>2, NodeFields
    <3>2. CASE x.covered
      <4>1. \A k \in lo .. hi : B[i][k] = x.v + x.add
        BY <3>2 DEF Local, Relates
      <4>2. \A k \in lo .. hi : C[i][k] = y.v + y.add
        BY <1>2, <2>2, <2>3, <3>1, <4>1
      <4> QED BY <2>2, <3>2, <4>2 DEF Relates
    <3>3. CASE ~x.covered
      <4> SUFFICES ASSUME Wide(i)
                   PROVE  /\ \A k \in lo .. mid : C[i][k] = C[ll(i)][k] + y.add
                          /\ \A k \in mid + 1 .. hi : C[i][k] = C[rr(i)][k] + y.add
        BY <2>2, <3>3 DEF Relates
      <4>1. /\ \A k \in lo .. mid : B[i][k] = B[ll(i)][k] + x.add
            /\ \A k \in mid + 1 .. hi : B[i][k] = B[rr(i)][k] + x.add
        BY <3>3 DEF Local, Relates
      <4>2. /\ mid \in Nat /\ lo <= mid /\ mid < hi
            /\ ll(i) \in TreeNodes /\ rr(i) \in TreeNodes
        BY UsedSons, ThreeNodes
      <4>3. /\ \A k \in lo .. mid : k \in lo .. hi /\ k \in Positions
            /\ \A k \in mid + 1 .. hi : k \in lo .. hi /\ k \in Positions
        BY <1>1, <1>3, <4>2
      <4>4. \A k \in Positions : B[ll(i)][k] \in Int /\ B[rr(i)][k] \in Int
        BY <4>2 DEF Views
      <4>5. \A k \in lo .. mid : C[i][k] = C[ll(i)][k] + y.add
        BY <1>2, <2>2, <2>3, <3>1, <4>1, <4>3, <4>4
      <4>6. \A k \in mid + 1 .. hi : C[i][k] = C[rr(i)][k] + y.add
        BY <1>2, <2>2, <2>3, <3>1, <4>1, <4>3, <4>4
      <4> QED BY <4>5, <4>6
    <3> QED BY <1>2, <3>2, <3>3 DEF Node
  <2> QED BY <2>4, <2>5, <2>6 DEF Local, Counts
<1> QED BY <1>5, <1>6

\* Pushing down, a node keeps what it stands for, and its sons come to see the same.
Levelled(t, B, i, u, C) ==
  /\ C = [B EXCEPT ![ll(i)] = B[i], ![rr(i)] = B[i]]
  /\ C \in Views /\ C[i] = B[i]
  /\ u \in Trees /\ ~u[i].covered /\ u[i].add = 0
  /\ Locals(u, C, i) /\ Locals(u, C, ll(i)) /\ Locals(u, C, rr(i))
  /\ \A j \in TreeNodes \ Under(i) : u[j] = t[j] /\ C[j] = B[j]

\* Nothing else below it changes.
LEMMA RewriteLocals ==
  ASSUME NEW t \in Trees, NEW u \in Trees, NEW B \in Views, NEW C \in Views,
         NEW i \in Used, NEW new \in News, Locals(t, B, i),
         u[i] = rewrite(t[i], new), Renewed(B[i], C[i], i, new),
         \A k \in Under(i) \ {i} : u[k] = t[k] /\ C[k] = B[k]
  PROVE  Locals(u, C, i)
<1>1. Local(t, B, i)
  BY LocalsParts
<1>2. CASE Wide(i)
  <2>1. ll(i) \in Used /\ rr(i) \in Used
    BY <1>2, UsedSons
  <2>2. Locals(t, B, ll(i)) /\ Locals(t, B, rr(i))
    BY <1>2, LocalsParts
  <2>3. /\ Under(ll(i)) \subseteq Under(i) \ {i} /\ Under(rr(i)) \subseteq Under(i) \ {i}
        /\ ll(i) \in Under(ll(i)) /\ rr(i) \in Under(rr(i))
    BY <1>2, <2>1, UnderSons, UnderNodes
  <2>4. Local(u, C, i)
    BY <1>1, <2>3, RewriteLocal
  <2>5. Locals(u, C, ll(i))
    BY <2>1, <2>2, <2>3, LocalsFrame
  <2>6. Locals(u, C, rr(i))
    BY <2>1, <2>2, <2>3, LocalsFrame
  <2> QED BY <1>2, <2>4, <2>5, <2>6, LocalsWhole
<1>3. CASE ~Wide(i)
  <2>1. Local(u, C, i)
    BY <1>1, <1>3, RewriteLocal
  <2>2. Under(i) \subseteq {i}
    <3>1. Closed({i}) /\ {i} \in SUBSET Used
      BY <1>3 DEF Closed
    <3> QED BY <3>1 DEF Under
  <2> QED BY <2>1, <2>2 DEF Locals
<1> QED BY <1>2, <1>3

\* A part of the push, at the son j.
LEMMA GivenLocals ==
  ASSUME NEW t \in Trees, NEW u \in Trees, NEW B \in Views, NEW C \in Views,
         NEW i \in TreeNodes, NEW j \in Used, Locals(t, B, j),
         u[j] = Given(t[i], t[j]), C[j] = B[i],
         \A k \in Under(j) \ {j} : u[k] = t[k] /\ C[k] = B[k],
         \A k \in span[j].low .. span[j].high :
            B[i][k] = IF t[i].covered THEN t[i].v + t[i].add ELSE B[j][k] + t[i].add
  PROVE  Locals(u, C, j)
<1> DEFINE x == t[i]
           new == [covered |-> x.covered, v |-> IF x.covered THEN x.v + x.add ELSE x.add]
<1>1. x \in Node /\ x.covered \in BOOLEAN /\ x.v \in Int /\ x.add \in Int
  BY NodeFields DEF Trees
<1>2. new \in News
  BY <1>1 DEF News
<1>3. u[j] = rewrite(t[j], new)
  BY DEF Given, rewrite
<1>4. Renewed(B[j], C[j], j, new)
  BY DEF Renewed
<1> HIDE DEF new
<1> QED BY <1>2, <1>3, <1>4, RewriteLocals

LEMMA Level ==
  ASSUME NEW t \in Trees, NEW B \in Views, NEW i \in Used, Wide(i), Relates(t, B, i),
         Locals(t, B, ll(i)), Locals(t, B, rr(i))
  PROVE  Levelled(t, B, i, pushDown(t, i), [B EXCEPT ![ll(i)] = B[i], ![rr(i)] = B[i]])
<1> DEFINE l == ll(i)
           r == rr(i)
           lo == span[i].low
           hi == span[i].high
           mid == middle(span[i])
           u == pushDown(t, i)
           C == [B EXCEPT ![l] = B[i], ![r] = B[i]]
<1>1. /\ i \in TreeNodes /\ l \in TreeNodes /\ r \in TreeNodes
      /\ i # l /\ i # r /\ l # r
  BY ThreeNodes
<1>2. /\ l \in Used /\ r \in Used
      /\ span[l] = [low |-> lo, high |-> mid] /\ span[r] = [low |-> mid + 1, high |-> hi]
      /\ mid \in Nat /\ mid \in Positions /\ mid + 1 \in Positions /\ lo <= mid /\ mid < hi
  BY UsedSons
<1>3. Pushing(t, i, u)
  BY PushDown
<1>4. /\ u \in Trees /\ ~u[i].covered /\ u[i].add = 0
      /\ u[i].s = getSum(u[l], lo, mid) + getSum(u[r], mid + 1, hi)
      /\ u[l] = Given(t[i], t[l]) /\ u[r] = Given(t[i], t[r])
      /\ \A j \in TreeNodes \ {i, l, r} : u[j] = t[j]
  BY <1>3 DEF Pushing
<1> HIDE DEF u
<1>5. /\ C \in Views /\ C[i] = B[i] /\ C[l] = B[i] /\ C[r] = B[i]
      /\ \A j \in TreeNodes \ {l, r} : C[j] = B[j]
  <2> HIDE DEF l, r
  <2> QED BY <1>1 DEF Views
<1> HIDE DEF C
<1>6. /\ Under(l) \subseteq Under(i) /\ Under(r) \subseteq Under(i)
      /\ i \notin Under(l) /\ i \notin Under(r)
      /\ Under(l) \cap Under(r) = {}
      /\ i \in Under(i) /\ l \in Under(l) /\ r \in Under(r) /\ Under(i) \subseteq TreeNodes
  <2>1. /\ Under(l) \subseteq Under(i) /\ Under(r) \subseteq Under(i)
        /\ i \notin Under(l) /\ i \notin Under(r) /\ Under(l) \cap Under(r) = {}
    BY UnderSons
  <2>2. i \in Under(i) /\ Under(i) \subseteq Used
    BY UnderNodes
  <2>3. l \in Under(l) /\ r \in Under(r)
    <3> HIDE DEF l, r
    <3> QED BY <1>2, UnderNodes
  <2> QED BY <2>1, <2>2, <2>3 DEF Used
<1>7. Locals(u, C, l)
  <2>1. \A k \in Under(l) \ {l} : u[k] = t[k] /\ C[k] = B[k]
    BY <1>4, <1>5, <1>6
  <2>2. \A k \in lo .. mid :
           B[i][k] = IF t[i].covered THEN t[i].v + t[i].add ELSE B[l][k] + t[i].add
    <3>1. \A k \in lo .. mid : k \in lo .. hi
      BY <1>2, UsedNode
    <3> QED BY <3>1 DEF Relates
  <2>3. span[l].low = lo /\ span[l].high = mid
    BY <1>2
  <2> HIDE DEF l, lo, mid
  <2> QED BY <1>1, <1>2, <1>4, <1>5, <2>1, <2>2, <2>3, GivenLocals DEF l
<1>8. Locals(u, C, r)
  <2>1. \A k \in Under(r) \ {r} : u[k] = t[k] /\ C[k] = B[k]
    BY <1>4, <1>5, <1>6
  <2>2. \A k \in mid + 1 .. hi :
           B[i][k] = IF t[i].covered THEN t[i].v + t[i].add ELSE B[r][k] + t[i].add
    <3>1. \A k \in mid + 1 .. hi : k \in lo .. hi
      BY <1>2, UsedNode
    <3> QED BY <3>1 DEF Relates
  <2>3. span[r].low = mid + 1 /\ span[r].high = hi
    BY <1>2
  <2> HIDE DEF r, hi, mid
  <2> QED BY <1>1, <1>2, <1>4, <1>5, <2>1, <2>2, <2>3, GivenLocals DEF r
<1>9. Local(u, C, i)
  <2>1. Counts(u, C, l) /\ Counts(u, C, r)
    <3> HIDE DEF l, r
    <3> QED BY <1>2, <1>7, <1>8, LocalsParts DEF Local
  <2>2. /\ getSum(u[l], lo, mid) = Total(B[i], lo, mid)
        /\ getSum(u[r], mid + 1, hi) = Total(B[i], mid + 1, hi)
    BY <1>2, <1>5, <2>1 DEF Counts
  <2>3. /\ B[i] \in [Positions -> Int] /\ lo \in Positions /\ hi \in Positions
        /\ lo \in Nat /\ hi \in Nat
    BY <1>1, UsedNode DEF Views
  <2>4. Sums(B[i], B[i], 0, lo, mid + 1, hi)
    BY <1>2, <2>3, TotalSums
  <2>5. /\ Total(B[i], lo, hi) = Total(B[i], lo, (mid + 1) - 1) + Total(B[i], mid + 1, hi)
        /\ (mid + 1) - 1 = mid /\ Total(B[i], lo, hi) \in Int
    <3>1. lo <= mid + 1 /\ mid + 1 <= hi + 1 /\ (mid + 1) - 1 = mid
      BY <1>2, <2>3
    <3> HIDE DEF lo, hi, mid
    <3> QED BY <2>4, <3>1 DEF Sums
  <2>6. u[i].s = Total(B[i], lo, hi)
    BY <1>4, <2>2, <2>5
  <2>7. (hi + 1 - lo) * 0 = 0
    BY <2>3
  <2>8. getSum(u[i], lo, hi) = Total(C[i], lo, hi)
    BY <1>4, <1>5, <2>5, <2>6, <2>7 DEF getSum
  <2>9. \A k \in Positions : B[i][k] + 0 = B[i][k]
    BY <2>3
  <2>10. /\ \A k \in lo .. mid : k \in Positions
         /\ \A k \in mid + 1 .. hi : k \in Positions
    BY <1>2, <2>3, ArrayAssumption DEF Positions
  <2>11. Relates(u, C, i)
    BY <1>4, <1>5, <2>9, <2>10 DEF Relates
  <2> QED BY <2>8, <2>11 DEF Local, Counts
<1>10. Locals(u, C, i)
  BY <1>7, <1>8, <1>9, LocalsWhole
<1>11. \A j \in TreeNodes \ Under(i) : u[j] = t[j] /\ C[j] = B[j]
  BY <1>4, <1>5, <1>6
<1> QED BY <1>4, <1>5, <1>7, <1>8, <1>10, <1>11 DEF Levelled, u, C

\* A walk that began at the node i of t ended with u; on its positions, i stands for a.
Outcome(t, B, i, u, a) ==
  /\ u \in Trees
  /\ \E C \in Views : /\ \A k \in span[i].low .. span[i].high : C[i][k] = a[k]
                      /\ Locals(u, C, i)
                      /\ \A j \in TreeNodes \ Under(i) : u[j] = t[j] /\ C[j] = B[j]

LEMMA NoWalk ==
  ASSUME NEW t \in Trees, NEW B \in Views, NEW i, Locals(t, B, i)
  PROVE  Outcome(t, B, i, t, B[i])
BY DEF Outcome

\* Only its elements matter.
LEMMA OutcomeSame ==
  ASSUME NEW t, NEW B, NEW i, NEW u, NEW a, NEW b, Outcome(t, B, i, u, a),
         \A k \in span[i].low .. span[i].high : a[k] = b[k]
  PROVE  Outcome(t, B, i, u, b)
BY DEF Outcome

\* After walks at both sons of a node, one after the other.
BothWalked(t, B, i, u, C, a) ==
  /\ u \in Trees /\ C \in Views
  /\ Locals(u, C, ll(i)) /\ Locals(u, C, rr(i))
  /\ \A k \in span[ll(i)].low .. span[ll(i)].high : C[ll(i)][k] = a[k]
  /\ \A k \in span[rr(i)].low .. span[rr(i)].high : C[rr(i)][k] = a[k]
  /\ u[i] = t[i] /\ C[i] = B[i]
  /\ \A j \in TreeNodes \ Under(i) : u[j] = t[j] /\ C[j] = B[j]

LEMMA Both ==
  ASSUME NEW t \in Trees, NEW B \in Views, NEW i \in Used, Wide(i), NEW u \in Trees, NEW w, NEW a,
         Locals(t, B, rr(i)),
         Outcome(t, B, ll(i), u, a),
         \A C \in Views : Locals(u, C, rr(i)) /\ C[rr(i)] = B[rr(i)] => Outcome(u, C, rr(i), w, a)
  PROVE  \E C \in Views : BothWalked(t, B, i, w, C, a)
<1> DEFINE l == ll(i)
           r == rr(i)
<1>1. /\ Under(l) \subseteq Under(i) /\ Under(r) \subseteq Under(i)
      /\ i \notin Under(l) /\ i \notin Under(r) /\ Under(l) \cap Under(r) = {}
  BY UnderSons
<1>2. l \in Used /\ r \in Used
  BY UsedSons
<1>3. i \in TreeNodes /\ Under(l) \subseteq TreeNodes /\ Under(r) \subseteq TreeNodes
      /\ r \in Under(r) /\ l \in Under(l)
  <2> HIDE DEF l, r
  <2>1. i \in TreeNodes /\ Under(l) \subseteq Used /\ Under(r) \subseteq Used
        /\ r \in Under(r) /\ l \in Under(l)
    BY <1>2, UsedNode, UnderNodes
  <2> QED BY <2>1 DEF Used
<1>4. Outcome(t, B, l, u, a) /\ Locals(t, B, r)
      /\ \A C \in Views : Locals(u, C, r) /\ C[r] = B[r] => Outcome(u, C, r, w, a)
  OBVIOUS
<1> SUFFICES \E C \in Views :
                /\ w \in Trees /\ Locals(w, C, l) /\ Locals(w, C, r)
                /\ \A k \in span[l].low .. span[l].high : C[l][k] = a[k]
                /\ \A k \in span[r].low .. span[r].high : C[r][k] = a[k]
                /\ w[i] = t[i] /\ C[i] = B[i]
                /\ \A j \in TreeNodes \ Under(i) : w[j] = t[j] /\ C[j] = B[j]
  BY DEF BothWalked
<1> HIDE DEF l, r
<1>6. PICK C \in Views : /\ \A k \in span[l].low .. span[l].high : C[l][k] = a[k]
                         /\ Locals(u, C, l)
                         /\ \A j \in TreeNodes \ Under(l) : u[j] = t[j] /\ C[j] = B[j]
  BY <1>4 DEF Outcome
<1>7. Locals(u, C, r)
  <2>1. \A j \in Under(r) : u[j] = t[j] /\ C[j] = B[j]
    BY <1>1, <1>3, <1>6
  <2> QED BY <1>2, <1>4, <2>1, LocalsFrame
<1>8. C[r] = B[r]
  BY <1>1, <1>3, <1>6
<1>9. Outcome(u, C, r, w, a)
  BY <1>4, <1>7, <1>8
<1>10. PICK D \in Views : /\ \A k \in span[r].low .. span[r].high : D[r][k] = a[k]
                          /\ Locals(w, D, r)
                          /\ \A j \in TreeNodes \ Under(r) : w[j] = u[j] /\ D[j] = C[j]
  BY <1>9 DEF Outcome
<1>11. Locals(w, D, l)
  <2>1. \A j \in Under(l) : w[j] = u[j] /\ D[j] = C[j]
    BY <1>1, <1>3, <1>10
  <2> QED BY <1>2, <1>6, <2>1, LocalsFrame
<1>12. w \in Trees
  BY <1>9 DEF Outcome
<1>13. D[l] = C[l] /\ w[i] = t[i] /\ D[i] = B[i]
  BY <1>1, <1>3, <1>6, <1>10
<1>14. \A j \in TreeNodes \ Under(i) : w[j] = t[j] /\ D[j] = B[j]
  BY <1>1, <1>6, <1>10
<1> QED BY <1>6, <1>10, <1>11, <1>12, <1>13, <1>14

\* A walk of an update does to its elements what it says.
UpdatesRight(f, new, n) ==
  \A x \in Short(n), B \in Views :
     Locals(x.t, B, x.i) => Outcome(x.t, B, x.i, f[x], Changed(B[x.i], x.start, x.end, new))

LEMMA UpdateNode ==
  ASSUME NEW new \in News, NEW f, Updates(f, Calls, new), NEW n \in Nat, UpdatesRight(f, new, n),
         NEW x \in Short(n + 1), NEW B \in Views, Locals(x.t, B, x.i)
  PROVE  Outcome(x.t, B, x.i, f[x], Changed(B[x.i], x.start, x.end, new))
<1> DEFINE t == x.t
           i == x.i
           lo == span[i].low
           hi == span[i].high
           mid == middle(span[i])
           d == Changed(B[i], x.start, x.end, new)
<1>1. /\ x \in Calls /\ t \in Trees /\ x.start \in Positions /\ x.end \in Positions /\ i \in Used
      /\ x.start \in Nat /\ x.end \in Nat
      /\ lo <= x.start /\ x.start <= x.end /\ x.end <= hi
      /\ (~Exact(x) => Wide(i))
  <2>1. x \in Calls
    BY DEF Short
  <2> QED BY <2>1, CallParts
<1>2. f[x] = UpdateBody(f, x, new)
  BY <1>1 DEF Updates
<1>3. /\ i \in TreeNodes /\ lo \in Nat /\ hi \in Nat
      /\ i \in Under(i) /\ Under(i) \subseteq TreeNodes
      /\ lo .. hi \subseteq Positions
  <2>1. /\ i \in TreeNodes /\ lo \in Nat /\ hi \in Nat /\ hi \in Positions
    BY <1>1, UsedNode
  <2>2. i \in Under(i) /\ Under(i) \subseteq Used
    BY <1>1, UnderNodes
  <2>3. lo .. hi \subseteq Positions
    BY <2>1, ArrayAssumption DEF Positions
  <2> QED BY <2>1, <2>2, <2>3 DEF Used
<1>4. d \in [Positions -> Int] /\ B[i] \in [Positions -> Int]
  <2>1. B[i] \in [Positions -> Int]
    BY <1>3 DEF Views
  <2>2. \A k \in Positions : B[i][k] \in Int /\ B[i][k] + new.v \in Int /\ new.v \in Int
    BY <2>1 DEF News
  <2> QED BY <2>1, <2>2 DEF Changed
<1>5. Locals(t, B, i)
  OBVIOUS
<1>6. CASE Exact(x)
  <2> DEFINE u == [t EXCEPT ![i] = rewrite(@, new)]
             C == [B EXCEPT ![i] = d]
  <2>1. f[x] = u
    BY <1>2, <1>6 DEF UpdateBody
  <2>2. u \in Trees /\ u[i] = rewrite(t[i], new)
    <3>1. t[i] \in Node
      BY <1>1, <1>3 DEF Trees
    <3>2. rewrite(t[i], new) \in Node
      BY <3>1, RewrittenNode
    <3> QED BY <1>1, <1>3, <3>2 DEF Trees
  <2>3. C \in Views /\ C[i] = d
    <3> HIDE DEF d
    <3> QED BY <1>3, <1>4 DEF Views
  <2>4. \A j \in TreeNodes \ {i} : u[j] = t[j] /\ C[j] = B[j]
    BY <1>1 DEF Trees, Views
  <2>5. Renewed(B[i], C[i], i, new)
    <3>1. \A k \in lo .. hi : k \in Positions /\ k \in x.start .. x.end
      BY <1>3, <1>6 DEF Exact
    <3>2. \A k \in lo .. hi : d[k] = IF new.covered THEN new.v ELSE B[i][k] + new.v
      BY <3>1 DEF Changed
    <3> QED BY <2>3, <3>2 DEF Renewed
  <2> HIDE DEF u, C, d, i, t
  <2>6. \A k \in Under(i) \ {i} : u[k] = t[k] /\ C[k] = B[k]
    BY <1>3, <2>4
  <2>7. Locals(u, C, i)
    BY <1>1, <1>5, <2>2, <2>3, <2>5, <2>6, RewriteLocals
  <2>8. Outcome(t, B, i, u, d)
    BY <1>3, <2>2, <2>3, <2>4, <2>7 DEF Outcome
  <2> QED BY <2>1, <2>8 DEF d, i, t
<1>7. CASE ~Exact(x)
  <2> DEFINE l == ll(i)
             r == rr(i)
             a == pushDown(t, i)
             A == [B EXCEPT ![l] = B[i], ![r] = B[i]]
             y == Call(a, x.start, Lesser(mid, x.end), l)
             b == IF x.start <= mid THEN f[y] ELSE a
             z == Call(b, Greater(x.start, mid + 1), x.end, r)
             c == IF x.end > mid THEN f[z] ELSE b
             u == pushDown(c, i)
  <2>1. f[x] = u
    BY <1>2, <1>7 DEF UpdateBody
  <2>2. /\ Wide(i) /\ l \in Used /\ r \in Used /\ mid \in Nat
        /\ mid + 1 \in Positions /\ mid \in Positions /\ lo <= mid /\ mid < hi
        /\ span[l] = [low |-> lo, high |-> mid] /\ span[r] = [low |-> mid + 1, high |-> hi]
        /\ l \in TreeNodes /\ r \in TreeNodes /\ l # r /\ l # i /\ r # i
    BY <1>1, <1>7, UsedSons, ThreeNodes
  <2>3. Levelled(t, B, i, a, A)
    <3>1. Relates(t, B, i) /\ Locals(t, B, l) /\ Locals(t, B, r)
      BY <1>1, <1>5, <2>2, LocalsParts DEF Local
    <3> QED BY <1>1, <2>2, <3>1, Level
  <2>4. /\ a \in Trees /\ ~a[i].covered /\ a[i].add = 0 /\ A \in Views
        /\ A[i] = B[i] /\ A[l] = B[i] /\ A[r] = B[i]
        /\ Locals(a, A, l) /\ Locals(a, A, r)
        /\ \A j \in TreeNodes \ Under(i) : a[j] = t[j] /\ A[j] = B[j]
    <3>1. A[l] = B[i] /\ A[r] = B[i]
      <4> HIDE DEF l, r
      <4> QED BY <2>2 DEF Views
    <3> QED BY <2>3, <3>1 DEF Levelled
  <2> HIDE DEF a, A
  <2>5. x.start <= mid => y \in Short(n)
    BY <1>1, <1>7, <2>4, Descend
  <2>6. Outcome(a, A, l, b, d)
    <3>1. CASE x.start <= mid
      <4>1. /\ y.t = a /\ y.start = x.start /\ y.end = Lesser(mid, x.end) /\ y.i = l
        BY DEF Call
      <4>2. y \in Short(n)
        BY <2>5, <3>1
      <4> HIDE DEF y
      <4>3. Outcome(a, A, l, f[y], Changed(A[l], x.start, Lesser(mid, x.end), new))
        BY <2>4, <4>1, <4>2 DEF UpdatesRight
      <4>4. \A k \in lo .. mid : k \in Positions
                                 /\ (k \in x.start .. Lesser(mid, x.end) <=> k \in x.start .. x.end)
        <5>1. \A k \in lo .. mid : k \in lo .. hi
          BY <1>3, <2>2
        <5> QED BY <1>1, <1>3, <2>2, <5>1 DEF Lesser
      <4>5. \A k \in lo .. mid : Changed(A[l], x.start, Lesser(mid, x.end), new)[k] = d[k]
        BY <2>4, <4>4 DEF Changed
      <4> HIDE DEF d, l
      <4>6. Outcome(a, A, l, f[y], d)
        BY <2>2, <4>3, <4>5, OutcomeSame
      <4> QED BY <3>1, <4>6 DEF y
    <3>2. CASE ~(x.start <= mid)
      <4>1. Outcome(a, A, l, a, A[l])
        BY <2>4, NoWalk
      <4>2. \A k \in lo .. mid : k \in Positions /\ ~(k \in x.start .. x.end)
        <5>1. \A k \in lo .. mid : k \in lo .. hi
          BY <1>3, <2>2
        <5> QED BY <1>1, <1>3, <2>2, <3>2, <5>1
      <4>3. \A k \in lo .. mid : A[l][k] = d[k]
        BY <2>4, <4>2 DEF Changed
      <4> HIDE DEF d, l
      <4>4. Outcome(a, A, l, a, d)
        BY <2>2, <4>1, <4>3, OutcomeSame
      <4> QED BY <3>2, <4>4
    <3> QED BY <3>1, <3>2
  <2> HIDE DEF b
  <2>7. b \in Trees
    BY <2>6 DEF Outcome
  <2>8. x.end > mid => z \in Short(n)
    BY <1>1, <1>7, <2>7, Descend
  <2>9. ASSUME NEW C \in Views, Locals(b, C, r), C[r] = A[r]
        PROVE  Outcome(b, C, r, c, d)
    <3>1. CASE x.end > mid
      <4>1. /\ z.t = b /\ z.start = Greater(x.start, mid + 1) /\ z.end = x.end /\ z.i = r
        BY DEF Call
      <4>2. z \in Short(n)
        BY <2>8, <3>1
      <4> HIDE DEF z
      <4>3. Outcome(b, C, r, f[z], Changed(C[r], Greater(x.start, mid + 1), x.end, new))
        BY <2>9, <4>1, <4>2 DEF UpdatesRight
      <4>4. \A k \in mid + 1 .. hi :
               k \in Positions
               /\ (k \in Greater(x.start, mid + 1) .. x.end <=> k \in x.start .. x.end)
        <5>1. \A k \in mid + 1 .. hi : k \in lo .. hi
          BY <1>3, <2>2
        <5> QED BY <1>1, <1>3, <2>2, <5>1 DEF Greater
      <4>5. \A k \in mid + 1 .. hi :
               Changed(C[r], Greater(x.start, mid + 1), x.end, new)[k] = d[k]
        BY <2>4, <2>9, <4>4 DEF Changed
      <4> HIDE DEF d, r
      <4>6. Outcome(b, C, r, f[z], d)
        BY <2>2, <4>3, <4>5, OutcomeSame
      <4> QED BY <3>1, <4>6 DEF z
    <3>2. CASE ~(x.end > mid)
      <4>1. Outcome(b, C, r, b, C[r])
        BY <2>7, <2>9, NoWalk
      <4>2. \A k \in mid + 1 .. hi : k \in Positions /\ ~(k \in x.start .. x.end)
        <5>1. \A k \in mid + 1 .. hi : k \in lo .. hi
          BY <1>3, <2>2
        <5> QED BY <1>1, <1>3, <2>2, <3>2, <5>1
      <4>3. \A k \in mid + 1 .. hi : C[r][k] = d[k]
        BY <2>4, <2>9, <4>2 DEF Changed
      <4> HIDE DEF d, r
      <4>4. Outcome(b, C, r, b, d)
        BY <2>2, <4>1, <4>3, OutcomeSame
      <4> QED BY <3>2, <4>4
    <3> QED BY <3>1, <3>2
  <2> HIDE DEF c, d
  <2>10. PICK C \in Views : BothWalked(a, A, i, c, C, d)
    <3> HIDE DEF i, t
    <3> QED BY <1>1, <2>2, <2>4, <2>6, <2>7, <2>9, Both
  <2> DEFINE D == [C EXCEPT ![i] = d]
  <2>11. /\ c \in Trees /\ Locals(c, C, l) /\ Locals(c, C, r)
         /\ \A k \in lo .. mid : C[l][k] = d[k]
         /\ \A k \in mid + 1 .. hi : C[r][k] = d[k]
         /\ c[i] = a[i]
         /\ \A j \in TreeNodes \ Under(i) : c[j] = a[j] /\ C[j] = A[j]
    BY <2>2, <2>10 DEF BothWalked
  <2>12. D \in Views /\ D[i] = d /\ \A j \in TreeNodes \ {i} : D[j] = C[j]
    <3> HIDE DEF i
    <3> QED BY <1>3, <1>4 DEF Views
  <2> HIDE DEF D
  <2>13. Locals(c, D, l) /\ Locals(c, D, r)
    <3>1. /\ Under(l) \subseteq TreeNodes \ {i} /\ Under(r) \subseteq TreeNodes \ {i}
      BY <1>1, <1>3, <2>2, UnderSons
    <3>2. \A j \in Under(l) : c[j] = c[j] /\ D[j] = C[j]
      BY <2>12, <3>1
    <3>3. \A j \in Under(r) : c[j] = c[j] /\ D[j] = C[j]
      BY <2>12, <3>1
    <3> HIDE DEF l, r
    <3>4. Locals(c, D, l)
      BY <2>2, <2>11, <3>2, LocalsFrame
    <3>5. Locals(c, D, r)
      BY <2>2, <2>11, <3>3, LocalsFrame
    <3> QED BY <3>4, <3>5
  <2>14. Relates(c, D, i)
    <3>1. /\ \A k \in lo .. mid : k \in lo .. hi
          /\ \A k \in mid + 1 .. hi : k \in lo .. hi
      BY <1>3, <2>2
    <3>2. \A k \in lo .. hi : d[k] + 0 = d[k]
      BY <1>3, <1>4
    <3>3. ~c[i].covered /\ c[i].add = 0 /\ D[l] = C[l] /\ D[r] = C[r]
      BY <2>2, <2>4, <2>11, <2>12
    <3> QED BY <2>11, <2>12, <3>1, <3>2, <3>3 DEF Relates
  <2>15. Levelled(c, D, i, u, [D EXCEPT ![l] = D[i], ![r] = D[i]])
    BY <1>1, <2>2, <2>11, <2>12, <2>13, <2>14, Level
  <2> DEFINE V == [D EXCEPT ![l] = D[i], ![r] = D[i]]
  <2>16. /\ V \in Views /\ V[i] = d /\ u \in Trees /\ Locals(u, V, i)
         /\ \A j \in TreeNodes \ Under(i) : u[j] = c[j] /\ V[j] = D[j]
    BY <2>12, <2>15 DEF Levelled
  <2> HIDE DEF V, u, l, r, t, i
  <2>17. \A j \in TreeNodes \ Under(i) : u[j] = t[j] /\ V[j] = B[j]
    BY <1>3, <2>4, <2>11, <2>12, <2>16
  <2>18. Outcome(t, B, i, u, d)
    BY <2>16, <2>17 DEF Outcome
  <2> QED BY <2>1, <2>18 DEF d, i, t
<1> QED BY <1>6, <1>7

LEMMA UpdateWalk ==
  ASSUME NEW new \in News, NEW f, Updates(f, Calls, new), NEW x \in Calls,
         NEW B \in Views, Locals(x.t, B, x.i)
  PROVE  Outcome(x.t, B, x.i, f[x], Changed(B[x.i], x.start, x.end, new))
<1> DEFINE G == {n \in Nat : UpdatesRight(f, new, n)}
<1>1. 0 \in G
  BY Sizes DEF UpdatesRight
<1>2. ASSUME NEW n \in G
      PROVE  n + 1 \in G
  BY UpdateNode DEF UpdatesRight
<1>3. G = Nat
  <2>1. G \in SUBSET Nat
    OBVIOUS
  <2> HIDE DEF G
  <2> QED BY <1>1, <1>2, <2>1, NumberInduction
<1>4. ArrayLength \in G
  BY <1>3, ArrayAssumption
<1> QED BY <1>4, Sizes DEF UpdatesRight

\* A walk of a query leaves its elements, and answers their sum.
QueriesRight(f, n) ==
  \A x \in Short(n), B \in Views :
     Locals(x.t, B, x.i) =>
        /\ Outcome(x.t, B, x.i, f[x].t, B[x.i])
        /\ f[x].sum = Total(B[x.i], x.start, x.end)

LEMMA QueryNode ==
  ASSUME NEW f, Queries(f, Calls), NEW n \in Nat, QueriesRight(f, n),
         NEW x \in Short(n + 1), NEW B \in Views, Locals(x.t, B, x.i)
  PROVE  /\ Outcome(x.t, B, x.i, f[x].t, B[x.i])
         /\ f[x].sum = Total(B[x.i], x.start, x.end)
<1> DEFINE t == x.t
           i == x.i
           lo == span[i].low
           hi == span[i].high
           mid == middle(span[i])
           d == B[i]
<1>1. /\ x \in Calls /\ t \in Trees /\ x.start \in Positions /\ x.end \in Positions /\ i \in Used
      /\ x.start \in Nat /\ x.end \in Nat
      /\ lo <= x.start /\ x.start <= x.end /\ x.end <= hi
      /\ (~Exact(x) => Wide(i))
  <2>1. x \in Calls
    BY DEF Short
  <2> QED BY <2>1, CallParts
<1>2. f[x] = QueryBody(f, x)
  BY <1>1 DEF Queries
<1>3. /\ i \in TreeNodes /\ lo \in Nat /\ hi \in Nat
      /\ i \in Under(i) /\ Under(i) \subseteq TreeNodes
      /\ lo .. hi \subseteq Positions
  <2>1. /\ i \in TreeNodes /\ lo \in Nat /\ hi \in Nat /\ hi \in Positions
    BY <1>1, UsedNode
  <2>2. i \in Under(i) /\ Under(i) \subseteq Used
    BY <1>1, UnderNodes
  <2>3. lo .. hi \subseteq Positions
    BY <2>1, ArrayAssumption DEF Positions
  <2> QED BY <2>1, <2>2, <2>3 DEF Used
<1>4. d \in [Positions -> Int]
  BY <1>3 DEF Views
<1>5. Locals(t, B, i)
  OBVIOUS
<1>6. CASE Exact(x)
  <2>1. f[x] = [t |-> t, sum |-> getSum(t[i], lo, hi)]
    BY <1>2, <1>6 DEF QueryBody
  <2>2. Outcome(t, B, i, t, B[i])
    BY <1>1, <1>5, NoWalk
  <2>3. Counts(t, B, i)
    BY <1>1, <1>5, LocalsParts DEF Local
  <2>4. getSum(t[i], lo, hi) = Total(B[i], x.start, x.end)
    BY <1>6, <2>3 DEF Counts, Exact
  <2> QED BY <2>1, <2>2, <2>4
<1>7. CASE ~Exact(x)
  <2> DEFINE l == ll(i)
             r == rr(i)
             a == pushDown(t, i)
             A == [B EXCEPT ![l] = B[i], ![r] = B[i]]
  <2>2. /\ Wide(i) /\ l \in Used /\ r \in Used /\ mid \in Nat
        /\ mid + 1 \in Positions /\ mid \in Positions /\ lo <= mid /\ mid < hi
        /\ span[l] = [low |-> lo, high |-> mid] /\ span[r] = [low |-> mid + 1, high |-> hi]
        /\ l \in TreeNodes /\ r \in TreeNodes /\ l # r /\ l # i /\ r # i
    BY <1>1, <1>7, UsedSons, ThreeNodes
  <2>3. Levelled(t, B, i, a, A)
    <3>1. Relates(t, B, i) /\ Locals(t, B, l) /\ Locals(t, B, r)
      BY <1>1, <1>5, <2>2, LocalsParts DEF Local
    <3> QED BY <1>1, <2>2, <3>1, Level
  <2>4. /\ a \in Trees /\ ~a[i].covered /\ a[i].add = 0 /\ A \in Views
        /\ A[i] = B[i] /\ A[l] = B[i] /\ A[r] = B[i]
        /\ Locals(a, A, l) /\ Locals(a, A, r) /\ Counts(a, A, i)
        /\ \A j \in TreeNodes \ Under(i) : a[j] = t[j] /\ A[j] = B[j]
    <3>1. A[l] = B[i] /\ A[r] = B[i]
      <4> HIDE DEF l, r
      <4> QED BY <2>2 DEF Views
    <3>2. Counts(a, A, i)
      <4> HIDE DEF a, A
      <4>1. Locals(a, A, i)
        BY <2>3 DEF Levelled
      <4> QED BY <1>1, <4>1, LocalsParts DEF Local
    <3> QED BY <2>3, <3>1, <3>2 DEF Levelled
  <2>5. x.start <= mid => Call(a, x.start, Lesser(mid, x.end), l) \in Short(n)
    BY <1>1, <1>7, <2>4, Descend
  <2> HIDE DEF a, A
  <2>6. ASSUME NEW u, NEW C \in Views, BothWalked(a, A, i, u, C, d)
        PROVE  Outcome(t, B, i, u, d)
    <3>1. /\ u \in Trees /\ Locals(u, C, l) /\ Locals(u, C, r)
          /\ \A k \in lo .. mid : C[l][k] = d[k]
          /\ \A k \in mid + 1 .. hi : C[r][k] = d[k]
          /\ u[i] = a[i] /\ C[i] = A[i]
          /\ \A j \in TreeNodes \ Under(i) : u[j] = a[j] /\ C[j] = A[j]
      BY <2>2, <2>6 DEF BothWalked
    <3>2. Local(u, C, i)
      <4>1. /\ \A k \in lo .. mid : k \in lo .. hi
            /\ \A k \in mid + 1 .. hi : k \in lo .. hi
        BY <1>3, <2>2
      <4>2. \A k \in lo .. hi : d[k] + 0 = d[k]
        BY <1>3, <1>4
      <4>3. Relates(u, C, i)
        BY <2>4, <3>1, <4>1, <4>2 DEF Relates
      <4>4. Counts(u, C, i)
        BY <2>4, <3>1 DEF Counts
      <4> QED BY <4>3, <4>4 DEF Local
    <3>3. Locals(u, C, i)
      <4> HIDE DEF i
      <4> QED BY <1>1, <2>2, <3>1, <3>2, LocalsWhole
    <3> HIDE DEF i, t, l, r
    <3>4. \A j \in TreeNodes \ Under(i) : u[j] = t[j] /\ C[j] = B[j]
      BY <2>4, <3>1
    <3> QED BY <2>4, <3>1, <3>3, <3>4 DEF Outcome
  <2>7. CASE mid >= x.end
    <3> DEFINE y == Call(a, x.start, x.end, l)
    <3>1. Lesser(mid, x.end) = x.end /\ x.start <= mid
      BY <1>1, <2>2, <2>7 DEF Lesser
    <3>2. f[x] = f[y]
      BY <1>2, <1>7, <2>7 DEF QueryBody, a
    <3>3. y \in Short(n) /\ y.t = a /\ y.start = x.start /\ y.end = x.end /\ y.i = l
      <4>1. y \in Short(n)
        BY <2>5, <3>1
      <4> QED BY <4>1 DEF Call
    <3> HIDE DEF y
    <3>4. Outcome(a, A, l, f[y].t, d) /\ f[y].sum = Total(d, x.start, x.end)
      BY <2>4, <3>3 DEF QueriesRight
    <3> DEFINE u == f[y].t
    <3>5. u \in Trees
      BY <3>4 DEF Outcome
    <3>6. ASSUME NEW C \in Views, Locals(u, C, r), C[r] = A[r]
          PROVE  Outcome(u, C, r, u, d)
      <4> HIDE DEF u
      <4> QED BY <2>4, <3>5, <3>6, NoWalk
    <3>7. \E C \in Views : BothWalked(a, A, i, u, C, d)
      <4> HIDE DEF u, i, d
      <4> QED BY <1>1, <2>2, <2>4, <3>4, <3>5, <3>6, Both DEF u
    <3>8. Outcome(t, B, i, u, d)
      BY <2>6, <3>7
    <3> QED BY <3>2, <3>4, <3>8
  <2>8. CASE ~(mid >= x.end)
    <3> DEFINE y == Call(a, x.start, mid, l)
               b == IF x.start <= mid THEN f[y] ELSE [t |-> a, sum |-> 0]
               z == Call(b.t, Greater(x.start, mid + 1), x.end, r)
               c == f[z]
    <3>1. Lesser(mid, x.end) = mid /\ x.end > mid
      BY <1>1, <2>2, <2>8 DEF Lesser
    <3>2. f[x] = [t |-> c.t, sum |-> b.sum + c.sum]
      BY <1>2, <1>7, <2>8 DEF QueryBody, a
    <3>3. Outcome(a, A, l, b.t, d)
          /\ (x.start <= mid => b.sum = Total(d, x.start, mid))
          /\ (~(x.start <= mid) => b.sum = 0)
      <4>1. CASE x.start <= mid
        <5>1. y \in Short(n) /\ y.t = a /\ y.start = x.start /\ y.end = mid /\ y.i = l
          <6>1. y \in Short(n)
            BY <2>5, <3>1, <4>1
          <6> QED BY <6>1 DEF Call
        <5> HIDE DEF y
        <5>2. Outcome(a, A, l, f[y].t, d) /\ f[y].sum = Total(d, x.start, mid)
          BY <2>4, <5>1 DEF QueriesRight
        <5> QED BY <4>1, <5>2
      <4>2. CASE ~(x.start <= mid)
        <5>1. Outcome(a, A, l, a, A[l])
          BY <2>4, NoWalk
        <5> QED BY <2>4, <4>2, <5>1
      <4> QED BY <4>1, <4>2
    <3> HIDE DEF b
    <3>4. b.t \in Trees
      BY <3>3 DEF Outcome
    <3>5. z \in Short(n) /\ z.t = b.t /\ z.start = Greater(x.start, mid + 1) /\ z.end = x.end
          /\ z.i = r
      <4>1. z \in Short(n)
        BY <1>1, <1>7, <3>1, <3>4, Descend
      <4> QED BY <4>1 DEF Call
    <3> HIDE DEF z
    <3>6. ASSUME NEW C \in Views, Locals(b.t, C, r), C[r] = A[r]
          PROVE  /\ Outcome(b.t, C, r, c.t, d)
                 /\ c.sum = Total(d, Greater(x.start, mid + 1), x.end)
      BY <2>4, <3>5, <3>6 DEF QueriesRight
    <3>7. \E C \in Views : BothWalked(a, A, i, c.t, C, d)
      <4> DEFINE u == b.t
                 w == c.t
      <4>1. Outcome(a, A, l, u, d) /\ u \in Trees
            /\ \A C \in Views : Locals(u, C, r) /\ C[r] = A[r] => Outcome(u, C, r, w, d)
        BY <3>3, <3>4, <3>6
      <4> HIDE DEF u, w, c, i, d
      <4>2. \E C \in Views : BothWalked(a, A, i, w, C, d)
        BY <1>1, <2>2, <2>4, <4>1, Both
      <4> QED BY <4>2 DEF w
    <3>8. Outcome(t, B, i, c.t, d)
      BY <2>6, <3>7
    <3>9. c.sum = Total(d, Greater(x.start, mid + 1), x.end)
      <4>1. PICK C \in Views : /\ Locals(b.t, C, l)
                               /\ \A j \in TreeNodes \ Under(l) : b.t[j] = a[j] /\ C[j] = A[j]
        BY <3>3 DEF Outcome
      <4>2. Under(r) \subseteq TreeNodes \ Under(l) /\ r \in Under(r)
        <5>1. Under(l) \cap Under(r) = {}
          BY <1>1, <2>2, UnderSons
        <5>2. Under(r) \subseteq Used /\ r \in Under(r)
          <6> HIDE DEF r
          <6> QED BY <2>2, UnderNodes
        <5> QED BY <5>1, <5>2 DEF Used
      <4>3. C[r] = A[r]
        BY <4>1, <4>2
      <4>4. \A j \in Under(r) : b.t[j] = a[j] /\ C[j] = A[j]
        BY <4>1, <4>2
      <4> HIDE DEF r
      <4>5. Locals(b.t, C, r)
        BY <2>2, <2>4, <4>4, LocalsFrame
      <4> QED BY <3>6, <4>3, <4>5
    <3>10. b.sum + c.sum = Total(d, x.start, x.end)
      <4>1. CASE x.start <= mid
        <5>1. /\ Greater(x.start, mid + 1) = mid + 1 /\ (mid + 1) - 1 = mid
              /\ x.start <= mid + 1 /\ mid + 1 <= x.end + 1 /\ x.start <= x.end + 1
          BY <1>1, <2>2, <3>1, <4>1 DEF Greater
        <5> HIDE DEF d, mid
        <5>2. Sums(d, d, 0, x.start, mid + 1, x.end)
          BY <1>1, <1>4, <2>2, <5>1, TotalSums
        <5>3. Total(d, x.start, x.end) = Total(d, x.start, (mid + 1) - 1) + Total(d, mid + 1, x.end)
          BY <5>1, <5>2 DEF Sums
        <5> QED BY <3>3, <3>9, <4>1, <5>1, <5>3
      <4>2. CASE ~(x.start <= mid)
        <5>1. Greater(x.start, mid + 1) = x.start /\ x.start <= x.end + 1
          BY <1>1, <2>2, <4>2 DEF Greater
        <5>2. Sums(d, d, 0, x.start, x.start, x.end)
          <6> HIDE DEF d
          <6> QED BY <1>1, <1>4, <5>1, TotalSums
        <5>3. Total(d, x.start, x.end) \in Int
          BY <5>2 DEF Sums
        <5>4. b.sum = 0 /\ c.sum = Total(d, x.start, x.end)
          BY <3>3, <3>9, <4>2, <5>1
        <5> QED BY <5>3, <5>4
      <4> QED BY <4>1, <4>2
    <3> QED BY <3>2, <3>8, <3>10
  <2> QED BY <2>7, <2>8
<1> QED BY <1>6, <1>7

LEMMA QueryWalk ==
  ASSUME NEW f, Queries(f, Calls), NEW x \in Calls, NEW B \in Views, Locals(x.t, B, x.i)
  PROVE  /\ Outcome(x.t, B, x.i, f[x].t, B[x.i])
         /\ f[x].sum = Total(B[x.i], x.start, x.end)
<1> DEFINE G == {n \in Nat : QueriesRight(f, n)}
<1>1. 0 \in G
  BY Sizes DEF QueriesRight
<1>2. ASSUME NEW n \in G
      PROVE  n + 1 \in G
  BY QueryNode DEF QueriesRight
<1>3. G = Nat
  <2>1. G \in SUBSET Nat
    OBVIOUS
  <2> HIDE DEF G
  <2> QED BY <1>1, <1>2, <2>1, NumberInduction
<1>4. ArrayLength \in G
  BY <1>3, ArrayAssumption
<1> QED BY <1>4, Sizes DEF QueriesRight

-----------------------------------------------------------------------------
(* The tree stands for the array. *)

Stands(t, a) == \E B \in Views : Locals(t, B, 0) /\ B[0] = a

TreeInv == TreeTypeOK /\ Stands(tree, array) /\ SumsRight

LEMMA TreeRoot ==
  /\ 0 \in Used /\ 0 \in TreeNodes /\ span[0].low = 0 /\ span[0].high = ArrayLength - 1
  /\ \A start, end \in Positions, t \in Trees :
        start <= end =>
           LET x == Call(t, start, end, 0)
           IN  x \in Calls /\ x.t = t /\ x.start = start /\ x.end = end /\ x.i = 0
<1>1. 0 \in TreeNodes /\ span[0] = [low |-> 0, high |-> ArrayLength - 1]
  BY SpanFacts
<1>2. 0 \in Used
  BY <1>1 DEF Used
<1>3. \A k \in Positions : 0 <= k /\ k <= ArrayLength - 1
  BY ArrayAssumption DEF Positions
<1> QED BY <1>1, <1>2, <1>3 DEF Call, Calls

\* The outcome of a walk from the root.
LEMMA RootOutcome ==
  ASSUME NEW t, NEW B, NEW u, NEW a \in [Positions -> Int], Outcome(t, B, 0, u, a)
  PROVE  u \in Trees /\ Stands(u, a)
<1>1. PICK C \in Views : /\ \A k \in span[0].low .. span[0].high : C[0][k] = a[k]
                         /\ Locals(u, C, 0)
  BY DEF Outcome
<1>2. C[0] \in [Positions -> Int] /\ \A k \in Positions : C[0][k] = a[k]
  BY <1>1, TreeRoot DEF Views, Positions
<1>3. C[0] = a
  BY <1>2
<1> QED BY <1>1, <1>3 DEF Outcome, Stands

LEMMA InitTree == TreeInit => TreeInv
<1> SUFFICES ASSUME TreeInit
             PROVE  TreeInv
  OBVIOUS
<1> DEFINE x == [covered |-> FALSE, s |-> 0, v |-> 0, add |-> 0]
           b == [k \in Positions |-> 0]
           B == [i \in TreeNodes |-> b]
<1>1. tree = [i \in TreeNodes |-> x] /\ array = b /\ asked = Nothing
  BY DEF TreeInit
<1>2. x \in Node /\ x.covered = FALSE /\ x.s = 0 /\ x.v = 0 /\ x.add = 0
  BY DEF Node
<1>3. b \in [Positions -> Int] /\ \A k \in Positions : b[k] = 0
  OBVIOUS
<1> HIDE DEF x, b
<1>4. B \in Views /\ tree \in Trees /\ array \in [Positions -> Int]
  BY <1>1, <1>2, <1>3 DEF Views, Trees
<1>5. ASSUME NEW j \in Under(0)
      PROVE  Local(tree, B, j)
  <2>1. j \in Used
    BY TreeRoot, UnderNodes
  <2>2. /\ j \in TreeNodes /\ span[j].low \in Positions /\ span[j].high \in Positions
        /\ span[j].low \in Nat /\ span[j].high \in Nat /\ span[j].low <= span[j].high
    BY <2>1, UsedNode
  <2>3. tree[j] = x /\ B[j] = b
    BY <1>1, <2>2
  <2> DEFINE lo == span[j].low
             hi == span[j].high
  <2>4. lo .. hi \subseteq Positions /\ lo <= hi + 1
    BY <2>2, ArrayAssumption DEF Positions
  <2>5. Sums(b, b, 0, lo, lo, hi)
    BY <1>3, <2>2, <2>4, TotalSums
  <2>6. Total(b, lo, hi) = (hi + 1 - lo) * 0
    BY <1>3, <2>4, <2>5 DEF Sums
  <2>7. (hi + 1 - lo) * 0 = 0
    BY <2>2
  <2>8. Counts(tree, B, j)
    BY <1>2, <2>3, <2>6, <2>7 DEF Counts, getSum
  <2>9. Relates(tree, B, j)
    <3> SUFFICES ASSUME Wide(j)
                 PROVE  /\ \A k \in lo .. middle(span[j]) : B[j][k] = B[ll(j)][k] + x.add
                        /\ \A k \in middle(span[j]) + 1 .. hi : B[j][k] = B[rr(j)][k] + x.add
      BY <1>2, <2>3 DEF Relates
    <3>1. B[ll(j)] = b /\ B[rr(j)] = b
      BY <2>1, ThreeNodes
    <3>2. middle(span[j]) \in Nat /\ lo <= middle(span[j]) /\ middle(span[j]) < hi
      BY <2>1, UsedSons
    <3>3. /\ \A k \in lo .. middle(span[j]) : k \in Positions
          /\ \A k \in middle(span[j]) + 1 .. hi : k \in Positions
      BY <2>2, <2>4, <3>2
    <3> QED BY <1>2, <1>3, <2>3, <3>1, <3>3
  <2> QED BY <2>8, <2>9 DEF Local
<1>6. B[0] = array
  BY <1>1, TreeRoot
<1> HIDE DEF B
<1>7. Stands(tree, array)
  BY <1>4, <1>5, <1>6 DEF Stands, Locals
<1>8. asked.start = 0 /\ asked.end = -1 /\ asked.sum = 0
      /\ asked \in [start : Int, end : Int, sum : Int]
  BY <1>1 DEF Nothing
<1>9. Total(array, 0, -1) = 0
  BY <1>4, TotalNone
<1>10. SumsRight
  BY <1>8, <1>9 DEF SumsRight
<1> QED BY <1>4, <1>7, <1>8, <1>10 DEF TreeInv, TreeTypeOK

LEMMA UpdateTree ==
  ASSUME TreeInv, NEW start \in Positions, NEW end \in start .. ArrayLength - 1,
         NEW new \in News, Update(start, end, new)
  PROVE  TreeInv'
<1> DEFINE d == Changed(array, start, end, new)
<1>1. tree \in Trees /\ array \in [Positions -> Int] /\ end \in Positions /\ start <= end
      /\ start \in Int /\ end \in Int
  BY ArrayAssumption DEF TreeInv, TreeTypeOK, Positions
<1>2. d \in [Positions -> Int]
  <2>1. \A k \in Positions : array[k] \in Int /\ array[k] + new.v \in Int /\ new.v \in Int
    BY <1>1 DEF News
  <2> QED BY <2>1 DEF Changed
<1>3. PICK f : /\ Updates(f, Calls, new)
               /\ update_helper(tree, start, end, new) = f[Call(tree, start, end, 0)]
  BY <1>1, UpdateHelper
<1>4. PICK B \in Views : Locals(tree, B, 0) /\ B[0] = array
  BY DEF TreeInv, Stands
<1> DEFINE x == Call(tree, start, end, 0)
<1>5. x \in Calls /\ x.t = tree /\ x.start = start /\ x.end = end /\ x.i = 0
  BY <1>1, TreeRoot
<1> HIDE DEF x
<1>6. Outcome(tree, B, 0, f[x], d)
  BY <1>3, <1>4, <1>5, UpdateWalk
<1> HIDE DEF d
<1>7. f[x] \in Trees /\ Stands(f[x], d)
  BY <1>2, <1>6, RootOutcome
<1>8. tree' = f[x] /\ array' = d /\ asked' = Nothing
  BY <1>3 DEF Update, d, x
<1>9. Total(d, 0, -1) = 0
  BY <1>2, TotalNone
<1>10. Nothing \in [start : Int, end : Int, sum : Int] /\ Nothing.start = 0 /\ Nothing.end = -1
       /\ Nothing.sum = 0
  BY DEF Nothing
<1>11. SumsRight'
  BY <1>8, <1>9, <1>10 DEF SumsRight
<1>12. Stands(tree, array)'
  BY <1>7, <1>8 DEF Stands, Locals, Local, Counts, Relates
<1>13. TreeTypeOK'
  BY <1>2, <1>7, <1>8, <1>10 DEF TreeTypeOK
<1> QED BY <1>11, <1>12, <1>13 DEF TreeInv

LEMMA QueryTree ==
  ASSUME TreeInv, NEW start \in Positions, NEW end \in start .. ArrayLength - 1, Query(start, end)
  PROVE  TreeInv'
<1>1. tree \in Trees /\ array \in [Positions -> Int] /\ end \in Positions /\ start <= end
      /\ start \in Int /\ end \in Int
  BY ArrayAssumption DEF TreeInv, TreeTypeOK, Positions
<1>2. PICK f : Queries(f, Calls) /\ query_helper(tree, start, end) = f[Call(tree, start, end, 0)]
  BY <1>1, QueryHelper
<1>3. PICK B \in Views : Locals(tree, B, 0) /\ B[0] = array
  BY DEF TreeInv, Stands
<1> DEFINE x == Call(tree, start, end, 0)
<1>4. x \in Calls /\ x.t = tree /\ x.start = start /\ x.end = end /\ x.i = 0
  BY <1>1, TreeRoot
<1> HIDE DEF x
<1>5. Outcome(tree, B, 0, f[x].t, array) /\ f[x].sum = Total(array, start, end)
  BY <1>2, <1>3, <1>4, QueryWalk
<1>6. f[x].t \in Trees /\ Stands(f[x].t, array)
  BY <1>1, <1>5, RootOutcome
<1>7. /\ tree' = f[x].t /\ array' = array
      /\ asked' = [start |-> start, end |-> end, sum |-> f[x].sum]
  BY <1>2 DEF Query, x
<1>8. Total(array, start, end) \in Int
  <2>1. Sums(array, array, 0, start, start, end)
    BY <1>1, TotalSums
  <2> QED BY <2>1 DEF Sums
<1>9. asked' \in [start : Int, end : Int, sum : Int]
  BY <1>1, <1>5, <1>7, <1>8
<1>10. SumsRight'
  BY <1>5, <1>7 DEF SumsRight
<1>11. Stands(tree, array)'
  BY <1>6, <1>7 DEF Stands, Locals, Local, Counts, Relates
<1>12. TreeTypeOK'
  BY <1>1, <1>6, <1>7, <1>9 DEF TreeTypeOK
<1> QED BY <1>10, <1>11, <1>12 DEF TreeInv

LEMMA NextTree == TreeInv /\ [TreeNext]_treeVars => TreeInv'
<1> SUFFICES ASSUME TreeInv, [TreeNext]_treeVars
             PROVE  TreeInv'
  OBVIOUS
<1>1. ASSUME NEW start \in Positions, NEW end \in start .. ArrayLength - 1,
             NEW covered \in BOOLEAN, NEW v \in Amounts,
             Update(start, end, [covered |-> covered, v |-> v])
      PROVE  TreeInv'
  <2>1. [covered |-> covered, v |-> v] \in News
    BY ArrayAssumption DEF News
  <2> QED BY <1>1, <2>1, UpdateTree
<1>2. ASSUME NEW start \in Positions, NEW end \in start .. ArrayLength - 1, Query(start, end)
      PROVE  TreeInv'
  BY <1>2, QueryTree
<1>3. CASE UNCHANGED treeVars
  BY <1>3 DEF treeVars, TreeInv, TreeTypeOK, Stands, Locals, Local, Counts, Relates, SumsRight
<1> QED BY <1>1, <1>2, <1>3 DEF TreeNext

\* The inductive invariant of the segment tree.
THEOREM TreeInductive == TreeSpec => []TreeInv
BY InitTree, NextTree, PTL DEF TreeSpec

\* The vector keeps its shape, for every length of the array and all amounts.
THEOREM TreeTypeCorrect == TreeSpec => []TreeTypeOK
<1>1. TreeInv => TreeTypeOK
  BY DEF TreeInv
<1> QED BY <1>1, TreeInductive, PTL

\* Every query of a segment tree answers the sum of the elements, whatever waits at the
\* nodes above them.
THEOREM TreeSums == TreeSpec => []SumsRight
<1>1. TreeInv => SumsRight
  BY DEF TreeInv
<1> QED BY <1>1, TreeInductive, PTL
=============================================================================
