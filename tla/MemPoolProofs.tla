---------------------------- MODULE MemPoolProofs ----------------------------
(***************************************************************************)
(* Proofs about MemPool, for any number of pools, blocks and items of any  *)
(* sizes: an address is handed out to one user at a time and never while   *)
(* it is protected, nobody else writes into the words of its user, and the *)
(* counters are right.                                                     *)
(***************************************************************************)
EXTENDS MemPool, FiniteLemmas

\* An address of 0 is no item: the end of a chain.
USE DEF Null

\* The place that will be carved next from the pool of type t.
Fresh(t) == IF alloc_num[t] = 0 THEN Address(t, 0, 1)
            ELSE Address(t, alloc_num[t] - 1, BlockSize - avail_num[t])

\* The two ways items are linked.
FirstWord == [p \in Addresses |-> word[p][0]]
LastWord == [p \in DOMAIN kept |-> word[p][Size(p) - 1]]

Held == DOMAIN lent \cup DOMAIN kept

\* The items of type t that have been carved.
Carved(t) == {p \in Addresses \ {Null} : TypeOf(p) = t /\ p < Fresh(t)}

\* What recycle() has yet to find in the vector.
Waiting == {m_p_dynamic_dirty_array[i] :
              i \in next_dirty .. Len(m_p_dynamic_dirty_array)}

Typed ==
  /\ fixed_size_mem_pool_num \in 0 .. MaxTypeNum
  /\ fixed_size_array \in [Types -> Nat]
  /\ sorted_fixed_size_array_index \in [Types -> Types]
  /\ alloc_num \in [Types -> 0 .. BlockNum]
  /\ avail_num \in [Types -> 0 .. BlockSize]
  /\ free_list \in [Types -> Addresses]
  /\ dirty_list \in Addresses /\ dirty_list_length \in Nat
  /\ m_p_dynamic_dirty_array \in Seq(Addresses)
  /\ total_used_length \in Int /\ total_allocated \in Int
  /\ word \in [Addresses -> [Words -> Contents]]
  /\ recycling \in {"no", "list", "array"}
  /\ next_dirty \in Nat \ {0}

Pools ==
  \A t \in 0 .. Num - 1 :
    fixed_size_array[t] \in Sizes /\ sorted_fixed_size_array_index[t] \in 0 .. Num - 1

Carving ==
  \A t \in Types :
    /\ alloc_num[t] = 0 => avail_num[t] = 0
    /\ alloc_num[t] = 1 => avail_num[t] < BlockSize

Items ==
  /\ DOMAIN lent \cap DOMAIN kept = {}
  /\ \A p \in Held : TypeOf(p) < Num /\ p \in Carved(TypeOf(p))
  /\ \A p \in DOMAIN lent : lent[p] \in 1 .. Size(p)
  /\ \A p \in DOMAIN kept : kept[p] \in 0 .. Size(p)

FreeLists ==
  \A t \in Types : \E S \in SUBSET (Carved(t) \ Held) : Chained(S, free_list[t], FirstWord)

DirtyList ==
  \E D \in SUBSET (DOMAIN kept \ Waiting) :
    /\ Chained(D, dirty_list, LastWord)
    /\ dirty_list_length = Cardinality(D)
    /\ \A p \in D : kept[p] < Size(p)

Vector ==
  /\ Waiting \subseteq DOMAIN kept
  /\ \A i, j \in next_dirty .. Len(m_p_dynamic_dirty_array) :
       m_p_dynamic_dirty_array[i] = m_p_dynamic_dirty_array[j] => i = j
  /\ IF recycling = "array" THEN dirty_list = Null ELSE next_dirty = 1

PoolInv ==
  /\ Typed /\ Pools /\ Carving /\ Items /\ FreeLists /\ DirtyList /\ Vector /\ DataIntact

\* What the items in use take, added up.
Counted == total_allocated = SumOf([p \in DOMAIN lent |-> Size(p)])


-----------------------------------------------------------------------------
(* Products and quotients of variables, which the provers take one at a time. *)

LEMMA MulMono ==
  ASSUME NEW a \in Nat, NEW b \in Nat, NEW d \in Nat, a <= b
  PROVE  a * d \in Nat /\ b * d \in Nat /\ a * d <= b * d
OBVIOUS

LEMMA MulNext ==
  ASSUME NEW a \in Int, NEW d \in Nat
  PROVE  (a + 1) * d = a * d + d /\ (a - 1) * d = a * d - d
OBVIOUS

LEMMA DivUnique ==
  ASSUME NEW d \in Nat \ {0}, NEW t \in Nat, NEW p \in Nat,
         t * d <= p, p < (t + 1) * d
  PROVE  p \div d = t
OBVIOUS

LEMMA DivLess ==
  ASSUME NEW d \in Nat \ {0}, NEW n \in Nat, NEW p \in Nat, p < n * d
  PROVE  p \div d \in 0 .. n - 1
OBVIOUS

\* A pool has room for at least four items.
LEMMA Spans ==
  /\ Span \in Nat \ {0, 1} /\ BlockSize \in Nat \ {0, 1} /\ BlockSize <= Span
  /\ BlockNum \in Nat \ {0, 1} /\ MaxTypeNum \in Nat \ {0}
  /\ PoolSpan \in Nat \ {0} /\ BlockNum * Span = PoolSpan
  /\ Null \in Addresses
  /\ \A p \in Addresses : p \in Nat /\ TypeOf(p) \in Types
  /\ \A t \in Types : t \in Nat
<1>1. /\ Span \in Nat \ {0, 1} /\ BlockSize \in Nat \ {0, 1} /\ BlockSize <= Span
      /\ BlockNum \in Nat \ {0, 1} /\ MaxTypeNum \in Nat \ {0}
  BY PoolAssumption
<1>2. PoolSpan \in Nat \ {0} /\ BlockNum * Span = PoolSpan
  BY <1>1 DEF PoolSpan
<1>3. MaxTypeNum * PoolSpan \in Nat \ {0}
  BY <1>1, <1>2
<1>4. ASSUME NEW p \in Addresses
      PROVE  p \in Nat /\ TypeOf(p) \in Types
  <2>1. p \in Nat /\ p < MaxTypeNum * PoolSpan
    BY <1>3, <1>4 DEF Addresses
  <2>2. p \div PoolSpan \in 0 .. MaxTypeNum - 1
    BY <1>1, <1>2, <2>1, DivLess
  <2> QED BY <2>1, <2>2 DEF TypeOf, Types
<1> QED BY <1>1, <1>2, <1>3, <1>4 DEF Addresses, Null, Types

\* The largest size exists, and the word zero.
LEMMA FirstWordThere ==
  /\ Max(Sizes) \in Nat \ {0} /\ 0 \in Words
  /\ \A s \in Sizes : s \in Nat \ {0} /\ s <= Max(Sizes) /\ s - 1 \in Words
<1>1. Max(Sizes) \in Sizes /\ \A s \in Sizes : s <= Max(Sizes)
  BY PoolAssumption, FiniteMax
<1>2. \A s \in Sizes : s \in Nat \ {0}
  BY PoolAssumption
<1>3. Max(Sizes) \in Nat \ {0}
  BY <1>1, <1>2
<1> HIDE DEF Max
<1> QED BY <1>1, <1>2, <1>3 DEF Words

-----------------------------------------------------------------------------
(* Carving. *)

\* The places of a block lie in its pool.
LEMMA PlaceBounds ==
  ASSUME NEW t \in Types, NEW a \in 1 .. BlockNum, NEW v \in 0 .. BlockSize, a = 1 => v > 0
  PROVE  /\ t * PoolSpan \in Nat /\ (a - 1) * Span \in Nat /\ Address(t, a - 1, v) \in Nat
         /\ Address(t, a - 1, v) = t * PoolSpan + (a - 1) * Span + v
         /\ t * PoolSpan < Address(t, a - 1, v)
         /\ Address(t, a - 1, v) <= (t + 1) * PoolSpan
<1>1. t \in Nat /\ a \in Nat \ {0} /\ a - 1 \in Nat /\ a <= BlockNum /\ v \in Nat /\ v <= BlockSize
  BY Spans
<1>2. t * PoolSpan \in Nat /\ (t + 1) * PoolSpan = t * PoolSpan + PoolSpan
  BY <1>1, Spans, MulMono, MulNext
<1>3. a * Span \in Nat /\ a * Span <= PoolSpan
  BY <1>1, Spans, MulMono
<1>4. (a - 1) * Span = a * Span - Span
  BY <1>1, Spans, MulNext
<1>5. (a - 1) * Span \in Nat /\ (a - 1) * Span + Span <= PoolSpan
  BY <1>1, <1>3, <1>4, Spans, MulMono
<1>6. a # 1 => (a - 1) * Span >= 1
  <2>1. a # 1 => 1 <= a - 1
    BY <1>1
  <2>2. a # 1 => 1 * Span <= (a - 1) * Span
    BY <1>1, <2>1, Spans, MulMono
  <2> QED BY <1>5, <2>2, Spans
<1>7. Address(t, a - 1, v) = t * PoolSpan + (a - 1) * Span + v
  BY DEF Address
<1> QED BY <1>1, <1>2, <1>5, <1>6, <1>7, Spans

\* The next place lies in its pool, or just behind it.
LEMMA FreshBounds ==
  ASSUME Typed, Carving, NEW t \in Types
  PROVE  Fresh(t) \in Nat /\ t * PoolSpan < Fresh(t) /\ Fresh(t) <= (t + 1) * PoolSpan
<1>1. alloc_num[t] \in 0 .. BlockNum /\ avail_num[t] \in 0 .. BlockSize
  BY DEF Typed
<1>2. alloc_num[t] = 1 => avail_num[t] < BlockSize
  BY DEF Carving
<1>3. CASE alloc_num[t] = 0
  <2>1. Fresh(t) = Address(t, 1 - 1, 1)
    BY <1>3 DEF Fresh
  <2> QED BY <2>1, Spans, PlaceBounds
<1>4. CASE alloc_num[t] # 0
  <2>1. Fresh(t) = Address(t, alloc_num[t] - 1, BlockSize - avail_num[t])
    BY <1>4 DEF Fresh
  <2>2. /\ alloc_num[t] \in 1 .. BlockNum /\ BlockSize - avail_num[t] \in 0 .. BlockSize
        /\ alloc_num[t] = 1 => BlockSize - avail_num[t] > 0
    BY <1>1, <1>2, <1>4, Spans
  <2> QED BY <2>1, <2>2, PlaceBounds
<1> QED BY <1>3, <1>4

\* An address between the ends of a pool is of its type.
LEMMA InPool ==
  ASSUME NEW t \in Types, NEW p \in Nat, t * PoolSpan < p, p < (t + 1) * PoolSpan
  PROVE  p \in Addresses \ {Null} /\ TypeOf(p) = t
<1>1. t \in Nat /\ t + 1 <= MaxTypeNum
  BY Spans DEF Types
<1>2. t * PoolSpan \in Nat /\ (t + 1) * PoolSpan <= MaxTypeNum * PoolSpan
  BY <1>1, Spans, MulMono
<1>3. p \div PoolSpan = t
  BY <1>1, <1>2, Spans, DivUnique
<1>4. (t + 1) * PoolSpan \in Nat /\ MaxTypeNum * PoolSpan \in Nat
  BY <1>1, Spans, MulMono
<1> QED BY <1>2, <1>3, <1>4 DEF Addresses, Null, TypeOf

\* What fetch() takes from a block is the next place or lies behind it.
LEMMA CarvedPlace ==
  ASSUME Typed, Carving, NEW t \in Types, free_list[t] = Null, CanFetch(t), FetchFrom(t)
  PROVE  /\ Carving' /\ UNCHANGED free_list
         /\ alloc_num' \in [Types -> 0 .. BlockNum] /\ avail_num' \in [Types -> 0 .. BlockSize]
         /\ Fetch(t) \in Addresses \ {Null} /\ TypeOf(Fetch(t)) = t
         /\ Fresh(t) \in Nat /\ Fresh(t) <= Fetch(t) /\ Fresh(t)' = Fetch(t) + 1
         /\ \A u \in Types \ {t} : Fresh(u)' = Fresh(u)
<1> DEFINE a == Carve(t)[1]
           v == Carve(t)[2]
<1>1. /\ Fetch(t) = Address(t, a - 1, BlockSize - v)
      /\ alloc_num' = [alloc_num EXCEPT ![t] = a]
      /\ avail_num' = [avail_num EXCEPT ![t] = v - 1]
      /\ UNCHANGED free_list
  BY DEF Fetch, FetchFrom
<1>2. /\ alloc_num[t] \in Nat /\ alloc_num[t] <= BlockNum
      /\ avail_num[t] \in Nat /\ avail_num[t] <= BlockSize
      /\ alloc_num[t] = 0 => avail_num[t] = 0
      /\ alloc_num[t] = 1 => avail_num[t] < BlockSize
      /\ avail_num[t] = 0 => alloc_num[t] < BlockNum
  BY Spans DEF Typed, Carving, CanFetch, NoItemAtHand
<1>3. /\ a = IF avail_num[t] > 0 THEN alloc_num[t] ELSE alloc_num[t] + 1
      /\ v = IF avail_num[t] > 0 THEN avail_num[t]
             ELSE IF alloc_num[t] = 0 THEN BlockSize - 1 ELSE BlockSize
  BY DEF Carve
<1> HIDE DEF a, v
<1>4. /\ a \in 1 .. BlockNum /\ v \in 1 .. BlockSize
      /\ a = 1 => v < BlockSize
  BY <1>2, <1>3, Spans
<1>5. BlockSize - v \in 0 .. BlockSize /\ BlockSize - v + 1 \in 0 .. BlockSize
  BY <1>4, Spans
<1>6. /\ t * PoolSpan \in Nat /\ (a - 1) * Span \in Nat
      /\ Fetch(t) = t * PoolSpan + (a - 1) * Span + (BlockSize - v)
      /\ t * PoolSpan < Fetch(t) /\ Fetch(t) \in Nat
  <2>1. a = 1 => BlockSize - v > 0
    BY <1>4, Spans
  <2> QED BY <1>1, <1>4, <1>5, <2>1, PlaceBounds
<1>7. /\ Address(t, a - 1, BlockSize - v + 1) = Fetch(t) + 1
      /\ Fetch(t) < (t + 1) * PoolSpan
  <2>1. BlockSize - v + 1 > 0
    BY <1>4, Spans
  <2>2. /\ Address(t, a - 1, BlockSize - v + 1)
             = t * PoolSpan + (a - 1) * Span + (BlockSize - v + 1)
        /\ Address(t, a - 1, BlockSize - v + 1) <= (t + 1) * PoolSpan
    BY <1>4, <1>5, <2>1, PlaceBounds
  <2>3. (t + 1) * PoolSpan \in Nat /\ v \in Nat /\ BlockSize \in Nat
    BY <1>4, Spans, MulMono
  <2> QED BY <1>6, <2>2, <2>3
<1>8. Fetch(t) \in Addresses \ {Null} /\ TypeOf(Fetch(t)) = t
  BY <1>6, <1>7, InPool
<1>9. Fresh(t) \in Nat /\ Fresh(t) <= Fetch(t)
  <2>1. Fresh(t) \in Nat
    BY FreshBounds
  <2>2. CASE avail_num[t] > 0
    <3>1. a = alloc_num[t] /\ v = avail_num[t] /\ alloc_num[t] # 0
      BY <1>2, <1>3, <2>2
    <3> QED BY <1>1, <2>1, <3>1 DEF Fresh
  <2>3. CASE avail_num[t] = 0 /\ alloc_num[t] = 0
    <3>1. a - 1 = 0 /\ BlockSize - v = 1
      BY <1>3, <2>3, Spans
    <3> QED BY <1>1, <2>1, <2>3, <3>1 DEF Fresh
  <2>4. CASE avail_num[t] = 0 /\ alloc_num[t] # 0
    <3>1. a = alloc_num[t] + 1 /\ v = BlockSize /\ alloc_num[t] = a - 1
      BY <1>2, <1>3, <2>4
    <3>2. Fresh(t) = t * PoolSpan + (a - 1 - 1) * Span + BlockSize
      BY <2>4, <3>1, Spans DEF Fresh, Address
    <3>3. (a - 1 - 1) * Span = (a - 1) * Span - Span
      BY <1>4, Spans, MulNext
    <3> QED BY <1>6, <2>1, <3>1, <3>2, <3>3, Spans
  <2> QED BY <1>2, <2>2, <2>3, <2>4
<1>10. /\ alloc_num' \in [Types -> 0 .. BlockNum] /\ avail_num' \in [Types -> 0 .. BlockSize]
       /\ alloc_num'[t] = a /\ avail_num'[t] = v - 1
       /\ \A u \in Types \ {t} : alloc_num'[u] = alloc_num[u] /\ avail_num'[u] = avail_num[u]
  <2>1. a \in 0 .. BlockNum /\ v - 1 \in 0 .. BlockSize
    BY <1>4, Spans
  <2> QED BY <1>1, <2>1 DEF Typed
<1>11. Carving'
  <2>1. a # 0 /\ (a = 1 => v - 1 < BlockSize)
    BY <1>4, Spans
  <2> QED BY <1>10, <2>1 DEF Carving
<1>12. Fresh(t)' = Fetch(t) + 1
  <2>1. Fresh(t)' = Address(t, a - 1, BlockSize - (v - 1))
    BY <1>4, <1>10, Spans DEF Fresh
  <2>2. BlockSize - (v - 1) = BlockSize - v + 1
    BY <1>4, Spans
  <2> QED BY <1>7, <2>1, <2>2
<1>13. \A u \in Types \ {t} : Fresh(u)' = Fresh(u)
  BY <1>10 DEF Fresh
<1> QED BY <1>1, <1>8, <1>9, <1>10, <1>11, <1>12, <1>13

-----------------------------------------------------------------------------
(* The free lists. *)

LEMMA HeldTyped ==
  ASSUME Typed, Pools, Items, NEW p \in Held
  PROVE  /\ p \in Addresses \ {Null} /\ TypeOf(p) \in Types /\ TypeOf(p) \in 0 .. Num - 1
         /\ p \in Carved(TypeOf(p))
         /\ Size(p) \in Sizes /\ Size(p) \in Nat \ {0} /\ Size(p) <= Max(Sizes)
         /\ Size(p) - 1 \in Words
<1>1. TypeOf(p) < Num /\ p \in Carved(TypeOf(p))
  BY DEF Items
<1>2. p \in Addresses \ {Null}
  BY <1>1 DEF Carved
<1>3. TypeOf(p) \in Types /\ TypeOf(p) \in Nat
  BY <1>2, Spans
<1>4. TypeOf(p) \in 0 .. Num - 1
  BY <1>1, <1>3 DEF Typed, Num
<1>5. Size(p) \in Sizes
  BY <1>4 DEF Pools, Size
<1> QED BY <1>1, <1>2, <1>3, <1>4, <1>5, FirstWordThere

LEMMA AddressesFinite ==
  ASSUME NEW S \in SUBSET Addresses
  PROVE  IsFiniteSet(S)
<1>1. MaxTypeNum * PoolSpan - 1 \in Int
  BY Spans
<1>2. IsFiniteSet(Addresses)
  BY <1>1, FS_Interval DEF Addresses
<1> QED BY <1>2, FS_Subset

\* fetch(): the item is nobody's, and the rest of the free list is still there.
LEMMA FetchStep ==
  ASSUME Typed, Carving, Items, FreeLists, NEW t \in Types, CanFetch(t), FetchFrom(t),
         \A q \in Addresses \ {Fetch(t)} : word'[q] = word[q],
         Held' = Held \cup {Fetch(t)}
  PROVE  /\ alloc_num' \in [Types -> 0 .. BlockNum] /\ avail_num' \in [Types -> 0 .. BlockSize]
         /\ free_list' \in [Types -> Addresses]
         /\ Carving'
         /\ Fetch(t) \in Addresses \ {Null} /\ TypeOf(Fetch(t)) = t
         /\ Fetch(t) \notin Held /\ Fetch(t) \in Carved(t)'
         /\ \A u \in Types : Carved(u) \subseteq Carved(u)'
         /\ FreeLists'
<1> DEFINE p == Fetch(t)
<1>1. CASE free_list[t] # Null
  <2>1. /\ p = free_list[t] /\ UNCHANGED carving
        /\ free_list' = [free_list EXCEPT ![t] = word[p][0]]
    BY <1>1 DEF Fetch, FetchFrom
  <2>2. Carving' /\ \A u \in Types : Carved(u)' = Carved(u)
    BY <2>1 DEF carving, Carving, Carved, Fresh
  <2>3. PICK S \in SUBSET (Carved(t) \ Held) : Chained(S, p, FirstWord)
    BY <2>1 DEF FreeLists
  <2>4. IsFiniteSet(S) /\ Null \notin S
    BY AddressesFinite DEF Carved
  <2>5. p \in Addresses \ {Null} /\ p # Null
    BY <1>1, <2>1 DEF Typed
  <2> HIDE DEF p
  <2>6. \A q \in S \ {p} : FirstWord'[q] = FirstWord[q]
    BY DEF FirstWord, Carved, p
  <2>7. /\ p \in S /\ FirstWord[p] \in (S \ {p}) \cup {Null}
        /\ Chained(S \ {p}, FirstWord[p], FirstWord')
    BY <2>3, <2>4, <2>5, <2>6, ChainPop
  <2>8. FirstWord[p] = word[p][0] /\ word[p][0] \in Addresses
    BY <2>5, <2>7, Spans DEF FirstWord, Carved
  <2>9. free_list' \in [Types -> Addresses] /\ free_list'[t] = word[p][0]
        /\ \A u \in Types \ {t} : free_list'[u] = free_list[u]
    BY <2>1, <2>8 DEF Typed
  <2>10. p \in Carved(t) /\ p \notin Held /\ TypeOf(p) = t
    BY <2>7 DEF Carved
  <2>11. ASSUME NEW u \in Types
         PROVE  \E T \in SUBSET (Carved(u) \ (Held \cup {p})) :
                  Chained(T, free_list'[u], FirstWord')
    <3>1. CASE u = t
      <4>1. S \ {p} \in SUBSET (Carved(t) \ (Held \cup {p}))
        OBVIOUS
      <4> QED BY <2>7, <2>8, <2>9, <3>1, <4>1
    <3>2. CASE u # t
      <4>1. PICK T \in SUBSET (Carved(u) \ Held) : Chained(T, free_list[u], FirstWord)
        BY DEF FreeLists
      <4>2. IsFiniteSet(T) /\ p \notin T
        BY <2>10, <3>2, AddressesFinite DEF Carved
      <4>3. \A q \in T : FirstWord'[q] = FirstWord[q]
        BY <4>2 DEF FirstWord, Carved, p
      <4>4. Chained(T, free_list'[u], FirstWord')
        BY <2>9, <3>2, <4>1, <4>2, <4>3, ChainFrame
      <4> QED BY <4>2, <4>4
    <3> QED BY <3>1, <3>2
  <2>12. FreeLists'
    BY <2>2, <2>11 DEF FreeLists, p
  <2> QED BY <2>1, <2>2, <2>5, <2>9, <2>10, <2>12 DEF Typed, carving, p
<1>2. CASE free_list[t] = Null
  <2>1. /\ Carving' /\ UNCHANGED free_list
        /\ alloc_num' \in [Types -> 0 .. BlockNum] /\ avail_num' \in [Types -> 0 .. BlockSize]
        /\ p \in Addresses \ {Null} /\ TypeOf(p) = t
        /\ Fresh(t) \in Nat /\ Fresh(t) <= p /\ Fresh(t)' = p + 1
        /\ \A u \in Types \ {t} : Fresh(u)' = Fresh(u)
    BY <1>2, CarvedPlace
  <2> HIDE DEF p
  <2>2. p \in Nat /\ \A q \in Addresses : q \in Nat
    BY <2>1, Spans
  <2>3. p \notin Carved(t) /\ p \notin Held
    BY <2>1, <2>2 DEF Carved, Items
  <2>4. p \in Carved(t)'
    BY <2>1, <2>2 DEF Carved
  <2>5. ASSUME NEW u \in Types
        PROVE  Carved(u) \subseteq Carved(u)'
    <3>1. \A q \in Nat : q < Fresh(t) => q < p + 1
      BY <2>1, <2>2
    <3>2. CASE u = t
      BY <2>1, <2>2, <3>1, <3>2 DEF Carved
    <3>3. CASE u # t
      BY <2>1, <3>3 DEF Carved
    <3> QED BY <3>2, <3>3
  <2>6. ASSUME NEW u \in Types
        PROVE  \E T \in SUBSET (Carved(u)' \ (Held \cup {p})) :
                  Chained(T, free_list'[u], FirstWord')
    <3>1. PICK T \in SUBSET (Carved(u) \ Held) : Chained(T, free_list[u], FirstWord)
      BY DEF FreeLists
    <3>2. IsFiniteSet(T) /\ p \notin T
      BY <2>1, <2>3, AddressesFinite DEF Carved
    <3>3. \A q \in T : FirstWord'[q] = FirstWord[q]
      BY <3>2 DEF FirstWord, Carved, p
    <3>4. Chained(T, free_list'[u], FirstWord')
      BY <2>1, <3>1, <3>2, <3>3, ChainFrame
    <3> QED BY <2>5, <3>2, <3>4
  <2>7. FreeLists'
    BY <2>6 DEF FreeLists, p
  <2> QED BY <2>1, <2>3, <2>4, <2>5, <2>7 DEF Typed, p
<1> QED BY <1>1, <1>2

\* back(): a held item becomes the head of the free list of its type.
LEMMA BackStep ==
  ASSUME Typed, Pools, Items, FreeLists, NEW p \in Held, Back(p), UNCHANGED carving,
         Held' = Held \ {p}
  PROVE  /\ free_list' \in [Types -> Addresses]
         /\ word' \in [Addresses -> [Words -> Contents]]
         /\ \A q \in Addresses \ {p} : word'[q] = word[q]
         /\ \A u \in Types : Carved(u)' = Carved(u)
         /\ FreeLists'
<1> DEFINE t == TypeOf(p)
<1>1. p \in Addresses \ {Null} /\ t \in Types /\ p \in Carved(t)
  BY HeldTyped
<1>2. /\ free_list' = [free_list EXCEPT ![t] = p] /\ free_list' \in [Types -> Addresses]
      /\ free_list'[t] = p
      /\ \A u \in Types \ {t} : free_list'[u] = free_list[u]
  BY <1>1 DEF Back, Typed
<1>3. /\ word' \in [Addresses -> [Words -> Contents]]
      /\ \A q \in Addresses \ {p} : word'[q] = word[q]
      /\ word'[p][0] = free_list[t]
  <2> DEFINE w == [k \in Words |-> IF k = 0 THEN free_list[t] ELSE Blank]
  <2>1. word' = [word EXCEPT ![p] = w]
    BY DEF Back
  <2>2. w \in [Words -> Contents] /\ w[0] = free_list[t]
    BY <1>1, FirstWordThere DEF Typed, Contents
  <2> HIDE DEF w
  <2> QED BY <1>1, <2>1, <2>2 DEF Typed
<1>4. \A u \in Types : Carved(u)' = Carved(u)
  BY DEF carving, Carved, Fresh
<1> HIDE DEF t
<1>5. FirstWord'[p] = free_list[t] /\ \A q \in Addresses \ {p} : FirstWord'[q] = FirstWord[q]
  BY <1>1, <1>3 DEF FirstWord
<1>6. ASSUME NEW u \in Types
      PROVE  \E T \in SUBSET (Carved(u) \ (Held \ {p})) :
                Chained(T, free_list'[u], FirstWord')
  <2>1. PICK S \in SUBSET (Carved(u) \ Held) : Chained(S, free_list[u], FirstWord)
    BY DEF FreeLists
  <2>2. IsFiniteSet(S) /\ p \notin S /\ S \subseteq Addresses
    BY AddressesFinite DEF Carved
  <2>3. \A q \in S : FirstWord'[q] = FirstWord[q]
    BY <1>5, <2>2
  <2>4. CASE u = t
    <3>1. Chained(S \cup {p}, p, FirstWord')
      BY <1>5, <2>1, <2>2, <2>3, <2>4, ChainPush
    <3>2. S \cup {p} \in SUBSET (Carved(u) \ (Held \ {p}))
      BY <1>1, <2>4
    <3> QED BY <1>2, <2>4, <3>1, <3>2
  <2>5. CASE u # t
    <3>1. Chained(S, free_list'[u], FirstWord')
      BY <1>2, <2>1, <2>2, <2>3, <2>5, ChainFrame
    <3> QED BY <3>1
  <2> QED BY <2>4, <2>5
<1>7. FreeLists'
  BY <1>4, <1>6 DEF FreeLists
<1> QED BY <1>2, <1>3, <1>4, <1>7

-----------------------------------------------------------------------------
(* The steps keep the invariant. *)

\* Items that nobody writes to and that stay protected: their lists stay.
LEMMA DirtyFrame ==
  ASSUME Typed, Items, DirtyList, Vector, UNCHANGED <<dirty, next_dirty, kept>>,
         \A q \in DOMAIN kept : word'[q] = word[q] /\ Size(q)' = Size(q)
  PROVE  DirtyList' /\ Waiting' = Waiting
<1>1. Waiting' = Waiting
  BY DEF Waiting, dirty
<1>2. PICK D \in SUBSET (DOMAIN kept \ Waiting) :
        /\ Chained(D, dirty_list, LastWord) /\ dirty_list_length = Cardinality(D)
        /\ \A q \in D : kept[q] < Size(q)
  BY DEF DirtyList
<1>3. IsFiniteSet(D)
  BY AddressesFinite DEF Items, Held, Carved
<1>4. \A q \in D : LastWord'[q] = LastWord[q] /\ Size(q)' = Size(q)
  BY DEF LastWord
<1>5. Chained(D, dirty_list', LastWord')
  BY <1>2, <1>3, <1>4, ChainFrame DEF dirty
<1> QED BY <1>1, <1>2, <1>4, <1>5 DEF DirtyList, dirty

\* malloc(): the fetched item and the user's words in it.
LEMMA LendStep ==
  ASSUME PoolInv, NEW t \in 0 .. Num - 1, NEW len \in 1 .. fixed_size_array[t],
         CanFetch(t), FetchFrom(t), Lend(Fetch(t), len), UNCHANGED <<pools, dirty, loop>>,
         total_used_length' \in Int, total_allocated' \in Int
  PROVE  /\ PoolInv'
         /\ Fetch(t) \in Addresses \ {Null} /\ Fetch(t) \notin Held /\ TypeOf(Fetch(t)) = t
         /\ DOMAIN lent' = DOMAIN lent \cup {Fetch(t)} /\ kept' = kept
<1> DEFINE p == Fetch(t)
<1>0. Typed /\ Pools /\ Carving /\ Items /\ FreeLists /\ DirtyList /\ Vector /\ DataIntact
  BY DEF PoolInv
<1>1. /\ t \in Types /\ t < Num /\ fixed_size_array[t] \in Sizes
      /\ len \in Nat \ {0} /\ len <= fixed_size_array[t] /\ fixed_size_array[t] <= Max(Sizes)
  <2>1. Num \in Nat /\ Num <= MaxTypeNum /\ fixed_size_array[t] \in Sizes
    <3>1. Num \in Nat /\ Num <= MaxTypeNum
      BY <1>0, Spans DEF Typed, Num
    <3>2. fixed_size_array[t] \in Sizes
      BY <1>0 DEF Pools
    <3> QED BY <3>1, <3>2
  <2>2. fixed_size_array[t] \in Nat \ {0} /\ fixed_size_array[t] <= Max(Sizes)
    BY <2>1, FirstWordThere
  <2> QED BY <2>1, <2>2, Spans DEF Types
<1>2. /\ DOMAIN lent' = DOMAIN lent \cup {p} /\ lent'[p] = len
      /\ \A q \in DOMAIN lent \ {p} : lent'[q] = lent[q]
      /\ kept' = kept
  BY DEF Lend, With
<1> DEFINE w == [k \in Words |-> IF k < len THEN Data ELSE Blank]
<1>3. word' = [word EXCEPT ![p] = w]
  BY DEF Lend
<1>4. w \in [Words -> Contents] /\ \A k \in 0 .. len - 1 : w[k] = Data
  BY <1>1, FirstWordThere DEF Words, Contents
<1> HIDE DEF w
<1>5. \A q \in Addresses \ {p} : word'[q] = word[q]
  BY <1>0, <1>3 DEF Typed
<1>6. Held' = Held \cup {p}
  BY <1>2 DEF Held
<1>7. /\ alloc_num' \in [Types -> 0 .. BlockNum] /\ avail_num' \in [Types -> 0 .. BlockSize]
      /\ free_list' \in [Types -> Addresses]
      /\ Carving'
      /\ p \in Addresses \ {Null} /\ TypeOf(p) = t
      /\ p \notin Held /\ p \in Carved(t)'
      /\ \A u \in Types : Carved(u) \subseteq Carved(u)'
      /\ FreeLists'
  BY <1>0, <1>1, <1>5, <1>6, FetchStep
<1> HIDE DEF p
<1>8. /\ word' \in [Addresses -> [Words -> Contents]]
      /\ \A k \in 0 .. len - 1 : word'[p][k] = Data
  BY <1>0, <1>3, <1>4, <1>7 DEF Typed
<1>9. Typed'
  BY <1>0, <1>7, <1>8 DEF Typed, pools, dirty, loop
<1>10. Pools' /\ \A q \in Addresses : Size(q)' = Size(q)
  BY <1>0 DEF Pools, pools, Size, Num
<1>11. Items'
  <2>1. DOMAIN lent' \cap DOMAIN kept' = {}
    BY <1>0, <1>2, <1>7 DEF Items, Held
  <2>2. ASSUME NEW q \in Held \cup {p}
        PROVE  q \in Addresses /\ TypeOf(q) < Num' /\ q \in Carved(TypeOf(q))'
    <3>1. CASE q = p
      BY <1>1, <1>7, <3>1 DEF pools, Num
    <3>2. CASE q \in Held
      <4>1. /\ q \in Addresses /\ TypeOf(q) \in Types /\ q \in Carved(TypeOf(q))
            /\ TypeOf(q) < Num
        BY <1>0, <3>2, HeldTyped DEF Items
      <4>2. Carved(TypeOf(q)) \subseteq Carved(TypeOf(q))'
        BY <1>7, <4>1
      <4> QED BY <4>1, <4>2 DEF pools, Num
    <3> QED BY <3>1, <3>2
  <2>3. ASSUME NEW q \in DOMAIN lent'
        PROVE  lent'[q] \in 1 .. Size(q)'
    <3>1. CASE q = p
      BY <1>1, <1>2, <1>7, <1>10, <3>1 DEF Size
    <3>2. CASE q # p
      BY <1>0, <1>2, <1>10, <2>2, <3>2 DEF Items, Held
    <3> QED BY <3>1, <3>2
  <2>4. ASSUME NEW q \in DOMAIN kept'
        PROVE  kept'[q] \in 0 .. Size(q)'
    BY <1>0, <1>2, <1>10, <2>2 DEF Items, Held
  <2> QED BY <1>6, <2>1, <2>2, <2>3, <2>4 DEF Items
<1>12. DirtyList' /\ Waiting' = Waiting
  <2>1. \A q \in DOMAIN kept : q \in Addresses \ {p}
    BY <1>0, <1>7, HeldTyped DEF Held
  <2> QED BY <1>0, <1>2, <1>5, <1>10, <2>1, DirtyFrame DEF loop
<1>13. Vector'
  BY <1>0, <1>2, <1>12 DEF Vector, dirty, loop
<1>14. DataIntact'
  <2>1. ASSUME NEW q \in DOMAIN lent', NEW k \in 0 .. lent'[q] - 1
        PROVE  word'[q][k] = Data
    <3>1. CASE q = p
      BY <1>2, <1>8, <3>1
    <3>2. CASE q # p
      <4>1. q \in DOMAIN lent /\ q \in Addresses \ {p} /\ lent'[q] = lent[q]
        BY <1>0, <1>2, <3>2, HeldTyped DEF Held
      <4> QED BY <1>0, <1>5, <4>1 DEF DataIntact
    <3> QED BY <3>1, <3>2
  <2>2. ASSUME NEW q \in DOMAIN kept, NEW k \in 0 .. kept[q] - 1
        PROVE  word'[q][k] = Data
    <3>1. q \in Addresses \ {p}
      BY <1>0, <1>7, HeldTyped DEF Held
    <3> QED BY <1>0, <1>5, <3>1 DEF DataIntact
  <2> QED BY <1>2, <2>1, <2>2 DEF DataIntact
<1> QED BY <1>2, <1>7, <1>9, <1>10, <1>11, <1>12, <1>13, <1>14 DEF PoolInv, p

\* One held item is given back, protected or recycled: what that means for the others.
LEMMA OneItem ==
  ASSUME PoolInv, NEW p \in Held, UNCHANGED <<pools, carving>>,
         \A q \in Addresses \ {p} : word'[q] = word[q],
         DOMAIN lent' = DOMAIN lent \ {p}, \A q \in DOMAIN lent' : lent'[q] = lent[q],
         DOMAIN kept' \ {p} = DOMAIN kept \ {p},
         \A q \in DOMAIN kept' \ {p} : kept'[q] = kept[q],
         p \in DOMAIN kept' => /\ kept'[p] \in 0 .. Size(p)
                               /\ \A k \in 0 .. kept'[p] - 1 : word'[p][k] = Data
  PROVE  /\ Pools' /\ Carving' /\ Items' /\ DataIntact'
         /\ \A u \in Types : Carved(u)' = Carved(u)
         /\ \A q \in Addresses : Size(q)' = Size(q)
<1>1. Typed /\ Pools /\ Carving /\ Items /\ FreeLists /\ DirtyList /\ Vector /\ DataIntact
  BY DEF PoolInv
<1>2. Pools' /\ \A q \in Addresses : Size(q)' = Size(q)
  BY <1>1 DEF Pools, pools, Size, Num
<1>3. Carving' /\ \A u \in Types : Carved(u)' = Carved(u)
  BY <1>1 DEF carving, Carving, Carved, Fresh
<1>4. \A q \in Held : q \in Addresses /\ TypeOf(q) \in Types
  BY <1>1, HeldTyped
<1>5. Held' \subseteq Held
  BY DEF Held
<1>6. Items'
  <2>1. DOMAIN lent' \cap DOMAIN kept' = {}
    BY <1>1 DEF Items
  <2>2. ASSUME NEW q \in Held'
        PROVE  TypeOf(q) < Num' /\ q \in Carved(TypeOf(q))'
    <3>1. q \in Held /\ TypeOf(q) \in Types
      BY <1>4, <1>5
    <3> QED BY <1>1, <1>3, <3>1 DEF Items, pools, Num
  <2>3. ASSUME NEW q \in DOMAIN lent'
        PROVE  lent'[q] \in 1 .. Size(q)'
    BY <1>1, <1>2, <1>4 DEF Items, Held
  <2>4. ASSUME NEW q \in DOMAIN kept'
        PROVE  kept'[q] \in 0 .. Size(q)'
    <3>1. CASE q = p
      BY <1>2, <1>4, <3>1
    <3>2. CASE q # p
      BY <1>1, <1>2, <1>4, <3>2 DEF Items, Held
    <3> QED BY <3>1, <3>2
  <2> QED BY <2>1, <2>2, <2>3, <2>4 DEF Items
<1>7. DataIntact'
  <2>1. ASSUME NEW q \in DOMAIN lent', NEW k \in 0 .. lent'[q] - 1
        PROVE  word'[q][k] = Data
    <3>1. q \in DOMAIN lent /\ q \in Addresses \ {p}
      BY <1>4 DEF Held
    <3> QED BY <1>1, <3>1 DEF DataIntact
  <2>2. ASSUME NEW q \in DOMAIN kept', NEW k \in 0 .. kept'[q] - 1
        PROVE  word'[q][k] = Data
    <3>1. CASE q = p
      BY <3>1
    <3>2. CASE q # p
      <4>1. q \in DOMAIN kept /\ q \in Addresses \ {p} /\ kept'[q] = kept[q]
        BY <1>4, <3>2 DEF Held
      <4> QED BY <1>1, <4>1 DEF DataIntact
    <3> QED BY <3>1, <3>2
  <2> QED BY <2>1, <2>2 DEF DataIntact
<1> QED BY <1>2, <1>3, <1>6, <1>7

\* Nobody fetches and nobody comes back.
LEMMA FreeFrame ==
  ASSUME PoolInv, NEW p \in Held, UNCHANGED <<free_list, carving>>, Held' = Held,
         \A q \in Addresses \ {p} : word'[q] = word[q]
  PROVE  FreeLists'
<1>1. FreeLists
  BY DEF PoolInv
<1>2. \A u \in Types : Carved(u)' = Carved(u)
  BY DEF carving, Carved, Fresh
<1>3. ASSUME NEW u \in Types
      PROVE  \E S \in SUBSET (Carved(u) \ Held) : Chained(S, free_list'[u], FirstWord')
  <2>1. PICK S \in SUBSET (Carved(u) \ Held) : Chained(S, free_list[u], FirstWord)
    BY <1>1 DEF FreeLists
  <2>2. IsFiniteSet(S) /\ \A q \in S : FirstWord'[q] = FirstWord[q]
    BY AddressesFinite DEF FirstWord, Carved
  <2>3. Chained(S, free_list'[u], FirstWord')
    BY <2>1, <2>2, ChainFrame
  <2> QED BY <2>3
<1> QED BY <1>2, <1>3 DEF FreeLists

\* The item a user gives back, and the length he says he used.
LEMMA Given ==
  ASSUME PoolInv, NEW p \in DOMAIN lent, NEW how \in UsedLengths, Uncount(p, Used(p, how))
  PROVE  /\ p \in Held /\ p \notin DOMAIN kept
         /\ DOMAIN lent' = DOMAIN lent \ {p} /\ \A q \in DOMAIN lent' : lent'[q] = lent[q]
         /\ lent[p] \in 1 .. Size(p) /\ Used(p, how) \in 1 .. Size(p)
         /\ Size(p) \in Nat \ {0} /\ Size(p) - 1 \in Words /\ p \in Addresses
         /\ total_used_length' \in Int
         /\ total_allocated' = total_allocated - Size(p) /\ total_allocated' \in Int
<1>1. Typed /\ Pools /\ Items
  BY DEF PoolInv
<1>2. p \in Held
  BY DEF Held
<1>3. Size(p) \in Nat \ {0} /\ Size(p) - 1 \in Words /\ p \in Addresses
  BY <1>1, <1>2, HeldTyped
<1>4. lent[p] \in 1 .. Size(p) /\ Used(p, how) \in 1 .. Size(p)
  BY <1>1, <1>3 DEF Items, Used
<1>5. /\ DOMAIN lent' = DOMAIN lent \ {p} /\ \A q \in DOMAIN lent' : lent'[q] = lent[q]
  BY DEF Uncount, Without
<1>6. /\ total_used_length' \in Int
      /\ total_allocated' = total_allocated - Size(p) /\ total_allocated' \in Int
  <2>1. /\ total_used_length' = total_used_length - Used(p, how)
        /\ total_allocated' = total_allocated - Size(p)
    BY DEF Uncount
  <2>2. total_used_length \in Int /\ total_allocated \in Int
    BY <1>1 DEF Typed
  <2> QED BY <1>3, <1>4, <2>1, <2>2
<1> QED BY <1>1, <1>2, <1>3, <1>4, <1>5, <1>6 DEF Items

LEMMA FreeUnprotectedStep ==
  ASSUME PoolInv, NEW p \in DOMAIN lent, NEW how \in UsedLengths, FreeUnprotected(p, how)
  PROVE  PoolInv'
<1>1. Typed /\ Pools /\ Carving /\ Items /\ FreeLists /\ DirtyList /\ Vector /\ DataIntact
  BY DEF PoolInv
<1>2. /\ Uncount(p, Used(p, how)) /\ Back(p)
      /\ UNCHANGED <<pools, carving, dirty, loop, kept>>
  BY DEF FreeUnprotected
<1>3. /\ p \in Held /\ p \notin DOMAIN kept
      /\ DOMAIN lent' = DOMAIN lent \ {p} /\ \A q \in DOMAIN lent' : lent'[q] = lent[q]
      /\ total_used_length' \in Int /\ total_allocated' \in Int
  BY <1>2, Given
<1>4. Held' = Held \ {p}
  BY <1>2, <1>3 DEF Held
<1>5. /\ free_list' \in [Types -> Addresses] /\ word' \in [Addresses -> [Words -> Contents]]
      /\ \A q \in Addresses \ {p} : word'[q] = word[q]
      /\ FreeLists'
  BY <1>1, <1>2, <1>3, <1>4, BackStep
<1>6. /\ Pools' /\ Carving' /\ Items' /\ DataIntact'
      /\ \A q \in Addresses : Size(q)' = Size(q)
  BY <1>2, <1>3, <1>5, OneItem
<1>7. Typed'
  BY <1>1, <1>2, <1>3, <1>5 DEF Typed, pools, carving, dirty, loop
<1>8. DirtyList' /\ Waiting' = Waiting
  <2>1. \A q \in DOMAIN kept : q \in Addresses \ {p}
    BY <1>1, <1>3, HeldTyped DEF Held
  <2> QED BY <1>1, <1>2, <1>5, <1>6, <2>1, DirtyFrame DEF loop
<1>9. Vector'
  BY <1>1, <1>2, <1>8 DEF Vector, dirty, loop
<1> QED BY <1>5, <1>6, <1>7, <1>8, <1>9 DEF PoolInv

LEMMA FreeLinkedStep ==
  ASSUME PoolInv, NEW p \in DOMAIN lent, NEW how \in UsedLengths, NEW tail_writeable \in BOOLEAN,
         FreeLinked(p, how, tail_writeable)
  PROVE  PoolInv' /\ DOMAIN kept' = DOMAIN kept \cup {p}
<1> DEFINE used == Used(p, how)
           last == Size(p) - 1
           length == IF tail_writeable /\ used > last THEN last ELSE used
<1>1. Typed /\ Pools /\ Carving /\ Items /\ FreeLists /\ DirtyList /\ Vector /\ DataIntact
  BY DEF PoolInv
<1>2. /\ recycling = "no" /\ RoomForLink(p, used, tail_writeable)
      /\ Uncount(p, used)
      /\ word' = [word EXCEPT ![p][last] = dirty_list]
      /\ dirty_list' = p /\ dirty_list_length' = dirty_list_length + 1
      /\ KeepIntact(p, length)
      /\ UNCHANGED <<pools, carving, free_list, m_p_dynamic_dirty_array, loop>>
  BY DEF FreeLinked
<1>3. /\ p \in Held /\ p \notin DOMAIN kept
      /\ DOMAIN lent' = DOMAIN lent \ {p} /\ \A q \in DOMAIN lent' : lent'[q] = lent[q]
      /\ lent[p] \in 1 .. Size(p) /\ used \in 1 .. Size(p)
      /\ Size(p) \in Nat \ {0} /\ last \in Words /\ p \in Addresses
      /\ total_used_length' \in Int /\ total_allocated' \in Int
  BY <1>2, Given
<1>4. length \in 0 .. last
  BY <1>2, <1>3 DEF RoomForLink
<1> HIDE DEF used, length
<1>5. /\ DOMAIN kept' = DOMAIN kept \cup {p}
      /\ \A q \in DOMAIN kept' \ {p} : kept'[q] = kept[q]
      /\ kept'[p] \in 0 .. last /\ kept'[p] <= lent[p]
  <2>1. kept' = With(kept, p, IF length > lent[p] THEN lent[p] ELSE length)
    BY <1>2 DEF KeepIntact
  <2>2. /\ DOMAIN kept' = DOMAIN kept \cup {p}
        /\ \A q \in DOMAIN kept' \ {p} : kept'[q] = kept[q]
        /\ kept'[p] = IF length > lent[p] THEN lent[p] ELSE length
    BY <2>1 DEF With
  <2> QED BY <1>3, <1>4, <2>2
<1>6. /\ word' \in [Addresses -> [Words -> Contents]]
      /\ \A q \in Addresses \ {p} : word'[q] = word[q]
      /\ word'[p][last] = dirty_list
      /\ \A k \in Words \ {last} : word'[p][k] = word[p][k]
  BY <1>1, <1>2, <1>3 DEF Typed, Contents
<1>7. \A k \in 0 .. kept'[p] - 1 : word'[p][k] = Data
  <2>1. ASSUME NEW k \in 0 .. kept'[p] - 1
        PROVE  k \in Words \ {last} /\ k \in 0 .. lent[p] - 1
    BY <1>3, <1>5, FirstWordThere DEF Words
  <2> QED BY <1>1, <1>6, <2>1 DEF DataIntact
<1>8. Held' = Held
  BY <1>3, <1>5 DEF Held
<1>9. FreeLists'
  BY <1>2, <1>3, <1>6, <1>8, FreeFrame
<1>10. /\ Pools' /\ Carving' /\ Items' /\ DataIntact'
       /\ \A q \in Addresses : Size(q)' = Size(q)
  <2>1. kept'[p] \in 0 .. Size(p) /\ DOMAIN kept' \ {p} = DOMAIN kept \ {p}
    BY <1>3, <1>5
  <2> QED BY <1>2, <1>3, <1>5, <1>6, <1>7, <2>1, OneItem
<1>11. Typed'
  <2>1. /\ dirty_list' \in Addresses /\ dirty_list_length' \in Nat
        /\ total_used_length' \in Int /\ total_allocated' \in Int
        /\ word' \in [Addresses -> [Words -> Contents]]
    BY <1>1, <1>2, <1>3, <1>6 DEF Typed
  <2> QED BY <1>1, <1>2, <2>1 DEF Typed, pools, carving, loop
<1>12. Waiting' = Waiting /\ Waiting \subseteq DOMAIN kept
  BY <1>1, <1>2 DEF Waiting, Vector, loop
<1>13. DirtyList'
  <2>1. PICK D \in SUBSET (DOMAIN kept \ Waiting) :
          /\ Chained(D, dirty_list, LastWord) /\ dirty_list_length = Cardinality(D)
          /\ \A q \in D : kept[q] < Size(q)
    BY <1>1 DEF DirtyList
  <2>2. D \subseteq Addresses /\ IsFiniteSet(D) /\ p \notin D
    <3>1. \A q \in DOMAIN kept : q \in Addresses
      BY <1>1, HeldTyped DEF Held
    <3> QED BY <1>3, <3>1, AddressesFinite
  <2>3. LastWord'[p] = dirty_list /\ \A q \in D : LastWord'[q] = LastWord[q]
    BY <1>3, <1>5, <1>6, <1>10, <2>2 DEF LastWord
  <2>4. /\ Chained(D \cup {p}, dirty_list', LastWord')
        /\ dirty_list_length' = Cardinality(D \cup {p})
    BY <1>2, <2>1, <2>2, <2>3, ChainPush
  <2>5. D \cup {p} \in SUBSET (DOMAIN kept' \ Waiting')
    BY <1>3, <1>5, <1>12
  <2>6. \A q \in D \cup {p} : kept'[q] < Size(q)'
    BY <1>3, <1>5, <1>10, <2>1, <2>2
  <2> QED BY <2>4, <2>5, <2>6 DEF DirtyList
<1>14. Vector'
  BY <1>1, <1>2, <1>5, <1>12 DEF Vector, loop
<1> QED BY <1>5, <1>9, <1>10, <1>11, <1>13, <1>14 DEF PoolInv

LEMMA FreeListedStep ==
  ASSUME PoolInv, NEW p \in DOMAIN lent, NEW how \in UsedLengths, FreeListed(p, how)
  PROVE  PoolInv' /\ DOMAIN kept' = DOMAIN kept \cup {p}
<1> DEFINE used == Used(p, how)
           a == m_p_dynamic_dirty_array
<1>1. Typed /\ Pools /\ Carving /\ Items /\ FreeLists /\ DirtyList /\ Vector /\ DataIntact
  BY DEF PoolInv
<1>2. /\ recycling = "no" /\ Uncount(p, used)
      /\ a' = Append(a, p) \/ a' = a
      /\ KeepIntact(p, used)
      /\ UNCHANGED <<pools, carving, free_list, dirty_list, dirty_list_length, word, loop>>
  BY DEF FreeListed
<1>3. /\ p \in Held /\ p \notin DOMAIN kept
      /\ DOMAIN lent' = DOMAIN lent \ {p} /\ \A q \in DOMAIN lent' : lent'[q] = lent[q]
      /\ lent[p] \in 1 .. Size(p) /\ used \in 1 .. Size(p)
      /\ Size(p) \in Nat \ {0} /\ p \in Addresses
      /\ total_used_length' \in Int /\ total_allocated' \in Int
  BY <1>2, Given
<1> HIDE DEF used
<1>4. /\ DOMAIN kept' = DOMAIN kept \cup {p}
      /\ \A q \in DOMAIN kept' \ {p} : kept'[q] = kept[q]
      /\ kept'[p] \in 0 .. Size(p) /\ kept'[p] <= lent[p]
  <2>1. kept' = With(kept, p, IF used > lent[p] THEN lent[p] ELSE used)
    BY <1>2 DEF KeepIntact
  <2>2. /\ DOMAIN kept' = DOMAIN kept \cup {p}
        /\ \A q \in DOMAIN kept' \ {p} : kept'[q] = kept[q]
        /\ kept'[p] = IF used > lent[p] THEN lent[p] ELSE used
    BY <2>1 DEF With
  <2> QED BY <1>3, <2>2
<1>5. \A k \in 0 .. kept'[p] - 1 : word'[p][k] = Data
  <2>1. ASSUME NEW k \in 0 .. kept'[p] - 1
        PROVE  k \in 0 .. lent[p] - 1
    BY <1>3, <1>4
  <2> QED BY <1>1, <1>2, <2>1 DEF DataIntact
<1>6. Held' = Held
  BY <1>3, <1>4 DEF Held
<1>7. FreeLists'
  BY <1>2, <1>3, <1>6, FreeFrame
<1>8. /\ Pools' /\ Carving' /\ Items' /\ DataIntact'
      /\ \A q \in Addresses : Size(q)' = Size(q)
  <2>1. DOMAIN kept' \ {p} = DOMAIN kept \ {p}
    BY <1>4
  <2> QED BY <1>2, <1>3, <1>4, <1>5, <2>1, OneItem
<1>9. Len(a) \in Nat /\ a \in Seq(Addresses) /\ a' \in Seq(Addresses)
  <2>1. a \in Seq(Addresses)
    BY <1>1 DEF Typed
  <2>2. a' = Append(a, p) \/ a' = a
    BY <1>2
  <2> HIDE DEF a
  <2>3. Append(a, p) \in Seq(Addresses) /\ Len(a) \in Nat
    BY <1>3, <2>1
  <2> QED BY <2>1, <2>2, <2>3
<1>10. Typed'
  BY <1>1, <1>2, <1>3, <1>9 DEF Typed, pools, carving, loop
<1>11. next_dirty = 1 /\ next_dirty' = 1 /\ recycling' = "no"
  BY <1>1, <1>2 DEF Vector, loop
<1>12. /\ Waiting' \subseteq Waiting \cup {p} /\ Waiting \subseteq DOMAIN kept
       /\ \A i, j \in 1 .. Len(a') : a'[i] = a'[j] => i = j
  <2>1. /\ Waiting \subseteq DOMAIN kept
        /\ \A i \in 1 .. Len(a) : a[i] \in DOMAIN kept
        /\ \A i, j \in 1 .. Len(a) : a[i] = a[j] => i = j
    BY <1>1, <1>11 DEF Vector, Waiting
  <2>2. CASE a' = a
    BY <1>11, <2>1, <2>2 DEF Waiting
  <2>3. CASE a' = Append(a, p)
    <3>1. /\ Len(a') = Len(a) + 1 /\ a'[Len(a) + 1] = p
          /\ \A i \in 1 .. Len(a) : a'[i] = a[i]
      BY <1>3, <1>9, <2>3
    <3>2. ASSUME NEW i \in 1 .. Len(a')
          PROVE  \/ i = Len(a) + 1 /\ a'[i] = p
                 \/ i \in 1 .. Len(a) /\ a'[i] = a[i]
      BY <1>9, <3>1
    <3>3. Waiting' \subseteq Waiting \cup {p}
      BY <1>11, <3>2 DEF Waiting
    <3>4. \A i, j \in 1 .. Len(a') : a'[i] = a'[j] => i = j
      BY <1>3, <2>1, <3>2
    <3> QED BY <2>1, <3>3, <3>4
  <2> QED BY <1>2, <2>2, <2>3
<1>13. DirtyList'
  <2>1. PICK D \in SUBSET (DOMAIN kept \ Waiting) :
          /\ Chained(D, dirty_list, LastWord) /\ dirty_list_length = Cardinality(D)
          /\ \A q \in D : kept[q] < Size(q)
    BY <1>1 DEF DirtyList
  <2>2. D \subseteq Addresses /\ IsFiniteSet(D) /\ p \notin D
    <3>1. \A q \in DOMAIN kept : q \in Addresses
      BY <1>1, HeldTyped DEF Held
    <3> QED BY <1>3, <3>1, AddressesFinite
  <2>3. \A q \in D : LastWord'[q] = LastWord[q]
    BY <1>2, <1>4, <1>8, <2>2 DEF LastWord
  <2>4. Chained(D, dirty_list', LastWord')
    BY <1>2, <2>1, <2>2, <2>3, ChainFrame
  <2>5. D \in SUBSET (DOMAIN kept' \ Waiting')
    BY <1>3, <1>4, <1>12, <2>2
  <2>6. \A q \in D : kept'[q] < Size(q)'
    BY <1>4, <1>8, <2>1, <2>2
  <2> QED BY <1>2, <2>1, <2>4, <2>5, <2>6 DEF DirtyList
<1>14. Vector'
  BY <1>4, <1>11, <1>12 DEF Vector
<1> QED BY <1>4, <1>7, <1>8, <1>10, <1>13, <1>14 DEF PoolInv

LEMMA RecycleLinkedStep ==
  ASSUME PoolInv, RecycleLinked
  PROVE  /\ PoolInv' /\ dirty_list \in DOMAIN kept
         /\ DOMAIN kept' = DOMAIN kept \ {dirty_list}
<1> DEFINE p == dirty_list
<1>1. Typed /\ Pools /\ Carving /\ Items /\ FreeLists /\ DirtyList /\ Vector /\ DataIntact
  BY DEF PoolInv
<1>2. /\ recycling = "list" /\ p # Null
      /\ Back(p)
      /\ dirty_list' = word[p][Size(p) - 1]
      /\ dirty_list_length' = dirty_list_length - 1
      /\ kept' = Without(kept, p)
      /\ UNCHANGED <<pools, carving, m_p_dynamic_dirty_array, totals, loop, lent>>
  BY DEF RecycleLinked
<1>3. PICK D \in SUBSET (DOMAIN kept \ Waiting) :
        /\ Chained(D, p, LastWord) /\ dirty_list_length = Cardinality(D)
        /\ \A q \in D : kept[q] < Size(q)
  BY <1>1 DEF DirtyList
<1>4. DOMAIN kept \subseteq Addresses \ {Null} /\ D \subseteq Addresses /\ IsFiniteSet(D)
  <2>1. \A q \in DOMAIN kept : q \in Addresses \ {Null}
    BY <1>1, HeldTyped DEF Held
  <2> QED BY <2>1, AddressesFinite
<1>5. /\ DOMAIN kept' = DOMAIN kept \ {p}
      /\ \A q \in DOMAIN kept' : kept'[q] = kept[q]
  BY <1>2 DEF Without
<1> HIDE DEF p
<1>6. p \in D /\ p \in DOMAIN kept /\ p \in Held /\ p \notin DOMAIN lent
  <2>1. p \in D
    BY <1>2, <1>3, <1>4, ChainPop
  <2> QED BY <1>1, <2>1 DEF Items, Held
<1>7. Held' = Held \ {p} /\ lent' = lent /\ DOMAIN lent' = DOMAIN lent \ {p}
  BY <1>2, <1>5, <1>6 DEF Held
<1>8. /\ free_list' \in [Types -> Addresses] /\ word' \in [Addresses -> [Words -> Contents]]
      /\ \A q \in Addresses \ {p} : word'[q] = word[q]
      /\ FreeLists'
  BY <1>1, <1>2, <1>6, <1>7, BackStep
<1>9. /\ Pools' /\ Carving' /\ Items' /\ DataIntact'
      /\ \A q \in Addresses : Size(q)' = Size(q)
  BY <1>2, <1>5, <1>6, <1>7, <1>8, OneItem
<1>10. \A q \in D \ {p} : LastWord'[q] = LastWord[q]
  BY <1>4, <1>5, <1>8, <1>9 DEF LastWord
<1>11. LastWord[p] = dirty_list'
  BY <1>2, <1>6 DEF LastWord
<1>12. /\ dirty_list' \in (D \ {p}) \cup {Null}
       /\ Chained(D \ {p}, dirty_list', LastWord')
       /\ dirty_list_length' = Cardinality(D \ {p})
       /\ dirty_list_length' \in Nat
  <2>1. Null \notin D /\ p # Null
    BY <1>2, <1>4 DEF p
  <2>2. /\ LastWord[p] \in (D \ {p}) \cup {Null}
        /\ Chained(D \ {p}, LastWord[p], LastWord')
        /\ IsFiniteSet(D \ {p}) /\ Cardinality(D \ {p}) = Cardinality(D) - 1
    BY <1>3, <1>4, <1>10, <2>1, ChainPop
  <2>3. Cardinality(D \ {p}) \in Nat
    BY <2>2, FS_CardinalityType
  <2> QED BY <1>2, <1>3, <1>11, <2>2, <2>3
<1>13. Typed'
  <2>1. dirty_list' \in Addresses
    BY <1>4, <1>12, Spans
  <2> QED BY <1>1, <1>2, <1>8, <1>12, <2>1 DEF Typed, pools, carving, totals, loop
<1>14. Waiting' = Waiting /\ p \notin Waiting
  BY <1>2, <1>3, <1>6 DEF Waiting, loop
<1>15. DirtyList'
  <2>1. D \ {p} \in SUBSET (DOMAIN kept' \ Waiting')
    BY <1>5, <1>14
  <2>2. \A q \in D \ {p} : kept'[q] < Size(q)'
    BY <1>3, <1>4, <1>5, <1>9
  <2> QED BY <1>12, <2>1, <2>2 DEF DirtyList
<1>16. Vector'
  BY <1>1, <1>2, <1>5, <1>14 DEF Vector, loop
<1> QED BY <1>5, <1>6, <1>8, <1>9, <1>13, <1>15, <1>16 DEF PoolInv, p

LEMMA RecycleListedStep ==
  ASSUME PoolInv, RecycleListed
  PROVE  /\ PoolInv' /\ m_p_dynamic_dirty_array[next_dirty] \in DOMAIN kept
         /\ DOMAIN kept' = DOMAIN kept \ {m_p_dynamic_dirty_array[next_dirty]}
<1> DEFINE p == m_p_dynamic_dirty_array[next_dirty]
           length == Len(m_p_dynamic_dirty_array)
<1>1. Typed /\ Pools /\ Carving /\ Items /\ FreeLists /\ DirtyList /\ Vector /\ DataIntact
  BY DEF PoolInv
<1>2. /\ recycling = "array" /\ next_dirty <= length
      /\ Back(p)
      /\ next_dirty' = next_dirty + 1
      /\ kept' = Without(kept, p)
      /\ UNCHANGED <<pools, carving, dirty, totals, recycling, lent>>
  BY DEF RecycleListed
<1>3. next_dirty \in Nat \ {0} /\ length \in Nat
  BY <1>1 DEF Typed
<1>4. p \in Waiting /\ p \in DOMAIN kept /\ p \in Held /\ p \notin DOMAIN lent
  BY <1>1, <1>2, <1>3 DEF Waiting, Vector, Items, Held
<1>5. /\ DOMAIN kept' = DOMAIN kept \ {p}
      /\ \A q \in DOMAIN kept' : kept'[q] = kept[q]
  BY <1>2 DEF Without
<1>6. /\ Waiting' = Waiting \ {p}
      /\ \A i, j \in next_dirty' .. length :
           m_p_dynamic_dirty_array[i] = m_p_dynamic_dirty_array[j] => i = j
  <2>1. next_dirty' .. length = (next_dirty .. length) \ {next_dirty}
    BY <1>2, <1>3
  <2>2. \A i, j \in next_dirty .. length :
          m_p_dynamic_dirty_array[i] = m_p_dynamic_dirty_array[j] => i = j
    BY <1>1 DEF Vector
  <2>3. next_dirty \in next_dirty .. length
    BY <1>2, <1>3
  <2>4. m_p_dynamic_dirty_array' = m_p_dynamic_dirty_array
    BY <1>2 DEF dirty
  <2> QED BY <2>1, <2>2, <2>3, <2>4 DEF Waiting
<1> HIDE DEF p
<1>7. Held' = Held \ {p} /\ lent' = lent /\ DOMAIN lent' = DOMAIN lent \ {p}
  BY <1>2, <1>4, <1>5 DEF Held
<1>8. /\ free_list' \in [Types -> Addresses] /\ word' \in [Addresses -> [Words -> Contents]]
      /\ \A q \in Addresses \ {p} : word'[q] = word[q]
      /\ FreeLists'
  BY <1>1, <1>2, <1>4, <1>7, BackStep
<1>9. /\ Pools' /\ Carving' /\ Items' /\ DataIntact'
      /\ \A q \in Addresses : Size(q)' = Size(q)
  BY <1>2, <1>4, <1>5, <1>7, <1>8, OneItem
<1>10. Typed'
  BY <1>1, <1>2, <1>3, <1>8 DEF Typed, pools, carving, dirty, totals
<1>11. DirtyList'
  <2>1. PICK D \in SUBSET (DOMAIN kept \ Waiting) :
          /\ Chained(D, dirty_list, LastWord) /\ dirty_list_length = Cardinality(D)
          /\ \A q \in D : kept[q] < Size(q)
    BY <1>1 DEF DirtyList
  <2>2. D \subseteq Addresses /\ IsFiniteSet(D) /\ p \notin D
    <3>1. \A q \in DOMAIN kept : q \in Addresses
      BY <1>1, HeldTyped DEF Held
    <3> QED BY <1>4, <3>1, AddressesFinite
  <2>3. \A q \in D : LastWord'[q] = LastWord[q]
    BY <1>5, <1>8, <1>9, <2>2 DEF LastWord
  <2>4. Chained(D, dirty_list', LastWord')
    BY <1>2, <2>1, <2>2, <2>3, ChainFrame DEF dirty
  <2>5. D \in SUBSET (DOMAIN kept' \ Waiting') /\ \A q \in D : kept'[q] < Size(q)'
    BY <1>5, <1>6, <1>9, <2>1, <2>2
  <2> QED BY <1>2, <2>1, <2>4, <2>5 DEF DirtyList, dirty
<1>12. Vector'
  <2>1. Waiting' \subseteq DOMAIN kept'
    BY <1>1, <1>5, <1>6 DEF Vector
  <2> QED BY <1>1, <1>2, <1>6, <2>1 DEF Vector, dirty
<1> QED BY <1>4, <1>5, <1>8, <1>9, <1>10, <1>11, <1>12 DEF PoolInv, p

\* The loops of recycle() begin and end, and lengths are counted: no item is touched.
LEMMA QuietStep ==
  ASSUME PoolInv, UNCHANGED <<pools, carving, free_list, word, history, total_allocated>>,
         UNCHANGED <<dirty_list, dirty_list_length>>, Waiting' \subseteq Waiting,
         Typed', Vector'
  PROVE  PoolInv'
<1>1. Typed /\ Pools /\ Carving /\ Items /\ FreeLists /\ DirtyList /\ Vector /\ DataIntact
  BY DEF PoolInv
<1>2. /\ Pools' /\ Carving' /\ DataIntact'
      /\ \A u \in Types : Carved(u)' = Carved(u)
      /\ \A q \in Addresses : Size(q)' = Size(q)
      /\ Held' = Held /\ FirstWord' = FirstWord /\ LastWord' = LastWord
  BY <1>1 DEF Pools, Carving, DataIntact, Carved, Fresh, Size, Held, FirstWord, LastWord,
              Num, pools, carving, history
<1>3. Items'
  <2>1. \A q \in Held : q \in Addresses /\ TypeOf(q) \in Types
    BY <1>1, HeldTyped
  <2> QED BY <1>1, <1>2, <2>1 DEF Items, Held, history, pools, Num
<1>4. FreeLists'
  BY <1>1, <1>2 DEF FreeLists
<1>5. DirtyList'
  <2>1. PICK D \in SUBSET (DOMAIN kept \ Waiting) :
          /\ Chained(D, dirty_list, LastWord) /\ dirty_list_length = Cardinality(D)
          /\ \A q \in D : kept[q] < Size(q)
    BY <1>1 DEF DirtyList
  <2>2. \A q \in D : q \in Addresses
    BY <1>1, HeldTyped DEF Held
  <2> QED BY <1>2, <2>1, <2>2 DEF DirtyList, history
<1> QED BY <1>2, <1>3, <1>4, <1>5 DEF PoolInv

\* The insertion sort finds a place.
LEMMA PlaceFound ==
  ASSUME Typed, NEW size \in Nat
  PROVE  SortedPlace(size) \in 0 .. Num
<1>1. Num \in Nat
  BY Spans DEF Typed, Num
<1> DEFINE Fits == {j \in 0 .. Num : \A i \in j .. Num - 1 : SizeAt(i) > size}
<1> HIDE DEF Num
<1>2. Fits \subseteq Nat /\ Num \in Fits
  BY <1>1
<1>3. PICK j \in Fits : \A i \in Fits : ~ (<<i, j>> \in OpToRel(<, Nat))
  BY <1>2, NatLessThanWellFounded, WFMin
<1>4. \A i \in Fits : ~ (i < j)
  BY <1>2, <1>3 DEF OpToRel
<1>5. ASSUME j > 0
      PROVE  SizeAt(j - 1) <= size
  <2>1. j - 1 \in 0 .. Num /\ j - 1 \notin Fits
    BY <1>1, <1>2, <1>4, <1>5
  <2>2. PICK i \in j - 1 .. Num - 1 : ~ (SizeAt(i) > size)
    BY <2>1
  <2>3. i = j - 1
    BY <1>1, <1>2, <2>2
  <2>4. SizeAt(i) \in Nat
    <3>1. i \in Types
      BY <1>1, <1>2, <2>1, <2>3, Spans DEF Types, Typed, Num
    <3> QED BY <3>1 DEF Typed, SizeAt
  <2> QED BY <2>2, <2>3, <2>4
<1> QED BY <1>3, <1>5 DEF SortedPlace

LEMMA AddPoolStep ==
  ASSUME PoolInv, NEW size \in Sizes, NEW uniq \in BOOLEAN, AddPool(size, uniq)
  PROVE  PoolInv'
<1> DEFINE at == SortedPlace(size)
<1>1. Typed /\ Pools /\ Carving /\ Items /\ FreeLists /\ DirtyList /\ Vector /\ DataIntact
  BY DEF PoolInv
<1>2. /\ Num < MaxTypeNum
      /\ fixed_size_array' = [fixed_size_array EXCEPT ![Num] = size]
      /\ sorted_fixed_size_array_index' =
           [i \in Types |-> IF i = at THEN Num
                            ELSE IF at < i /\ i <= Num
                            THEN sorted_fixed_size_array_index[i - 1]
                            ELSE sorted_fixed_size_array_index[i]]
      /\ fixed_size_mem_pool_num' = Num + 1
      /\ UNCHANGED <<carving, free_list, dirty, totals, word, loop, history>>
  BY DEF AddPool, TypeLeft
<1>3. size \in Nat /\ at \in 0 .. Num
  BY <1>1, PlaceFound, FirstWordThere
<1> HIDE DEF at
<1>4. /\ Num \in Nat /\ Num \in Types /\ Num' = Num + 1 /\ Num + 1 \in 0 .. MaxTypeNum
      /\ \A t \in 0 .. Num : t \in Types /\ t \in Nat
  <2>1. MaxTypeNum \in Nat /\ Num \in Nat /\ Num' = Num + 1
    BY <1>1, <1>2, Spans DEF Typed, Num
  <2> QED BY <1>2, <2>1 DEF Types
<1>5. /\ fixed_size_array' \in [Types -> Nat] /\ fixed_size_array'[Num] = size
      /\ \A t \in Types \ {Num} : fixed_size_array'[t] = fixed_size_array[t]
  BY <1>1, <1>2, <1>3, <1>4 DEF Typed
<1>6. /\ sorted_fixed_size_array_index' \in [Types -> Types]
      /\ \A t \in 0 .. Num : sorted_fixed_size_array_index'[t] \in 0 .. Num
  <2> DEFINE s == sorted_fixed_size_array_index
  <2>1. ASSUME NEW i \in Types
        PROVE  /\ s'[i] \in Types
               /\ i \in 0 .. Num => s'[i] \in 0 .. Num
    <3>1. /\ s'[i] = IF i = at THEN Num ELSE IF at < i /\ i <= Num THEN s[i - 1] ELSE s[i]
          /\ s[i] \in Types /\ i \in Nat
      BY <1>1, <1>2, Spans DEF Typed
    <3>2. CASE i = at
      BY <1>4, <3>1, <3>2
    <3>3. CASE at < i /\ i <= Num
      <4>1. i - 1 \in 0 .. Num - 1
        BY <1>3, <1>4, <3>1, <3>3
      <4>2. s[i - 1] \in 0 .. Num - 1
        BY <1>1, <4>1 DEF Pools
      <4>3. s[i - 1] \in 0 .. Num /\ s[i - 1] \in Types
        BY <1>4, <4>2
      <4>4. s'[i] = s[i - 1]
        BY <1>3, <3>1, <3>3
      <4> QED BY <4>3, <4>4
    <3>4. CASE i # at /\ ~ (at < i /\ i <= Num)
      <4>1. i \in 0 .. Num => i \in 0 .. Num - 1
        BY <1>3, <1>4, <3>1, <3>4
      <4>2. i \in 0 .. Num => s[i] \in 0 .. Num - 1
        BY <1>1, <4>1 DEF Pools
      <4> QED BY <1>4, <3>1, <3>4, <4>2
    <3> QED BY <3>2, <3>3, <3>4
  <2>2. 0 .. Num \subseteq Types
    BY <1>4
  <2>3. s' = [i \in Types |-> s'[i]]
    BY <1>2
  <2> QED BY <2>1, <2>2, <2>3
<1>7. Typed'
  BY <1>1, <1>2, <1>4, <1>5, <1>6
     DEF Typed, carving, dirty, totals, loop, Num
<1>8. Pools'
  <2>1. ASSUME NEW t \in 0 .. Num
        PROVE  fixed_size_array'[t] \in Sizes
    <3>1. t \in Types /\ (t # Num => t \in 0 .. Num - 1)
      BY <1>4
    <3> QED BY <1>1, <1>5, <3>1 DEF Pools
  <2>2. 0 .. Num' - 1 = 0 .. Num
    BY <1>4
  <2> QED BY <1>6, <2>1, <2>2 DEF Pools
<1>9. /\ Carving' /\ DataIntact'
      /\ \A u \in Types : Carved(u)' = Carved(u)
      /\ Held' = Held /\ FirstWord' = FirstWord
  BY <1>1, <1>2 DEF Carving, DataIntact, Carved, Fresh, Held, FirstWord, carving, history
<1>10. ASSUME NEW q \in Held
       PROVE  q \in Addresses /\ TypeOf(q) \in Types /\ TypeOf(q) < Num' /\ Size(q)' = Size(q)
  <2>1. q \in Addresses /\ TypeOf(q) \in Types /\ TypeOf(q) \in 0 .. Num - 1
    BY <1>1, HeldTyped
  <2>2. TypeOf(q) # Num
    BY <1>4, <2>1
  <2> QED BY <1>4, <1>5, <2>1, <2>2 DEF Size
<1>11. Items'
  BY <1>1, <1>2, <1>9, <1>10 DEF Items, Held, history
<1>12. FreeLists'
  BY <1>1, <1>2, <1>9 DEF FreeLists
<1>13. DirtyList' /\ Waiting' = Waiting
  <2>1. \A q \in DOMAIN kept : word'[q] = word[q] /\ Size(q)' = Size(q)
    BY <1>2, <1>10 DEF Held
  <2> QED BY <1>1, <1>2, <2>1, DirtyFrame DEF loop, history
<1>14. Vector'
  BY <1>1, <1>2, <1>13 DEF Vector, dirty, loop, history
<1> QED BY <1>7, <1>8, <1>9, <1>11, <1>12, <1>13, <1>14 DEF PoolInv

LEMMA InitInv == Init => PoolInv /\ Allocator!AllocInit
<1> SUFFICES ASSUME Init
             PROVE  PoolInv /\ Allocator!AllocInit
  OBVIOUS
<1>1. /\ Num = 0 /\ DOMAIN lent = {} /\ DOMAIN kept = {} /\ Held = {} /\ Waiting = {}
      /\ m_p_dynamic_dirty_array = <<>> /\ m_p_dynamic_dirty_array \in Seq(Addresses)
  BY DEF Init, Num, Held, Waiting
<1>2. Typed
  <2>1. 0 \in Types /\ BlockSize \in Nat /\ BlockNum \in Nat /\ MaxTypeNum \in Nat
    BY Spans DEF Types
  <2>2. Null \in Addresses
    BY Spans
  <2> QED BY <1>1, <2>1, <2>2 DEF Init, Typed, Contents
<1>3. Pools /\ Carving /\ Items /\ Vector /\ DataIntact
  BY <1>1, Spans DEF Init, Pools, Carving, Items, Vector, DataIntact
<1>4. FreeLists
  <2>1. \A t \in Types : Chained({}, free_list[t], FirstWord)
    BY ChainEmpty DEF Init
  <2> QED BY <2>1 DEF FreeLists
<1>5. DirtyList
  <2>1. Chained({}, dirty_list, LastWord) /\ dirty_list_length = Cardinality({})
    BY ChainEmpty, FS_EmptySet DEF Init
  <2> QED BY <2>1 DEF DirtyList
<1> QED BY <1>1, <1>2, <1>3, <1>4, <1>5 DEF PoolInv, Allocator!AllocInit

\* A malloc() hands out an item nobody holds.
LEMMA MallocStep ==
  ASSUME PoolInv, NEW t \in 0 .. Num - 1, NEW len \in 1 .. fixed_size_array[t],
         CanFetch(t), FetchFrom(t), Lend(Fetch(t), len), UNCHANGED <<pools, dirty, loop>>,
         total_used_length' \in Int, total_allocated' \in Int
  PROVE  PoolInv' /\ Allocator!AllocNext
<1>1. /\ PoolInv'
      /\ Fetch(t) \in Addresses \ {Null} /\ Fetch(t) \notin Held
      /\ DOMAIN lent' = DOMAIN lent \cup {Fetch(t)} /\ kept' = kept
  BY LendStep
<1>2. Allocator!Take(Fetch(t))
  BY <1>1 DEF Allocator!Take, Held
<1> QED BY <1>1, <1>2 DEF Allocator!AllocNext

LEMMA MallocAtStep ==
  ASSUME PoolInv, NEW len \in Lengths, NEW i \in Types, MallocAt(len, i)
  PROVE  PoolInv' /\ Allocator!AllocNext
<1> DEFINE t == sorted_fixed_size_array_index[i]
<1>1. Typed /\ Pools
  BY DEF PoolInv
<1>2. i \in 0 .. Num - 1
  <2>1. i \in Nat /\ Num \in Nat
    BY <1>1, Spans DEF Typed, Num
  <2> QED BY <2>1 DEF MallocAt
<1>3. t \in 0 .. Num - 1 /\ fixed_size_array[t] \in Nat \ {0}
  BY <1>1, <1>2, FirstWordThere DEF Pools
<1>4. len \in 1 .. fixed_size_array[t]
  BY <1>3, FirstWordThere DEF MallocAt, SizeAt, Lengths
<1>5. /\ CanFetch(t) /\ FetchFrom(t) /\ Lend(Fetch(t), len) /\ UNCHANGED <<pools, dirty, loop>>
      /\ total_used_length' = total_used_length + len
      /\ total_allocated' = total_allocated + fixed_size_array[t]
  BY DEF MallocAt
<1>6. total_used_length' \in Int /\ total_allocated' \in Int
  BY <1>1, <1>3, <1>4, <1>5 DEF Typed
<1> QED BY <1>3, <1>4, <1>5, <1>6, MallocStep

LEMMA MallocFixedStep ==
  ASSUME PoolInv, NEW t \in Types, MallocFixed(t)
  PROVE  PoolInv' /\ Allocator!AllocNext
<1>1. Typed /\ Pools
  BY DEF PoolInv
<1>2. t \in 0 .. Num - 1
  <2>1. t \in Nat /\ Num \in Nat
    BY <1>1, Spans DEF Typed, Num
  <2> QED BY <2>1 DEF MallocFixed
<1>3. fixed_size_array[t] \in Nat \ {0}
  BY <1>1, <1>2, FirstWordThere DEF Pools
<1>4. /\ CanFetch(t) /\ FetchFrom(t) /\ Lend(Fetch(t), fixed_size_array[t])
      /\ UNCHANGED <<pools, dirty, loop>> /\ total_used_length' = total_used_length
      /\ total_allocated' = total_allocated + fixed_size_array[t]
  BY DEF MallocFixed
<1>5. total_used_length' \in Int /\ total_allocated' \in Int
  BY <1>1, <1>3, <1>4 DEF Typed
<1> QED BY <1>2, <1>3, <1>4, <1>5, MallocStep

\* Steps of the caller or of recycle() that the users of the items do not notice.
LEMMA OtherStep ==
  ASSUME PoolInv,
         \/ \E len \in Lengths : MallocFails(len) \/ GetType(len)
         \/ Recycle \/ EndLinked \/ EndRecycle \/ UNCHANGED vars
  PROVE  PoolInv' /\ UNCHANGED <<DOMAIN lent, DOMAIN kept>>
<1>1. Typed /\ Vector
  BY DEF PoolInv
<1>2. UNCHANGED <<pools, carving, free_list, word, history, total_allocated, dirty_list,
                  dirty_list_length>>
  BY DEF MallocFails, GetType, Recycle, EndLinked, EndRecycle, vars, dirty, totals
<1>3. next_dirty \in Nat \ {0} /\ Len(m_p_dynamic_dirty_array) \in Nat
  BY <1>1 DEF Typed
<1>4. CASE \E len \in Lengths : MallocFails(len) \/ GetType(len)
  <2>1. PICK len \in Lengths : MallocFails(len) \/ GetType(len)
    BY <1>4
  <2>2. /\ UNCHANGED <<loop, dirty>> /\ total_used_length' = total_used_length + len
    BY <2>1 DEF MallocFails, GetType
  <2>3. len \in Int
    BY FirstWordThere DEF Lengths
  <2>4. Typed'
    BY <1>1, <1>2, <2>2, <2>3 DEF Typed, pools, carving, dirty, loop
  <2>5. Vector' /\ Waiting' = Waiting
    BY <1>1, <1>2, <2>2 DEF Vector, Waiting, dirty, loop, history
  <2> QED BY <1>2, <2>4, <2>5, QuietStep DEF history
<1>5. CASE Recycle
  <2>1. recycling = "no" /\ recycling' = "list" /\ UNCHANGED <<dirty, totals, next_dirty>>
    BY <1>5 DEF Recycle
  <2>2. Typed'
    BY <1>1, <1>2, <2>1 DEF Typed, pools, carving, dirty, totals
  <2>3. Vector' /\ Waiting' = Waiting
    BY <1>1, <1>2, <2>1 DEF Vector, Waiting, dirty, history
  <2> QED BY <1>2, <2>2, <2>3, QuietStep DEF history
<1>6. CASE EndLinked
  <2>1. /\ recycling = "list" /\ dirty_list = Null /\ recycling' = "array" /\ next_dirty' = 1
        /\ UNCHANGED <<dirty, totals>>
    BY <1>6 DEF EndLinked
  <2>2. next_dirty = 1
    BY <1>1, <2>1 DEF Vector
  <2>3. Typed'
    BY <1>1, <1>2, <2>1 DEF Typed, pools, carving, dirty, totals
  <2>4. Vector' /\ Waiting' = Waiting
    BY <1>1, <1>2, <2>1, <2>2 DEF Vector, Waiting, dirty, history
  <2> QED BY <1>2, <2>3, <2>4, QuietStep DEF history
<1>7. CASE EndRecycle
  <2>1. /\ recycling = "array" /\ next_dirty > Len(m_p_dynamic_dirty_array)
        /\ m_p_dynamic_dirty_array' = <<>> /\ recycling' = "no" /\ next_dirty' = 1
        /\ UNCHANGED totals
    BY <1>7 DEF EndRecycle
  <2>2. Waiting' = {} /\ Len(m_p_dynamic_dirty_array') = 0
    BY <2>1 DEF Waiting
  <2>3. Typed'
    BY <1>1, <1>2, <2>1 DEF Typed, pools, carving, totals
  <2>4. Vector'
    BY <2>1, <2>2 DEF Vector
  <2> QED BY <1>2, <2>2, <2>3, <2>4, QuietStep DEF history
<1>8. CASE UNCHANGED vars
  <2>1. UNCHANGED <<dirty, totals, loop>>
    BY <1>8 DEF vars
  <2>2. Typed'
    BY <1>1, <1>2, <2>1 DEF Typed, pools, carving, dirty, totals, loop
  <2>3. Vector' /\ Waiting' = Waiting
    BY <1>1, <1>2, <2>1 DEF Vector, Waiting, dirty, loop, history
  <2> QED BY <1>2, <2>2, <2>3, QuietStep DEF history
<1> QED BY <1>4, <1>5, <1>6, <1>7, <1>8

\* Every step keeps the invariant and is one of the abstract allocator, or nothing to it.
LEMMA NextInv ==
  PoolInv /\ [Next]_vars => PoolInv' /\ [Allocator!AllocNext]_(Allocator!blockVars)
<1> SUFFICES ASSUME PoolInv, [Next]_vars
             PROVE  PoolInv' /\ [Allocator!AllocNext]_(Allocator!blockVars)
  OBVIOUS
<1>1. Items /\ \A p \in Held : p \in Addresses \ {Null}
  BY HeldTyped DEF PoolInv
<1>2. ASSUME NEW size \in Sizes, NEW uniq \in BOOLEAN, AddPool(size, uniq)
      PROVE  PoolInv' /\ UNCHANGED Allocator!blockVars
  BY <1>2, AddPoolStep DEF AddPool, history, Allocator!blockVars
<1>3. ASSUME NEW len \in Lengths, NEW i \in Types, MallocAt(len, i)
      PROVE  PoolInv' /\ Allocator!AllocNext
  BY <1>3, MallocAtStep
<1>4. ASSUME NEW t \in Types, MallocFixed(t)
      PROVE  PoolInv' /\ Allocator!AllocNext
  BY <1>4, MallocFixedStep
<1>5. ASSUME NEW p \in DOMAIN lent, NEW how \in UsedLengths, FreeUnprotected(p, how)
      PROVE  PoolInv' /\ Allocator!AllocNext
  <2>1. PoolInv'
    BY <1>5, FreeUnprotectedStep
  <2>2. DOMAIN lent' = DOMAIN lent \ {p} /\ kept' = kept
    BY <1>5, Given DEF FreeUnprotected
  <2>3. Allocator!GiveBack(p) /\ p \in Addresses \ {Null}
    BY <1>1, <2>2 DEF Allocator!GiveBack, Held
  <2> QED BY <2>1, <2>3 DEF Allocator!AllocNext
<1>6. ASSUME NEW p \in DOMAIN lent, NEW how \in UsedLengths, NEW tail_writeable \in BOOLEAN,
             FreeLinked(p, how, tail_writeable) \/ FreeListed(p, how)
      PROVE  PoolInv' /\ Allocator!AllocNext
  <2>1. PoolInv' /\ DOMAIN kept' = DOMAIN kept \cup {p}
    BY <1>6, FreeLinkedStep, FreeListedStep
  <2>2. DOMAIN lent' = DOMAIN lent \ {p}
    BY <1>6, Given DEF FreeLinked, FreeListed
  <2>3. Allocator!Protect(p) /\ p \in Addresses \ {Null}
    BY <1>1, <2>1, <2>2 DEF Allocator!Protect, Held
  <2> QED BY <2>1, <2>3 DEF Allocator!AllocNext
<1>7. ASSUME RecycleLinked \/ RecycleListed
      PROVE  PoolInv' /\ Allocator!AllocNext
  <2>1. PICK p \in DOMAIN kept : PoolInv' /\ DOMAIN kept' = DOMAIN kept \ {p}
    BY <1>7, RecycleLinkedStep, RecycleListedStep
  <2>2. lent' = lent
    BY <1>7 DEF RecycleLinked, RecycleListed
  <2>3. Allocator!Recycled(p) /\ p \in Addresses \ {Null}
    BY <1>1, <2>1, <2>2 DEF Allocator!Recycled, Held
  <2> QED BY <2>1, <2>3 DEF Allocator!AllocNext
<1>8. ASSUME \/ \E len \in Lengths : MallocFails(len) \/ GetType(len)
             \/ Recycle \/ EndLinked \/ EndRecycle \/ UNCHANGED vars
      PROVE  PoolInv' /\ UNCHANGED Allocator!blockVars
  BY <1>8, OtherStep DEF Allocator!blockVars
<1> QED BY <1>2, <1>3, <1>4, <1>5, <1>6, <1>7, <1>8 DEF Next

-----------------------------------------------------------------------------
(* The counters. *)

\* The items in use, and what one of them takes.
LEMMA LentSizes ==
  ASSUME Typed, Pools, Items
  PROVE  /\ IsFiniteSet(DOMAIN lent)
         /\ \A p \in DOMAIN lent :
              p \in Addresses /\ Size(p) \in Nat \ {0} /\ TypeOf(p) \in 0 .. Num - 1
<1>1. ASSUME NEW p \in DOMAIN lent
      PROVE  p \in Addresses /\ Size(p) \in Nat \ {0} /\ TypeOf(p) \in 0 .. Num - 1
  BY HeldTyped DEF Held
<1> QED BY <1>1, AddressesFinite

\* An item more is in use, or one less.
LEMMA CountMore ==
  ASSUME PoolInv, Counted, NEW p, p \notin DOMAIN lent, Size(p) \in Int,
         DOMAIN lent' = DOMAIN lent \cup {p}, fixed_size_array' = fixed_size_array,
         total_allocated' = total_allocated + Size(p)
  PROVE  Counted'
<1> DEFINE S == DOMAIN lent
           f == [q \in S |-> Size(q)]
           h == [q \in S \cup {p} |-> Size(q)]
<1>1. IsFiniteSet(S) /\ f \in [S -> Int] /\ h \in [S \cup {p} -> Int]
  BY LentSizes DEF PoolInv
<1>2. (\A q \in S : h[q] = f[q]) /\ h[p] = Size(p) /\ p \notin S
  OBVIOUS
<1>3. total_allocated = SumOf(f)
  BY DEF Counted
<1>4. [q \in DOMAIN lent |-> Size(q)]' = h
  BY DEF Size
<1> HIDE DEF f, h, S
<1>5. SumOf(h) = SumOf(f) + h[p] /\ SumOf(f) \in Int
  BY <1>1, <1>2, SumAdd
<1>6. total_allocated' = SumOf(h)
  BY <1>2, <1>3, <1>5
<1> QED BY <1>4, <1>6 DEF Counted

LEMMA CountLess ==
  ASSUME PoolInv, Counted, NEW p \in DOMAIN lent,
         DOMAIN lent' = DOMAIN lent \ {p}, fixed_size_array' = fixed_size_array,
         total_allocated' = total_allocated - Size(p)
  PROVE  Counted'
<1> DEFINE S == DOMAIN lent \ {p}
           f == [q \in S |-> Size(q)]
           h == [q \in DOMAIN lent |-> Size(q)]
<1>1. IsFiniteSet(S) /\ f \in [S -> Int] /\ h \in [S \cup {p} -> Int]
  <2>1. IsFiniteSet(S)
    BY LentSizes, FS_RemoveElement DEF PoolInv
  <2>2. \A q \in DOMAIN lent : Size(q) \in Int
    BY LentSizes DEF PoolInv
  <2>3. S \cup {p} = DOMAIN lent
    OBVIOUS
  <2> QED BY <2>1, <2>2, <2>3
<1>2. (\A q \in S : h[q] = f[q]) /\ h[p] = Size(p) /\ p \notin S
  OBVIOUS
<1>3. total_allocated = SumOf(h)
  BY DEF Counted
<1>4. [q \in DOMAIN lent |-> Size(q)]' = f
  BY DEF Size
<1> HIDE DEF f, h, S
<1>5. SumOf(h) = SumOf(f) + h[p] /\ SumOf(f) \in Int
  BY <1>1, <1>2, SumAdd
<1>6. Size(p) \in Int
  BY LentSizes DEF PoolInv
<1>7. total_allocated' = SumOf(f)
  BY <1>2, <1>3, <1>5, <1>6
<1> QED BY <1>4, <1>7 DEF Counted

LEMMA CountSame ==
  ASSUME PoolInv, Counted, DOMAIN lent' = DOMAIN lent, total_allocated' = total_allocated,
         \A p \in DOMAIN lent : Size(p)' = Size(p)
  PROVE  Counted'
<1>1. [p \in DOMAIN lent |-> Size(p)]' = [p \in DOMAIN lent |-> Size(p)]
  OBVIOUS
<1> QED BY <1>1 DEF Counted

LEMMA NextCounted == PoolInv /\ Counted /\ [Next]_vars => Counted'
<1> SUFFICES ASSUME PoolInv, Counted, [Next]_vars
             PROVE  Counted'
  OBVIOUS
<1>1. Typed /\ Pools /\ Items
  BY DEF PoolInv
<1>2. ASSUME NEW size \in Sizes, NEW uniq \in BOOLEAN, AddPool(size, uniq)
      PROVE  Counted'
  <2>1. /\ fixed_size_array' = [fixed_size_array EXCEPT ![Num] = size]
        /\ total_allocated' = total_allocated /\ lent' = lent
    BY <1>2 DEF AddPool, totals, history
  <2>2. ASSUME NEW p \in DOMAIN lent
        PROVE  Size(p)' = Size(p)
    <3>1. TypeOf(p) \in 0 .. Num - 1 /\ Num \in Int /\ TypeOf(p) # Num
      BY <1>1, LentSizes DEF Typed, Num
    <3>2. TypeOf(p) \in Types
      BY <1>1, LentSizes, Spans
    <3> QED BY <1>1, <2>1, <3>1, <3>2 DEF Size, Typed
  <2> QED BY <2>1, <2>2, CountSame
<1>3. ASSUME NEW t \in 0 .. Num - 1, NEW len \in 1 .. fixed_size_array[t],
             CanFetch(t), FetchFrom(t), Lend(Fetch(t), len), UNCHANGED <<pools, dirty, loop>>,
             total_used_length' \in Int, total_allocated' = total_allocated + fixed_size_array[t]
      PROVE  Counted'
  <2>1. fixed_size_array[t] \in Int /\ total_allocated' \in Int
    BY <1>1, <1>3, FirstWordThere DEF Pools, Typed
  <2>2. /\ Fetch(t) \notin Held /\ TypeOf(Fetch(t)) = t
        /\ DOMAIN lent' = DOMAIN lent \cup {Fetch(t)}
    BY <1>3, <2>1, LendStep
  <2>3. Size(Fetch(t)) = fixed_size_array[t] /\ Fetch(t) \notin DOMAIN lent
    BY <2>2 DEF Size, Held
  <2> QED BY <1>3, <2>1, <2>2, <2>3, CountMore DEF pools
<1>4. ASSUME NEW len \in Lengths, NEW i \in Types, MallocAt(len, i)
      PROVE  Counted'
  <2> DEFINE t == sorted_fixed_size_array_index[i]
  <2>1. i \in 0 .. Num - 1
    <3>1. i \in Nat /\ Num \in Nat
      BY <1>1, Spans DEF Typed, Num
    <3> QED BY <1>4, <3>1 DEF MallocAt
  <2>2. t \in 0 .. Num - 1 /\ fixed_size_array[t] \in Nat \ {0}
    BY <1>1, <2>1, FirstWordThere DEF Pools
  <2>3. len \in 1 .. fixed_size_array[t]
    BY <1>4, <2>2, FirstWordThere DEF MallocAt, SizeAt, Lengths
  <2>4. /\ CanFetch(t) /\ FetchFrom(t) /\ Lend(Fetch(t), len) /\ UNCHANGED <<pools, dirty, loop>>
        /\ total_used_length' = total_used_length + len
        /\ total_allocated' = total_allocated + fixed_size_array[t]
    BY <1>4 DEF MallocAt
  <2>5. total_used_length' \in Int
    BY <1>1, <2>2, <2>3, <2>4 DEF Typed
  <2> QED BY <1>3, <2>2, <2>3, <2>4, <2>5
<1>5. ASSUME NEW t \in Types, MallocFixed(t)
      PROVE  Counted'
  <2>1. t \in 0 .. Num - 1
    <3>1. t \in Nat /\ Num \in Nat
      BY <1>1, Spans DEF Typed, Num
    <3> QED BY <1>5, <3>1 DEF MallocFixed
  <2>2. fixed_size_array[t] \in Nat \ {0}
    BY <1>1, <2>1, FirstWordThere DEF Pools
  <2>3. /\ CanFetch(t) /\ FetchFrom(t) /\ Lend(Fetch(t), fixed_size_array[t])
        /\ UNCHANGED <<pools, dirty, loop>> /\ total_used_length' = total_used_length
        /\ total_allocated' = total_allocated + fixed_size_array[t]
    BY <1>5 DEF MallocFixed
  <2>4. total_used_length' \in Int /\ fixed_size_array[t] \in 1 .. fixed_size_array[t]
    BY <1>1, <2>2, <2>3 DEF Typed
  <2> QED BY <1>3, <2>1, <2>3, <2>4
<1>6. ASSUME NEW p \in DOMAIN lent, NEW how \in UsedLengths, NEW tail_writeable \in BOOLEAN,
             \/ FreeUnprotected(p, how) \/ FreeListed(p, how)
             \/ FreeLinked(p, how, tail_writeable)
      PROVE  Counted'
  <2>1. Uncount(p, Used(p, how)) /\ UNCHANGED pools
    BY <1>6 DEF FreeUnprotected, FreeListed, FreeLinked
  <2>2. DOMAIN lent' = DOMAIN lent \ {p} /\ total_allocated' = total_allocated - Size(p)
    BY <2>1, Given
  <2> QED BY <2>1, <2>2, CountLess DEF pools
<1>7. ASSUME \/ \E len \in Lengths : MallocFails(len) \/ GetType(len)
             \/ Recycle \/ RecycleLinked \/ EndLinked \/ RecycleListed \/ EndRecycle
             \/ UNCHANGED vars
      PROVE  Counted'
  <2>1. lent' = lent /\ total_allocated' = total_allocated /\ fixed_size_array' = fixed_size_array
    BY <1>7 DEF MallocFails, GetType, Recycle, RecycleLinked, EndLinked, RecycleListed,
                EndRecycle, vars, pools, totals, history
  <2> QED BY <2>1, CountSame DEF Size
<1> QED BY <1>2, <1>4, <1>5, <1>6, <1>7 DEF Next

LEMMA InitCounted == Init => Counted
BY SumEmpty DEF Init, Counted

\* The fold of Accounting is that sum.
LEMMA FoldOfSizes ==
  ASSUME NEW S, IsFiniteSet(S), \A p \in S : Size(p) \in Int
  PROVE  MapThenSumSet(Size, S) = SumOf([p \in S |-> Size(p)])
<1> DEFINE f == [p \in S |-> Size(p)]
           Adder(h) == h = [T \in SUBSET S |->
             IF T = {} THEN 0 ELSE LET x == CHOOSE x \in T : TRUE IN Size(x) + h[T \ {x}]]
           h == CHOOSE h : Adder(h)
<1>1. MapThenSumSet(Size, S) = h[S]
  BY DEF MapThenSumSet, MapThenFoldSet
<1>2. f \in [S -> Int]
  OBVIOUS
<1>3. PICK g : Adds(f, S, g)
  BY <1>2, AddsExists
<1>4. Adder(g)
  <2>1. g = [T \in SUBSET S |-> g[T]] /\ g[{}] = 0
    BY <1>3 DEF Adds
  <2>2. \A T \in SUBSET S : T # {} => (CHOOSE x \in T : TRUE) \in T
    OBVIOUS
  <2>3. \A T \in SUBSET S : \A x \in T : g[T] = Size(x) + g[T \ {x}]
    BY <1>3 DEF Adds
  <2> QED BY <2>1, <2>2, <2>3
<1>5. Adder(h)
  BY <1>4
<1> HIDE DEF h
<1>6. AddsSomehow(f, S, h)
  <2>1. h[{}] = 0
    BY <1>5
  <2>2. ASSUME NEW T \in SUBSET S, T # {}
        PROVE  \E x \in T : h[T] = f[x] + h[T \ {x}]
    <3>1. h[T] = LET x == CHOOSE x \in T : TRUE IN Size(x) + h[T \ {x}]
      BY <1>5, <2>2
    <3>2. (CHOOSE x \in T : TRUE) \in T
      BY <2>2
    <3> QED BY <3>1, <3>2
  <2> QED BY <2>1, <2>2 DEF AddsSomehow
<1> HIDE DEF f
<1> QED BY <1>1, <1>2, <1>6, FoldIsSum DEF f

-----------------------------------------------------------------------------
(* The theorems. *)

(***************************************************************************)
(* The free lists, what is not carved yet, the items in use and the        *)
(* protected ones, linked or in the vector, never overlap.                 *)
(***************************************************************************)
THEOREM Inductive == Spec => []PoolInv
BY InitInv, NextInv, PTL DEF Spec

(***************************************************************************)
(* The words of a user stay as they are, while he has the item and, after  *)
(* free() with protection, until recycle().                                *)
(***************************************************************************)
THEOREM Intact == Spec => []DataIntact
<1>1. PoolInv => DataIntact
  BY DEF PoolInv
<1> QED BY <1>1, Inductive, PTL

(***************************************************************************)
(* malloc() hands out no item that is in use or protected, and free() and  *)
(* recycle() give back nothing else than these.                            *)
(***************************************************************************)
THEOREM Allocates == Spec => ImplementsAllocator
BY Inductive, InitInv, NextInv, PTL DEF Spec, ImplementsAllocator, Allocator!AllocSpec

(***************************************************************************)
(* total_allocated is what the items in use take, and recycle() finds the  *)
(* count of the linked items zero when their list is empty.                *)
(***************************************************************************)
THEOREM Counts == Spec => []Accounting
<1>1. ASSUME PoolInv, Counted
      PROVE  Accounting
  <2>1. Typed /\ Pools /\ Items /\ DirtyList
    BY <1>1 DEF PoolInv
  <2>2. IsFiniteSet(DOMAIN lent) /\ \A p \in DOMAIN lent : Size(p) \in Int
    BY <2>1, LentSizes
  <2>3. MapThenSumSet(Size, DOMAIN lent) = SumOf([p \in DOMAIN lent |-> Size(p)])
    BY <2>2, FoldOfSizes
  <2>4. PICK D \in SUBSET (DOMAIN kept \ Waiting) :
          Chained(D, dirty_list, LastWord) /\ dirty_list_length = Cardinality(D)
    BY <2>1 DEF DirtyList
  <2>5. \A p \in D : p \in Addresses \ {Null}
    BY <2>1, HeldTyped DEF Held
  <2>6. dirty_list = Null => D = {}
    BY <2>4, <2>5, AddressesFinite, ChainNull
  <2> QED BY <1>1, <2>3, <2>4, <2>6, FS_EmptySet DEF Counted, Accounting
<1>2. Spec => []Counted
  BY Inductive, InitCounted, NextCounted, PTL DEF Spec
<1> QED BY <1>1, <1>2, Inductive, PTL

(***************************************************************************)
(* The variables keep their types; that total_allocated, a difference of   *)
(* what was lent and what came back, is never negative needs the sum.      *)
(***************************************************************************)
THEOREM TypeCorrect == Spec => []TypeOK
<1>1. ASSUME PoolInv, Counted
      PROVE  TypeOK
  <2>1. Typed /\ Pools /\ Items
    BY <1>1 DEF PoolInv
  <2>2. total_allocated \in Nat
    BY <1>1, <2>1, LentSizes, SumNat DEF Counted
  <2>3. ASSUME NEW p \in Held
        PROVE  p \in Addresses /\ Size(p) \in 1 .. Max(Sizes) /\ Max(Sizes) \in Nat
    BY <2>1, HeldTyped, FirstWordThere
  <2>4. ASSUME NEW p \in DOMAIN lent
        PROVE  p \in Addresses /\ lent[p] \in Lengths
    <3>1. lent[p] \in 1 .. Size(p)
      BY <2>1 DEF Items
    <3> QED BY <2>3, <3>1 DEF Held, Lengths
  <2>5. ASSUME NEW p \in DOMAIN kept
        PROVE  p \in Addresses /\ kept[p] \in 0 .. Max(Sizes)
    <3>1. kept[p] \in 0 .. Size(p)
      BY <2>1 DEF Items
    <3> QED BY <2>3, <3>1 DEF Held
  <2> QED BY <2>1, <2>2, <2>4, <2>5 DEF Typed, TypeOK
<1>2. Spec => []Counted
  BY Inductive, InitCounted, NextCounted, PTL DEF Spec
<1> QED BY <1>1, <1>2, Inductive, PTL

=============================================================================
