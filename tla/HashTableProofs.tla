--------------------------- MODULE HashTableProofs ---------------------------
(***************************************************************************)
(* Proofs about HashTable, for tables of any size with any keys and nodes: *)
(* the chains are the map, an iteration is complete, and a reader without  *)
(* a lock sees nothing but what the table held while it was inside.        *)
(***************************************************************************)
EXTENDS HashTable, FiniteLemmas

\* An address of 0 is no node: the end of a chain.
USE DEF Null

\* The nodes in the chains, and the nodes the table stands for: rehash() has
\* one of them in its hands while it moves it.
Linked == live \ {w.vptr, w.old}
Inside == IF writer \in {"link", "put"} THEN live ELSE Linked

\* The nodes of S that belong to a position of an array of that size.
PlaceOf(n, size, data) == m_hash_func(m_extract_key_func(data[n]), size)
Of(S, size, pos, data) == {n \in S : PlaceOf(n, size, data) = pos}

\* The chains of an array are made of the nodes of S.
Holds(array, size, S, link, data) ==
  /\ size \in 1 .. MaxBucketSize
  /\ array \in [0 .. size - 1 -> Addresses]
  /\ \A pos \in 0 .. size - 1 : Chained(Of(S, size, pos, data), array[pos], link)

BucketArrays == {NoArray} \cup UNION {[0 .. s - 1 -> Addresses] : s \in 1 .. MaxBucketSize}

Typed ==
  /\ m_bucket_size \in 0 .. MaxBucketSize /\ m_p_hash_bucket \in Arrays
  /\ m_protect_dirty \in BOOLEAN
  /\ DOMAIN bucket = Arrays
  /\ \A a \in Arrays : bucket[a] \in BucketArrays
  /\ next \in [Nodes -> Addresses]
  /\ usr_data \in [Nodes -> UserData \cup {Absent}]
  /\ live \subseteq Nodes /\ kept \subseteq Nodes
  /\ writer \in {"new", "idle", "replace", "remove", "fill", "publish",
                 "rehash", "link", "put", "size", "array", "delete"}
  /\ w \in [data : UserData \cup {Absent}, vptr : Addresses,
            old : Addresses, size : 0 .. MaxBucketSize]
  /\ content \in [Keys -> UserData \cup {Absent}]

\* The reader alone.
ReaderTyped ==
  /\ reader \in {"out", "enter", "array", "size", "bucket", "node", "next",
                 "use", "done"}
  /\ r \in [key : Keys, size : 0 .. MaxBucketSize, array : Arrays,
            vptr : Addresses, found : UserData \cup {Absent}]
  /\ reader \in {"node", "next", "use"} => r.vptr \in Nodes
  /\ answers \subseteq UserData \cup {Absent}

\* What the writer has at hand.
Writing ==
  /\ live \cap kept = {}
  /\ writer \in {"replace", "fill", "publish"} =>
       /\ w.data \in UserData /\ w.vptr \in live
       /\ content[m_extract_key_func(w.data)] = Absent
  /\ writer \in {"replace", "remove"} => w.old \in live /\ w.old # w.vptr
  /\ writer \in {"link", "put"} => w.vptr \in live
  /\ writer \in {"new", "idle", "remove", "rehash", "size", "array", "delete"} =>
       w.vptr = Null
  /\ writer \notin {"replace", "remove"} => w.old = Null
  /\ writer = "publish" =>
       /\ usr_data[w.vptr] = w.data
       /\ next[w.vptr] = Current[Position(m_extract_key_func(w.data))]
  /\ writer = "put" => next[w.vptr] = bucket[Other][NewPosition]

\* Where the linked nodes are.
Chains ==
  /\ writer = "new" => live = {}
  /\ writer \in {"idle", "replace", "remove", "fill", "publish"} =>
       Holds(Current, m_bucket_size, Linked, next, usr_data)
  /\ writer \in {"rehash", "link", "put"} =>
       \E M \in SUBSET Linked :
         /\ Holds(Current, m_bucket_size, Linked \ M, next, usr_data)
         /\ Holds(bucket[Other], w.size, M, next, usr_data)
  /\ writer \in {"size", "delete"} => Holds(Current, w.size, Linked, next, usr_data)
  /\ writer = "array" => Holds(bucket[Other], w.size, Linked, next, usr_data)
  /\ writer \in {"array", "delete"} => m_bucket_size = w.size

\* What the table stands for; m_node_num lags behind an unlinked node.
CountedNodes == IF writer \in {"link", "put"} THEN live ELSE live \ {w.vptr}

Map ==
  /\ \A n \in Inside : usr_data[n] \in UserData /\ content[KeyAt(n)] = usr_data[n]
  /\ \A m, n \in Inside : KeyAt(m) = KeyAt(n) => m = n
  /\ \A k \in Keys : content[k] # Absent => \E n \in Inside : KeyAt(n) = k
  /\ m_node_num = Cardinality(CountedNodes)

TableInv == Typed /\ Writing /\ Chains /\ Map

\* Whoever follows the links from x comes to m.
Ahead(x, m, link) ==
  \A Y \in SUBSET Addresses : x \in Y /\ (\A y \in Y \ {Null} : link[y] \in Y) => m \in Y

\* The links do not lead out of X, and nothing in X misleads who looks for key.
Closed(X, link, data, key, known) ==
  \A x \in X : /\ link[x] \in X \cup {Null}
               /\ m_extract_key_func(data[x]) = key => data[x] \in known

\* A reader inside: where it is,
AtPlace ==
  /\ writer \in {"idle", "replace", "remove", "fill", "publish"}
  /\ m_protect_dirty \/ writer = "idle"
  /\ reader \in {"array", "bucket"} => r.size = m_bucket_size
  /\ reader \in {"size", "bucket"} => r.array = m_p_hash_bucket

\* what it knows,
Knows ==
  /\ content[r.key] \in answers
  /\ reader # "done" => r.found = Absent
  /\ reader = "done" => r.found \in answers
  /\ reader = "next" => KeyAt(r.vptr) # r.key
  /\ reader = "use" => KeyAt(r.vptr) = r.key

\* what it is to find, unless its key was absent for a moment,
Expects ==
  reader \in {"node", "next"} /\ Absent \notin answers =>
    \E m \in Linked : KeyAt(m) = r.key /\ Ahead(r.vptr, m, next)

\* and what it may come across: never the node that the writer is filling.
Meets ==
  \E X \in SUBSET ((live \cup kept) \ {w.vptr}) :
    /\ Linked \subseteq X
    /\ Closed(X, next, usr_data, r.key, answers)
    /\ reader \in {"node", "next", "use"} => r.vptr \in X

Seeking == reader # "out" => AtPlace /\ Knows /\ Expects /\ Meets

\* An iterator, and what it has still to go through.
From(pos) == {n \in live : PlaceOf(n, m_bucket_size, usr_data) >= pos}

Stands(it, Left) ==
  \/ Left = {} /\ it = EndIterator
  \/ \E pos \in 0 .. m_bucket_size - 1 :
       \E T \in SUBSET Of(live, m_bucket_size, pos, usr_data) :
         \E v \in T : /\ it = [bucket_pos |-> pos, vptr |-> v]
                      /\ Chained(T, v, next)
                      /\ Left = T \cup From(pos + 1)

-----------------------------------------------------------------------------
(* Keys, positions and chains. *)

LEMMA Numbers ==
  /\ NumKeys \in Nat \ {0} /\ NumNodes \in Nat \ {0} /\ MaxBucketSize \in Nat \ {0}
  /\ Nodes \in SUBSET Nat /\ 0 \notin Nodes /\ IsFiniteSet(Nodes)
  /\ Cardinality(Nodes) = NumNodes
  /\ Addresses = Nodes \cup {0} /\ Absent \notin UserData
<1>1. NumKeys \in Nat \ {0} /\ NumNodes \in Nat \ {0} /\ MaxBucketSize \in Nat \ {0}
      /\ UserData \subseteq Nat \ {0}
  BY HashAssumption
<1>2. IsFiniteSet(1 .. NumNodes) /\ Cardinality(1 .. NumNodes) = NumNodes
  BY <1>1, FS_Interval
<1> QED BY <1>1, <1>2 DEF Nodes, Addresses, Absent

LEMMA SomeNodes ==
  ASSUME NEW S \in SUBSET Nodes
  PROVE  /\ IsFiniteSet(S) /\ 0 \notin S /\ Cardinality(S) \in Nat /\ Cardinality(S) <= NumNodes
<1>1. IsFiniteSet(Nodes) /\ Cardinality(Nodes) = NumNodes /\ 0 \notin Nodes
  BY Numbers
<1> QED BY <1>1, FS_Subset, FS_CardinalityType

LEMMA KeyTyped ==
  ASSUME NEW data \in UserData \cup {Absent}
  PROVE  m_extract_key_func(data) \in Keys
<1>1. data \in Nat
  BY HashAssumption DEF Absent
<1>2. NumKeys \in Nat \ {0}
  BY Numbers
<1> QED BY <1>1, <1>2 DEF m_extract_key_func, Keys

LEMMA PositionTyped ==
  ASSUME NEW k \in Keys, NEW size \in 1 .. MaxBucketSize
  PROVE  m_hash_func(k, size) \in 0 .. size - 1
<1>1. k \in Nat /\ size \in Nat \ {0}
  BY Numbers DEF Keys
<1> QED BY <1>1 DEF m_hash_func

LEMMA PlaceTyped ==
  ASSUME NEW data \in [Nodes -> UserData \cup {Absent}], NEW n \in Nodes,
         NEW size \in 1 .. MaxBucketSize
  PROVE  PlaceOf(n, size, data) \in 0 .. size - 1
<1>1. m_extract_key_func(data[n]) \in Keys
  BY KeyTyped
<1> QED BY <1>1, PositionTyped DEF PlaceOf

LEMMA HoldsEmpty ==
  ASSUME NEW size \in 1 .. MaxBucketSize, NEW link, NEW data
  PROVE  Holds(Empty(size), size, {}, link, data)
<1>1. Empty(size) \in [0 .. size - 1 -> Addresses]
  BY DEF Empty, Addresses
<1>2. ASSUME NEW pos \in 0 .. size - 1
      PROVE  Chained(Of({}, size, pos, data), Empty(size)[pos], link)
  <2>1. Of({}, size, pos, data) = {} /\ Empty(size)[pos] = 0
    BY DEF Of, Empty
  <2> QED BY <2>1, ChainEmpty
<1> QED BY <1>1, <1>2 DEF Holds

LEMMA HoldsFrame ==
  ASSUME NEW array, NEW size, NEW S \in SUBSET Nodes, NEW link, NEW data,
         Holds(array, size, S, link, data), NEW link2, NEW data2,
         \A n \in S : link2[n] = link[n] /\ data2[n] = data[n]
  PROVE  Holds(array, size, S, link2, data2)
<1>1. ASSUME NEW pos \in 0 .. size - 1
      PROVE  Chained(Of(S, size, pos, data2), array[pos], link2)
  <2> DEFINE T == Of(S, size, pos, data)
  <2>1. Of(S, size, pos, data2) = T /\ T \in SUBSET S
    BY DEF Of, PlaceOf
  <2>2. IsFiniteSet(T) /\ Chained(T, array[pos], link)
    BY <2>1, SomeNodes DEF Holds
  <2>3. \A n \in T : link2[n] = link[n]
    BY <2>1
  <2> HIDE DEF T
  <2> QED BY <2>1, <2>2, <2>3, ChainFrame
<1> QED BY <1>1 DEF Holds

\* When nothing hangs anywhere nothing is there.
LEMMA HoldsNone ==
  ASSUME NEW array, NEW size, NEW S \in SUBSET Nodes, NEW link,
         NEW data \in [Nodes -> UserData \cup {Absent}], Holds(array, size, S, link, data),
         \A pos \in 0 .. size - 1 : array[pos] = 0
  PROVE  S = {}
<1> SUFFICES ASSUME NEW n \in S
             PROVE  FALSE
  OBVIOUS
<1> DEFINE pos == PlaceOf(n, size, data)
           T == Of(S, size, pos, data)
<1>1. pos \in 0 .. size - 1
  BY PlaceTyped DEF Holds
<1>2. n \in T /\ T \in SUBSET Nodes
  BY DEF Of
<1>3. Chained(T, 0, link)
  BY <1>1 DEF Holds
<1> HIDE DEF T
<1>4. T = {}
  BY <1>2, <1>3, SomeNodes, ChainNull
<1> QED BY <1>2, <1>4

\* A node put before the others of its position.
LEMMA HoldsPush ==
  ASSUME NEW array, NEW size, NEW S \in SUBSET Nodes, NEW link, NEW data,
         Holds(array, size, S, link, data), NEW link2, NEW data2,
         \A x \in S : link2[x] = link[x] /\ data2[x] = data[x],
         NEW n \in Nodes \ S, NEW pos \in 0 .. size - 1,
         PlaceOf(n, size, data2) = pos, link2[n] = array[pos]
  PROVE  Holds([array EXCEPT ![pos] = n], size, S \cup {n}, link2, data2)
<1> DEFINE array2 == [array EXCEPT ![pos] = n]
<1>1. size \in 1 .. MaxBucketSize /\ array \in [0 .. size - 1 -> Addresses]
  BY DEF Holds
<1>2. n \in Addresses /\ n # 0
  BY Numbers
<1>3. /\ array2 \in [0 .. size - 1 -> Addresses] /\ array2[pos] = n
      /\ \A q \in (0 .. size - 1) \ {pos} : array2[q] = array[q]
  BY <1>1, <1>2
<1> HIDE DEF array2
<1>4. ASSUME NEW q \in 0 .. size - 1
      PROVE  Chained(Of(S \cup {n}, size, q, data2), array2[q], link2)
  <2> DEFINE T == Of(S, size, q, data)
  <2>1. T \in SUBSET S /\ Of(S, size, q, data2) = T
    BY DEF Of, PlaceOf
  <2>2. IsFiniteSet(T) /\ Chained(T, array[q], link) /\ n \notin T
    BY <2>1, SomeNodes DEF Holds
  <2>3. \A x \in T : link2[x] = link[x]
    BY <2>1
  <2>4. CASE q = pos
    <3>1. Of(S \cup {n}, size, q, data2) = T \cup {n}
      BY <2>1, <2>4 DEF Of
    <3> HIDE DEF T
    <3>2. Chained(T \cup {n}, n, link2)
      BY <2>2, <2>3, <2>4, ChainPush
    <3> QED BY <1>3, <2>4, <3>1, <3>2
  <2>5. CASE q # pos
    <3>1. Of(S \cup {n}, size, q, data2) = T
      BY <2>1, <2>5 DEF Of
    <3> HIDE DEF T
    <3>2. Chained(T, array[q], link2)
      BY <2>2, <2>3, ChainFrame
    <3> QED BY <1>3, <2>5, <3>1, <3>2
  <2> QED BY <2>4, <2>5
<1> QED BY <1>1, <1>3, <1>4 DEF Holds, array2

\* The first node of a position taken off.
LEMMA HoldsPop ==
  ASSUME NEW array, NEW size, NEW S \in SUBSET Nodes, NEW link, NEW data,
         Holds(array, size, S, link, data), NEW pos \in 0 .. size - 1, array[pos] # 0
  PROVE  /\ array[pos] \in S /\ PlaceOf(array[pos], size, data) = pos
         /\ link[array[pos]] \in S \cup {0}
         /\ Holds([array EXCEPT ![pos] = link[array[pos]]], size, S \ {array[pos]}, link, data)
<1> DEFINE n == array[pos]
           array2 == [array EXCEPT ![pos] = link[n]]
           T == Of(S, size, pos, data)
<1>1. size \in 1 .. MaxBucketSize /\ array \in [0 .. size - 1 -> Addresses]
  BY DEF Holds
<1>2. T \in SUBSET S
  BY DEF Of
<1>3. IsFiniteSet(T) /\ 0 \notin T /\ Chained(T, n, link)
  BY <1>2, SomeNodes DEF Holds
<1> HIDE DEF T
<1>4. n \in T /\ link[n] \in (T \ {n}) \cup {0} /\ Chained(T \ {n}, link[n], link)
  BY <1>3, ChainPop
<1>5. n \in S /\ link[n] \in S \cup {0} /\ PlaceOf(n, size, data) = pos
  <2>1. n \in S /\ link[n] \in S \cup {0}
    BY <1>2, <1>4
  <2> QED BY <1>4, <2>1 DEF T, Of
<1>6. link[n] \in Addresses
  BY <1>5, Numbers
<1>7. /\ array2 \in [0 .. size - 1 -> Addresses] /\ array2[pos] = link[n]
      /\ \A q \in (0 .. size - 1) \ {pos} : array2[q] = array[q]
  BY <1>1, <1>6
<1> HIDE DEF array2
<1>8. ASSUME NEW q \in 0 .. size - 1
      PROVE  Chained(Of(S \ {n}, size, q, data), array2[q], link)
  <2>1. CASE q = pos
    <3>1. Of(S \ {n}, size, q, data) = T \ {n}
      BY <2>1 DEF T, Of
    <3> QED BY <1>4, <1>7, <2>1, <3>1
  <2>2. CASE q # pos
    <3>1. Of(S \ {n}, size, q, data) = Of(S, size, q, data)
      BY <1>5, <2>2 DEF Of
    <3> QED BY <1>7, <2>2, <3>1 DEF Holds
  <2> QED BY <2>1, <2>2
<1>9. Holds(array2, size, S \ {n}, link, data)
  BY <1>1, <1>7, <1>8 DEF Holds
<1> QED BY <1>5, <1>9 DEF array2

\* A node taken out from behind another, p.
LEMMA HoldsDrop ==
  ASSUME NEW array, NEW size, NEW S \in SUBSET Nodes, NEW link, NEW data,
         Holds(array, size, S, link, data), NEW pos \in 0 .. size - 1,
         NEW n \in S, PlaceOf(n, size, data) = pos,
         NEW p \in S, PlaceOf(p, size, data) = pos, link[p] = n,
         NEW link2, Bypasses(S, n, p, link, link2)
  PROVE  /\ n # p /\ link[n] \in S \cup {0}
         /\ Holds(array, size, S \ {n}, link2, data)
<1> DEFINE T == Of(S, size, pos, data)
           N == Cardinality(T)
<1>1. T \in SUBSET S /\ n \in T /\ p \in T
  BY DEF Of
<1>2. IsFiniteSet(T) /\ N \in Nat /\ 0 \notin T /\ Chained(T, array[pos], link)
  BY <1>1, SomeNodes DEF Holds
<1> HIDE DEF T
<1>3. PICK c \in [1 .. N -> T] :
        Enumerates(c, N, array[pos], link) /\ \A x \in T : \E i \in 1 .. N : c[i] = x
  BY <1>2, ChainOnto DEF Chained
<1>4. PICK i \in 1 .. N : c[i] = p
  BY <1>1, <1>3
<1> HIDE DEF N
<1>5. /\ \A a, b \in 1 .. N : c[a] = c[b] => a = b
      /\ \A a \in 1 .. N : link[c[a]] = IF a = 1 THEN 0 ELSE c[a - 1]
  BY <1>3 DEF Enumerates
<1> DEFINE j == i - 1
<1>6. i # 1 /\ j \in 1 .. N - 1 /\ j \in 1 .. N /\ j + 1 = i /\ j # i /\ c[j] = n
  <2>1. i # 1 /\ c[i - 1] = n
    BY <1>1, <1>2, <1>4, <1>5
  <2> QED BY <1>2, <2>1
<1> HIDE DEF j
<1>7. n # p /\ link[n] \in T \cup {0}
  <2>1. n # p
    BY <1>4, <1>5, <1>6
  <2>2. link[n] = IF j = 1 THEN 0 ELSE c[j - 1]
    BY <1>5, <1>6
  <2>3. j # 1 => c[j - 1] \in T
    BY <1>2, <1>6
  <2> QED BY <2>1, <2>2, <2>3
<1>8. link2[p] = link[n] /\ \A x \in S \ {n, p} : link2[x] = link[x]
  BY DEF Bypasses
<1>9. Chained(T \ {n}, array[pos], link2)
  <2>1. Bypasses(T, n, p, link, link2)
    BY <1>1, <1>8 DEF Bypasses
  <2>2. n = c[j] /\ p = c[j + 1]
    BY <1>4, <1>6
  <2> QED BY <1>2, <1>3, <1>6, <2>1, <2>2, ChainDrop DEF N
<1>10. ASSUME NEW q \in 0 .. size - 1
       PROVE  Chained(Of(S \ {n}, size, q, data), array[q], link2)
  <2>1. CASE q = pos
    <3>1. Of(S \ {n}, size, q, data) = T \ {n}
      BY <2>1 DEF T, Of
    <3> QED BY <1>9, <2>1, <3>1
  <2>2. CASE q # pos
    <3> DEFINE U == Of(S, size, q, data)
    <3>1. Of(S \ {n}, size, q, data) = U /\ p \notin U /\ n \notin U /\ U \in SUBSET S
      BY <2>2 DEF Of
    <3>2. IsFiniteSet(U) /\ Chained(U, array[q], link)
      BY <3>1, SomeNodes DEF Holds
    <3>3. \A x \in U : link2[x] = link[x]
      BY <1>8, <3>1
    <3> HIDE DEF U
    <3> QED BY <3>1, <3>2, <3>3, ChainFrame
  <2> QED BY <2>1, <2>2
<1>11. Holds(array, size, S \ {n}, link2, data)
  BY <1>10 DEF Holds
<1> QED BY <1>1, <1>7, <1>11

-----------------------------------------------------------------------------
(* What the writer finds. *)

\* The walk down a chain, which is recursive, goes through its nodes.
LEMMA Walk ==
  ASSUME NEW S \in SUBSET Nodes, NEW p, Chained(S, p, next)
  PROVE  \E c \in [1 .. Cardinality(S) -> S] :
           /\ Enumerates(c, Cardinality(S), p, next)
           /\ \A x \in S : \E i \in 1 .. Cardinality(S) : c[i] = x
           /\ \A d \in 0 .. NumNodes :
                Chain(p)[d] = IF d < Cardinality(S) THEN c[Cardinality(S) - d] ELSE Null
<1> DEFINE n == Cardinality(S)
<1>1. IsFiniteSet(S) /\ 0 \notin S /\ n \in Nat /\ n <= NumNodes /\ NumNodes \in Nat
  BY SomeNodes, Numbers
<1>2. PICK c \in [1 .. n -> S] :
        Enumerates(c, n, p, next) /\ \A x \in S : \E i \in 1 .. n : c[i] = x
  BY <1>1, ChainOnto DEF Chained
<1> HIDE DEF n
<1> DEFINE Down(f) == f = [d \in 0 .. NumNodes |->
             IF d = 0 THEN p ELSE IF f[d - 1] = Null THEN Null ELSE next[f[d - 1]]]
           g == [d \in 0 .. NumNodes |-> IF d < n THEN c[n - d] ELSE Null]
<1>3. ASSUME NEW d \in 0 .. NumNodes
      PROVE  g[d] = IF d = 0 THEN p ELSE IF g[d - 1] = Null THEN Null ELSE next[g[d - 1]]
  <2>1. CASE d = 0
    BY <1>1, <1>2, <2>1 DEF Enumerates
  <2>2. CASE d # 0 /\ d - 1 < n
    <3>1. d - 1 \in 0 .. NumNodes /\ n - (d - 1) \in 1 .. n /\ (n - (d - 1)) - 1 = n - d
      BY <1>1, <2>2
    <3>2. g[d - 1] = c[n - (d - 1)]
      BY <2>2, <3>1
    <3>3. g[d - 1] # 0
      BY <1>1, <1>2, <3>1, <3>2
    <3>4. next[g[d - 1]] = IF n - (d - 1) = 1 THEN 0 ELSE c[n - d]
      BY <1>2, <3>1, <3>2 DEF Enumerates
    <3>5. n - (d - 1) = 1 <=> ~(d < n)
      BY <1>1, <2>2
    <3> QED BY <2>2, <3>3, <3>4, <3>5
  <2>3. CASE d # 0 /\ ~(d - 1 < n)
    <3>1. d - 1 \in 0 .. NumNodes /\ ~(d < n)
      BY <1>1, <2>3
    <3> QED BY <2>3, <3>1
  <2> QED BY <2>1, <2>2, <2>3
<1>4. Down(g) /\ \A d \in 0 .. NumNodes : g[d] = IF d < n THEN c[n - d] ELSE Null
  BY <1>3
<1> HIDE DEF g
<1> DEFINE h == CHOOSE f : Down(f)
<1>5. Chain(p) = h
  BY DEF Chain
<1>6. Down(h)
  BY <1>4
<1> HIDE DEF h
<1> DEFINE G == {d \in Nat : d <= NumNodes => h[d] = g[d]}
<1>7. 0 \in G
  BY <1>1, <1>3, <1>6
<1>8. ASSUME NEW d \in G
      PROVE  d + 1 \in G
  <2> SUFFICES ASSUME d + 1 <= NumNodes
               PROVE  h[d + 1] = g[d + 1]
    OBVIOUS
  <2>1. d + 1 \in 0 .. NumNodes /\ d + 1 # 0 /\ (d + 1) - 1 = d
    BY <1>1
  <2>2. h[d] = g[d]
    BY <1>1, <2>1
  <2>3. h[d + 1] = IF h[d] = Null THEN Null ELSE next[h[d]]
    BY <1>6, <2>1
  <2>4. g[d + 1] = IF g[d] = Null THEN Null ELSE next[g[d]]
    BY <1>3, <2>1
  <2> QED BY <2>2, <2>3, <2>4
<1>9. G = Nat
  <2>1. G \in SUBSET Nat
    OBVIOUS
  <2> HIDE DEF G
  <2> QED BY <1>7, <1>8, <2>1, NumberInduction
<1>10. ASSUME NEW d \in 0 .. NumNodes
       PROVE  Chain(p)[d] = IF d < n THEN c[n - d] ELSE Null
  <2>1. d \in G
    BY <1>1, <1>9
  <2>2. h[d] = g[d]
    BY <1>1, <2>1
  <2> QED BY <1>4, <1>5, <2>2
<1> QED BY <1>2, <1>10 DEF n

\* A chain ends, and InChain() is the set of its nodes.
LEMMA Walked ==
  ASSUME NEW S \in SUBSET Nodes, NEW p, Chained(S, p, next)
  PROVE  /\ Chain(p)[NumNodes] = Null
         /\ {Chain(p)[d] : d \in 0 .. NumNodes} \ {Null} = S
<1> DEFINE n == Cardinality(S)
<1>1. 0 \notin S /\ n \in Nat /\ n <= NumNodes /\ NumNodes \in Nat
  BY SomeNodes, Numbers
<1>2. PICK c \in [1 .. n -> S] :
        /\ \A x \in S : \E i \in 1 .. n : c[i] = x
        /\ \A d \in 0 .. NumNodes : Chain(p)[d] = IF d < n THEN c[n - d] ELSE Null
  BY Walk
<1> HIDE DEF n
<1>3. Chain(p)[NumNodes] = Null
  BY <1>1, <1>2
<1>4. ASSUME NEW d \in 0 .. NumNodes, Chain(p)[d] # Null
      PROVE  Chain(p)[d] \in S
  <2>1. d < n /\ n - d \in 1 .. n
    BY <1>1, <1>2, <1>4
  <2> QED BY <1>2, <2>1
<1>5. ASSUME NEW x \in S
      PROVE  \E d \in 0 .. NumNodes : Chain(p)[d] = x /\ x # Null
  <2>1. PICK i \in 1 .. n : c[i] = x
    BY <1>2
  <2>2. n - i \in 0 .. NumNodes /\ n - i < n /\ n - (n - i) = i
    BY <1>1
  <2>3. Chain(p)[n - i] = x
    BY <1>2, <2>1, <2>2
  <2> QED BY <1>1, <2>2, <2>3
<1>6. ASSUME NEW x
      PROVE  x \in {Chain(p)[d] : d \in 0 .. NumNodes} \ {Null} <=> x \in S
  BY <1>4, <1>5
<1> QED BY <1>3, <1>6

\* The writer does not overlook a node.
LEMMA NotFound ==
  ASSUME Typed, NEW S \in SUBSET Nodes, Holds(Current, m_bucket_size, S, next, usr_data),
         NEW k \in Keys, Depths(k) = {}
  PROVE  \A n \in S : KeyAt(n) # k
<1> SUFFICES ASSUME NEW n \in S, KeyAt(n) = k
             PROVE  FALSE
  OBVIOUS
<1> DEFINE pos == Position(k)
           T == Of(S, m_bucket_size, pos, usr_data)
<1>1. pos \in 0 .. m_bucket_size - 1
  BY PositionTyped DEF Holds, Position
<1>2. n \in T /\ T \in SUBSET Nodes
  BY DEF Of, PlaceOf, KeyAt, Position
<1>3. Chained(T, Current[pos], next)
  BY <1>1 DEF Holds
<1> HIDE DEF T
<1>4. {Chain(Current[pos])[d] : d \in 0 .. NumNodes} \ {Null} = T
  BY <1>2, <1>3, Walked
<1>5. PICK d \in 0 .. NumNodes : Chain(Current[pos])[d] = n /\ n # Null
  BY <1>2, <1>4
<1> QED BY <1>5 DEF Depths, ChainOf

\* *vpre = ptr->next takes the node with key k out of its chain, and no other.
LEMMA UnlinkStep ==
  ASSUME Typed, NEW S \in SUBSET Nodes, Holds(Current, m_bucket_size, S, next, usr_data),
         NEW k \in Keys, Depths(k) # {}, Unlink(k),
         NEW n, n = ChainOf(k)[Min(Depths(k))]
  PROVE  /\ n \in S /\ KeyAt(n) = k /\ next[n] \in S \cup {0}
         /\ next' \in [Nodes -> Addresses]
         /\ \A x \in Nodes : \/ next'[x] = next[x]
                             \/ x \in S \ {n} /\ next[x] = n /\ next'[x] = next[n]
         /\ DOMAIN bucket' = Arrays /\ bucket'[Other] = bucket[Other]
         /\ Holds(bucket'[m_p_hash_bucket], m_bucket_size, S \ {n}, next', usr_data)
<1> DEFINE pos == Position(k)
           T == Of(S, m_bucket_size, pos, usr_data)
           N == Cardinality(T)
           d == Min(Depths(k))
           array == Current
<1>1. pos \in 0 .. m_bucket_size - 1
  BY PositionTyped DEF Holds, Position
<1>2. /\ T \in SUBSET Nodes /\ Chained(T, array[pos], next)
      /\ T = Of(S, m_bucket_size, pos, usr_data)
      /\ Holds(array, m_bucket_size, S, next, usr_data)
  BY <1>1 DEF Of, Holds
<1>3. N \in Nat /\ N <= NumNodes /\ NumNodes \in Nat
  BY <1>2, SomeNodes, Numbers
<1>4. PICK c \in [1 .. N -> T] :
        /\ Enumerates(c, N, array[pos], next)
        /\ \A i \in 0 .. NumNodes : Chain(array[pos])[i] = IF i < N THEN c[N - i] ELSE Null
  <2> HIDE DEF T
  <2> QED BY <1>2, Walk
<1>5. d \in Depths(k)
  <2>1. Depths(k) \in SUBSET Nat
    BY DEF Depths
  <2> QED BY <2>1, LeastNumber
<1>6. /\ d \in 0 .. NumNodes /\ n = Chain(array[pos])[d] /\ n # Null /\ KeyAt(n) = k
  BY <1>5 DEF Depths, ChainOf
<1> HIDE DEF d
<1>7. d < N /\ n = c[N - d]
  BY <1>4, <1>6
<1>8. /\ IF d = 0
         THEN /\ bucket' = [bucket EXCEPT ![m_p_hash_bucket][pos] = next[n]]
              /\ next' = next
         ELSE /\ next' = [next EXCEPT ![Chain(array[pos])[d - 1]] = next[n]]
              /\ bucket' = bucket
  BY DEF Unlink, ChainOf, d
<1>9. m_p_hash_bucket \in Arrays /\ Other \in Arrays /\ Other # m_p_hash_bucket
  BY DEF Typed, Arrays, Other
<1>10. DOMAIN bucket = Arrays /\ next \in [Nodes -> Addresses] /\ array = bucket[m_p_hash_bucket]
  BY DEF Typed, Current
<1> HIDE DEF N, T, pos, array
<1>11. CASE d = 0
  <2>1. n = array[pos]
    BY <1>3, <1>4, <1>7, <1>11 DEF Enumerates
  <2>2. /\ n \in S /\ next[n] \in S \cup {0}
        /\ Holds([array EXCEPT ![pos] = next[n]], m_bucket_size, S \ {n}, next, usr_data)
    <3>1. array[pos] # 0
      BY <1>6, <2>1
    <3>2. /\ array[pos] \in S /\ PlaceOf(array[pos], m_bucket_size, usr_data) = pos
          /\ next[array[pos]] \in S \cup {0}
          /\ Holds([array EXCEPT ![pos] = next[array[pos]]], m_bucket_size,
                   S \ {array[pos]}, next, usr_data)
      BY <1>1, <1>2, <3>1, HoldsPop
    <3> QED BY <2>1, <3>2
  <2>3. /\ bucket'[m_p_hash_bucket] = [array EXCEPT ![pos] = next[n]]
        /\ bucket'[Other] = bucket[Other] /\ DOMAIN bucket' = Arrays /\ next' = next
    BY <1>8, <1>9, <1>10, <1>11
  <2> QED BY <1>6, <1>10, <2>2, <2>3
<1>12. CASE d # 0
  <2> DEFINE j == N - d
  <2>1. j \in 1 .. N - 1 /\ d - 1 \in 0 .. NumNodes /\ d - 1 < N /\ N - (d - 1) = j + 1
    BY <1>3, <1>6, <1>7, <1>12
  <2> DEFINE p == c[j + 1]
  <2>2. n = c[j] /\ Chain(array[pos])[d - 1] = p
    BY <1>4, <1>7, <2>1
  <2>3. next' = [next EXCEPT ![p] = next[n]] /\ bucket' = bucket
    BY <1>8, <1>12, <2>2
  <2>4. n \in T /\ p \in T /\ next[p] = n
    <3>1. j \in 1 .. N /\ j + 1 \in 1 .. N /\ j + 1 # 1 /\ (j + 1) - 1 = j
      BY <1>3, <2>1
    <3>2. next[c[j + 1]] = c[j]
      BY <1>4, <3>1 DEF Enumerates
    <3> QED BY <1>4, <2>2, <3>1, <3>2
  <2> HIDE DEF j, p
  <2>5. /\ n \in S /\ PlaceOf(n, m_bucket_size, usr_data) = pos
        /\ p \in S /\ PlaceOf(p, m_bucket_size, usr_data) = pos
    BY <1>2, <2>4 DEF Of
  <2>6. Bypasses(S, n, p, next, next')
    BY <1>10, <2>3, <2>5 DEF Bypasses
  <2>7. /\ n # p /\ next[n] \in S \cup {0}
        /\ Holds(array, m_bucket_size, S \ {n}, next', usr_data)
    BY <1>1, <1>2, <2>4, <2>5, <2>6, HoldsDrop
  <2>8. next[n] \in Addresses /\ next' \in [Nodes -> Addresses]
    BY <1>10, <2>3, <2>5
  <2>9. \A x \in Nodes : \/ next'[x] = next[x]
                         \/ x \in S \ {n} /\ next[x] = n /\ next'[x] = next[n]
    BY <1>10, <2>3, <2>4, <2>5, <2>7
  <2> QED BY <1>6, <1>9, <1>10, <2>3, <2>5, <2>7, <2>8, <2>9
<1> QED BY <1>11, <1>12

-----------------------------------------------------------------------------
(* The steps of the writer. *)

LEMMA ArrayTyped ==
  ASSUME NEW array, NEW size, NEW S, NEW link, NEW data, Holds(array, size, S, link, data)
  PROVE  array \in BucketArrays /\ array \in [0 .. size - 1 -> Addresses]
         /\ size \in 1 .. MaxBucketSize
BY DEF Holds, BucketArrays

LEMMA BucketTyped ==
  ASSUME Typed, NEW a \in Arrays, NEW v \in BucketArrays, bucket' = [bucket EXCEPT ![a] = v]
  PROVE  /\ DOMAIN bucket' = Arrays /\ \A b \in Arrays : bucket'[b] \in BucketArrays
         /\ bucket'[a] = v /\ \A b \in Arrays \ {a} : bucket'[b] = bucket[b]
BY DEF Typed

LEMMA WorkTyped ==
  ASSUME NEW d \in UserData \cup {Absent}, NEW v \in Addresses, NEW o \in Addresses,
         NEW s \in 0 .. MaxBucketSize,
         w' = [data |-> d, vptr |-> v, old |-> o, size |-> s]
  PROVE  w' \in [data : UserData \cup {Absent}, vptr : Addresses,
                 old : Addresses, size : 0 .. MaxBucketSize]
OBVIOUS

\* No address, and no size.
LEMMA Nothing ==
  Absent \in UserData \cup {Absent} /\ 0 \in Addresses /\ 0 \in 0 .. MaxBucketSize
BY Numbers

\* The other array is another one.
LEMMA TwoArrays ==
  ASSUME Typed
  PROVE  m_p_hash_bucket \in Arrays /\ Other \in Arrays \ {m_p_hash_bucket}
         /\ Arrays = {m_p_hash_bucket, Other}
BY DEF Typed, Other, Arrays

LEMMA MapFrame ==
  ASSUME Map, Inside' = Inside, content' = content, m_node_num' = m_node_num,
         \A n \in Inside : usr_data'[n] = usr_data[n],
         Cardinality(CountedNodes)' = Cardinality(CountedNodes)
  PROVE  Map'
BY DEF Map, KeyAt

LEMMA MapKept ==
  ASSUME Map, Inside' = Inside, content' = content,
         \A n \in Inside : usr_data'[n] = usr_data[n], m_node_num' = Cardinality(CountedNodes')
  PROVE  Map'
BY DEF Map, KeyAt

\* Between two calls.
LEMMA AtRest ==
  ASSUME Typed, Writing, writer \in {"new", "idle", "rehash", "size", "array", "delete"}
  PROVE  /\ w.vptr = 0 /\ w.old = 0 /\ Linked = live /\ Inside = live /\ CountedNodes = live
<1>1. w.vptr = 0 /\ w.old = 0
  BY DEF Writing
<1>2. 0 \notin live
  BY Numbers DEF Typed
<1> QED BY <1>1, <1>2 DEF Linked, Inside, CountedNodes

LEMMA InitTable == Init => TableInv
<1> SUFFICES ASSUME Init
             PROVE  TableInv
  OBVIOUS
<1>1. Typed
  BY Numbers DEF Init, Typed, Arrays, BucketArrays, NoWork, Addresses, Absent
<1>2. Writing
  BY DEF Init, Writing, NoWork
<1>3. Chains
  BY DEF Init, Chains
<1>4. Map
  <2>1. Inside = {} /\ CountedNodes = {}
    BY DEF Init, Inside, Linked, CountedNodes
  <2> QED BY <2>1, FS_EmptySet DEF Init, Map
<1> QED BY <1>1, <1>2, <1>3, <1>4 DEF TableInv

\* What leaves the writer and the table alone.
LEMMA TableFrame ==
  ASSUME TableInv, UNCHANGED <<table, bucket, node, pool, writer, w, content>>
  PROVE  TableInv'
<1>1. Typed'
  BY DEF TableInv, Typed, table, node, pool
<1>2. /\ Linked' = Linked /\ Inside' = Inside /\ CountedNodes' = CountedNodes
      /\ Current' = Current /\ Other' = Other
  BY DEF Linked, Inside, CountedNodes, Current, Other, table, pool
<1>3. Writing'
  BY <1>2 DEF TableInv, Writing, table, node, pool, Position, NewPosition, KeyAt
<1>4. Chains'
  BY <1>2 DEF TableInv, Chains, table, node, pool
<1>5. Map'
  BY <1>2, MapFrame DEF TableInv, table, node
<1> QED BY <1>1, <1>3, <1>4, <1>5 DEF TableInv

LEMMA CreateStep ==
  ASSUME TableInv, NEW size \in BucketSizes, NEW protect \in BOOLEAN, Create(size, protect)
  PROVE  TableInv'
<1>1. Typed /\ Writing /\ Chains /\ Map
  BY DEF TableInv
<1>2. /\ writer = "new" /\ size > 0 /\ m_bucket_size' = size /\ m_protect_dirty' = protect
      /\ bucket' = [bucket EXCEPT ![m_p_hash_bucket] = Empty(size)] /\ writer' = "idle"
      /\ UNCHANGED <<m_p_hash_bucket, m_node_num, node, pool, w, theReader, history>>
  BY DEF Create
<1>3. size \in 1 .. MaxBucketSize
  BY <1>2, HashAssumption
<1>4. live = {} /\ w.vptr = 0 /\ w.old = 0
  BY <1>1, <1>2 DEF Chains, Writing
<1>5. Holds(Empty(size), size, {}, next, usr_data)
  BY <1>3, HoldsEmpty
<1>6. /\ DOMAIN bucket' = Arrays /\ \A b \in Arrays : bucket'[b] \in BucketArrays
      /\ bucket'[m_p_hash_bucket] = Empty(size)
  BY <1>1, <1>2, <1>5, ArrayTyped, TwoArrays, BucketTyped
<1>7. Typed'
  BY <1>1, <1>2, <1>3, <1>6 DEF Typed, node, pool, history
<1>8. Writing'
  BY <1>1, <1>2, <1>4 DEF Writing, pool
<1>9. Linked' = {} /\ Current' = Empty(size)
  BY <1>2, <1>4, <1>6 DEF Linked, Current, pool
<1>10. Chains'
  BY <1>2, <1>5, <1>9 DEF Chains, node
<1>11. Map'
  <2>1. Inside' = Inside /\ CountedNodes' = CountedNodes
    BY <1>2, <1>4 DEF Inside, Linked, CountedNodes, pool
  <2> QED BY <1>1, <1>2, <2>1, MapFrame DEF node, history
<1> QED BY <1>7, <1>8, <1>10, <1>11 DEF TableInv

\* The node the pool gives.
LEMMA MallocStep ==
  ASSUME FreeNodes # {}
  PROVE  malloc \in Nodes /\ malloc \notin live /\ malloc \notin kept /\ malloc # 0
<1>1. FreeNodes \in SUBSET Nat
  BY Numbers DEF FreeNodes
<1>2. malloc \in FreeNodes
  BY <1>1, LeastNumber DEF malloc
<1> QED BY <1>2, Numbers DEF FreeNodes

LEMMA AddStep ==
  ASSUME TableInv, NEW data \in UserData, Add(data)
  PROVE  TableInv'
<1> DEFINE k == m_extract_key_func(data)
           m == malloc
           head == Current[Position(k)]
<1>1. Typed /\ Writing /\ Chains /\ Map
  BY DEF TableInv
<1>2. /\ writer = "idle" /\ FreeNodes # {} /\ Depths(k) = {}
      /\ live' = live \cup {m} /\ next' = [next EXCEPT ![m] = head]
      /\ usr_data' = [usr_data EXCEPT ![m] = data]
      /\ w' = [NoWork EXCEPT !.data = data, !.vptr = m] /\ writer' = "publish"
      /\ UNCHANGED <<table, bucket, kept, theReader, history>>
  BY DEF Add, Start, FillNode
<1>3. m \in Nodes /\ m \notin live /\ m \notin kept /\ m # 0
  BY <1>2, MallocStep
<1>4. w.vptr = 0 /\ w.old = 0 /\ Linked = live /\ Inside = live /\ CountedNodes = live
  BY <1>1, <1>2, AtRest
<1>5. w'.vptr = m /\ w'.old = 0 /\ w'.data = data /\ w'.size = 0
  BY <1>2 DEF NoWork
<1>6. Holds(Current, m_bucket_size, live, next, usr_data) /\ live \in SUBSET Nodes
  BY <1>1, <1>2, <1>4 DEF Chains, Typed
<1>7. k \in Keys
  BY KeyTyped
<1> HIDE DEF k, m
<1>8. content[k] = Absent
  <2>1. \A n \in live : KeyAt(n) # k
    BY <1>1, <1>2, <1>6, <1>7, NotFound
  <2> QED BY <1>1, <1>4, <1>7, <2>1 DEF Map
<1>9. head \in Addresses
  <2>1. m_bucket_size \in 1 .. MaxBucketSize /\ Current \in [0 .. m_bucket_size - 1 -> Addresses]
    BY <1>6, ArrayTyped
  <2>2. Position(k) \in 0 .. m_bucket_size - 1
    BY <1>7, <2>1, PositionTyped DEF Position
  <2> QED BY <2>1, <2>2
<1> HIDE DEF head
<1>10. \A n \in live : next'[n] = next[n] /\ usr_data'[n] = usr_data[n]
  BY <1>1, <1>2, <1>3 DEF Typed
<1>11. next'[m] = head /\ usr_data'[m] = data
  BY <1>1, <1>2, <1>3 DEF Typed
<1>12. Typed'
  <2>1. next' \in [Nodes -> Addresses] /\ usr_data' \in [Nodes -> UserData \cup {Absent}]
    BY <1>1, <1>2, <1>9 DEF Typed
  <2>2. /\ w' \in [data : UserData \cup {Absent}, vptr : Addresses,
                   old : Addresses, size : 0 .. MaxBucketSize]
    <3>1. w' = [data |-> data, vptr |-> m, old |-> 0, size |-> 0]
      BY <1>2 DEF NoWork
    <3>2. m \in Addresses
      BY <1>3, Numbers
    <3> QED BY <3>1, <3>2, Nothing, WorkTyped
  <2>3. live' \subseteq Nodes /\ kept' \subseteq Nodes
    BY <1>1, <1>2, <1>3 DEF Typed
  <2> QED BY <1>1, <1>2, <2>1, <2>2, <2>3 DEF Typed, table, history
<1>13. Current' = Current /\ m_bucket_size' = m_bucket_size
  BY <1>2 DEF Current, table
<1>14. Writing'
  <2>1. live' \cap kept' = {}
    BY <1>1, <1>2, <1>3 DEF Writing
  <2>2. next'[w'.vptr] = Current'[m_hash_func(m_extract_key_func(w'.data), m_bucket_size')]
    BY <1>5, <1>11, <1>13 DEF head, k, Position
  <2>3. content'[m_extract_key_func(w'.data)] = Absent
    BY <1>2, <1>5, <1>8 DEF k, history
  <2> QED BY <1>2, <1>3, <1>5, <1>11, <2>1, <2>2, <2>3 DEF Writing, Position
<1>15. Linked' = live /\ Inside' = live /\ CountedNodes' = live
  <2>1. 0 \notin live
    BY <1>6, Numbers
  <2> QED BY <1>2, <1>3, <1>5, <2>1 DEF Linked, Inside, CountedNodes
<1>16. Chains'
  <2>1. Holds(Current, m_bucket_size, live, next', usr_data')
    BY <1>6, <1>10, HoldsFrame
  <2> QED BY <1>2, <1>13, <1>15, <2>1 DEF Chains, table
<1>17. Map'
  BY <1>1, <1>2, <1>4, <1>10, <1>15, MapFrame DEF table, history
<1> QED BY <1>12, <1>14, <1>16, <1>17 DEF TableInv

\* A node that is taken out of its chain takes its key with it.
LEMMA MapLoses ==
  ASSUME Map, NEW n \in Inside, Inside' = Inside \ {n},
         content' = [content EXCEPT ![KeyAt(n)] = Absent],
         content \in [Keys -> UserData \cup {Absent}],
         usr_data' = usr_data, m_node_num' = m_node_num,
         Cardinality(CountedNodes)' = Cardinality(CountedNodes)
  PROVE  Map'
<1>1. \A x \in Inside' : KeyAt(x)' = KeyAt(x) /\ KeyAt(x) # KeyAt(n) /\ x \in Inside
  BY DEF Map, KeyAt
<1>2. \A x \in Inside' : usr_data'[x] \in UserData /\ content'[KeyAt(x)'] = usr_data'[x]
  BY <1>1 DEF Map
<1>3. \A x, y \in Inside' : KeyAt(x)' = KeyAt(y)' => x = y
  BY <1>1 DEF Map
<1>4. ASSUME NEW k \in Keys, content'[k] # Absent
      PROVE  \E x \in Inside' : KeyAt(x)' = k
  <2>1. k # KeyAt(n) /\ content[k] # Absent
    BY <1>4
  <2>2. PICK x \in Inside : KeyAt(x) = k
    BY <2>1 DEF Map
  <2> QED BY <1>1, <2>1, <2>2
<1> QED BY <1>2, <1>3, <1>4 DEF Map

LEMMA ReplaceStep ==
  ASSUME TableInv, NEW data \in UserData, Replace(data)
  PROVE  TableInv'
<1> DEFINE k == m_extract_key_func(data)
           m == malloc
           n == ChainOf(k)[Min(Depths(k))]
<1>1. Typed /\ Writing /\ Chains /\ Map
  BY DEF TableInv
<1>2. /\ writer = "idle" /\ FreeNodes # {} /\ Depths(k) # {} /\ Unlink(k)
      /\ live' = live \cup {m} /\ writer' = "replace"
      /\ w' = [NoWork EXCEPT !.data = data, !.vptr = m, !.old = n]
      /\ UNCHANGED <<table, usr_data, kept, theReader>>
  BY DEF Replace, Start
<1>3. m \in Nodes /\ m \notin live /\ m \notin kept /\ m # 0
  BY <1>2, MallocStep
<1>4. w.vptr = 0 /\ w.old = 0 /\ Linked = live /\ Inside = live /\ CountedNodes = live
  BY <1>1, <1>2, AtRest
<1>5. w'.vptr = m /\ w'.old = n /\ w'.data = data /\ w'.size = 0
  BY <1>2 DEF NoWork
<1>6. Holds(Current, m_bucket_size, live, next, usr_data) /\ live \in SUBSET Nodes
  BY <1>1, <1>2, <1>4 DEF Chains, Typed
<1>7. k \in Keys
  BY KeyTyped
<1> HIDE DEF k, m
<1>8. /\ n \in live /\ KeyAt(n) = k /\ next' \in [Nodes -> Addresses]
      /\ DOMAIN bucket' = Arrays /\ bucket'[Other] = bucket[Other]
      /\ Holds(bucket'[m_p_hash_bucket], m_bucket_size, live \ {n}, next', usr_data)
  BY <1>1, <1>2, <1>6, <1>7, UnlinkStep
<1> HIDE DEF n
<1>9. content' = [content EXCEPT ![k] = Absent] /\ content \in [Keys -> UserData \cup {Absent}]
  BY <1>1, <1>2 DEF Unlink, Content, Typed
<1>10. Typed'
  <2>1. n \in Nodes /\ m \in Addresses /\ n \in Addresses
    BY <1>3, <1>6, <1>8, Numbers
  <2>2. w' \in [data : UserData \cup {Absent}, vptr : Addresses,
                old : Addresses, size : 0 .. MaxBucketSize]
    <3>1. w' = [data |-> data, vptr |-> m, old |-> n, size |-> 0]
      BY <1>2 DEF NoWork
    <3> QED BY <2>1, <3>1, Nothing, WorkTyped
  <2>3. \A b \in Arrays : bucket'[b] \in BucketArrays
    <3>1. bucket'[m_p_hash_bucket] \in BucketArrays /\ bucket'[Other] \in BucketArrays
      BY <1>1, <1>8, ArrayTyped, TwoArrays DEF Typed
    <3> QED BY <1>1, <3>1, TwoArrays
  <2>4. live' \subseteq Nodes /\ kept' \subseteq Nodes
    BY <1>1, <1>2, <1>3 DEF Typed
  <2>5. content' \in [Keys -> UserData \cup {Absent}]
    BY <1>9
  <2> QED BY <1>1, <1>2, <1>8, <2>2, <2>3, <2>4, <2>5 DEF Typed, table
<1>11. Writing'
  <2>1. live' \cap kept' = {}
    BY <1>1, <1>2, <1>3 DEF Writing
  <2>2. content'[k] = Absent
    BY <1>7, <1>9
  <2>3. n # m
    BY <1>3, <1>8
  <2> QED BY <1>2, <1>5, <1>8, <2>1, <2>2, <2>3 DEF Writing, k
<1>12. Linked' = live \ {n} /\ Inside' = live \ {n} /\ CountedNodes' = live
  BY <1>2, <1>3, <1>5, <1>8 DEF Linked, Inside, CountedNodes
<1>13. Chains'
  <2>1. Current' = bucket'[m_p_hash_bucket] /\ m_bucket_size' = m_bucket_size
    BY <1>2 DEF Current, table
  <2> QED BY <1>2, <1>8, <1>12, <2>1 DEF Chains
<1>14. Map'
  <2>1. n \in Inside /\ Inside' = Inside \ {n} /\ m_node_num' = m_node_num /\ usr_data' = usr_data
    BY <1>2, <1>4, <1>8, <1>12 DEF table
  <2> QED BY <1>1, <1>4, <1>8, <1>9, <1>12, <2>1, MapLoses
<1> QED BY <1>10, <1>11, <1>13, <1>14 DEF TableInv

LEMMA RemoveStep ==
  ASSUME TableInv, NEW k \in Keys, Remove(k)
  PROVE  TableInv'
<1> DEFINE n == ChainOf(k)[Min(Depths(k))]
<1>1. Typed /\ Writing /\ Chains /\ Map
  BY DEF TableInv
<1>2. /\ writer = "idle" /\ Depths(k) # {} /\ Unlink(k)
      /\ w' = [NoWork EXCEPT !.old = n] /\ writer' = "remove"
      /\ UNCHANGED <<table, usr_data, pool, theReader>>
  BY DEF Remove, Start
<1>3. w.vptr = 0 /\ w.old = 0 /\ Linked = live /\ Inside = live /\ CountedNodes = live
  BY <1>1, <1>2, AtRest
<1>4. w'.vptr = 0 /\ w'.old = n
  BY <1>2 DEF NoWork
<1>5. Holds(Current, m_bucket_size, live, next, usr_data) /\ live \in SUBSET Nodes /\ 0 \notin live
  BY <1>1, <1>2, <1>3, Numbers DEF Chains, Typed
<1>6. /\ n \in live /\ KeyAt(n) = k /\ next' \in [Nodes -> Addresses]
      /\ DOMAIN bucket' = Arrays /\ bucket'[Other] = bucket[Other]
      /\ Holds(bucket'[m_p_hash_bucket], m_bucket_size, live \ {n}, next', usr_data)
  BY <1>1, <1>2, <1>5, UnlinkStep
<1> HIDE DEF n
<1>7. content' = [content EXCEPT ![k] = Absent] /\ content \in [Keys -> UserData \cup {Absent}]
  BY <1>1, <1>2 DEF Unlink, Content, Typed
<1>8. Typed'
  <2>1. n \in Addresses
    BY <1>5, <1>6, Numbers
  <2>2. w' \in [data : UserData \cup {Absent}, vptr : Addresses,
                old : Addresses, size : 0 .. MaxBucketSize]
    <3>1. w' = [data |-> Absent, vptr |-> 0, old |-> n, size |-> 0]
      BY <1>2 DEF NoWork
    <3> QED BY <2>1, <3>1, Nothing, WorkTyped
  <2>3. \A b \in Arrays : bucket'[b] \in BucketArrays
    <3>1. bucket'[m_p_hash_bucket] \in BucketArrays /\ bucket'[Other] \in BucketArrays
      BY <1>1, <1>6, ArrayTyped, TwoArrays DEF Typed
    <3> QED BY <1>1, <3>1, TwoArrays
  <2>4. content' \in [Keys -> UserData \cup {Absent}]
    BY <1>7
  <2> QED BY <1>1, <1>2, <1>6, <2>2, <2>3, <2>4 DEF Typed, table, pool
<1>9. Writing'
  <2>1. n # 0
    BY <1>5, <1>6
  <2> QED BY <1>1, <1>2, <1>4, <1>6, <2>1 DEF Writing, pool
<1>10. Linked' = live \ {n} /\ Inside' = live \ {n} /\ CountedNodes' = live
  BY <1>2, <1>4, <1>5 DEF Linked, Inside, CountedNodes, pool
<1>11. Chains'
  <2>1. Current' = bucket'[m_p_hash_bucket] /\ m_bucket_size' = m_bucket_size
    BY <1>2 DEF Current, table
  <2> QED BY <1>2, <1>6, <1>10, <2>1 DEF Chains
<1>12. Map'
  <2>1. n \in Inside /\ Inside' = Inside \ {n} /\ m_node_num' = m_node_num /\ usr_data' = usr_data
    BY <1>2, <1>3, <1>6, <1>10 DEF table
  <2> QED BY <1>1, <1>3, <1>6, <1>7, <1>10, <2>1, MapLoses
<1> QED BY <1>8, <1>9, <1>11, <1>12 DEF TableInv


\* A node that is put into its chain brings a key that had none.
LEMMA MapGains ==
  ASSUME Map, NEW n, n \notin Inside, Inside' = Inside \cup {n}, usr_data' = usr_data,
         usr_data[n] \in UserData, content[KeyAt(n)] = Absent,
         content' = [content EXCEPT ![KeyAt(n)] = usr_data[n]],
         content \in [Keys -> UserData \cup {Absent}],
         m_node_num' = Cardinality(CountedNodes')
  PROVE  Map'
<1>1. KeyAt(n) \in Keys /\ content'[KeyAt(n)] = usr_data[n] /\ usr_data[n] # Absent
  <2>1. KeyAt(n) \in Keys
    BY KeyTyped DEF KeyAt
  <2> QED BY <2>1, Numbers
<1>2. \A x \in Inside : KeyAt(x) # KeyAt(n) /\ content'[KeyAt(x)] = usr_data[x]
  <2> TAKE x \in Inside
  <2>1. usr_data[x] \in UserData /\ content[KeyAt(x)] = usr_data[x]
    BY DEF Map
  <2>2. KeyAt(x) \in Keys /\ usr_data[x] # Absent
    BY <2>1, KeyTyped, Numbers DEF KeyAt
  <2> QED BY <2>1, <2>2
<1>3. \A x \in Inside' : KeyAt(x)' = KeyAt(x) /\ (x = n \/ x \in Inside)
  BY DEF KeyAt
<1>4. \A x \in Inside' : usr_data'[x] \in UserData /\ content'[KeyAt(x)'] = usr_data'[x]
  BY <1>1, <1>2, <1>3 DEF Map
<1>5. \A x, y \in Inside' : KeyAt(x)' = KeyAt(y)' => x = y
  BY <1>2, <1>3 DEF Map
<1>6. ASSUME NEW k \in Keys, content'[k] # Absent
      PROVE  \E x \in Inside' : KeyAt(x)' = k
  <2>1. CASE k = KeyAt(n)
    BY <1>3, <2>1
  <2>2. CASE k # KeyAt(n)
    <3>1. content[k] # Absent
      BY <1>6, <2>2
    <3> QED BY <1>3, <3>1 DEF Map
  <2> QED BY <2>1, <2>2
<1> QED BY <1>4, <1>5, <1>6 DEF Map

\* The node goes back to the pool: nothing hangs on it any more.
LEMMA ReleaseStep ==
  ASSUME TableInv, Release
  PROVE  TableInv'
<1> DEFINE n == w.old
<1>1. Typed /\ Writing /\ Chains /\ Map
  BY DEF TableInv
<1>2. /\ writer \in {"replace", "remove"} /\ Free /\ AfterRelease
      /\ live' = live \ {n} /\ m_node_num' = m_node_num - 1
      /\ UNCHANGED <<m_bucket_size, m_p_hash_bucket, m_protect_dirty, bucket,
                     theReader, history>>
  BY DEF Release, Free
<1>3. n \in live /\ n # w.vptr /\ live \in SUBSET Nodes /\ 0 \notin live
  BY <1>1, <1>2, Numbers DEF Writing, Typed
<1>4. w'.vptr = w.vptr /\ w'.old = 0
  <2>1. w.vptr \in Addresses /\ w.old \in Addresses
    BY <1>1 DEF Typed
  <2>2. CASE writer = "replace"
    BY <1>1, <1>2, <2>2 DEF AfterRelease, Typed
  <2>3. CASE writer = "remove"
    BY <1>1, <1>2, <2>3 DEF AfterRelease, Writing, NoWork
  <2> QED BY <1>2, <2>2, <2>3
<1>5. /\ next' \in [Nodes -> Addresses] /\ usr_data' \in [Nodes -> UserData \cup {Absent}]
      /\ kept' \in SUBSET (kept \cup {n})
      /\ \A x \in Nodes \ {n} : next'[x] = next[x] /\ usr_data'[x] = usr_data[x]
  <2>1. CASE m_protect_dirty
    BY <1>1, <1>2, <2>1 DEF Free, Typed, node
  <2>2. CASE ~m_protect_dirty
    BY <1>1, <1>2, <2>2, Nothing DEF Free, Typed, node, Blank
  <2> QED BY <2>1, <2>2
<1>6. Typed'
  <2>1. w' \in [data : UserData \cup {Absent}, vptr : Addresses,
                old : Addresses, size : 0 .. MaxBucketSize]
    <3>1. CASE writer = "replace"
      <4>1. w' = [w EXCEPT !.old = Null] /\ 0 \in Addresses
        BY <1>2, <3>1, Nothing DEF AfterRelease
      <4> QED BY <1>1, <4>1 DEF Typed
    <3>2. CASE writer = "remove"
      <4>1. w' = [data |-> Absent, vptr |-> 0, old |-> 0, size |-> 0]
        BY <1>2, <3>2 DEF AfterRelease, NoWork
      <4> QED BY <4>1, Nothing, WorkTyped
    <3> QED BY <1>2, <3>1, <3>2
  <2>2. live' \subseteq Nodes /\ kept' \subseteq Nodes
    BY <1>1, <1>2, <1>3, <1>5 DEF Typed
  <2>3. writer' \in {"fill", "idle"}
    BY <1>2 DEF AfterRelease
  <2> QED BY <1>1, <1>2, <1>5, <2>1, <2>2, <2>3 DEF Typed, history
<1>7. Writing'
  <2>1. live' \cap kept' = {}
    BY <1>1, <1>2, <1>5 DEF Writing
  <2>2. CASE writer = "replace"
    <3>1. writer' = "fill" /\ w'.data = w.data
      BY <1>1, <1>2, <2>2 DEF AfterRelease, Typed
    <3> QED BY <1>1, <1>2, <1>3, <1>4, <2>1, <2>2, <3>1 DEF Writing, history
  <2>3. CASE writer = "remove"
    <3>1. writer' = "idle" /\ w'.vptr = 0
      BY <1>1, <1>2, <1>4, <2>3 DEF AfterRelease, Writing
    <3> QED BY <1>4, <2>1, <3>1 DEF Writing
  <2> QED BY <1>2, <2>2, <2>3
<1>8. /\ writer' \in {"fill", "idle"} /\ Linked' = Linked /\ Inside' = Inside
      /\ CountedNodes = live \ {w.vptr} /\ CountedNodes' = CountedNodes \ {n}
      /\ Linked \in SUBSET (live \ {n}) /\ Inside = Linked
  <2>1. writer' \in {"fill", "idle"}
    BY <1>2 DEF AfterRelease
  <2> QED BY <1>2, <1>3, <1>4, <2>1 DEF Linked, Inside, CountedNodes
<1>9. Chains'
  <2>1. Holds(Current, m_bucket_size, Linked, next, usr_data) /\ Linked \in SUBSET Nodes
    BY <1>1, <1>2, <1>3, <1>8 DEF Chains
  <2>2. \A x \in Linked : next'[x] = next[x] /\ usr_data'[x] = usr_data[x]
    BY <1>3, <1>5, <1>8
  <2>3. Holds(Current, m_bucket_size, Linked, next', usr_data')
    BY <2>1, <2>2, HoldsFrame
  <2> QED BY <1>2, <1>8, <2>3 DEF Chains, Current
<1>10. Map'
  <2>1. m_node_num' = Cardinality(CountedNodes')
    <3>1. CountedNodes \in SUBSET Nodes /\ n \in CountedNodes
      BY <1>3, <1>8
    <3>2. Cardinality(CountedNodes \ {n}) = Cardinality(CountedNodes) - 1
      BY <3>1, SomeNodes, FS_RemoveElement
    <3> QED BY <1>1, <1>2, <1>8, <3>2 DEF Map
  <2>2. \A x \in Inside : usr_data'[x] = usr_data[x]
    BY <1>3, <1>5, <1>8
  <2> QED BY <1>1, <1>2, <1>8, <2>1, <2>2, MapKept DEF history
<1> QED BY <1>6, <1>7, <1>9, <1>10 DEF TableInv

LEMMA FillStep ==
  ASSUME TableInv, Fill
  PROVE  TableInv'
<1> DEFINE k == m_extract_key_func(w.data)
           m == w.vptr
           head == Current[Position(k)]
<1>1. Typed /\ Writing /\ Chains /\ Map
  BY DEF TableInv
<1>2. /\ writer = "fill" /\ writer' = "publish"
      /\ next' = [next EXCEPT ![m] = head] /\ usr_data' = [usr_data EXCEPT ![m] = w.data]
      /\ UNCHANGED <<table, bucket, pool, w, theReader, history>>
  BY DEF Fill, FillNode
<1>3. m \in live /\ live \in SUBSET Nodes /\ w.data \in UserData /\ w.old = 0
  BY <1>1, <1>2 DEF Writing, Typed
<1>4. Linked = live \ {m} /\ Inside = Linked /\ CountedNodes = live \ {m} /\ m \in Nodes
  BY <1>2, <1>3, Numbers DEF Linked, Inside, CountedNodes
<1>5. Holds(Current, m_bucket_size, Linked, next, usr_data) /\ Linked \in SUBSET Nodes
  BY <1>1, <1>2, <1>3, <1>4 DEF Chains
<1>6. head \in Addresses
  <2>1. m_bucket_size \in 1 .. MaxBucketSize /\ Current \in [0 .. m_bucket_size - 1 -> Addresses]
    BY <1>5, ArrayTyped
  <2>2. Position(k) \in 0 .. m_bucket_size - 1
    BY <1>3, <2>1, KeyTyped, PositionTyped DEF Position
  <2> QED BY <2>1, <2>2
<1> HIDE DEF head
<1>7. /\ \A n \in Linked : next'[n] = next[n] /\ usr_data'[n] = usr_data[n]
      /\ next'[m] = head /\ usr_data'[m] = w.data
      /\ next' \in [Nodes -> Addresses] /\ usr_data' \in [Nodes -> UserData \cup {Absent}]
  BY <1>1, <1>2, <1>3, <1>4, <1>5, <1>6 DEF Typed
<1>8. Typed'
  BY <1>1, <1>2, <1>7 DEF Typed, table, pool, history
<1>9. Current' = Current /\ m_bucket_size' = m_bucket_size
  BY <1>2 DEF Current, table
<1>10. Writing'
  <2>1. live' = live /\ kept' = kept /\ w' = w /\ content' = content
    BY <1>2 DEF pool, history
  <2>2. next'[m] = Current'[m_hash_func(m_extract_key_func(w.data), m_bucket_size')]
    BY <1>7, <1>9 DEF head, Position
  <2> QED BY <1>1, <1>2, <1>7, <2>1, <2>2 DEF Writing, Position
<1>11. Linked' = Linked /\ Inside' = Inside /\ CountedNodes' = CountedNodes
  BY <1>2 DEF Linked, Inside, CountedNodes, pool
<1>12. Chains'
  <2>1. Holds(Current, m_bucket_size, Linked, next', usr_data')
    BY <1>5, <1>7, HoldsFrame
  <2> QED BY <1>2, <1>9, <1>11, <2>1 DEF Chains
<1>13. Map'
  BY <1>1, <1>2, <1>4, <1>7, <1>11, MapFrame DEF table, history
<1> QED BY <1>8, <1>10, <1>12, <1>13 DEF TableInv

LEMMA PublishStep ==
  ASSUME TableInv, Publish
  PROVE  TableInv'
<1> DEFINE k == m_extract_key_func(w.data)
           m == w.vptr
           pos == Position(k)
           array == [Current EXCEPT ![pos] = m]
<1>1. Typed /\ Writing /\ Chains /\ Map
  BY DEF TableInv
<1>2. /\ writer = "publish" /\ writer' = "idle" /\ w' = NoWork
      /\ bucket' = [bucket EXCEPT ![m_p_hash_bucket][pos] = m]
      /\ m_node_num' = m_node_num + 1 /\ content' = [content EXCEPT ![k] = w.data]
      /\ UNCHANGED <<m_bucket_size, m_p_hash_bucket, m_protect_dirty, node, pool, theReader>>
  BY DEF Publish, Content
<1>3. /\ m \in live /\ live \in SUBSET Nodes /\ w.data \in UserData /\ w.old = 0
      /\ usr_data[m] = w.data /\ next[m] = Current[pos] /\ content[k] = Absent
  BY <1>1, <1>2 DEF Writing, Typed
<1>4. /\ Linked = live \ {m} /\ Inside = Linked /\ CountedNodes = live \ {m}
      /\ m \in Nodes /\ 0 \notin live
  BY <1>2, <1>3, Numbers DEF Linked, Inside, CountedNodes
<1>5. Holds(Current, m_bucket_size, Linked, next, usr_data) /\ Linked \in SUBSET Nodes
  BY <1>1, <1>2, <1>3, <1>4 DEF Chains
<1>6. k \in Keys
  BY <1>3, KeyTyped
<1>7. pos \in 0 .. m_bucket_size - 1
  BY <1>5, <1>6, ArrayTyped, PositionTyped DEF Position
<1>8. Holds(array, m_bucket_size, live, next, usr_data)
  <2>1. PlaceOf(m, m_bucket_size, usr_data) = pos /\ m \in Nodes \ Linked
    BY <1>3, <1>4 DEF PlaceOf, Position
  <2>2. Holds(array, m_bucket_size, Linked \cup {m}, next, usr_data)
    BY <1>3, <1>5, <1>7, <2>1, HoldsPush
  <2>3. Linked \cup {m} = live
    BY <1>3, <1>4
  <2> QED BY <2>2, <2>3
<1>9. /\ DOMAIN bucket' = Arrays /\ \A b \in Arrays : bucket'[b] \in BucketArrays
      /\ bucket'[m_p_hash_bucket] = array
  <2>1. bucket' = [bucket EXCEPT ![m_p_hash_bucket] = array]
    BY <1>2 DEF Current
  <2> HIDE DEF array
  <2> QED BY <1>1, <1>8, <2>1, ArrayTyped, TwoArrays, BucketTyped
<1> HIDE DEF array, pos
<1>10. Typed'
  <2>1. w' \in [data : UserData \cup {Absent}, vptr : Addresses,
                old : Addresses, size : 0 .. MaxBucketSize]
    <3>1. w' = [data |-> Absent, vptr |-> 0, old |-> 0, size |-> 0]
      BY <1>2 DEF NoWork
    <3> QED BY <3>1, Nothing, WorkTyped
  <2>2. content' \in [Keys -> UserData \cup {Absent}]
    BY <1>1, <1>2, <1>3 DEF Typed
  <2> QED BY <1>1, <1>2, <1>9, <2>1, <2>2 DEF Typed, node, pool
<1>11. w'.vptr = 0 /\ w'.old = 0
  BY <1>2 DEF NoWork
<1>12. Writing'
  BY <1>1, <1>2, <1>11 DEF Writing, pool
<1>13. Linked' = live /\ Inside' = live /\ CountedNodes' = live
  BY <1>2, <1>4, <1>11 DEF Linked, Inside, CountedNodes, pool
<1>14. Chains'
  <2>1. Current' = array
    BY <1>2, <1>9 DEF Current
  <2> QED BY <1>2, <1>8, <1>13, <2>1 DEF Chains, node
<1>15. Map'
  <2>1. m_node_num' = Cardinality(CountedNodes')
    <3>1. CountedNodes \in SUBSET Nodes /\ m \notin CountedNodes
          /\ CountedNodes' = CountedNodes \cup {m}
      BY <1>3, <1>4, <1>13
    <3>2. Cardinality(CountedNodes \cup {m}) = Cardinality(CountedNodes) + 1
      BY <3>1, SomeNodes, FS_AddElement
    <3> QED BY <1>1, <1>2, <3>1, <3>2 DEF Map
  <2>2. m \notin Inside /\ Inside' = Inside \cup {m} /\ usr_data' = usr_data /\ KeyAt(m) = k
    BY <1>2, <1>3, <1>4, <1>13 DEF node, KeyAt
  <2>3. /\ usr_data[m] \in UserData /\ content[KeyAt(m)] = Absent
        /\ content' = [content EXCEPT ![KeyAt(m)] = usr_data[m]]
        /\ content \in [Keys -> UserData \cup {Absent}]
    BY <1>1, <1>2, <1>3, <2>2 DEF Typed
  <2> HIDE DEF m, k
  <2> QED BY <1>1, <2>1, <2>2, <2>3, MapGains
<1> QED BY <1>10, <1>12, <1>14, <1>15 DEF TableInv

LEMMA RecycleStep ==
  ASSUME TableInv, Recycle
  PROVE  TableInv'
<1>1. Typed /\ Writing /\ Chains /\ Map
  BY DEF TableInv
<1>2. /\ writer = "idle" /\ kept' = {} /\ Blank(kept)
      /\ UNCHANGED <<table, bucket, live, writer, w, theReader, history>>
  BY DEF Recycle
<1>3. Linked = live /\ Inside = live /\ live \in SUBSET Nodes
  BY <1>1, <1>2, AtRest DEF Typed
<1>4. \A n \in live : next'[n] = next[n] /\ usr_data'[n] = usr_data[n]
  BY <1>1, <1>2, <1>3 DEF Blank, Writing
<1>5. next' \in [Nodes -> Addresses] /\ usr_data' \in [Nodes -> UserData \cup {Absent}]
  BY <1>1, <1>2, Nothing DEF Blank, Typed
<1>6. Typed'
  BY <1>1, <1>2, <1>5 DEF Typed, table, history
<1>7. Writing'
  BY <1>1, <1>2 DEF Writing
<1>8. Linked' = Linked /\ Inside' = Inside /\ CountedNodes' = CountedNodes
  BY <1>2 DEF Linked, Inside, CountedNodes
<1>9. Chains'
  <2>1. Holds(Current, m_bucket_size, live, next, usr_data)
    BY <1>1, <1>2, <1>3 DEF Chains
  <2>2. Holds(Current, m_bucket_size, live, next', usr_data')
    BY <1>3, <1>4, <2>1, HoldsFrame
  <2> QED BY <1>2, <1>3, <1>8, <2>2 DEF Chains, Current, table
<1>10. Map'
  BY <1>1, <1>2, <1>3, <1>4, <1>8, MapFrame DEF table, history
<1> QED BY <1>6, <1>7, <1>9, <1>10 DEF TableInv

LEMMA RehashStep ==
  ASSUME TableInv, NEW size \in BucketSizes, Rehash(size)
  PROVE  TableInv'
<1> DEFINE s == NewSize(size)
<1>1. Typed /\ Writing /\ Chains /\ Map
  BY DEF TableInv
<1>2. /\ writer = "idle" /\ writer' = "rehash" /\ s <= MaxBucketSize
      /\ bucket' = [bucket EXCEPT ![Other] = Empty(s)] /\ w' = [NoWork EXCEPT !.size = s]
      /\ UNCHANGED <<table, node, pool, theReader, history>>
  BY DEF Rehash, Start
<1>3. Linked = live /\ live \in SUBSET Nodes /\ 0 \notin live
  BY <1>1, <1>2, AtRest, Numbers DEF Typed
<1>4. Holds(Current, m_bucket_size, live, next, usr_data)
  BY <1>1, <1>2, <1>3 DEF Chains
<1>5. s \in 1 .. MaxBucketSize
  <2>1. m_bucket_size \in 1 .. MaxBucketSize /\ size \in 0 .. MaxBucketSize
    BY <1>4, ArrayTyped, HashAssumption
  <2> QED BY <1>2, <2>1, Numbers DEF NewSize
<1> HIDE DEF s
<1>6. Holds(Empty(s), s, {}, next, usr_data)
  BY <1>5, HoldsEmpty
<1>7. /\ DOMAIN bucket' = Arrays /\ \A b \in Arrays : bucket'[b] \in BucketArrays
      /\ bucket'[Other] = Empty(s) /\ bucket'[m_p_hash_bucket] = Current
  BY <1>1, <1>2, <1>6, ArrayTyped, TwoArrays, BucketTyped DEF Current
<1>8. w'.vptr = 0 /\ w'.old = 0 /\ w'.size = s
  BY <1>2 DEF NoWork
<1>9. Typed'
  <2>1. w' = [data |-> Absent, vptr |-> 0, old |-> 0, size |-> s] /\ s \in 0 .. MaxBucketSize
    BY <1>2, <1>5 DEF NoWork
  <2>2. w' \in [data : UserData \cup {Absent}, vptr : Addresses,
                old : Addresses, size : 0 .. MaxBucketSize]
    BY <2>1, Nothing, WorkTyped
  <2> QED BY <1>1, <1>2, <1>7, <2>2 DEF Typed, table, node, pool, history
<1>10. Writing'
  BY <1>1, <1>2, <1>8 DEF Writing, pool
<1>11. Linked' = live /\ Inside' = Inside /\ CountedNodes' = CountedNodes
  BY <1>1, <1>2, <1>3, <1>8, AtRest DEF Linked, Inside, CountedNodes, pool
<1>12. Chains'
  <2>1. Current' = Current /\ bucket'[Other'] = Empty(s) /\ m_bucket_size' = m_bucket_size
    BY <1>2, <1>7 DEF Current, Other, table
  <2>2. /\ Holds(Current', m_bucket_size', Linked' \ {}, next', usr_data')
        /\ Holds(bucket'[Other'], w'.size, {}, next', usr_data')
    BY <1>2, <1>4, <1>6, <1>8, <1>11, <2>1 DEF node
  <2> QED BY <1>2, <2>2 DEF Chains
<1>13. Map'
  BY <1>1, <1>2, <1>11, MapFrame DEF table, node, history
<1> QED BY <1>9, <1>10, <1>12, <1>13 DEF TableInv

LEMMA DetachStep ==
  ASSUME TableInv, Detach
  PROVE  TableInv'
<1> DEFINE pos == Min(Full(m_p_hash_bucket))
           n == Current[pos]
           array == [Current EXCEPT ![pos] = next[n]]
<1>1. Typed /\ Writing /\ Chains /\ Map
  BY DEF TableInv
<1>2. /\ writer = "rehash" /\ writer' = "link" /\ Full(m_p_hash_bucket) # {}
      /\ w' = [w EXCEPT !.vptr = n]
      /\ bucket' = [bucket EXCEPT ![m_p_hash_bucket][pos] = next[n]]
      /\ UNCHANGED <<table, node, pool, theReader, history>>
  BY DEF Detach
<1>3. Linked = live /\ live \in SUBSET Nodes /\ w.old = 0
  BY <1>1, <1>2, AtRest DEF Typed
<1>4. PICK M \in SUBSET live :
        /\ Holds(Current, m_bucket_size, live \ M, next, usr_data)
        /\ Holds(bucket[Other], w.size, M, next, usr_data)
  BY <1>1, <1>2, <1>3 DEF Chains
<1>5. pos \in 0 .. m_bucket_size - 1 /\ n # 0
  <2>1. DOMAIN Current = 0 .. m_bucket_size - 1 /\ m_bucket_size \in Nat
    BY <1>4, ArrayTyped
  <2>2. Full(m_p_hash_bucket) \in SUBSET Nat
    BY <2>1 DEF Full, Current
  <2>3. pos \in Full(m_p_hash_bucket)
    BY <1>2, <2>2, LeastNumber
  <2> QED BY <2>1, <2>3 DEF Full, Current
<1>6. /\ n \in live \ M /\ next[n] \in (live \ M) \cup {0}
      /\ Holds(array, m_bucket_size, (live \ M) \ {n}, next, usr_data)
  <2>1. live \ M \in SUBSET Nodes
    BY <1>3
  <2> HIDE DEF pos
  <2> QED BY <1>4, <1>5, <2>1, HoldsPop
<1>7. /\ DOMAIN bucket' = Arrays /\ \A b \in Arrays : bucket'[b] \in BucketArrays
      /\ bucket'[m_p_hash_bucket] = array /\ bucket'[Other] = bucket[Other]
  <2>1. bucket' = [bucket EXCEPT ![m_p_hash_bucket] = array]
    BY <1>2 DEF Current
  <2> HIDE DEF array
  <2> QED BY <1>1, <1>6, <2>1, ArrayTyped, TwoArrays, BucketTyped
<1> HIDE DEF array, n, pos
<1>8. w'.vptr = n /\ w'.old = 0 /\ w'.size = w.size
  BY <1>1, <1>2, <1>3 DEF Typed
<1>9. Typed'
  <2>1. n \in Addresses
    BY <1>3, <1>6, Numbers
  <2>2. w' \in [data : UserData \cup {Absent}, vptr : Addresses,
                old : Addresses, size : 0 .. MaxBucketSize]
    BY <1>1, <1>2, <2>1 DEF Typed
  <2> QED BY <1>1, <1>2, <1>7, <2>2 DEF Typed, table, node, pool, history
<1>10. Writing'
  BY <1>1, <1>2, <1>6, <1>8 DEF Writing, pool
<1>11. Linked' = live \ {n} /\ Inside' = Inside /\ CountedNodes' = CountedNodes
  <2>1. 0 \notin live
    BY <1>3, Numbers
  <2> QED BY <1>1, <1>2, <1>8, <2>1, AtRest DEF Linked, Inside, CountedNodes, pool
<1>12. Chains'
  <2>1. Current' = array /\ bucket'[Other'] = bucket[Other] /\ m_bucket_size' = m_bucket_size
    BY <1>2, <1>7 DEF Current, Other, table
  <2>2. Linked' \ M = (live \ M) \ {n} /\ M \in SUBSET Linked'
    BY <1>6, <1>11
  <2>3. /\ Holds(Current', m_bucket_size', Linked' \ M, next', usr_data')
        /\ Holds(bucket'[Other'], w'.size, M, next', usr_data')
    BY <1>2, <1>4, <1>6, <1>8, <2>1, <2>2 DEF node
  <2> QED BY <1>2, <2>2, <2>3 DEF Chains
<1>13. Map'
  BY <1>1, <1>2, <1>11, MapFrame DEF table, node, history
<1> QED BY <1>9, <1>10, <1>12, <1>13 DEF TableInv

\* The position of the node that rehash() has in its hands.
LEMMA NewPlace ==
  ASSUME Typed, w.vptr \in live, NEW M \in SUBSET Nodes,
         Holds(bucket[Other], w.size, M, next, usr_data)
  PROVE  /\ NewPosition \in 0 .. w.size - 1 /\ bucket[Other][NewPosition] \in Addresses
         /\ PlaceOf(w.vptr, w.size, usr_data) = NewPosition
<1>1. w.size \in 1 .. MaxBucketSize /\ bucket[Other] \in [0 .. w.size - 1 -> Addresses]
  BY ArrayTyped
<1>2. KeyAt(w.vptr) \in Keys
  BY KeyTyped DEF Typed, KeyAt
<1>3. NewPosition \in 0 .. w.size - 1
  BY <1>1, <1>2, PositionTyped DEF NewPosition
<1> QED BY <1>1, <1>3 DEF PlaceOf, NewPosition, KeyAt

LEMMA LinkStep ==
  ASSUME TableInv, Link
  PROVE  TableInv'
<1> DEFINE n == w.vptr
           head == bucket[Other][NewPosition]
<1>1. Typed /\ Writing /\ Chains /\ Map
  BY DEF TableInv
<1>2. /\ writer = "link" /\ writer' = "put" /\ next' = [next EXCEPT ![n] = head]
      /\ UNCHANGED <<table, bucket, usr_data, pool, w, theReader, history>>
  BY DEF Link
<1>3. n \in live /\ live \in SUBSET Nodes /\ w.old = 0 /\ Linked = live \ {n}
  BY <1>1, <1>2, Numbers DEF Writing, Typed, Linked
<1>4. PICK M \in SUBSET Linked :
        /\ Holds(Current, m_bucket_size, Linked \ M, next, usr_data)
        /\ Holds(bucket[Other], w.size, M, next, usr_data)
  BY <1>1, <1>2 DEF Chains
<1>5. head \in Addresses
  BY <1>1, <1>3, <1>4, NewPlace
<1>6. Other' = Other /\ NewPosition' = NewPosition /\ Current' = Current
  BY <1>2 DEF Other, NewPosition, KeyAt, table, Current
<1>7. next' \in [Nodes -> Addresses] /\ next'[n] = head /\ \A x \in Linked : next'[x] = next[x]
  BY <1>1, <1>2, <1>3, <1>5 DEF Typed
<1>8. Typed'
  BY <1>1, <1>2, <1>7 DEF Typed, table, pool, history
<1>9. Writing'
  <2>1. next'[w'.vptr] = bucket'[Other'][NewPosition']
    BY <1>2, <1>6, <1>7
  <2> QED BY <1>1, <1>2, <2>1 DEF Writing, pool
<1>10. Linked' = Linked /\ Inside' = Inside /\ CountedNodes' = CountedNodes
  BY <1>2 DEF Linked, Inside, CountedNodes, pool
<1> HIDE DEF head
<1>11. Chains'
  <2>1. Linked \ M \in SUBSET Nodes /\ M \in SUBSET Nodes
    BY <1>3, <1>4
  <2>2. \A x \in Linked \ M : next'[x] = next[x] /\ usr_data'[x] = usr_data[x]
    BY <1>2, <1>7
  <2>3. \A x \in M : next'[x] = next[x] /\ usr_data'[x] = usr_data[x]
    BY <1>2, <1>4, <1>7
  <2>4. Holds(Current, m_bucket_size, Linked \ M, next', usr_data')
    BY <1>4, <2>1, <2>2, HoldsFrame
  <2>5. Holds(bucket[Other], w.size, M, next', usr_data')
    BY <1>4, <2>1, <2>3, HoldsFrame
  <2>6. /\ Holds(Current', m_bucket_size', Linked' \ M, next', usr_data')
        /\ Holds(bucket'[Other'], w'.size, M, next', usr_data') /\ M \in SUBSET Linked'
    BY <1>2, <1>4, <1>6, <1>10, <2>4, <2>5 DEF table
  <2> QED BY <1>2, <2>6 DEF Chains
<1>12. Map'
  BY <1>1, <1>2, <1>10, MapFrame DEF table, history
<1> QED BY <1>8, <1>9, <1>11, <1>12 DEF TableInv

LEMMA PutStep ==
  ASSUME TableInv, Put
  PROVE  TableInv'
<1> DEFINE n == w.vptr
           pos == NewPosition
           array == [bucket[Other] EXCEPT ![pos] = n]
<1>1. Typed /\ Writing /\ Chains /\ Map
  BY DEF TableInv
<1>2. /\ writer = "put" /\ writer' = "rehash" /\ w' = [w EXCEPT !.vptr = Null]
      /\ bucket' = [bucket EXCEPT ![Other][pos] = n]
      /\ UNCHANGED <<table, node, pool, theReader, history>>
  BY DEF Put
<1>3. /\ n \in live /\ live \in SUBSET Nodes /\ w.old = 0 /\ Linked = live \ {n}
      /\ next[n] = bucket[Other][pos] /\ Inside = live /\ CountedNodes = live /\ 0 \notin live
  BY <1>1, <1>2, Numbers DEF Writing, Typed, Linked, Inside, CountedNodes
<1>4. PICK M \in SUBSET Linked :
        /\ Holds(Current, m_bucket_size, Linked \ M, next, usr_data)
        /\ Holds(bucket[Other], w.size, M, next, usr_data)
  BY <1>1, <1>2 DEF Chains
<1>5. M \in SUBSET Nodes /\ n \in Nodes \ M
  BY <1>3, <1>4
<1>6. pos \in 0 .. w.size - 1 /\ PlaceOf(n, w.size, usr_data) = pos
  BY <1>1, <1>3, <1>4, <1>5, NewPlace
<1>7. Holds(array, w.size, M \cup {n}, next, usr_data)
  <2> HIDE DEF pos, n
  <2> QED BY <1>3, <1>4, <1>5, <1>6, HoldsPush
<1>8. /\ DOMAIN bucket' = Arrays /\ \A b \in Arrays : bucket'[b] \in BucketArrays
      /\ bucket'[Other] = array /\ bucket'[m_p_hash_bucket] = Current
  <2>1. bucket' = [bucket EXCEPT ![Other] = array]
    BY <1>2
  <2> HIDE DEF array
  <2> QED BY <1>1, <1>7, <2>1, ArrayTyped, TwoArrays, BucketTyped DEF Current
<1> HIDE DEF array, pos
<1>9. w'.vptr = 0 /\ w'.old = 0 /\ w'.size = w.size
  BY <1>1, <1>2, <1>3 DEF Typed
<1>10. Typed'
  <2>1. w' \in [data : UserData \cup {Absent}, vptr : Addresses,
                old : Addresses, size : 0 .. MaxBucketSize]
    BY <1>1, <1>2, Nothing DEF Typed
  <2> QED BY <1>1, <1>2, <1>8, <2>1 DEF Typed, table, node, pool, history
<1>11. Writing'
  BY <1>1, <1>2, <1>9 DEF Writing, pool
<1>12. Linked' = live /\ Inside' = Inside /\ CountedNodes' = CountedNodes
  BY <1>2, <1>3, <1>9 DEF Linked, Inside, CountedNodes, pool
<1>13. Chains'
  <2>1. Current' = Current /\ bucket'[Other'] = array /\ m_bucket_size' = m_bucket_size
    BY <1>2, <1>8 DEF Current, Other, table
  <2>2. Linked' \ (M \cup {n}) = Linked \ M /\ M \cup {n} \in SUBSET Linked'
    BY <1>3, <1>4, <1>12
  <2>3. /\ Holds(Current', m_bucket_size', Linked' \ (M \cup {n}), next', usr_data')
        /\ Holds(bucket'[Other'], w'.size, M \cup {n}, next', usr_data')
    BY <1>2, <1>4, <1>7, <1>9, <2>1, <2>2 DEF node
  <2> QED BY <1>2, <2>2, <2>3 DEF Chains
<1>14. Map'
  BY <1>1, <1>2, <1>12, MapFrame DEF table, node, history
<1> QED BY <1>10, <1>11, <1>13, <1>14 DEF TableInv

\* When every node is moved, the other array has them all.
LEMMA AllMoved ==
  ASSUME TableInv, Moved
  PROVE  Holds(bucket[Other], w.size, Linked, next, usr_data)
<1>1. Typed /\ Chains /\ writer = "rehash" /\ Full(m_p_hash_bucket) = {}
  BY DEF TableInv, Moved
<1>2. PICK M \in SUBSET Linked :
        /\ Holds(Current, m_bucket_size, Linked \ M, next, usr_data)
        /\ Holds(bucket[Other], w.size, M, next, usr_data)
  BY <1>1 DEF Chains
<1>3. \A pos \in 0 .. m_bucket_size - 1 : Current[pos] = 0
  <2>1. DOMAIN Current = 0 .. m_bucket_size - 1
    BY <1>2, ArrayTyped
  <2> QED BY <1>1, <2>1 DEF Full, Current
<1>4. Linked \ M = {}
  <2>1. Linked \ M \in SUBSET Nodes /\ usr_data \in [Nodes -> UserData \cup {Absent}]
    BY <1>1 DEF Linked, Typed
  <2> QED BY <1>2, <1>3, <2>1, HoldsNone
<1>5. M = Linked
  BY <1>4
<1> QED BY <1>2, <1>5

LEMMA SwitchArrayStep ==
  ASSUME TableInv, SwitchArray
  PROVE  TableInv'
<1>1. Typed /\ Writing /\ Chains /\ Map
  BY DEF TableInv
<1>2. /\ (Moved /\ Grows) \/ writer = "array"
      /\ writer \in {"rehash", "array"} /\ m_p_hash_bucket' = Other
      /\ writer' = IF writer = "array" THEN "delete" ELSE "size"
      /\ UNCHANGED <<m_bucket_size, m_node_num, m_protect_dirty, bucket, node,
                     pool, w, theReader, history>>
  BY DEF SwitchArray, Moved
<1>3. w.vptr = 0 /\ w.old = 0
  BY <1>1, <1>2, AtRest
<1>4. writer' \in {"size", "delete"}
  BY <1>2
<1>5. Typed'
  BY <1>1, <1>2, <1>4, TwoArrays DEF Typed, node, pool, history
<1>6. Writing'
  BY <1>1, <1>2, <1>3, <1>4 DEF Writing, pool
<1>7. Linked' = Linked /\ Inside' = Inside /\ CountedNodes' = CountedNodes
  BY <1>2, <1>4 DEF Linked, Inside, CountedNodes, pool
<1>8. Chains'
  <2>1. Holds(bucket[Other], w.size, Linked, next, usr_data)
    BY <1>1, <1>2, AllMoved DEF Chains
  <2>2. Current' = bucket[Other]
    BY <1>2 DEF Current
  <2>3. writer' = "delete" => m_bucket_size = w.size
    BY <1>1, <1>2 DEF Chains
  <2> QED BY <1>2, <1>4, <1>7, <2>1, <2>2, <2>3 DEF Chains, node
<1>9. Map'
  BY <1>1, <1>2, <1>7, MapFrame DEF node, history
<1> QED BY <1>5, <1>6, <1>8, <1>9 DEF TableInv

LEMMA SwitchSizeStep ==
  ASSUME TableInv, SwitchSize
  PROVE  TableInv'
<1>1. Typed /\ Writing /\ Chains /\ Map
  BY DEF TableInv
<1>2. /\ (Moved /\ ~Grows) \/ writer = "size"
      /\ writer \in {"rehash", "size"} /\ m_bucket_size' = w.size
      /\ writer' = IF writer = "size" THEN "delete" ELSE "array"
      /\ UNCHANGED <<m_p_hash_bucket, m_node_num, m_protect_dirty, bucket, node,
                     pool, w, theReader, history>>
  BY DEF SwitchSize, Moved
<1>3. w.vptr = 0 /\ w.old = 0
  BY <1>1, <1>2, AtRest
<1>4. writer' \in {"array", "delete"}
  BY <1>2
<1>5. Typed'
  <2>1. w.size \in 0 .. MaxBucketSize
    BY <1>1 DEF Typed
  <2> QED BY <1>1, <1>2, <1>4, <2>1 DEF Typed, node, pool, history
<1>6. Writing'
  BY <1>1, <1>2, <1>3, <1>4 DEF Writing, pool
<1>7. Linked' = Linked /\ Inside' = Inside /\ CountedNodes' = CountedNodes
  BY <1>2, <1>4 DEF Linked, Inside, CountedNodes, pool
<1>8. Chains'
  <2>1. Current' = Current /\ bucket'[Other'] = bucket[Other]
    BY <1>2 DEF Current, Other
  <2>2. CASE writer = "size"
    BY <1>1, <1>2, <1>7, <2>1, <2>2 DEF Chains, node
  <2>3. CASE Moved
    <3>1. Holds(bucket[Other], w.size, Linked, next, usr_data) /\ writer' = "array"
      BY <1>2, <2>3, AllMoved DEF Moved
    <3> QED BY <1>2, <1>7, <2>1, <3>1 DEF Chains, node
  <2> QED BY <1>2, <2>2, <2>3
<1>9. Map'
  BY <1>1, <1>2, <1>7, MapFrame DEF node, history
<1> QED BY <1>5, <1>6, <1>8, <1>9 DEF TableInv

LEMMA DeleteStep ==
  ASSUME TableInv, Delete
  PROVE  TableInv'
<1>1. Typed /\ Writing /\ Chains /\ Map
  BY DEF TableInv
<1>2. /\ writer = "delete" /\ writer' = "idle" /\ w' = NoWork
      /\ bucket' = [bucket EXCEPT ![Other] = NoArray]
      /\ UNCHANGED <<table, node, pool, theReader, history>>
  BY DEF Delete
<1>3. w.vptr = 0 /\ w.old = 0 /\ w'.vptr = 0 /\ w'.old = 0
  BY <1>1, <1>2, AtRest DEF NoWork
<1>4. /\ DOMAIN bucket' = Arrays /\ \A b \in Arrays : bucket'[b] \in BucketArrays
      /\ bucket'[m_p_hash_bucket] = Current
  <2>1. NoArray \in BucketArrays
    BY DEF BucketArrays
  <2> QED BY <1>1, <1>2, <2>1, TwoArrays, BucketTyped DEF Current
<1>5. Typed'
  <2>1. w' = [data |-> Absent, vptr |-> 0, old |-> 0, size |-> 0]
    BY <1>2 DEF NoWork
  <2>2. w' \in [data : UserData \cup {Absent}, vptr : Addresses,
                old : Addresses, size : 0 .. MaxBucketSize]
    BY <2>1, Nothing, WorkTyped
  <2> QED BY <1>1, <1>2, <1>4, <2>2 DEF Typed, table, node, pool, history
<1>6. Writing'
  BY <1>1, <1>2, <1>3 DEF Writing, pool
<1>7. Linked' = Linked /\ Inside' = Inside /\ CountedNodes' = CountedNodes
  BY <1>2, <1>3 DEF Linked, Inside, CountedNodes, pool
<1>8. Chains'
  <2>1. Holds(Current, m_bucket_size, Linked, next, usr_data)
    BY <1>1, <1>2 DEF Chains
  <2>2. Current' = Current
    BY <1>2, <1>4 DEF Current, table
  <2> QED BY <1>2, <1>7, <2>1, <2>2 DEF Chains, table, node
<1>9. Map'
  BY <1>1, <1>2, <1>7, MapFrame DEF table, node, history
<1> QED BY <1>5, <1>6, <1>8, <1>9 DEF TableInv

\* A reader changes nothing of the table.
LEMMA ReaderLooks ==
  ASSUME (\E k \in Keys : Enter(k)) \/ Seek \/ Leave
  PROVE  UNCHANGED <<table, bucket, node, pool, writer, w, content>>
BY DEF Enter, Seek, Leave, ReaderMoves, ReadArray, ReadSize, ReadBucket, Compare,
       Follow, Use, history

LEMMA TableNext ==
  ASSUME TableInv, [Next]_vars
  PROVE  TableInv'
<1>1. ASSUME NEW size \in BucketSizes, NEW protect \in BOOLEAN, Create(size, protect)
      PROVE  TableInv'
  BY <1>1, CreateStep
<1>2. ASSUME NEW data \in UserData, Add(data) \/ Replace(data)
      PROVE  TableInv'
  BY <1>2, AddStep, ReplaceStep
<1>3. ASSUME NEW k \in Keys, Remove(k)
      PROVE  TableInv'
  BY <1>3, RemoveStep
<1>4. ASSUME NEW size \in BucketSizes, Rehash(size)
      PROVE  TableInv'
  BY <1>4, RehashStep
<1>5. CASE Release \/ Fill \/ Publish \/ Recycle
  BY <1>5, ReleaseStep, FillStep, PublishStep, RecycleStep
<1>6. CASE Detach \/ Link \/ Put \/ SwitchArray \/ SwitchSize \/ Delete
  BY <1>6, DetachStep, LinkStep, PutStep, SwitchArrayStep, SwitchSizeStep, DeleteStep
<1>7. CASE (\E k \in Keys : Enter(k)) \/ Seek \/ Leave
  BY <1>7, ReaderLooks, TableFrame
<1>8. CASE UNCHANGED vars
  BY <1>8, TableFrame DEF vars, history
<1> QED BY <1>1, <1>2, <1>3, <1>4, <1>5, <1>6, <1>7, <1>8 DEF Next, Writer

(***************************************************************************)
(* Whatever the writer is about, the chains are where the table looks for  *)
(* them and stand for its contents.                                        *)
(***************************************************************************)
THEOREM Inductive == Spec => []TableInv
<1>1. Init => TableInv
  BY InitTable
<1>2. TableInv /\ [Next]_vars => TableInv'
  BY TableNext
<1> QED BY <1>1, <1>2, PTL DEF Spec

-----------------------------------------------------------------------------
(* What follows for the table. *)

\* Between two calls the chains are the map.
LEMMA SoundAtRest == TableInv => ChainSound
<1> SUFFICES ASSUME TableInv, writer = "idle"
             PROVE  /\ \A pos \in DOMAIN Current :
                         /\ Chain(Current[pos])[NumNodes] = Null
                         /\ InChain(pos) = {n \in live : Position(KeyAt(n)) = pos}
                    /\ \A m, n \in live : KeyAt(m) = KeyAt(n) => m = n
                    /\ \A k \in Keys : {content[k]} \ {Absent} =
                         {usr_data[n] : n \in {m \in live : KeyAt(m) = k}}
                    /\ m_node_num = Cardinality(live)
  BY DEF ChainSound
<1>1. Typed /\ Writing /\ Chains /\ Map
  BY DEF TableInv
<1>2. Linked = live /\ Inside = live /\ CountedNodes = live /\ live \in SUBSET Nodes
  BY <1>1, AtRest DEF Typed
<1>3. Holds(Current, m_bucket_size, live, next, usr_data)
  BY <1>1, <1>2 DEF Chains
<1>4. ASSUME NEW pos \in DOMAIN Current
      PROVE  /\ Chain(Current[pos])[NumNodes] = Null
             /\ InChain(pos) = {n \in live : Position(KeyAt(n)) = pos}
  <2> DEFINE S == Of(live, m_bucket_size, pos, usr_data)
  <2>1. pos \in 0 .. m_bucket_size - 1
    BY <1>3, ArrayTyped
  <2>2. Chained(S, Current[pos], next)
    BY <1>3, <2>1 DEF Holds
  <2>3. S \in SUBSET Nodes
    BY <1>2 DEF Of
  <2>4. S = {n \in live : Position(KeyAt(n)) = pos}
    BY DEF Of, PlaceOf, Position, KeyAt
  <2> HIDE DEF S
  <2> QED BY <2>2, <2>3, <2>4, Walked DEF InChain
<1>5. ASSUME NEW k \in Keys
      PROVE  {content[k]} \ {Absent} = {usr_data[n] : n \in {m \in live : KeyAt(m) = k}}
  <2>1. ASSUME NEW n \in live, KeyAt(n) = k
        PROVE  usr_data[n] = content[k] /\ content[k] # Absent
    BY <1>1, <1>2, <2>1, Numbers DEF Map
  <2>2. ASSUME content[k] # Absent
        PROVE  \E n \in live : KeyAt(n) = k /\ usr_data[n] = content[k]
    BY <1>1, <1>2, <2>2 DEF Map
  <2> QED BY <2>1, <2>2
<1> QED BY <1>1, <1>2, <1>4, <1>5 DEF Map

(***************************************************************************)
(* Between two calls every chain ends, has the nodes in use of its         *)
(* position and no others, and the nodes have the contents of the table,   *)
(* each key once.                                                          *)
(***************************************************************************)
THEOREM ChainsSound == Spec => []ChainSound
BY Inductive, SoundAtRest, PTL

-----------------------------------------------------------------------------
(* The reader. *)

\* The writer does not move it, and adds at most an answer.
LEMMA WriterAlone ==
  ASSUME Typed, Writer
  PROVE  /\ reader' = reader /\ r' = r
         /\ \E data \in UserData \cup {Absent} : answers' \in {answers, answers \cup {data}}
<1>1. ASSUME NEW k, NEW data \in UserData \cup {Absent}, Content(k, data)
      PROVE  answers' \in {answers, answers \cup {data}}
  BY <1>1 DEF Content
<1>2. \E k : Content(k, Absent) \/ Content(k, w.data) \/ answers' = answers
  BY DEF Writer, Create, Add, Replace, Remove, Unlink, Release, Fill, Publish, Recycle,
         Rehash, Detach, Link, Put, SwitchArray, SwitchSize, Delete, history
<1>3. Absent \in UserData \cup {Absent} /\ w.data \in UserData \cup {Absent}
  BY DEF Typed
<1>4. reader' = reader /\ r' = r
  BY DEF Writer, Create, Add, Replace, Remove, Release, Fill, Publish, Recycle,
         Rehash, Detach, Link, Put, SwitchArray, SwitchSize, Delete, theReader
<1> QED BY <1>1, <1>2, <1>3, <1>4

LEMMA ReadTyped ==
  ASSUME Typed, NEW array \in Arrays, NEW pos
  PROVE  Read(array, pos) \in SUBSET Addresses
<1>1. bucket[array] \in {NoArray} \cup UNION {[0 .. s - 1 -> Addresses] : s \in 1 .. MaxBucketSize}
  BY DEF Typed, BucketArrays
<1>2. CASE bucket[array] = NoArray
  BY <1>2 DEF Read, NoArray
<1>3. CASE \E s \in 1 .. MaxBucketSize : bucket[array] \in [0 .. s - 1 -> Addresses]
  BY <1>3 DEF Read
<1> QED BY <1>1, <1>2, <1>3

LEMMA SeekTyped ==
  ASSUME Typed, ReaderTyped, Seek
  PROVE  ReaderTyped'
<1>1. answers' = answers
  BY DEF Seek, ReadArray, ReadSize, ReadBucket, Compare, Follow, Use, ReaderMoves, history
<1>2. CASE ReadArray
  BY <1>1, <1>2 DEF ReadArray, ReaderTyped, Typed
<1>3. CASE ReadSize
  BY <1>1, <1>3 DEF ReadSize, ReaderTyped, Typed
<1>4. ASSUME NEW v \in Addresses, Reach(v)
      PROVE  ReaderTyped'
  <2>1. v # Null => v \in Nodes
    BY Numbers
  <2>2. r' \in [key : Keys, size : 0 .. MaxBucketSize, array : Arrays,
                vptr : Addresses, found : UserData \cup {Absent}] /\ r'.vptr = v
    BY <1>4 DEF Reach, ReaderTyped
  <2>3. reader' = IF v = Null THEN "done" ELSE "node"
    BY <1>4 DEF Reach
  <2> QED BY <1>1, <2>1, <2>2, <2>3 DEF ReaderTyped
<1>5. CASE ReadBucket
  <2>1. r.array \in Arrays
    BY DEF ReaderTyped
  <2> QED BY <1>4, <1>5, <2>1, ReadTyped DEF ReadBucket
<1>6. CASE Compare
  BY <1>1, <1>6 DEF Compare, ReaderTyped
<1>7. CASE Follow
  <2>1. next[r.vptr] \in Addresses
    BY <1>7 DEF Follow, ReaderTyped, Typed
  <2> QED BY <1>4, <1>7, <2>1 DEF Follow
<1>8. CASE Use
  <2>1. usr_data[r.vptr] \in UserData \cup {Absent}
    BY <1>8 DEF Use, ReaderTyped, Typed
  <2> QED BY <1>1, <1>8, <2>1 DEF Use, ReaderTyped
<1> QED BY <1>2, <1>3, <1>5, <1>6, <1>7, <1>8 DEF Seek

\* Before it comes in and after it has gone.
LEMMA NoSeekTyped ==
  ASSUME NEW k \in Keys
  PROVE  [NoSeek EXCEPT !.key = k] \in
           [key : Keys, size : 0 .. MaxBucketSize, array : Arrays,
            vptr : Addresses, found : UserData \cup {Absent}]
<1>1. [NoSeek EXCEPT !.key = k] = [key |-> k, size |-> 0, array |-> 0, vptr |-> 0,
                                   found |-> Absent]
  BY DEF NoSeek
<1>2. 0 \in Arrays
  BY DEF Arrays
<1> QED BY <1>1, <1>2, Nothing

LEMMA ReaderNext ==
  ASSUME Typed, ReaderTyped, [Next]_vars
  PROVE  ReaderTyped'
<1>1. CASE Writer
  <2>1. answers' \in SUBSET (UserData \cup {Absent})
    BY <1>1, WriterAlone DEF ReaderTyped
  <2> QED BY <1>1, <2>1, WriterAlone DEF ReaderTyped
<1>2. ASSUME NEW k \in Keys, Enter(k)
      PROVE  ReaderTyped'
  <2>1. content[k] \in UserData \cup {Absent}
    BY DEF Typed
  <2> QED BY <1>2, <2>1, NoSeekTyped DEF Enter, ReaderTyped
<1>3. CASE Seek
  BY <1>3, SeekTyped
<1>4. CASE Leave
  <2>1. 0 \in Keys /\ [NoSeek EXCEPT !.key = 0] = NoSeek
    BY Numbers DEF Keys, NoSeek
  <2>2. NoSeek \in [key : Keys, size : 0 .. MaxBucketSize, array : Arrays,
                    vptr : Addresses, found : UserData \cup {Absent}]
    BY <2>1, NoSeekTyped
  <2> QED BY <1>4, <2>2 DEF Leave, ReaderTyped
<1>5. CASE UNCHANGED vars
  BY <1>5 DEF vars, theReader, history, ReaderTyped
<1> QED BY <1>1, <1>2, <1>3, <1>4, <1>5 DEF Next

LEMMA InitReader == Init => ReaderTyped
<1> SUFFICES ASSUME Init
             PROVE  ReaderTyped
  OBVIOUS
<1>1. 0 \in Keys /\ [NoSeek EXCEPT !.key = 0] = NoSeek
  BY Numbers DEF Keys, NoSeek
<1>2. NoSeek \in [key : Keys, size : 0 .. MaxBucketSize, array : Arrays,
                  vptr : Addresses, found : UserData \cup {Absent}]
  BY <1>1, NoSeekTyped
<1> QED BY <1>2 DEF Init, ReaderTyped

(***************************************************************************)
(* Every variable stays in its range, whatever readers and the writer do   *)
(* at the same time, and m_node_num never counts more nodes than there are.*)
(***************************************************************************)
THEOREM TypeCorrect == Spec => []TypeOK
<1>1. Init => TableInv /\ ReaderTyped
  BY InitTable, InitReader
<1>2. TableInv /\ ReaderTyped /\ [Next]_vars => (TableInv /\ ReaderTyped)'
  BY TableNext, ReaderNext DEF TableInv
<1>3. TableInv /\ ReaderTyped => TypeOK
  <2> SUFFICES ASSUME TableInv, ReaderTyped
               PROVE  TypeOK
    OBVIOUS
  <2>1. m_node_num \in 0 .. NumNodes
    <3>1. CountedNodes \in SUBSET Nodes
      BY DEF TableInv, Typed, CountedNodes
    <3> QED BY <3>1, SomeNodes, Numbers DEF TableInv, Map
  <2> QED BY <2>1 DEF TableInv, Typed, ReaderTyped, TypeOK, BucketArrays
<1> QED BY <1>1, <1>2, <1>3, PTL DEF Spec

\* The links lead from linked nodes to linked nodes.
LEMMA HoldsClosed ==
  ASSUME NEW array, NEW size, NEW S \in SUBSET Nodes, NEW link,
         NEW data \in [Nodes -> UserData \cup {Absent}],
         Holds(array, size, S, link, data), NEW x \in S
  PROVE  link[x] \in S \cup {0}
<1> DEFINE pos == PlaceOf(x, size, data)
           T == Of(S, size, pos, data)
           n == Cardinality(T)
<1>1. pos \in 0 .. size - 1
  BY PlaceTyped, ArrayTyped
<1>2. x \in T /\ T \in SUBSET S
  BY DEF Of
<1>3. IsFiniteSet(T) /\ n \in Nat /\ Chained(T, array[pos], link)
  BY <1>1, <1>2, SomeNodes DEF Holds
<1> HIDE DEF T
<1>4. PICK c \in [1 .. n -> T] :
        Enumerates(c, n, array[pos], link) /\ \A y \in T : \E i \in 1 .. n : c[i] = y
  BY <1>3, ChainOnto DEF Chained
<1>5. PICK i \in 1 .. n : c[i] = x
  BY <1>2, <1>4
<1>6. link[x] = IF i = 1 THEN 0 ELSE c[i - 1]
  BY <1>4, <1>5 DEF Enumerates
<1>7. i # 1 => i - 1 \in 1 .. n
  BY <1>3
<1> QED BY <1>2, <1>4, <1>6, <1>7

\* Links changed where nobody comes do not matter.
LEMMA AheadFrame ==
  ASSUME NEW X \in SUBSET Nodes, NEW link, NEW link2,
         \A x \in X : link[x] \in X \cup {0} /\ link2[x] = link[x],
         NEW v \in X, NEW m \in Nodes, Ahead(v, m, link)
  PROVE  Ahead(v, m, link2)
<1> SUFFICES ASSUME NEW Y \in SUBSET Addresses, v \in Y, \A y \in Y \ {Null} : link2[y] \in Y
             PROVE  m \in Y
  BY DEF Ahead
<1> DEFINE Z == (Y \cap X) \cup {0}
<1>1. 0 \notin Nodes /\ Addresses = Nodes \cup {0}
  BY Numbers
<1>2. Z \in SUBSET Addresses /\ v \in Z
  BY <1>1
<1>3. \A z \in Z \ {Null} : link[z] \in Z
  BY <1>1
<1>4. m \in Z
  BY <1>2, <1>3 DEF Ahead
<1> QED BY <1>1, <1>4

\* A node taken out from behind another: the others are still ahead.
LEMMA AheadUnlink ==
  ASSUME NEW X \in SUBSET Nodes, NEW n \in X, NEW link, NEW link2,
         \A x \in X : link[x] \in X \cup {0},
         \A x \in X : link2[x] = link[x] \/ (x # n /\ link[x] = n /\ link2[x] = link[n]),
         NEW v \in X, NEW m \in Nodes, m # n, Ahead(v, m, link)
  PROVE  Ahead(v, m, link2)
<1> SUFFICES ASSUME NEW Y \in SUBSET Addresses, v \in Y, \A y \in Y \ {Null} : link2[y] \in Y
             PROVE  m \in Y
  BY DEF Ahead
<1> DEFINE Z == (Y \cap X) \cup {0} \cup {z \in {n} : \E y \in Y \cap X : link[y] = n}
<1>1. 0 \notin Nodes /\ Addresses = Nodes \cup {0}
  BY Numbers
<1>2. Z \in SUBSET Addresses /\ v \in Z
  BY <1>1
<1>3. ASSUME NEW z \in Y \cap X
      PROVE  link[z] \in Z
  <2>1. z # 0 /\ link2[z] \in Y /\ link[z] \in X \cup {0}
    BY <1>1
  <2>2. CASE link2[z] = link[z]
    BY <2>1, <2>2
  <2>3. CASE link[z] = n
    BY <2>3
  <2> QED BY <2>2, <2>3
<1>4. ASSUME NEW y \in Y \cap X, link[y] = n
      PROVE  link[n] \in Z
  <2>1. y # 0 /\ link2[y] \in Y /\ link[n] \in X \cup {0}
    BY <1>1
  <2>2. CASE link2[y] = link[y]
    <3>1. n \in Y \cap X
      BY <1>4, <2>1, <2>2
    <3> QED BY <1>3, <3>1
  <2>3. CASE link2[y] = link[n]
    BY <2>1, <2>3
  <2> QED BY <2>2, <2>3
<1>5. \A z \in Z \ {Null} : link[z] \in Z
  BY <1>3, <1>4
<1> HIDE DEF Z
<1>6. m \in Z
  BY <1>2, <1>5 DEF Ahead
<1> QED BY <1>1, <1>6 DEF Z

\* What a reader inside makes sure of.
LEMMA SeekersApart ==
  ASSUME QuietRehash, Seeking, reader # "out", Writer
  PROVE  /\ m_protect_dirty /\ reader' = reader /\ r' = r
         /\ UNCHANGED <<m_bucket_size, m_p_hash_bucket, m_protect_dirty>>
         /\ writer' \in {"idle", "replace", "remove", "fill", "publish"}
         /\ \/ \E data \in UserData : Add(data) \/ Replace(data)
            \/ \E k \in Keys : Remove(k)
            \/ Release \/ Fill \/ Publish
<1>1. AtPlace
  BY DEF Seeking
<1>2. \/ \E data \in UserData : Add(data) \/ Replace(data)
      \/ \E k \in Keys : Remove(k)
      \/ Release \/ Fill \/ Publish
  BY <1>1 DEF Writer, AtPlace, Create, Recycle, Rehash, Detach, Link, Put, SwitchArray,
              SwitchSize, Delete, Moved
<1>3. ASSUME NEW data \in UserData, Add(data)
      PROVE  /\ m_protect_dirty /\ reader' = reader /\ r' = r
             /\ UNCHANGED <<m_bucket_size, m_p_hash_bucket, m_protect_dirty>>
             /\ writer' \in {"idle", "replace", "remove", "fill", "publish"}
  BY <1>3 DEF Add, Start, Apart, table, theReader
<1>4. ASSUME NEW data \in UserData, Replace(data)
      PROVE  /\ m_protect_dirty /\ reader' = reader /\ r' = r
             /\ UNCHANGED <<m_bucket_size, m_p_hash_bucket, m_protect_dirty>>
             /\ writer' \in {"idle", "replace", "remove", "fill", "publish"}
  BY <1>4 DEF Replace, Start, Apart, table, theReader
<1>5. ASSUME NEW k \in Keys, Remove(k)
      PROVE  /\ m_protect_dirty /\ reader' = reader /\ r' = r
             /\ UNCHANGED <<m_bucket_size, m_p_hash_bucket, m_protect_dirty>>
             /\ writer' \in {"idle", "replace", "remove", "fill", "publish"}
  BY <1>5 DEF Remove, Start, Apart, table, theReader
<1>6. CASE Release
  BY <1>1, <1>6 DEF AtPlace, Release, AfterRelease, theReader
<1>7. CASE Fill
  BY <1>1, <1>7 DEF AtPlace, Fill, table, theReader
<1>8. CASE Publish
  BY <1>1, <1>8 DEF AtPlace, Publish, theReader
<1> QED BY <1>2, <1>3, <1>4, <1>5, <1>6, <1>7, <1>8

\* Steps of the writer: where the reader is and what it knows.
LEMMA StillKnows ==
  ASSUME Seeking, reader # "out", m_protect_dirty, reader' = reader, r' = r,
         UNCHANGED <<m_bucket_size, m_p_hash_bucket, m_protect_dirty>>,
         writer' \in {"idle", "replace", "remove", "fill", "publish"},
         answers \subseteq answers', content'[r.key] \in answers',
         \A x \in (live \cup kept) \ {w.vptr} : usr_data'[x] = usr_data[x]
  PROVE  AtPlace' /\ Knows'
<1>1. AtPlace /\ Knows /\ Meets
  BY DEF Seeking
<1>2. AtPlace'
  BY <1>1 DEF AtPlace
<1>3. reader \in {"next", "use"} => usr_data'[r.vptr] = usr_data[r.vptr]
  BY <1>1 DEF Meets
<1>4. Knows'
  BY <1>1, <1>3 DEF Knows, KeyAt
<1> QED BY <1>2, <1>4

\* Steps that change nothing where a reader comes.
LEMMA SeekFrame ==
  ASSUME TableInv, Seeking, reader # "out", m_protect_dirty, reader' = reader, r' = r,
         UNCHANGED <<m_bucket_size, m_p_hash_bucket, m_protect_dirty>>,
         writer' \in {"idle", "replace", "remove", "fill", "publish"},
         content' = content, answers' = answers, Linked' = Linked,
         (live \cup kept) \ {w.vptr} \subseteq (live' \cup kept') \ {w'.vptr},
         \A x \in (live \cup kept) \ {w.vptr} : next'[x] = next[x] /\ usr_data'[x] = usr_data[x]
  PROVE  Seeking'
<1>1. AtPlace /\ Knows /\ Expects /\ Meets
  BY DEF Seeking
<1>2. AtPlace' /\ Knows'
  BY <1>1, StillKnows DEF Knows
<1>3. live \in SUBSET Nodes /\ kept \in SUBSET Nodes
  BY DEF TableInv, Typed
<1>4. PICK X \in SUBSET ((live \cup kept) \ {w.vptr}) :
        /\ Linked \subseteq X
        /\ Closed(X, next, usr_data, r.key, answers)
        /\ reader \in {"node", "next", "use"} => r.vptr \in X
  BY <1>1 DEF Meets
<1>5. Meets'
  <2>1. Closed(X, next', usr_data', r.key, answers)
    BY <1>4 DEF Closed
  <2> QED BY <1>4, <2>1 DEF Meets
<1>6. Expects'
  <2> SUFFICES ASSUME reader \in {"node", "next"}, Absent \notin answers
               PROVE  \E m \in Linked : KeyAt(m)' = r.key /\ Ahead(r.vptr, m, next')
    BY DEF Expects
  <2>1. PICK m \in Linked : KeyAt(m) = r.key /\ Ahead(r.vptr, m, next)
    BY <1>1 DEF Expects
  <2>2. m \in X /\ usr_data'[m] = usr_data[m]
    BY <1>4
  <2>3. Ahead(r.vptr, m, next')
    <3>1. X \in SUBSET Nodes /\ m \in Nodes /\ r.vptr \in X
      BY <1>3, <1>4, <2>2
    <3>2. ASSUME NEW x \in X
          PROVE  next[x] \in X \cup {0} /\ next'[x] = next[x]
      <4>1. x \in (live \cup kept) \ {w.vptr}
        BY <1>4
      <4> QED BY <1>4, <4>1 DEF Closed
    <3> QED BY <2>1, <3>1, <3>2, AheadFrame
  <2> QED BY <2>1, <2>2, <2>3 DEF KeyAt
<1> QED BY <1>2, <1>5, <1>6 DEF Seeking

LEMMA SeekAdd ==
  ASSUME TableInv, Seeking, reader # "out", m_protect_dirty, reader' = reader, r' = r,
         UNCHANGED <<m_bucket_size, m_p_hash_bucket, m_protect_dirty>>,
         writer' \in {"idle", "replace", "remove", "fill", "publish"},
         NEW data \in UserData, Add(data)
  PROVE  Seeking'
<1> DEFINE m == malloc
<1>1. Typed /\ Writing /\ writer = "idle" /\ FreeNodes # {}
  BY DEF TableInv, Add, Start
<1>2. m \in Nodes /\ m \notin live /\ m \notin kept /\ m # 0
  BY <1>1, MallocStep
<1>3. /\ live' = live \cup {m} /\ kept' = kept /\ w'.vptr = m /\ w'.old = 0
      /\ \A x \in Nodes \ {m} : next'[x] = next[x] /\ usr_data'[x] = usr_data[x]
      /\ content' = content /\ answers' = answers
  BY <1>1 DEF Add, FillNode, NoWork, Typed, history
<1>4. live \in SUBSET Nodes /\ kept \in SUBSET Nodes /\ Linked = live /\ w.vptr = 0
  BY <1>1, AtRest DEF Typed
<1>5. Linked' = Linked
  BY <1>2, <1>3, <1>4, Numbers DEF Linked
<1>6. (live \cup kept) \ {w.vptr} \subseteq (live' \cup kept') \ {w'.vptr}
  BY <1>2, <1>3
<1>7. \A x \in (live \cup kept) \ {w.vptr} : next'[x] = next[x] /\ usr_data'[x] = usr_data[x]
  BY <1>2, <1>3, <1>4
<1> QED BY <1>3, <1>5, <1>6, <1>7, SeekFrame

LEMMA SeekRelease ==
  ASSUME TableInv, Seeking, reader # "out", m_protect_dirty, reader' = reader, r' = r,
         UNCHANGED <<m_bucket_size, m_p_hash_bucket, m_protect_dirty>>,
         writer' \in {"idle", "replace", "remove", "fill", "publish"}, Release
  PROVE  Seeking'
<1>1. Typed /\ Writing /\ writer \in {"replace", "remove"}
  BY DEF TableInv, Release
<1>2. /\ w.old \in live /\ live' = live \ {w.old} /\ kept' = kept \cup {w.old}
      /\ UNCHANGED <<next, usr_data>> /\ content' = content /\ answers' = answers
  BY <1>1 DEF Release, Free, Writing, node, history
<1>3. w'.vptr = w.vptr /\ w'.old = 0
  <2>1. CASE writer = "replace"
    BY <1>1, <2>1 DEF Release, AfterRelease, Typed
  <2>2. CASE writer = "remove"
    BY <1>1, <2>2 DEF Release, AfterRelease, NoWork, Writing
  <2> QED BY <1>1, <2>1, <2>2
<1>4. 0 \notin live
  BY <1>1, Numbers DEF Typed
<1>5. Linked' = Linked
  BY <1>2, <1>3, <1>4 DEF Linked
<1>6. (live \cup kept) \ {w.vptr} \subseteq (live' \cup kept') \ {w'.vptr}
  BY <1>2, <1>3
<1>7. \A x \in (live \cup kept) \ {w.vptr} : next'[x] = next[x] /\ usr_data'[x] = usr_data[x]
  BY <1>2
<1> QED BY <1>2, <1>5, <1>6, <1>7, SeekFrame

LEMMA SeekFill ==
  ASSUME TableInv, Seeking, reader # "out", m_protect_dirty, reader' = reader, r' = r,
         UNCHANGED <<m_bucket_size, m_p_hash_bucket, m_protect_dirty>>,
         writer' \in {"idle", "replace", "remove", "fill", "publish"}, Fill
  PROVE  Seeking'
<1>1. Typed
  BY DEF TableInv
<1>2. /\ live' = live /\ kept' = kept /\ w' = w /\ content' = content /\ answers' = answers
      /\ \A x \in Nodes \ {w.vptr} : next'[x] = next[x] /\ usr_data'[x] = usr_data[x]
  BY <1>1 DEF Fill, FillNode, Typed, pool, history
<1>3. Linked' = Linked
  BY <1>2 DEF Linked
<1>4. \A x \in (live \cup kept) \ {w.vptr} : next'[x] = next[x] /\ usr_data'[x] = usr_data[x]
  BY <1>1, <1>2 DEF Typed
<1>5. (live \cup kept) \ {w.vptr} \subseteq (live' \cup kept') \ {w'.vptr}
  BY <1>2
<1> QED BY <1>2, <1>3, <1>4, <1>5, SeekFrame

\* A node is unlinked under the reader's feet: it is still a way to the others.
LEMMA SeekUnlink ==
  ASSUME TableInv, Seeking, reader # "out", m_protect_dirty, reader' = reader, r' = r,
         UNCHANGED <<m_bucket_size, m_p_hash_bucket, m_protect_dirty>>,
         writer' \in {"idle", "replace", "remove", "fill", "publish"},
         writer = "idle", NEW k \in Keys, Depths(k) # {}, Unlink(k),
         usr_data' = usr_data, kept' = kept, live \subseteq live',
         w'.vptr \notin live \cup kept, w'.old = ChainOf(k)[Min(Depths(k))],
         live' \subseteq live \cup {w'.vptr}
  PROVE  Seeking'
<1> DEFINE n == ChainOf(k)[Min(Depths(k))]
<1>1. Typed /\ Writing /\ Chains /\ AtPlace /\ Knows /\ Expects /\ Meets
  BY DEF TableInv, Seeking
<1>2. Linked = live /\ w.vptr = 0 /\ live \in SUBSET Nodes /\ kept \in SUBSET Nodes
  BY <1>1, AtRest DEF Typed
<1>3. Holds(Current, m_bucket_size, live, next, usr_data)
  BY <1>1, <1>2 DEF Chains
<1>4. /\ n \in live /\ KeyAt(n) = k /\ next[n] \in live \cup {0}
      /\ next' \in [Nodes -> Addresses]
      /\ \A x \in Nodes : \/ next'[x] = next[x]
                          \/ x \in live \ {n} /\ next[x] = n /\ next'[x] = next[n]
      /\ DOMAIN bucket' = Arrays /\ bucket'[Other] = bucket[Other]
      /\ Holds(bucket'[m_p_hash_bucket], m_bucket_size, live \ {n}, next', usr_data)
  BY <1>1, <1>2, <1>3, UnlinkStep
<1>5. w'.old = n
  OBVIOUS
<1> HIDE DEF n
<1>6. /\ content' = [content EXCEPT ![k] = Absent]
      /\ answers' = IF r.key = k THEN answers \cup {Absent} ELSE answers
  BY DEF Unlink, Content
<1>7. content'[r.key] \in answers' /\ answers \subseteq answers'
  <2>1. content \in [Keys -> UserData \cup {Absent}] /\ content[r.key] \in answers
    BY <1>1 DEF Typed, Knows
  <2>2. CASE r.key = k
    BY <1>6, <2>1, <2>2
  <2>3. CASE r.key # k
    BY <1>6, <2>1, <2>3
  <2> QED BY <2>2, <2>3
<1>8. AtPlace' /\ Knows'
  BY <1>7, StillKnows
<1>9. Linked' = live \ {n}
  BY <1>4, <1>5 DEF Linked
<1>10. PICK X \in SUBSET ((live \cup kept) \ {w.vptr}) :
         /\ Linked \subseteq X
         /\ Closed(X, next, usr_data, r.key, answers)
         /\ reader \in {"node", "next", "use"} => r.vptr \in X
  BY <1>1 DEF Meets
<1>11. X \in SUBSET Nodes /\ n \in X /\ \A x \in X : next[x] \in X \cup {0}
  BY <1>2, <1>4, <1>10 DEF Closed
<1>12. Meets'
  <2>1. Closed(X, next', usr_data', r.key, answers')
    BY <1>4, <1>7, <1>10, <1>11 DEF Closed
  <2>2. X \in SUBSET ((live' \cup kept') \ {w'.vptr}) /\ Linked' \subseteq X
    BY <1>2, <1>9, <1>10
  <2> QED BY <1>10, <2>1, <2>2 DEF Meets
<1>13. Expects'
  <2> SUFFICES ASSUME reader \in {"node", "next"}, Absent \notin answers'
               PROVE  \E m \in Linked' : KeyAt(m)' = r.key /\ Ahead(r.vptr, m, next')
    BY DEF Expects
  <2>1. r.key # k /\ Absent \notin answers
    BY <1>6
  <2>2. PICK m \in live : KeyAt(m) = r.key /\ Ahead(r.vptr, m, next)
    BY <1>1, <1>2, <2>1 DEF Expects
  <2>3. m # n /\ m \in Nodes /\ m \in Linked'
    BY <1>2, <1>4, <1>9, <2>1, <2>2
  <2>4. Ahead(r.vptr, m, next')
    <3>1. \A x \in X : next'[x] = next[x] \/ (x # n /\ next[x] = n /\ next'[x] = next[n])
      BY <1>4, <1>11
    <3>2. r.vptr \in X
      BY <1>10
    <3> QED BY <1>11, <2>2, <2>3, <3>1, <3>2, AheadUnlink
  <2> QED BY <2>2, <2>3, <2>4 DEF KeyAt
<1> QED BY <1>8, <1>12, <1>13 DEF Seeking

LEMMA SeekReplace ==
  ASSUME TableInv, Seeking, reader # "out", m_protect_dirty, reader' = reader, r' = r,
         UNCHANGED <<m_bucket_size, m_p_hash_bucket, m_protect_dirty>>,
         writer' \in {"idle", "replace", "remove", "fill", "publish"},
         NEW data \in UserData, Replace(data)
  PROVE  Seeking'
<1> DEFINE k == m_extract_key_func(data)
<1>1. k \in Keys /\ writer = "idle" /\ Depths(k) # {} /\ Unlink(k) /\ FreeNodes # {}
  BY KeyTyped DEF Replace, Start
<1>2. malloc \notin live /\ malloc \notin kept
  BY <1>1, MallocStep
<1>3. /\ usr_data' = usr_data /\ kept' = kept /\ live' = live \cup {malloc}
      /\ w'.vptr = malloc /\ w'.old = ChainOf(k)[Min(Depths(k))]
  BY DEF Replace, NoWork
<1> HIDE DEF k
<1> QED BY <1>1, <1>2, <1>3, SeekUnlink

LEMMA SeekRemove ==
  ASSUME TableInv, Seeking, reader # "out", m_protect_dirty, reader' = reader, r' = r,
         UNCHANGED <<m_bucket_size, m_p_hash_bucket, m_protect_dirty>>,
         writer' \in {"idle", "replace", "remove", "fill", "publish"},
         NEW k \in Keys, Remove(k)
  PROVE  Seeking'
<1>1. writer = "idle" /\ Depths(k) # {} /\ Unlink(k)
  BY DEF Remove, Start
<1>2. /\ usr_data' = usr_data /\ kept' = kept /\ live' = live
      /\ w'.vptr = 0 /\ w'.old = ChainOf(k)[Min(Depths(k))]
  BY DEF Remove, NoWork, pool
<1>3. 0 \notin live \cup kept
  BY Numbers DEF TableInv, Typed
<1> QED BY <1>1, <1>2, <1>3, SeekUnlink

LEMMA SeekPublish ==
  ASSUME TableInv, Seeking, reader # "out", m_protect_dirty, reader' = reader, r' = r,
         UNCHANGED <<m_bucket_size, m_p_hash_bucket, m_protect_dirty>>,
         writer' \in {"idle", "replace", "remove", "fill", "publish"}, Publish
  PROVE  Seeking'
<1> DEFINE k == m_extract_key_func(w.data)
           n == w.vptr
<1>1. Typed /\ Writing /\ Chains /\ AtPlace /\ Knows /\ Expects /\ Meets
  BY DEF TableInv, Seeking
<1>2. /\ writer = "publish" /\ w' = NoWork /\ content' = [content EXCEPT ![k] = w.data]
      /\ answers' = IF r.key = k THEN answers \cup {w.data} ELSE answers
      /\ UNCHANGED <<next, usr_data, live, kept>>
  BY DEF Publish, Content, node, pool
<1>3. /\ n \in live /\ live \in SUBSET Nodes /\ kept \in SUBSET Nodes /\ 0 \notin live
      /\ w.old = 0 /\ w.data \in UserData /\ usr_data[n] = w.data
      /\ next[n] = Current[Position(k)]
  BY <1>1, <1>2, Numbers DEF Writing, Typed
<1>4. Linked = live \ {n} /\ Linked' = live /\ w'.vptr = 0
  BY <1>2, <1>3 DEF Linked, NoWork
<1>5. k \in Keys /\ KeyAt(n) = k
  BY <1>3, KeyTyped DEF KeyAt
<1>6. next[n] \in Linked \cup {0}
  <2>1. Linked \in SUBSET Nodes
    BY <1>3, <1>4
  <2>2. Holds(Current, m_bucket_size, Linked, next, usr_data)
    BY <1>1, <1>2 DEF Chains
  <2>3. Position(k) \in 0 .. m_bucket_size - 1
    BY <1>5, <2>2, ArrayTyped, PositionTyped DEF Position
  <2> DEFINE head == Current[Position(k)]
  <2>4. CASE head # 0
    <3>1. /\ head \in Linked /\ PlaceOf(head, m_bucket_size, usr_data) = Position(k)
          /\ next[head] \in Linked \cup {0}
          /\ Holds([Current EXCEPT ![Position(k)] = next[head]], m_bucket_size,
                   Linked \ {head}, next, usr_data)
      BY <2>1, <2>2, <2>3, <2>4, HoldsPop
    <3> QED BY <1>3, <3>1
  <2> QED BY <1>3, <2>4
<1>7. content'[r.key] \in answers' /\ answers \subseteq answers'
  <2>1. content \in [Keys -> UserData \cup {Absent}] /\ content[r.key] \in answers
    BY <1>1 DEF Typed, Knows
  <2>2. CASE r.key = k
    BY <1>2, <1>5, <2>1, <2>2
  <2>3. CASE r.key # k
    BY <1>2, <2>1, <2>3
  <2> QED BY <2>2, <2>3
<1>8. KeyAt(n) = r.key => usr_data[n] \in answers'
  BY <1>2, <1>3, <1>5
<1> HIDE DEF k
<1>9. AtPlace' /\ Knows'
  BY <1>2, <1>7, StillKnows
<1>10. PICK X \in SUBSET ((live \cup kept) \ {w.vptr}) :
         /\ Linked \subseteq X
         /\ Closed(X, next, usr_data, r.key, answers)
         /\ reader \in {"node", "next", "use"} => r.vptr \in X
  BY <1>1 DEF Meets
<1> DEFINE Z == X \cup {n}
<1>11. Meets'
  <2>1. Closed(Z, next', usr_data', r.key, answers')
    BY <1>2, <1>6, <1>7, <1>8, <1>10 DEF Closed, KeyAt
  <2>2. Z \in SUBSET ((live' \cup kept') \ {w'.vptr}) /\ Linked' \subseteq Z
    <3>1. 0 \notin live \cup kept
      BY <1>3, Numbers
    <3> QED BY <1>2, <1>3, <1>4, <1>10, <3>1
  <2>3. reader \in {"node", "next", "use"} => r.vptr \in Z
    BY <1>10
  <2> HIDE DEF Z
  <2> QED BY <2>1, <2>2, <2>3 DEF Meets
<1>12. Expects'
  <2> SUFFICES ASSUME reader \in {"node", "next"}, Absent \notin answers
               PROVE  \E m \in live : KeyAt(m)' = r.key /\ Ahead(r.vptr, m, next')
    BY <1>4, <1>7 DEF Expects
  <2>1. PICK m \in Linked : KeyAt(m) = r.key /\ Ahead(r.vptr, m, next)
    BY <1>1 DEF Expects
  <2> QED BY <1>2, <1>4, <2>1 DEF KeyAt
<1> QED BY <1>9, <1>11, <1>12 DEF Seeking

\* Whatever the writer does.
LEMMA SeekWriter ==
  ASSUME QuietRehash, TableInv, Seeking, Writer
  PROVE  Seeking'
<1>1. CASE reader = "out"
  <2>1. reader' = reader
    BY WriterAlone DEF TableInv
  <2> QED BY <1>1, <2>1 DEF Seeking
<1>2. CASE reader # "out"
  <2>1. /\ m_protect_dirty /\ reader' = reader /\ r' = r
        /\ UNCHANGED <<m_bucket_size, m_p_hash_bucket, m_protect_dirty>>
        /\ writer' \in {"idle", "replace", "remove", "fill", "publish"}
    BY <1>2, SeekersApart
  <2>2. ASSUME NEW data \in UserData, Add(data)
        PROVE  Seeking'
    BY <1>2, <2>1, <2>2, SeekAdd
  <2>3. ASSUME NEW data \in UserData, Replace(data)
        PROVE  Seeking'
    BY <1>2, <2>1, <2>3, SeekReplace
  <2>4. ASSUME NEW k \in Keys, Remove(k)
        PROVE  Seeking'
    BY <1>2, <2>1, <2>4, SeekRemove
  <2>5. CASE Release \/ Fill \/ Publish
    BY <1>2, <2>1, <2>5, SeekRelease, SeekFill, SeekPublish
  <2> QED BY <1>2, <2>2, <2>3, <2>4, <2>5, SeekersApart
<1> QED BY <1>1, <1>2

-----------------------------------------------------------------------------
(* The steps of the reader. *)

\* Where the nodes are while a reader is inside.
LEMMA LinkedHeld ==
  ASSUME TableInv, writer \in {"idle", "replace", "remove", "fill", "publish"}
  PROVE  /\ Linked \in SUBSET Nodes /\ Inside = Linked
         /\ Holds(Current, m_bucket_size, Linked, next, usr_data)
         /\ Linked \in SUBSET ((live \cup kept) \ {w.vptr})
         /\ usr_data \in [Nodes -> UserData \cup {Absent}]
BY DEF TableInv, Chains, Typed, Linked, Inside

LEMMA SeekEnter ==
  ASSUME QuietRehash, TableInv, NEW k \in Keys, Enter(k)
  PROVE  Seeking'
<1>1. /\ m_protect_dirty \/ writer = "idle"
      /\ writer \in {"idle", "replace", "remove", "fill", "publish"}
      /\ reader' = "enter" /\ r' = [NoSeek EXCEPT !.key = k] /\ answers' = {content[k]}
      /\ UNCHANGED <<table, bucket, node, pool, writer, w, content>>
  BY DEF Enter, Rehashing, TableInv, Typed
<1>2. r'.key = k /\ r'.found = Absent
  BY <1>1 DEF NoSeek
<1>3. AtPlace' /\ Knows' /\ Expects'
  BY <1>1, <1>2 DEF AtPlace, Knows, Expects, table
<1>4. Meets'
  <2>1. Linked' = Linked /\ live' = live /\ kept' = kept /\ w' = w /\ next' = next
        /\ usr_data' = usr_data
    BY <1>1 DEF Linked, pool, node
  <2>2. \A x \in Linked : next[x] \in Linked \cup {0}
    BY <1>1, LinkedHeld, HoldsClosed
  <2>3. \A x \in Linked : KeyAt(x) = k => usr_data[x] \in answers'
    BY <1>1, LinkedHeld DEF TableInv, Map
  <2>4. Closed(Linked, next, usr_data, k, answers')
    BY <2>2, <2>3 DEF Closed, KeyAt
  <2>5. Linked \in SUBSET ((live \cup kept) \ {w.vptr})
    BY <1>1, LinkedHeld
  <2> QED BY <1>1, <1>2, <2>1, <2>4, <2>5 DEF Meets
<1> QED BY <1>3, <1>4 DEF Seeking

\* Steps of a reader inside: the rest of the world stands still.
LEMMA SeekMoves ==
  ASSUME Seeking, reader # "out", ReaderMoves, r'.key = r.key,
         reader' \in {"node", "next", "use"} =>
           \A X \in SUBSET ((live \cup kept) \ {w.vptr}) :
             /\ Linked \subseteq X
             /\ Closed(X, next, usr_data, r.key, answers)
             /\ reader \in {"node", "next", "use"} => r.vptr \in X
             => r'.vptr \in X
  PROVE  Meets'
<1>1. PICK X \in SUBSET ((live \cup kept) \ {w.vptr}) :
        /\ Linked \subseteq X
        /\ Closed(X, next, usr_data, r.key, answers)
        /\ reader \in {"node", "next", "use"} => r.vptr \in X
  BY DEF Seeking, Meets
<1>2. /\ Linked' = Linked /\ live' = live /\ kept' = kept /\ w' = w /\ next' = next
      /\ usr_data' = usr_data /\ answers' = answers
  BY DEF ReaderMoves, Linked, pool, node, history
<1>3. reader' \in {"node", "next", "use"} => r'.vptr \in X
  BY <1>1
<1> QED BY <1>1, <1>2, <1>3 DEF Meets

\* m_hash_func() and the first node of the chain.
LEMMA SeekBucket ==
  ASSUME TableInv, ReaderTyped, Seeking, ReadBucket
  PROVE  Seeking'
<1> DEFINE k == r.key
           pos == m_hash_func(k, m_bucket_size)
           head == Current[pos]
           S == Of(Linked, m_bucket_size, pos, usr_data)
<1>1. AtPlace /\ Knows /\ reader = "bucket" /\ ReaderMoves /\ k \in Keys
  BY DEF Seeking, ReadBucket, ReaderTyped
<1>2. /\ Linked \in SUBSET Nodes /\ Inside = Linked
      /\ Holds(Current, m_bucket_size, Linked, next, usr_data)
      /\ usr_data \in [Nodes -> UserData \cup {Absent}]
  BY <1>1, LinkedHeld DEF AtPlace
<1>3. /\ m_bucket_size \in 1 .. MaxBucketSize /\ pos \in 0 .. m_bucket_size - 1
      /\ Current \in [0 .. m_bucket_size - 1 -> Addresses]
  BY <1>1, <1>2, ArrayTyped, PositionTyped
<1>4. Reach(head)
  <2>1. r.size = m_bucket_size /\ r.array = m_p_hash_bucket
    BY <1>1 DEF AtPlace
  <2>2. Read(r.array, m_hash_func(r.key, r.size)) = {head}
    BY <1>3, <2>1 DEF Read, Current
  <2> QED BY <2>2 DEF ReadBucket
<1>5. r' = [r EXCEPT !.vptr = head] /\ reader' = IF head = 0 THEN "done" ELSE "node"
  BY <1>4 DEF Reach
<1>6. r'.key = k /\ r'.vptr = head /\ r'.found = Absent
  BY <1>1, <1>5 DEF Knows, ReaderTyped
<1>7. S \in SUBSET Linked /\ IsFiniteSet(S) /\ 0 \notin S /\ Chained(S, head, next)
  <2>1. S \in SUBSET Linked
    BY DEF Of
  <2> QED BY <1>2, <1>3, <2>1, SomeNodes DEF Holds
<1>8. ASSUME Absent \notin answers
      PROVE  \E m \in S : KeyAt(m) = k
  <2>1. content[k] # Absent
    BY <1>1, <1>8 DEF Knows
  <2>2. PICK m \in Linked : KeyAt(m) = k
    BY <1>1, <1>2, <2>1 DEF TableInv, Map
  <2> QED BY <2>2 DEF Of, PlaceOf, KeyAt
<1>9. head # 0 => head \in Linked
  <2>1. CASE head # 0
    <3>1. /\ head \in Linked /\ PlaceOf(head, m_bucket_size, usr_data) = pos
          /\ next[head] \in Linked \cup {0}
          /\ Holds([Current EXCEPT ![pos] = next[head]], m_bucket_size,
                   Linked \ {head}, next, usr_data)
      BY <1>2, <1>3, <2>1, HoldsPop
    <3> QED BY <3>1
  <2> QED BY <2>1
<1> HIDE DEF S, head, pos
<1>10. head = 0 => Absent \in answers
  BY <1>7, <1>8, ChainNull
<1>11. AtPlace'
  BY <1>1, <1>5 DEF AtPlace, ReaderMoves, table
<1>12. Knows'
  BY <1>1, <1>5, <1>6, <1>10 DEF Knows, ReaderMoves, history
<1>13. Expects'
  <2> SUFFICES ASSUME reader' \in {"node", "next"}, Absent \notin answers
               PROVE  \E m \in Linked' : KeyAt(m)' = k /\ Ahead(head, m, next')
    BY <1>1, <1>6 DEF Expects, ReaderMoves, history
  <2>1. Linked' = Linked /\ next' = next /\ usr_data' = usr_data
    BY <1>1 DEF ReaderMoves, Linked, pool, node
  <2>2. PICK m \in S : KeyAt(m) = k
    BY <1>8
  <2>3. Ahead(head, m, next)
    <3> SUFFICES ASSUME NEW Y \in SUBSET Addresses, head \in Y,
                        \A y \in Y \ {Null} : next[y] \in Y
                 PROVE  m \in Y
      BY DEF Ahead
    <3>1. S \subseteq Y
      BY <1>7, ChainFollowed
    <3> QED BY <3>1
  <2> QED BY <1>7, <2>1, <2>2, <2>3 DEF KeyAt
<1>14. Meets'
  <2>1. reader' \in {"node", "next", "use"} => r'.vptr \in Linked
    BY <1>5, <1>6, <1>9
  <2> QED BY <1>1, <1>6, <2>1, SeekMoves
<1> QED BY <1>11, <1>12, <1>13, <1>14 DEF Seeking

\* The key of the node is another: the node that is looked for is not this one.
LEMMA SeekFollow ==
  ASSUME TableInv, ReaderTyped, Seeking, Follow
  PROVE  Seeking'
<1> DEFINE v == r.vptr
           u == next[v]
<1>1. /\ AtPlace /\ Knows /\ Expects /\ reader = "next" /\ ReaderMoves
      /\ r' = [r EXCEPT !.vptr = u] /\ reader' = IF u = 0 THEN "done" ELSE "node"
  BY DEF Seeking, Follow, Reach
<1>2. r'.key = r.key /\ r'.vptr = u /\ r'.found = Absent
  BY <1>1 DEF Knows, ReaderTyped
<1>3. v \in Nodes /\ v \in Addresses /\ 0 \in Addresses
  BY <1>1, Nothing DEF ReaderTyped, Addresses
<1>4. ASSUME NEW m \in Linked, KeyAt(m) = r.key, Ahead(v, m, next)
      PROVE  m # v /\ m # 0 /\ u # 0 /\ Ahead(u, m, next)
  <2>1. m # v /\ m # 0
    BY <1>1, <1>4, Numbers DEF Knows, Linked, TableInv, Typed
  <2>2. u # 0
    <3> SUFFICES ASSUME u = 0
                 PROVE  FALSE
      OBVIOUS
    <3>1. m \in {v, 0}
      BY <1>3, <1>4 DEF Ahead
    <3> QED BY <2>1, <3>1
  <2>3. Ahead(u, m, next)
    <3> SUFFICES ASSUME NEW Y \in SUBSET Addresses, u \in Y,
                        \A y \in Y \ {Null} : next[y] \in Y
                 PROVE  m \in Y
      BY DEF Ahead
    <3> DEFINE Z == Y \cup {v}
    <3>1. Z \in SUBSET Addresses /\ v \in Z /\ \A z \in Z \ {Null} : next[z] \in Z
      BY <1>3
    <3>2. m \in Z
      BY <1>4, <3>1 DEF Ahead
    <3> QED BY <2>1, <3>2
  <2> QED BY <2>1, <2>2, <2>3
<1>5. u = 0 => Absent \in answers
  BY <1>1, <1>4 DEF Expects
<1>6. AtPlace'
  BY <1>1 DEF AtPlace, ReaderMoves, table
<1>7. Knows'
  BY <1>1, <1>2, <1>5 DEF Knows, ReaderMoves, history
<1>8. Expects'
  <2> SUFFICES ASSUME Absent \notin answers
               PROVE  \E m \in Linked' : KeyAt(m)' = r.key /\ Ahead(u, m, next')
    BY <1>1, <1>2 DEF Expects, ReaderMoves, history
  <2>1. Linked' = Linked /\ next' = next /\ usr_data' = usr_data
    BY <1>1 DEF ReaderMoves, Linked, pool, node
  <2>2. PICK m \in Linked : KeyAt(m) = r.key /\ Ahead(v, m, next)
    BY <1>1 DEF Expects
  <2>3. Ahead(u, m, next)
    BY <1>4, <2>2
  <2> QED BY <2>1, <2>2, <2>3 DEF KeyAt
<1>9. Meets'
  <2>1. ASSUME NEW X, Closed(X, next, usr_data, r.key, answers), v \in X, u # 0
        PROVE  u \in X
    BY <2>1 DEF Closed
  <2> HIDE DEF u, v
  <2>2. reader' \in {"node", "next", "use"} => u # 0
    BY <1>1
  <2> QED BY <1>1, <1>2, <2>1, <2>2, SeekMoves DEF v
<1> QED BY <1>6, <1>7, <1>8, <1>9 DEF Seeking

LEMMA SeekCompare ==
  ASSUME TableInv, Seeking, Compare
  PROVE  Seeking'
<1>1. /\ AtPlace /\ Knows /\ Expects /\ reader = "node" /\ ReaderMoves /\ r' = r
      /\ reader' = IF KeyAt(r.vptr) = r.key THEN "use" ELSE "next"
  BY DEF Seeking, Compare
<1>2. Linked' = Linked /\ next' = next /\ usr_data' = usr_data /\ answers' = answers
  BY <1>1 DEF ReaderMoves, Linked, pool, node, history
<1>3. AtPlace'
  BY <1>1 DEF AtPlace, ReaderMoves, table
<1>4. Knows'
  BY <1>1, <1>2 DEF Knows, ReaderMoves, history, KeyAt
<1>5. Expects'
  BY <1>1, <1>2 DEF Expects, KeyAt
<1>6. Meets'
  BY <1>1, SeekMoves
<1> QED BY <1>3, <1>4, <1>5, <1>6 DEF Seeking

LEMMA SeekUse ==
  ASSUME TableInv, ReaderTyped, Seeking, Use
  PROVE  Seeking'
<1>1. /\ AtPlace /\ Knows /\ Meets /\ reader = "use" /\ ReaderMoves
      /\ r' = [r EXCEPT !.found = usr_data[r.vptr]] /\ reader' = "done"
  BY DEF Seeking, Use
<1>2. r'.key = r.key /\ r'.found = usr_data[r.vptr]
  BY <1>1 DEF ReaderTyped
<1>3. usr_data[r.vptr] \in answers
  BY <1>1 DEF Meets, Knows, Closed, KeyAt
<1>4. AtPlace'
  BY <1>1 DEF AtPlace, ReaderMoves, table
<1>5. Knows' /\ Expects'
  BY <1>1, <1>2, <1>3 DEF Knows, Expects, ReaderMoves, history
<1>6. Meets'
  BY <1>1, <1>2, SeekMoves
<1> QED BY <1>4, <1>5, <1>6 DEF Seeking

LEMMA SeekReads ==
  ASSUME TableInv, ReaderTyped, Seeking, ReadArray \/ ReadSize
  PROVE  Seeking'
<1>1. AtPlace /\ Knows /\ Expects /\ ReaderMoves
      /\ reader \in {"enter", "array", "size"} /\ reader' \in {"array", "size", "bucket"}
  BY DEF Seeking, ReadArray, ReadSize
<1>2. r'.key = r.key /\ r'.found = r.found
  BY DEF ReaderTyped, ReadArray, ReadSize
<1>3. AtPlace'
  <2>1. CASE ReadArray
    <3>1. r'.array = m_p_hash_bucket /\ r'.size = r.size
      BY <2>1 DEF ReadArray, ReaderTyped
    <3> QED BY <1>1, <2>1, <3>1 DEF AtPlace, ReadArray, ReaderMoves, table
  <2>2. CASE ReadSize
    <3>1. r'.size = m_bucket_size /\ r'.array = r.array
      BY <2>2 DEF ReadSize, ReaderTyped
    <3> QED BY <1>1, <2>2, <3>1 DEF AtPlace, ReadSize, ReaderMoves, table
  <2> QED BY <2>1, <2>2
<1>4. Knows' /\ Expects'
  BY <1>1, <1>2 DEF Knows, Expects, ReaderMoves, history
<1>5. Meets'
  BY <1>1, <1>2, SeekMoves
<1> QED BY <1>3, <1>4, <1>5 DEF Seeking

LEMMA SeekNext ==
  ASSUME QuietRehash, TableInv, ReaderTyped, Seeking, [Next]_vars
  PROVE  Seeking'
<1>1. CASE Writer
  BY <1>1, SeekWriter
<1>2. ASSUME NEW k \in Keys, Enter(k)
      PROVE  Seeking'
  BY <1>2, SeekEnter
<1>3. CASE Seek
  BY <1>3, SeekReads, SeekBucket, SeekCompare, SeekFollow, SeekUse DEF Seek
<1>4. CASE Leave
  BY <1>4 DEF Leave, Seeking
<1>5. CASE UNCHANGED vars
  <2>1. /\ Linked' = Linked /\ live' = live /\ kept' = kept /\ w' = w /\ next' = next
        /\ usr_data' = usr_data /\ answers' = answers /\ reader' = reader /\ r' = r
        /\ content' = content /\ writer' = writer /\ UNCHANGED table
    BY <1>5 DEF vars, theReader, history, node, pool, Linked
  <2>2. AtPlace' = AtPlace /\ Knows' = Knows /\ Expects' = Expects /\ Meets' = Meets
    BY <2>1 DEF AtPlace, Knows, Expects, Meets, table, KeyAt
  <2> QED BY <2>1, <2>2 DEF Seeking
<1> QED BY <1>1, <1>2, <1>3, <1>4, <1>5 DEF Next

(***************************************************************************)
(* While nobody rehashes, a reader without a lock gets an answer that was  *)
(* right at some moment since it came, whatever the writer adds, replaces  *)
(* and removes meanwhile, and never is at a node that may be given out     *)
(* again.                                                                  *)
(***************************************************************************)
THEOREM SeeksSound ==
  ASSUME QuietRehash
  PROVE  Spec => []SeekSound
<1>1. Init => TableInv /\ ReaderTyped /\ Seeking
  BY InitTable, InitReader DEF Init, Seeking
<1>2. TableInv /\ ReaderTyped /\ Seeking /\ [Next]_vars => (TableInv /\ ReaderTyped /\ Seeking)'
  BY TableNext, ReaderNext, SeekNext DEF TableInv
<1>3. TableInv /\ ReaderTyped /\ Seeking => SeekSound
  BY DEF Seeking, Knows, Meets, SeekSound
<1> QED BY <1>1, <1>2, <1>3, PTL DEF Spec

-----------------------------------------------------------------------------
(* Iterations. *)

\* The table while nobody changes it.
Still ==
  /\ Typed /\ live \in SUBSET Nodes
  /\ Holds(Current, m_bucket_size, live, next, usr_data)

\* The first node from a position on.
LEMMA FirstStands ==
  ASSUME Still, NEW pos \in 0 .. m_bucket_size
  PROVE  Stands(At(FirstFrom(pos)), From(pos))
<1> DEFINE size == m_bucket_size
           full == {i \in Full(m_p_hash_bucket) : i >= pos}
<1>1. /\ size \in 1 .. MaxBucketSize /\ Current \in [0 .. size - 1 -> Addresses]
      /\ Full(m_p_hash_bucket) = {i \in 0 .. size - 1 : Current[i] # 0}
      /\ usr_data \in [Nodes -> UserData \cup {Absent}]
  BY ArrayTyped DEF Still, Full, Current, Typed
<1>2. ASSUME NEW i \in 0 .. size - 1, Current[i] = 0
      PROVE  Of(live, size, i, usr_data) = {}
  <2> DEFINE T == Of(live, size, i, usr_data)
  <2>1. T \in SUBSET Nodes /\ Chained(T, 0, next)
    BY <1>2 DEF Still, Holds, Of
  <2> HIDE DEF T
  <2>2. T = {}
    BY <2>1, SomeNodes, ChainNull
  <2> QED BY <2>2 DEF T
<1>3. \A n \in live : PlaceOf(n, size, usr_data) \in 0 .. size - 1
  BY <1>1, PlaceTyped DEF Still
<1>4. CASE full = {}
  <2>1. At(FirstFrom(pos)) = EndIterator
    BY <1>4 DEF FirstFrom, At, EndIterator
  <2>2. From(pos) = {}
    <3> SUFFICES ASSUME NEW n \in live, PlaceOf(n, size, usr_data) >= pos
                 PROVE  FALSE
      BY DEF From
    <3> DEFINE i == PlaceOf(n, size, usr_data)
    <3>1. i \in 0 .. size - 1 /\ i >= pos
      BY <1>3
    <3>2. Current[i] = 0
      BY <1>1, <1>4, <3>1
    <3>3. n \in Of(live, size, i, usr_data)
      BY DEF Of
    <3> HIDE DEF i
    <3> QED BY <1>2, <3>1, <3>2, <3>3
  <2> QED BY <2>1, <2>2 DEF Stands
<1>5. CASE full # {}
  <2> DEFINE q == Min(full)
             v == Current[q]
             T == Of(live, size, q, usr_data)
  <2>1. q \in full /\ \A i \in full : q <= i
    <3>1. full \in SUBSET Nat
      BY <1>1
    <3> HIDE DEF full
    <3> QED BY <1>5, <3>1, LeastNumber
  <2>2. q \in 0 .. size - 1 /\ q >= pos /\ v # 0
    BY <1>1, <2>1
  <2>3. At(FirstFrom(pos)) = [bucket_pos |-> q, vptr |-> v]
    <3>1. FirstFrom(pos) = q
      BY <1>5 DEF FirstFrom
    <3> HIDE DEF q
    <3> QED BY <1>1, <2>2, <3>1 DEF At
  <2>4. \A i \in 0 .. size - 1 : i >= pos /\ i < q => Current[i] = 0
    <3> SUFFICES ASSUME NEW i \in 0 .. size - 1, i >= pos, i < q, Current[i] # 0
                 PROVE  FALSE
      OBVIOUS
    <3>1. i \in full
      BY <1>1
    <3> HIDE DEF full
    <3> QED BY <2>1, <2>2, <3>1
  <2> HIDE DEF q
  <2>5. v \in T /\ Chained(T, v, next)
    <3>1. Chained(T, v, next) /\ T \in SUBSET live
      BY <2>2 DEF Still, Holds, Of
    <3>2. IsFiniteSet(T) /\ 0 \notin T
      BY <3>1, SomeNodes DEF Still
    <3> HIDE DEF T
    <3> QED BY <2>2, <3>1, <3>2, ChainPop
  <2>6. From(pos) = T \cup From(q + 1)
    <3>1. ASSUME NEW n \in live, PlaceOf(n, size, usr_data) >= pos
          PROVE  PlaceOf(n, size, usr_data) >= q
      <4> DEFINE i == PlaceOf(n, size, usr_data)
      <4>1. i \in 0 .. size - 1 /\ n \in Of(live, size, i, usr_data)
        BY <1>3 DEF Of
      <4> HIDE DEF i
      <4>2. Current[i] # 0
        BY <1>2, <4>1
      <4> QED BY <2>2, <2>4, <3>1, <4>1, <4>2 DEF i
    <3>2. ASSUME NEW n \in live
          PROVE  PlaceOf(n, size, usr_data) >= q <=>
                   PlaceOf(n, size, usr_data) = q \/ PlaceOf(n, size, usr_data) >= q + 1
      BY <1>3, <2>2
    <3>3. ASSUME NEW n \in live, PlaceOf(n, size, usr_data) >= q
          PROVE  PlaceOf(n, size, usr_data) >= pos
      BY <1>3, <2>2, <3>3
    <3> QED BY <3>1, <3>2, <3>3 DEF From, Of
  <2> QED BY <2>2, <2>3, <2>5, <2>6 DEF Stands
<1> QED BY <1>4, <1>5

\* operator++ leaves the node behind, and no other.
LEMMA NextStands ==
  ASSUME Still, NEW it, NEW Left, Left # {}, Stands(it, Left)
  PROVE  it.vptr \in Left /\ it.vptr \in live /\ Stands(get_next(it), Left \ {it.vptr})
<1>1. PICK pos \in 0 .. m_bucket_size - 1 :
        \E T \in SUBSET Of(live, m_bucket_size, pos, usr_data) :
          \E v \in T : /\ it = [bucket_pos |-> pos, vptr |-> v]
                       /\ Chained(T, v, next)
                       /\ Left = T \cup From(pos + 1)
  BY DEF Stands
<1>2. PICK T \in SUBSET Of(live, m_bucket_size, pos, usr_data) :
        \E v \in T : /\ it = [bucket_pos |-> pos, vptr |-> v]
                     /\ Chained(T, v, next)
                     /\ Left = T \cup From(pos + 1)
  BY <1>1
<1>3. PICK v \in T : /\ it = [bucket_pos |-> pos, vptr |-> v]
                     /\ Chained(T, v, next)
                     /\ Left = T \cup From(pos + 1)
  BY <1>2
<1>4. it.vptr = v /\ it.bucket_pos = pos
  BY <1>3
<1>5. m_bucket_size \in Nat /\ pos + 1 \in 0 .. m_bucket_size
  BY Numbers DEF Still, Holds
<1>6. T \in SUBSET live /\ v \notin From(pos + 1)
  <2>1. \A n \in T : n \in live /\ PlaceOf(n, m_bucket_size, usr_data) = pos
    BY DEF Of
  <2>2. ~(pos >= pos + 1)
    OBVIOUS
  <2> QED BY <2>1, <2>2 DEF From
<1>7. IsFiniteSet(T) /\ 0 \notin T
  BY <1>6, SomeNodes DEF Still
<1>8. next[v] \in (T \ {v}) \cup {0} /\ Chained(T \ {v}, next[v], next)
  <2>1. v # 0
    BY <1>7
  <2> QED BY <1>3, <1>7, <2>1, ChainPop
<1>9. Left \ {v} = (T \ {v}) \cup From(pos + 1)
  BY <1>3, <1>6
<1>10. CASE next[v] # Null
  <2>1. get_next(it) = [bucket_pos |-> pos, vptr |-> next[v]]
    BY <1>3, <1>4, <1>10 DEF get_next
  <2>2. T \ {v} \in SUBSET Of(live, m_bucket_size, pos, usr_data) /\ next[v] \in T \ {v}
    BY <1>8, <1>10
  <2>3. Stands(get_next(it), Left \ {v})
    BY <1>8, <1>9, <2>1, <2>2 DEF Stands
  <2> QED BY <1>3, <1>4, <1>6, <2>3
<1>11. CASE next[v] = Null
  <2>1. get_next(it) = At(FirstFrom(pos + 1))
    BY <1>4, <1>11 DEF get_next
  <2>2. T \ {v} = {}
    <3>1. T \ {v} \in SUBSET T /\ IsFiniteSet(T \ {v}) /\ 0 \notin T \ {v}
      BY <1>7, FS_Subset
    <3> QED BY <1>8, <1>11, <3>1, ChainNull
  <2>3. Stands(get_next(it), From(pos + 1))
    BY <1>5, <2>1, FirstStands
  <2> QED BY <1>3, <1>4, <1>6, <1>9, <2>2, <2>3
<1> QED BY <1>10, <1>11

\* The iterator is where the steps before brought it.
LEMMA Iterates ==
  ASSUME NEW n \in 0 .. NumNodes
  PROVE  Iteration[n] = IF n = 0 THEN At(FirstFrom(0))
                        ELSE IF Iteration[n - 1].vptr = Null THEN Iteration[n - 1]
                        ELSE get_next(Iteration[n - 1])
<1> DEFINE After(it) == IF it.vptr = Null THEN it ELSE get_next(it)
           Goes(f, m) == f = [i \in 0 .. m |-> IF i = 0 THEN At(FirstFrom(0))
                                               ELSE After(f[i - 1])]
           G == {m \in Nat : \E f : Goes(f, m)}
<1>1. NumNodes \in Nat
  BY Numbers
<1>2. 0 \in G
  <2> DEFINE f == [i \in 0 .. 0 |-> At(FirstFrom(0))]
  <2>1. Goes(f, 0)
    <3>1. \A i \in 0 .. 0 : i = 0
      OBVIOUS
    <3> QED BY <3>1
  <2> QED BY <2>1
<1>3. ASSUME NEW m \in G
      PROVE  m + 1 \in G
  <2>1. PICK f : Goes(f, m)
    OBVIOUS
  <2> HIDE DEF After
  <2> DEFINE g == [i \in 0 .. m + 1 |-> IF i = m + 1 THEN After(f[m]) ELSE f[i]]
  <2>2. \A i \in 0 .. m : g[i] = f[i] /\ i \in 0 .. m + 1
    OBVIOUS
  <2>3. ASSUME NEW i \in 0 .. m + 1
        PROVE  g[i] = IF i = 0 THEN At(FirstFrom(0)) ELSE After(g[i - 1])
    <3>1. CASE i = m + 1
      <4>1. i # 0 /\ i - 1 = m /\ m \in 0 .. m /\ g[i] = After(f[m])
        BY <3>1
      <4> QED BY <2>2, <4>1
    <3>2. CASE i # m + 1 /\ i # 0
      <4>1. i \in 0 .. m /\ i - 1 \in 0 .. m
        BY <3>2
      <4> QED BY <2>1, <2>2, <3>2, <4>1
    <3>3. CASE i = 0
      <4>1. 0 \in 0 .. m
        OBVIOUS
      <4> QED BY <2>1, <2>2, <3>3, <4>1
    <3> QED BY <3>1, <3>2, <3>3
  <2>4. Goes(g, m + 1)
    <3>1. g = [i \in 0 .. m + 1 |-> g[i]]
      OBVIOUS
    <3> HIDE DEF g
    <3> QED BY <2>3, <3>1
  <2> HIDE DEF Goes
  <2> QED BY <2>4
<1>4. NumNodes \in G
  <2>1. G \in SUBSET Nat
    OBVIOUS
  <2> HIDE DEF G
  <2> QED BY <1>1, <1>2, <1>3, <2>1, NumberInduction
<1> DEFINE it == CHOOSE f : Goes(f, NumNodes)
<1>5. Iteration = it
  BY DEF Iteration
<1>6. Goes(it, NumNodes)
  <2> HIDE DEF Goes
  <2> QED BY <1>4
<1> HIDE DEF it
<1> QED BY <1>5, <1>6

\* After n steps n nodes are behind the iterator, and the others before it.
LEMMA Halfway ==
  ASSUME Still, NEW n \in Nat, n <= Cardinality(live)
  PROVE  \E Left \in SUBSET live :
           /\ Cardinality(Left) = Cardinality(live) - n
           /\ {Iteration[i].vptr : i \in 0 .. n - 1} = live \ Left
           /\ Stands(Iteration[n], Left)
<1> DEFINE count == Cardinality(live)
           Goes(m, Left) == /\ Cardinality(Left) = count - m
                            /\ {Iteration[i].vptr : i \in 0 .. m - 1} = live \ Left
                            /\ Stands(Iteration[m], Left)
           G == {m \in Nat : m <= count => \E Left \in SUBSET live : Goes(m, Left)}
<1>1. count \in Nat /\ count <= NumNodes /\ NumNodes \in Nat /\ IsFiniteSet(live)
  BY SomeNodes, Numbers DEF Still
<1> HIDE DEF count
<1>2. 0 \in G
  <2>1. Iteration[0] = At(FirstFrom(0))
    BY <1>1, Iterates
  <2>2. From(0) = live
    <3>1. usr_data \in [Nodes -> UserData \cup {Absent}] /\ m_bucket_size \in 1 .. MaxBucketSize
      BY ArrayTyped DEF Still, Typed
    <3>2. \A x \in live : PlaceOf(x, m_bucket_size, usr_data) >= 0
      BY <3>1, PlaceTyped DEF Still
    <3> QED BY <3>2 DEF From
  <2>3. 0 \in 0 .. m_bucket_size
    BY Numbers DEF Still, Holds
  <2>4. Stands(Iteration[0], live)
    BY <2>1, <2>2, <2>3, FirstStands
  <2>5. {Iteration[i].vptr : i \in 0 .. 0 - 1} = live \ live
    <3>1. 0 .. 0 - 1 = {}
      OBVIOUS
    <3> QED BY <3>1
  <2>6. Cardinality(live) = count - 0
    BY <1>1 DEF count
  <2> QED BY <2>4, <2>5, <2>6
<1>3. ASSUME NEW m \in G
      PROVE  m + 1 \in G
  <2> SUFFICES ASSUME m + 1 <= count
               PROVE  \E Left \in SUBSET live : Goes(m + 1, Left)
    OBVIOUS
  <2>1. PICK Left \in SUBSET live : Goes(m, Left)
    BY <1>1
  <2> DEFINE it == Iteration[m]
             v == it.vptr
             Rest == Left \ {v}
  <2>2. IsFiniteSet(Left) /\ Left # {}
    <3>1. IsFiniteSet(Left)
      BY <1>1, FS_Subset
    <3>2. count - m # 0
      BY <1>1
    <3> QED BY <2>1, <3>1, <3>2, FS_EmptySet
  <2>3. v \in Left /\ v \in live /\ Stands(get_next(it), Rest)
    BY <2>1, <2>2, NextStands
  <2>4. Iteration[m + 1] = get_next(it)
    <3>1. m + 1 \in 0 .. NumNodes /\ m + 1 # 0 /\ (m + 1) - 1 = m
      BY <1>1
    <3>2. v # Null
      BY <2>3, Numbers DEF Still
    <3> QED BY <3>1, <3>2, Iterates
  <2>5. Cardinality(Rest) = count - (m + 1)
    <3> HIDE DEF v
    <3>1. Cardinality(Rest) = Cardinality(Left) - 1
      BY <2>2, <2>3, FS_RemoveElement
    <3> QED BY <1>1, <2>1, <3>1
  <2>6. {Iteration[i].vptr : i \in 0 .. (m + 1) - 1} = live \ Rest
    <3>1. 0 .. (m + 1) - 1 = (0 .. m - 1) \cup {m}
      OBVIOUS
    <3>2. {Iteration[i].vptr : i \in 0 .. (m + 1) - 1} =
            {Iteration[i].vptr : i \in 0 .. m - 1} \cup {v}
      BY <3>1
    <3> HIDE DEF v
    <3> QED BY <2>1, <2>3, <3>2
  <2> HIDE DEF Rest
  <2>7. Goes(m + 1, Rest) /\ Rest \in SUBSET live
    BY <2>3, <2>4, <2>5, <2>6 DEF Rest
  <2> QED BY <2>7
<1>4. n \in G
  <2>1. G \in SUBSET Nat
    OBVIOUS
  <2> HIDE DEF G
  <2> QED BY <1>2, <1>3, <2>1, NumberInduction
<1> QED BY <1>4 DEF count

(***************************************************************************)
(* Between two calls begin() and operator++ go through every node in use,  *)
(* once each, and then are at end(), however the keys are spread.          *)
(***************************************************************************)
THEOREM IterationsComplete == Spec => []IterationComplete
<1>1. ASSUME TableInv
      PROVE  IterationComplete
  <2> SUFFICES ASSUME writer = "idle"
               PROVE  LET count == Cardinality(live)
                      IN  /\ {Iteration[n].vptr : n \in 0 .. count - 1} \ {Null} = live
                          /\ Iteration[count] = EndIterator
    BY DEF IterationComplete
  <2> DEFINE count == Cardinality(live)
  <2>1. Typed /\ Writing /\ Chains
    BY <1>1 DEF TableInv
  <2>2. Linked = live /\ live \in SUBSET Nodes /\ 0 \notin live
    BY <2>1, AtRest, Numbers DEF Typed
  <2>3. Still
    BY <2>1, <2>2 DEF Still, Chains
  <2>4. count \in Nat /\ IsFiniteSet(live)
    BY <2>2, SomeNodes
  <2>5. PICK Left \in SUBSET live :
          /\ Cardinality(Left) = count - count
          /\ {Iteration[i].vptr : i \in 0 .. count - 1} = live \ Left
          /\ Stands(Iteration[count], Left)
    <3>1. count <= Cardinality(live)
      BY <2>4
    <3> QED BY <2>3, <2>4, <3>1, Halfway
  <2>6. Left = {}
    <3>1. IsFiniteSet(Left) /\ Cardinality(Left) = 0
      BY <2>4, <2>5, FS_Subset
    <3> QED BY <3>1, FS_EmptySet
  <2>7. {Iteration[n].vptr : n \in 0 .. count - 1} \ {Null} = live
    BY <2>2, <2>5, <2>6
  <2>8. Iteration[count] = EndIterator
    BY <2>5, <2>6 DEF Stands
  <2> QED BY <2>7, <2>8
<1> QED BY <1>1, Inductive, PTL
=============================================================================
