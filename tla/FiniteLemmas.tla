---------------------------- MODULE FiniteLemmas ----------------------------
(***************************************************************************)
(* What more than one proof needs of finite sets (induction, the largest   *)
(* and the smallest element, sums) and of chains of linked items.          *)
(***************************************************************************)
EXTENDS Integers, FiniteSets, FiniteSetsExt, FiniteSetTheorems, WellFoundedInduction, TLAPS

\* g gives the sum of f over each subset of S, whatever order it is added up in.
Adds(f, S, g) ==
  /\ g \in [SUBSET S -> Int]
  /\ g[{}] = 0
  /\ \A T \in SUBSET S : \A x \in T : g[T] = f[x] + g[T \ {x}]

\* h adds it up in an order of its own, as the folds do.
AddsSomehow(f, S, h) ==
  h[{}] = 0 /\ \A T \in SUBSET S : T # {} => \E x \in T : h[T] = f[x] + h[T \ {x}]

SumOf(f) == (CHOOSE g : Adds(f, DOMAIN f, g))[DOMAIN f]

\* c lists the n items of a chain from the last, whose link is 0, to the first.
Enumerates(c, n, head, link) ==
  /\ \A i, j \in 1 .. n : c[i] = c[j] => i = j
  /\ head = IF n = 0 THEN 0 ELSE c[n]
  /\ \A i \in 1 .. n : link[c[i]] = IF i = 1 THEN 0 ELSE c[i - 1]

\* The items in S are chained from head.
Chained(S, head, link) ==
  \E c \in [1 .. Cardinality(S) -> S] : Enumerates(c, Cardinality(S), head, link)

\* The link of y leads past x; all others stay.
Bypasses(S, x, y, link, link2) ==
  link2[y] = link[x] /\ \A q \in S \ {x, y} : link2[q] = link[q]

-----------------------------------------------------------------------------
\* Of some subsets of a finite set one holds no other.
LEMMA SmallestSubset ==
  ASSUME NEW S, IsFiniteSet(S), NEW B \in SUBSET SUBSET S, B # {}
  PROVE  \E T \in B : \A U \in B : U \subseteq T => U = T
<1>1. FiniteSubsetsOf(S) = SUBSET S
  BY FS_FiniteSubsetsOfFinite
<1>2. PICK T \in B : \A U \in B : <<U, T>> \notin StrictSubsetOrdering(S)
  BY <1>1, FS_StrictSubsetOrderingWellFounded, WFMin
<1>3. ASSUME NEW U \in B, U \subseteq T, U # T
      PROVE  <<U, T>> \in StrictSubsetOrdering(S)
  BY <1>3 DEF StrictSubsetOrdering
<1>4. \A U \in B : U \subseteq T => U = T
  BY <1>2, <1>3
<1> QED BY <1>4

\* What is true of the empty set, and stays true as an element is added.
LEMMA FiniteInduction ==
  ASSUME NEW S, IsFiniteSet(S), NEW G \in SUBSET SUBSET S, {} \in G,
         \A T \in G : \A x \in S \ T : T \cup {x} \in G
  PROVE  S \in G
<1> DEFINE B == (SUBSET S) \ G
<1> SUFFICES ASSUME B # {}
             PROVE  FALSE
  OBVIOUS
<1>1. B \in SUBSET SUBSET S
  OBVIOUS
<1> HIDE DEF B
<1>2. PICK T \in B : \A U \in B : U \subseteq T => U = T
  BY <1>1, SmallestSubset
<1> USE DEF B
<1>3. PICK x \in T : TRUE
  OBVIOUS
<1>4. T \ {x} \in G
  BY <1>2, <1>3
<1>5. (T \ {x}) \cup {x} = T /\ x \in S \ (T \ {x})
  BY <1>3
<1> QED BY <1>4, <1>5

\* The same for the natural numbers.
LEMMA NumberInduction ==
  ASSUME NEW G \in SUBSET Nat, 0 \in G, \A n \in G : n + 1 \in G
  PROVE  G = Nat
<1> DEFINE B == Nat \ G
<1> SUFFICES ASSUME B # {}
             PROVE  FALSE
  OBVIOUS
<1>1. PICK n \in B : \A m \in B : <<m, n>> \notin OpToRel(<, Nat)
  BY NatLessThanWellFounded, WFMin
<1>2. n \in Nat \ {0}
  OBVIOUS
<1>3. n - 1 \in Nat /\ n - 1 < n
  BY <1>2
<1>4. n - 1 \in G
  BY <1>1, <1>3 DEF OpToRel
<1>5. (n - 1) + 1 = n
  BY <1>2
<1> QED BY <1>4, <1>5

-----------------------------------------------------------------------------
LEMMA FiniteMax ==
  ASSUME NEW S \in SUBSET Nat, IsFiniteSet(S), S # {}
  PROVE  Max(S) \in S /\ \A x \in S : x <= Max(S)
<1> DEFINE G == {T \in SUBSET S : T # {} => \E m \in T : \A x \in T : x <= m}
<1>1. ASSUME NEW T \in G, NEW x \in S \ T
      PROVE  T \cup {x} \in G
  <2>1. CASE T = {}
    BY <2>1
  <2>2. CASE T # {}
    <3>1. PICK m \in T : \A y \in T : y <= m
      BY <2>2
    <3>2. T \cup {x} \subseteq Nat
      OBVIOUS
    <3> QED BY <3>1, <3>2
  <2> QED BY <2>1, <2>2
<1>2. {} \in G
  OBVIOUS
<1> HIDE DEF G
<1>3. S \in G
  BY <1>1, <1>2, FiniteInduction DEF G
<1>4. \E m \in S : \A x \in S : x <= m
  BY <1>3 DEF G
<1> QED BY <1>4 DEF Max

\* Every set of natural numbers that is not empty has a smallest element.
LEMMA LeastNumber ==
  ASSUME NEW S \in SUBSET Nat, S # {}
  PROVE  Min(S) \in S /\ \A x \in S : Min(S) <= x
<1>1. PICK n \in S : \A m \in S : <<m, n>> \notin OpToRel(<, Nat)
  BY NatLessThanWellFounded, WFMin
<1>2. ASSUME NEW m \in S, m < n
      PROVE  <<m, n>> \in OpToRel(<, Nat)
  BY <1>2 DEF OpToRel
<1>3. \A m \in S : n <= m
  <2> SUFFICES ASSUME NEW m \in S, ~(n <= m)
               PROVE  FALSE
    OBVIOUS
  <2>1. m \in Nat /\ n \in Nat
    OBVIOUS
  <2>2. m < n
    BY <2>1
  <2> QED BY <1>1, <1>2, <2>2
<1> QED BY <1>3 DEF Min

-----------------------------------------------------------------------------
\* There is such a function, and only one.
LEMMA AddsExists ==
  ASSUME NEW S, IsFiniteSet(S), NEW f \in [S -> Int]
  PROVE  \E g : Adds(f, S, g)
<1> DEFINE G == {T \in SUBSET S : \E g : Adds(f, T, g)}
<1>1. {} \in G
  <2>1. Adds(f, {}, [T \in SUBSET {} |-> 0])
    BY DEF Adds
  <2> QED BY <2>1
<1>2. ASSUME NEW T \in G, NEW x \in S \ T
      PROVE  T \cup {x} \in G
  <2>1. PICK g : Adds(f, T, g)
    OBVIOUS
  <2> DEFINE h == [U \in SUBSET (T \cup {x}) |->
                     IF x \in U THEN f[x] + g[U \ {x}] ELSE g[U]]
  <2>2. \A U \in SUBSET (T \cup {x}) : U \ {x} \in SUBSET T /\ (x \notin U => U \in SUBSET T)
    OBVIOUS
  <2>3. \A U \in SUBSET T : g[U] \in Int
    BY <2>1 DEF Adds
  <2>4. f[x] \in Int
    OBVIOUS
  <2>5. h \in [SUBSET (T \cup {x}) -> Int]
    BY <2>2, <2>3, <2>4
  <2>6. h[{}] = 0
    BY <2>1 DEF Adds
  <2>7. ASSUME NEW U \in SUBSET (T \cup {x}), NEW y \in U
        PROVE  h[U] = f[y] + h[U \ {y}]
    <3>1. CASE y = x
      BY <3>1, <2>2
    <3>2. CASE y # x /\ x \notin U
      <4>1. g[U] = f[y] + g[U \ {y}]
        BY <2>1, <2>2, <3>2 DEF Adds
      <4>2. h[U] = g[U] /\ h[U \ {y}] = g[U \ {y}]
        BY <2>2, <3>2
      <4> QED BY <4>1, <4>2
    <3>3. CASE y # x /\ x \in U
      <4>1. U \ {x} \in SUBSET T /\ y \in U \ {x}
        BY <3>3, <2>2
      <4>2. g[U \ {x}] = f[y] + g[(U \ {x}) \ {y}]
        BY <2>1, <4>1 DEF Adds
      <4>3. (U \ {x}) \ {y} = (U \ {y}) \ {x} /\ (U \ {y}) \ {x} \in SUBSET T
        BY <4>1
      <4>4. g[U \ {x}] = f[y] + g[(U \ {y}) \ {x}]
        BY <4>2, <4>3
      <4>5. h[U] = f[x] + g[U \ {x}] /\ h[U \ {y}] = f[x] + g[(U \ {y}) \ {x}]
        BY <3>3
      <4>6. f[y] \in Int /\ g[(U \ {y}) \ {x}] \in Int
        BY <2>3, <4>3, <4>1
      <4> HIDE DEF h
      <4> QED BY <4>4, <4>5, <4>6, <2>4
    <3> QED BY <3>1, <3>2, <3>3
  <2> HIDE DEF h
  <2>8. Adds(f, T \cup {x}, h)
    BY <2>5, <2>6, <2>7 DEF Adds
  <2> QED BY <2>8
<1> HIDE DEF G
<1>3. S \in G
  BY <1>1, <1>2, FiniteInduction DEF G
<1> QED BY <1>3 DEF G

\* A function that adds up in the order some CHOOSE sets is that one.
LEMMA AddsUnique ==
  ASSUME NEW S, IsFiniteSet(S), NEW f \in [S -> Int], NEW g, Adds(f, S, g), NEW h,
         AddsSomehow(f, S, h)
  PROVE  h[S] = g[S]
<1> DEFINE B == {T \in SUBSET S : h[T] # g[T]}
<1> SUFFICES ASSUME B # {}
             PROVE  FALSE
  OBVIOUS
<1>1. B \in SUBSET SUBSET S
  OBVIOUS
<1> HIDE DEF B
<1>2. PICK T \in B : \A U \in B : U \subseteq T => U = T
  BY <1>1, SmallestSubset
<1> USE DEF B
<1>3. T # {} /\ T \in SUBSET S
  BY DEF Adds, AddsSomehow
<1>4. PICK x \in T : h[T] = f[x] + h[T \ {x}]
  BY <1>3 DEF AddsSomehow
<1>5. h[T \ {x}] = g[T \ {x}]
  BY <1>2, <1>3
<1>6. g[T] = f[x] + g[T \ {x}]
  BY <1>3 DEF Adds
<1> QED BY <1>4, <1>5, <1>6

LEMMA SumIs ==
  ASSUME NEW S, IsFiniteSet(S), NEW f \in [S -> Int], NEW g, Adds(f, S, g)
  PROVE  SumOf(f) = g[S]
<1> DEFINE h == CHOOSE i : Adds(f, S, i)
<1>1. Adds(f, S, h)
  OBVIOUS
<1>2. AddsSomehow(f, S, h)
  BY <1>1 DEF Adds, AddsSomehow
<1>3. SumOf(f) = h[S]
  BY DEF SumOf
<1> HIDE DEF h
<1>4. h[S] = g[S]
  BY <1>1, <1>2, AddsUnique
<1> QED BY <1>3, <1>4

\* An order that some CHOOSE sets, as in the folds, gives the same sum.
LEMMA FoldIsSum ==
  ASSUME NEW S, IsFiniteSet(S), NEW f \in [S -> Int], NEW h,
         AddsSomehow(f, S, h)
  PROVE  h[S] = SumOf(f)
<1>1. PICK g : Adds(f, S, g)
  BY AddsExists
<1>2. h[S] = g[S]
  BY <1>1, AddsUnique
<1> QED BY <1>1, <1>2, SumIs

LEMMA SumEmpty ==
  ASSUME NEW f, DOMAIN f = {}
  PROVE  SumOf(f) = 0
<1>1. IsFiniteSet({})
  BY FS_EmptySet
<1>2. Adds(f, {}, [T \in SUBSET {} |-> 0])
  BY DEF Adds
<1>3. \A i : Adds(f, {}, i) => i[{}] = 0
  BY DEF Adds
<1> QED BY <1>2, <1>3 DEF SumOf

LEMMA SumAdd ==
  ASSUME NEW S, IsFiniteSet(S), NEW f \in [S -> Int], NEW x, x \notin S,
         NEW h \in [S \cup {x} -> Int], \A y \in S : h[y] = f[y]
  PROVE  SumOf(h) = SumOf(f) + h[x] /\ SumOf(f) \in Int
<1>1. IsFiniteSet(S \cup {x})
  BY FS_AddElement
<1>2. PICK g : Adds(h, S \cup {x}, g)
  BY <1>1, AddsExists
<1>3. SumOf(h) = g[S \cup {x}]
  BY <1>1, <1>2, SumIs
<1>4. S \in SUBSET (S \cup {x}) /\ (S \cup {x}) \ {x} = S
  OBVIOUS
<1>5. g[S \cup {x}] = h[x] + g[S] /\ g[S] \in Int
  BY <1>2, <1>4 DEF Adds
<1> DEFINE r == [T \in SUBSET S |-> g[T]]
<1>6. Adds(f, S, r)
  BY <1>2 DEF Adds
<1>7. SumOf(f) = r[S]
  BY <1>6, SumIs
<1> QED BY <1>3, <1>5, <1>7

LEMMA SumNat ==
  ASSUME NEW S, IsFiniteSet(S), NEW f \in [S -> Nat]
  PROVE  SumOf(f) \in Nat
<1>1. f \in [S -> Int]
  OBVIOUS
<1>2. PICK g : Adds(f, S, g)
  BY <1>1, AddsExists
<1> DEFINE G == {T \in SUBSET S : g[T] \in Nat}
<1>3. {} \in G
  BY <1>2 DEF Adds
<1>4. ASSUME NEW T \in G, NEW x \in S \ T
      PROVE  T \cup {x} \in G
  <2>1. T \cup {x} \in SUBSET S /\ (T \cup {x}) \ {x} = T
    OBVIOUS
  <2>2. g[T \cup {x}] = f[x] + g[T]
    BY <1>2, <2>1 DEF Adds
  <2> QED BY <2>1, <2>2
<1> HIDE DEF G
<1>5. S \in G
  BY <1>3, <1>4, FiniteInduction DEF G
<1>6. SumOf(f) = g[S]
  BY <1>1, <1>2, SumIs
<1> QED BY <1>5, <1>6 DEF G

-----------------------------------------------------------------------------
(* Chains. *)

LEMMA ChainEmpty ==
  ASSUME NEW link
  PROVE  Chained({}, 0, link)
<1> DEFINE c == [i \in 1 .. 0 |-> 0]
<1>1. c \in [1 .. 0 -> {}] /\ Cardinality({}) = 0
  BY FS_EmptySet
<1>2. Enumerates(c, 0, 0, link)
  BY DEF Enumerates
<1> QED BY <1>1, <1>2 DEF Chained

\* A chain does not depend on the links of other items.
LEMMA ChainFrame ==
  ASSUME NEW S, IsFiniteSet(S), NEW head, NEW link, NEW link2,
         Chained(S, head, link), \A p \in S : link2[p] = link[p]
  PROVE  Chained(S, head, link2)
<1> DEFINE n == Cardinality(S)
<1>1. n \in Nat
  BY FS_CardinalityType
<1>2. PICK c \in [1 .. n -> S] : Enumerates(c, n, head, link)
  BY DEF Chained
<1>3. Enumerates(c, n, head, link2)
  BY <1>1, <1>2 DEF Enumerates
<1> QED BY <1>2, <1>3 DEF Chained

\* A new head.
LEMMA ChainPush ==
  ASSUME NEW S, IsFiniteSet(S), NEW head, NEW link, NEW link2,
         Chained(S, head, link), \A q \in S : link2[q] = link[q],
         NEW p, p \notin S, link2[p] = head
  PROVE  /\ Chained(S \cup {p}, p, link2)
         /\ IsFiniteSet(S \cup {p}) /\ Cardinality(S \cup {p}) = Cardinality(S) + 1
<1> DEFINE n == Cardinality(S)
           T == S \cup {p}
<1>1. n \in Nat /\ Cardinality(T) = n + 1 /\ IsFiniteSet(T)
  BY FS_CardinalityType, FS_AddElement
<1>2. PICK c \in [1 .. n -> S] :
        /\ \A i, j \in 1 .. n : c[i] = c[j] => i = j
        /\ head = IF n = 0 THEN 0 ELSE c[n]
        /\ \A i \in 1 .. n : link[c[i]] = IF i = 1 THEN 0 ELSE c[i - 1]
  BY DEF Chained, Enumerates
<1> DEFINE d == [i \in 1 .. n + 1 |-> IF i = n + 1 THEN p ELSE c[i]]
<1> HIDE DEF n, T
<1>3. d \in [1 .. n + 1 -> T]
  BY <1>1 DEF T
<1>4. ASSUME NEW i \in 1 .. n + 1, NEW j \in 1 .. n + 1, d[i] = d[j]
      PROVE  i = j
  BY <1>1, <1>2, <1>4
<1>5. p = IF n + 1 = 0 THEN 0 ELSE d[n + 1]
  BY <1>1
<1>6. ASSUME NEW i \in 1 .. n + 1
      PROVE  link2[d[i]] = IF i = 1 THEN 0 ELSE d[i - 1]
  <2>1. CASE i = n + 1
    BY <1>1, <1>2, <2>1
  <2>2. CASE i \in 1 .. n
    <3>1. d[i] = c[i] /\ c[i] \in S
      BY <1>1, <2>2
    <3>2. i # 1 => d[i - 1] = c[i - 1]
      BY <1>1, <2>2
    <3> QED BY <1>2, <2>2, <3>1, <3>2
  <2> QED BY <1>1, <2>1, <2>2
<1> HIDE DEF d
<1>7. Chained(T, p, link2)
  <2>1. Enumerates(d, n + 1, p, link2)
    BY <1>4, <1>5, <1>6 DEF Enumerates
  <2>2. Cardinality(T) = n + 1
    BY <1>1 DEF n, T
  <2> QED BY <1>3, <2>1, <2>2 DEF Chained
<1> QED BY <1>1, <1>7 DEF n, T

\* The head taken off.
LEMMA ChainPop ==
  ASSUME NEW S, IsFiniteSet(S), 0 \notin S, NEW head, NEW link, NEW link2,
         Chained(S, head, link), head # 0,
         \A q \in S \ {head} : link2[q] = link[q]
  PROVE  /\ head \in S /\ link[head] \in (S \ {head}) \cup {0}
         /\ Chained(S \ {head}, link[head], link2)
         /\ IsFiniteSet(S \ {head}) /\ Cardinality(S \ {head}) = Cardinality(S) - 1
<1> DEFINE n == Cardinality(S)
           T == S \ {head}
<1>1. n \in Nat
  BY FS_CardinalityType
<1>2. PICK c \in [1 .. n -> S] :
        /\ \A i, j \in 1 .. n : c[i] = c[j] => i = j
        /\ head = IF n = 0 THEN 0 ELSE c[n]
        /\ \A i \in 1 .. n : link[c[i]] = IF i = 1 THEN 0 ELSE c[i - 1]
  BY DEF Chained, Enumerates
<1>3. n \in Nat \ {0} /\ head = c[n] /\ head \in S
  BY <1>1, <1>2
<1>4. Cardinality(T) = n - 1 /\ IsFiniteSet(T)
  BY <1>3, FS_RemoveElement
<1> DEFINE d == [i \in 1 .. n - 1 |-> c[i]]
<1> HIDE DEF n
<1>5. d \in [1 .. n - 1 -> T]
  BY <1>2, <1>3
<1>6. link[head] = IF n - 1 = 0 THEN 0 ELSE d[n - 1]
  BY <1>2, <1>3
<1>7. link[head] \in T \cup {0}
  BY <1>3, <1>5, <1>6
<1>8. ASSUME NEW i \in 1 .. n - 1
      PROVE  link2[d[i]] = IF i = 1 THEN 0 ELSE d[i - 1]
  <2>1. d[i] = c[i] /\ d[i] \in T /\ (i # 1 => d[i - 1] = c[i - 1])
    BY <1>3, <1>5
  <2>2. link2[d[i]] = link[c[i]]
    BY <2>1
  <2> QED BY <1>2, <1>3, <2>1, <2>2
<1>9. \A i, j \in 1 .. n - 1 : d[i] = d[j] => i = j
  BY <1>2, <1>3
<1> HIDE DEF d, T
<1>10. Chained(T, link[head], link2)
  <2>1. Enumerates(d, n - 1, link[head], link2)
    BY <1>6, <1>8, <1>9 DEF Enumerates
  <2>2. Cardinality(T) = n - 1
    BY <1>4 DEF n, T
  <2> QED BY <1>5, <2>1, <2>2 DEF Chained
<1> QED BY <1>3, <1>4, <1>7, <1>10 DEF n, T

LEMMA ChainNull ==
  ASSUME NEW S, IsFiniteSet(S), 0 \notin S, NEW link, Chained(S, 0, link)
  PROVE  S = {}
<1>1. PICK c \in [1 .. Cardinality(S) -> S] :
        0 = IF Cardinality(S) = 0 THEN 0 ELSE c[Cardinality(S)]
  BY DEF Chained, Enumerates
<1> QED BY <1>1, FS_CardinalityType, FS_EmptySet

\* A chain goes through all its items.
LEMMA ChainOnto ==
  ASSUME NEW S, IsFiniteSet(S), NEW head, NEW link,
         NEW c \in [1 .. Cardinality(S) -> S], Enumerates(c, Cardinality(S), head, link)
  PROVE  \A x \in S : \E i \in 1 .. Cardinality(S) : c[i] = x
<1> DEFINE n == Cardinality(S)
<1>1. n \in Nat
  BY FS_CardinalityType
<1>2. IsFiniteSet(1 .. n) /\ Cardinality(1 .. n) = n
  BY <1>1, FS_Interval
<1>3. c \in Injection(1 .. n, S)
  BY DEF Enumerates, Injection, IsInjective
<1>4. c \in Surjection(1 .. n, S)
  BY <1>2, <1>3, FS_Injection
<1> QED BY <1>4 DEF Surjection

\* Whoever follows it from the head comes to all of them.
LEMMA ChainFollowed ==
  ASSUME NEW S, IsFiniteSet(S), 0 \notin S, NEW head, NEW link, Chained(S, head, link),
         NEW Y, head \in Y, \A y \in Y \ {0} : link[y] \in Y
  PROVE  S \subseteq Y
<1> DEFINE n == Cardinality(S)
<1>1. n \in Nat
  BY FS_CardinalityType
<1>2. PICK c \in [1 .. n -> S] :
        Enumerates(c, n, head, link) /\ \A x \in S : \E i \in 1 .. n : c[i] = x
  BY ChainOnto DEF Chained
<1> HIDE DEF n
<1> DEFINE G == {m \in Nat : m < n => c[n - m] \in Y}
<1>3. 0 \in G
  BY <1>1, <1>2 DEF Enumerates
<1>4. ASSUME NEW m \in G
      PROVE  m + 1 \in G
  <2> SUFFICES ASSUME m + 1 < n
               PROVE  c[n - (m + 1)] \in Y
    OBVIOUS
  <2>1. n - m \in 1 .. n /\ n - m # 1 /\ (n - m) - 1 = n - (m + 1)
    BY <1>1
  <2>2. c[n - m] \in Y \ {0}
    BY <1>1, <1>2, <2>1
  <2>3. link[c[n - m]] = c[(n - m) - 1]
    BY <1>2, <2>1 DEF Enumerates
  <2> QED BY <2>1, <2>2, <2>3
<1>5. G = Nat
  <2>1. G \in SUBSET Nat
    OBVIOUS
  <2> HIDE DEF G
  <2> QED BY <1>3, <1>4, <2>1, NumberInduction
<1>6. ASSUME NEW i \in 1 .. n
      PROVE  c[i] \in Y
  <2>1. n - i \in Nat /\ n - i < n /\ n - (n - i) = i
    BY <1>1
  <2>2. n - i \in G
    BY <1>5, <2>1
  <2> QED BY <2>1, <2>2
<1> QED BY <1>2, <1>6

\* An item taken out from behind another.
LEMMA ChainDrop ==
  ASSUME NEW S, IsFiniteSet(S), NEW head, NEW link, NEW link2,
         NEW c \in [1 .. Cardinality(S) -> S], Enumerates(c, Cardinality(S), head, link),
         NEW j \in 1 .. Cardinality(S) - 1, NEW x, x = c[j], NEW y, y = c[j + 1],
         Bypasses(S, x, y, link, link2)
  PROVE  Chained(S \ {x}, head, link2)
<1> DEFINE n == Cardinality(S)
           T == S \ {x}
           d == [i \in 1 .. n - 1 |-> IF i < j THEN c[i] ELSE c[i + 1]]
<1>1. n \in Nat /\ n > 1 /\ j \in 1 .. n /\ j + 1 \in 1 .. n /\ c[j] \in S
  BY FS_CardinalityType
<1>2. Cardinality(T) = n - 1
  BY <1>1, FS_RemoveElement
<1>0. link2[c[j + 1]] = link[c[j]] /\ \A q \in S \ {c[j], c[j + 1]} : link2[q] = link[q]
  BY DEF Bypasses
<1>3. /\ \A i, k \in 1 .. n : c[i] = c[k] => i = k
      /\ head = c[n]
      /\ \A i \in 1 .. n : link[c[i]] = IF i = 1 THEN 0 ELSE c[i - 1]
  BY <1>1 DEF Enumerates
<1> HIDE DEF n
<1>4. d \in [1 .. n - 1 -> T]
  <2>1. ASSUME NEW i \in 1 .. n - 1
        PROVE  d[i] \in T
    <3>1. i \in 1 .. n /\ i + 1 \in 1 .. n /\ i + 1 # i
      BY <1>1
    <3>2. CASE i < j
      BY <1>1, <1>3, <3>1, <3>2 DEF n
    <3>3. CASE ~(i < j)
      <4>1. i + 1 # j
        BY <1>1, <3>1, <3>3
      <4> QED BY <1>1, <1>3, <3>1, <3>3, <4>1 DEF n
    <3> QED BY <3>2, <3>3
  <2> QED BY <2>1
<1>5. \A i, k \in 1 .. n - 1 : d[i] = d[k] => i = k
  BY <1>1, <1>3
<1>6. head = d[n - 1]
  BY <1>1, <1>3
<1>7. ASSUME NEW i \in 1 .. n - 1
      PROVE  link2[d[i]] = IF i = 1 THEN 0 ELSE d[i - 1]
  <2>1. i \in 1 .. n /\ i + 1 \in 1 .. n
    BY <1>1
  <2>2. CASE i < j
    <3>1. d[i] = c[i] /\ (i # 1 => d[i - 1] = c[i - 1])
      BY <1>1, <2>2
    <3>2. c[i] # c[j] /\ c[i] # c[j + 1] /\ c[i] \in S
      BY <1>1, <1>3, <2>1, <2>2 DEF n
    <3> QED BY <1>0, <1>3, <2>1, <3>1, <3>2
  <2>3. CASE i = j
    <3>1. d[i] = c[j + 1] /\ (i # 1 => d[i - 1] = c[j - 1])
      BY <1>1, <2>3
    <3> QED BY <1>0, <1>1, <1>3, <2>3, <3>1
  <2>4. CASE i > j
    <3>1. d[i] = c[i + 1] /\ i # 1 /\ d[i - 1] = c[(i - 1) + 1] /\ (i - 1) + 1 = i
      BY <1>1, <2>4
    <3>2. c[i + 1] # c[j] /\ c[i + 1] # c[j + 1] /\ c[i + 1] \in S
      BY <1>1, <1>3, <2>1, <2>4 DEF n
    <3>3. link[c[i + 1]] = c[i]
      BY <1>3, <2>1, <2>4
    <3> QED BY <1>0, <3>1, <3>2, <3>3
  <2> QED BY <1>1, <2>2, <2>3, <2>4
<1> HIDE DEF d, T
<1>8. Enumerates(d, n - 1, head, link2)
  BY <1>1, <1>5, <1>6, <1>7 DEF Enumerates
<1> QED BY <1>2, <1>4, <1>8 DEF Chained, T

=============================================================================
