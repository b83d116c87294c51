------------------------------ MODULE MemPool ------------------------------
(***************************************************************************)
(* mem_pool_t (data-structures/mem_pool.h): one fixed_size_mem_pool_t per  *)
(* item size.  An item is named by a 32 bit virtual address: its pool (the *)
(* type), its block in the pool and its place in the block.                *)
(*                                                                         *)
(* Free items are chained through their first word.  An item freed with    *)
(* protection keeps its contents until recycle(): it is chained through    *)
(* its last word where that word is not in use, else its address is put in *)
(* a vector.  Sizes and lengths are in words of four bytes.                *)
(*                                                                         *)
(* One thread calls the pool; an action is one call, or one turn of the    *)
(* loops of recycle().  word is the memory of the items.                   *)
(***************************************************************************)
EXTENDS Integers, Sequences, FiniteSets, FiniteSetsExt

CONSTANTS
  MaxTypeNum,        \* MAX_TYPE_NUM
  BlockNum,          \* BLOCK_NUM, 1 << WIDTH2
  Span,              \* 1 << WIDTH3: the places an address can tell apart
  BlockSize,         \* the argument of create()
  Sizes,             \* the item sizes asked for
  MaxDirty,          \* the largest capacity of the vector
  UsedLengths,       \* how free() is called: "length" or "default" (-1)
  MaxDrift,          \* bound on the error of total_used_length
  MaxLent            \* bound on the items in use and protected

ASSUME PoolAssumption ==
  /\ MaxTypeNum \in Nat \ {0} /\ BlockNum \in Nat \ {0, 1}
  /\ BlockSize \in 2 .. Span /\ Span \in Nat
  /\ Sizes \subseteq Nat \ {0} /\ Sizes # {} /\ IsFiniteSet(Sizes)
  /\ MaxDirty \in Nat /\ UsedLengths \subseteq {"length", "default"}
  /\ MaxDrift \in Nat /\ MaxLent \in Nat

Types == 0 .. MaxTypeNum - 1
Null == 0                       \* NULL_VADDRESS32
PoolSpan == BlockNum * Span
Addresses == 0 .. MaxTypeNum * PoolSpan - 1
Words == 0 .. Max(Sizes) - 1

\* contents of a word that are not an address
Data == -1                      \* what the user wrote
Blank == -2                     \* nothing was written

VARIABLES
  fixed_size_mem_pool_num, fixed_size_array, sorted_fixed_size_array_index,
  alloc_num, avail_num, free_list,        \* of the pool of each type
  dirty_list, dirty_list_length,
  m_p_dynamic_dirty_array,
  total_used_length, total_allocated,
  word,
  recycling,         \* where recycle() is: "no", "list" or "array"
  next_dirty,        \* its loop variable i
  lent,              \* the length each item in use was asked for
  kept               \* the words of each protected item not to be disturbed

pools == <<fixed_size_mem_pool_num, fixed_size_array,
           sorted_fixed_size_array_index>>
carving == <<alloc_num, avail_num>>
dirty == <<dirty_list, dirty_list_length, m_p_dynamic_dirty_array>>
totals == <<total_used_length, total_allocated>>
loop == <<recycling, next_dirty>>
history == <<lent, kept>>

vars == <<pools, carving, free_list, dirty, totals, word, loop, history>>

\* get_vaddr_type(p); the address of a place in a pool
TypeOf(p) == p \div PoolSpan
Address(type, block, place) == type * PoolSpan + block * Span + place

Without(f, p) == [q \in DOMAIN f \ {p} |-> f[q]]
With(f, p, v) == [q \in DOMAIN f \cup {p} |-> IF q = p THEN v ELSE f[q]]

Init ==
  /\ fixed_size_mem_pool_num = 0
  /\ fixed_size_array = [t \in Types |-> 0]
  /\ sorted_fixed_size_array_index = [i \in Types |-> 0]
  /\ alloc_num = [t \in Types |-> 0] /\ avail_num = [t \in Types |-> 0]
  /\ free_list = [t \in Types |-> Null]
  /\ dirty_list = Null /\ dirty_list_length = 0
  /\ m_p_dynamic_dirty_array = <<>>
  /\ total_used_length = 0 /\ total_allocated = 0
  /\ word = [p \in Addresses |-> [k \in Words |-> Blank]]
  /\ recycling = "no" /\ next_dirty = 1
  /\ lent = <<>> /\ kept = <<>>

\* total_used_length less what the items in use were asked for
Asked(p) == lent[p]
Drift == total_used_length - MapThenSumSet(Asked, DOMAIN lent)

-----------------------------------------------------------------------------
Num == fixed_size_mem_pool_num
SizeAt(i) == fixed_size_array[sorted_fixed_size_array_index[i]]

\* where the insertion sort leaves the new pool
SortedPlace(size) ==
  CHOOSE j \in 0 .. Num :
    /\ \A i \in j .. Num - 1 : SizeAt(i) > size
    /\ j > 0 => SizeAt(j - 1) <= size

\* a slip: one pool too many
OneTypeMore == Num <= MaxTypeNum

TypeLeft == Num < MaxTypeNum

\* add_fixed_size_pool(): a size already there is not added again if uniq
AddPool(size, uniq) ==
  LET at == SortedPlace(size) IN
  /\ recycling = "no"
  /\ TypeLeft
  /\ uniq => \A t \in 0 .. Num - 1 : fixed_size_array[t] # size
  /\ fixed_size_array' = [fixed_size_array EXCEPT ![Num] = size]
  /\ sorted_fixed_size_array_index' =
       [i \in Types |-> IF i = at THEN Num
                        ELSE IF at < i /\ i <= Num
                        THEN sorted_fixed_size_array_index[i - 1]
                        ELSE sorted_fixed_size_array_index[i]]
  /\ fixed_size_mem_pool_num' = Num + 1
  /\ UNCHANGED <<carving, free_list, dirty, totals, word, loop, history>>

-----------------------------------------------------------------------------
(* fixed_size_mem_pool_t::fetch() *)

NoItemAtHand(t) == free_list[t] = Null /\ avail_num[t] = 0
CanFetch(t) == ~NoItemAtHand(t) \/ alloc_num[t] < BlockNum

\* a slip: the first place of the first block is used
UseFirstPlace(t) ==
  IF avail_num[t] > 0 THEN <<alloc_num[t], avail_num[t]>>
  ELSE <<alloc_num[t] + 1, BlockSize>>

\* the blocks and the places left before the fetch of a fresh item: a new
\* block if need be; the very first place would be the null address
Carve(t) ==
  IF avail_num[t] > 0 THEN <<alloc_num[t], avail_num[t]>>
  ELSE <<alloc_num[t] + 1, IF alloc_num[t] = 0 THEN BlockSize - 1 ELSE BlockSize>>

Fetch(t) ==
  IF free_list[t] # Null THEN free_list[t]
  ELSE Address(t, Carve(t)[1] - 1, BlockSize - Carve(t)[2])

FetchFrom(t) ==
  IF free_list[t] # Null
  THEN /\ free_list' = [free_list EXCEPT ![t] = word[free_list[t]][0]]
       /\ UNCHANGED carving
  ELSE /\ alloc_num' = [alloc_num EXCEPT ![t] = Carve(t)[1]]
       /\ avail_num' = [avail_num EXCEPT ![t] = Carve(t)[2] - 1]
       /\ UNCHANGED free_list

\* the caller writes the item it was given
Lend(p, len) ==
  /\ Cardinality(DOMAIN lent \cup DOMAIN kept) < MaxLent
  /\ word' = [word EXCEPT ![p] = [k \in Words |->
                                    IF k < len THEN Data ELSE Blank]]
  /\ lent' = With(lent, p, len)
  /\ UNCHANGED kept

\* malloc(): the smallest pools that fit are tried first.  A pool that has no
\* item at hand may fail for want of memory.
MallocAt(len, i) ==
  LET t == sorted_fixed_size_array_index[i] IN
  /\ recycling = "no" /\ i < Num
  /\ SizeAt(i) >= len
  /\ \A j \in 0 .. i - 1 : SizeAt(j) >= len =>
       NoItemAtHand(sorted_fixed_size_array_index[j])
  /\ CanFetch(t)
  /\ total_used_length' = total_used_length + len
  /\ total_allocated' = total_allocated + fixed_size_array[t]
  /\ FetchFrom(t) /\ Lend(Fetch(t), len)
  /\ UNCHANGED <<pools, dirty, loop>>

\* no pool can give an item: malloc() returns null, the length is counted
MallocFails(len) ==
  /\ recycling = "no" /\ Num > 0 /\ SizeAt(Num - 1) >= len
  /\ \A j \in 0 .. Num - 1 : SizeAt(j) >= len =>
       NoItemAtHand(sorted_fixed_size_array_index[j])
  /\ Drift + len <= MaxDrift
  /\ total_used_length' = total_used_length + len
  /\ UNCHANGED <<pools, carving, free_list, dirty, total_allocated, word, loop,
                 history>>

\* get_corresponding_type() counts the length too
GetType(len) ==
  /\ recycling = "no" /\ Num > 0 /\ SizeAt(Num - 1) >= len
  /\ Drift + len <= MaxDrift
  /\ total_used_length' = total_used_length + len
  /\ UNCHANGED <<pools, carving, free_list, dirty, total_allocated, word, loop,
                 history>>

\* malloc_fixed_size(): the length is not counted
MallocFixed(t) ==
  /\ recycling = "no" /\ t < Num /\ CanFetch(t)
  /\ Drift - fixed_size_array[t] >= -MaxDrift
  /\ total_allocated' = total_allocated + fixed_size_array[t]
  /\ FetchFrom(t) /\ Lend(Fetch(t), fixed_size_array[t])
  /\ UNCHANGED <<pools, dirty, total_used_length, loop>>

-----------------------------------------------------------------------------
(* free() and recycle() *)

\* fixed_size_mem_pool_t::back(); what else the item holds is of no more use
Back(p) ==
  /\ word' = [word EXCEPT ![p] = [k \in Words |->
                 IF k = 0 THEN free_list[TypeOf(p)] ELSE Blank]]
  /\ free_list' = [free_list EXCEPT ![TypeOf(p)] = p]

Size(p) == fixed_size_array[TypeOf(p)]
Used(p, how) == IF how = "default" THEN Size(p) ELSE lent[p]

Uncount(p, used) ==
  /\ Drift + lent[p] - used >= -MaxDrift
  /\ total_used_length' = total_used_length - used
  /\ total_allocated' = total_allocated - Size(p)
  /\ lent' = Without(lent, p)

\* free(p, used_length, false)
FreeUnprotected(p, how) ==
  /\ recycling = "no" /\ p \in DOMAIN lent
  /\ Uncount(p, Used(p, how))
  /\ Back(p)
  /\ UNCHANGED <<pools, carving, dirty, loop, kept>>

\* a slip: the link takes the place of the last word, in use or not
AnyRoom(p, used, tail_writeable) == TRUE

\* there is a word for the link that readers do not need
RoomForLink(p, used, tail_writeable) == tail_writeable \/ used + 1 <= Size(p)

KeepIntact(p, used) ==
  kept' = With(kept, p, IF used > lent[p] THEN lent[p] ELSE used)

\* free(p, used_length, true, tail_writeable), the item linked by its last word
FreeLinked(p, how, tail_writeable) ==
  LET used == Used(p, how)
      last == Size(p) - 1 IN
  /\ recycling = "no" /\ p \in DOMAIN lent
  /\ RoomForLink(p, used, tail_writeable)
  /\ Uncount(p, used)
  /\ word' = [word EXCEPT ![p][last] = dirty_list]
  /\ dirty_list' = p /\ dirty_list_length' = dirty_list_length + 1
  /\ KeepIntact(p, IF tail_writeable /\ used > last THEN last ELSE used)
  /\ UNCHANGED <<pools, carving, free_list, m_p_dynamic_dirty_array, loop>>

\* the same, with no room for a link: the vector may be full, or not be able
\* to grow, and then the item is lost
FreeListed(p, how) ==
  LET used == Used(p, how) IN
  /\ recycling = "no" /\ p \in DOMAIN lent
  /\ ~RoomForLink(p, used, FALSE)
  /\ Uncount(p, used)
  /\ \/ /\ Len(m_p_dynamic_dirty_array) < MaxDirty
        /\ m_p_dynamic_dirty_array' = Append(m_p_dynamic_dirty_array, p)
     \/ UNCHANGED m_p_dynamic_dirty_array
  /\ KeepIntact(p, used)
  /\ UNCHANGED <<pools, carving, free_list, dirty_list, dirty_list_length,
                 word, loop>>

Recycle ==
  /\ recycling = "no"
  /\ recycling' = "list"
  /\ UNCHANGED <<pools, carving, free_list, dirty, totals, word, next_dirty,
                 history>>

\* a slip: dirty_list_length is not kept up
NoCount ==
  /\ recycling = "list" /\ dirty_list # Null
  /\ Back(dirty_list)
  /\ dirty_list' = word[dirty_list][Size(dirty_list) - 1]
  /\ kept' = Without(kept, dirty_list)
  /\ UNCHANGED <<pools, carving, m_p_dynamic_dirty_array, dirty_list_length,
                 totals, loop, lent>>

\* while (dirty_list)
RecycleLinked ==
  /\ recycling = "list" /\ dirty_list # Null
  /\ Back(dirty_list)
  /\ dirty_list' = word[dirty_list][Size(dirty_list) - 1]
  /\ dirty_list_length' = dirty_list_length - 1
  /\ kept' = Without(kept, dirty_list)
  /\ UNCHANGED <<pools, carving, m_p_dynamic_dirty_array, totals, loop, lent>>

EndLinked ==
  /\ recycling = "list" /\ dirty_list = Null
  /\ recycling' = "array" /\ next_dirty' = 1
  /\ UNCHANGED <<pools, carving, free_list, dirty, totals, word, history>>

\* the loop over the vector
RecycleListed ==
  LET p == m_p_dynamic_dirty_array[next_dirty] IN
  /\ recycling = "array" /\ next_dirty <= Len(m_p_dynamic_dirty_array)
  /\ Back(p)
  /\ next_dirty' = next_dirty + 1
  /\ kept' = Without(kept, p)
  /\ UNCHANGED <<pools, carving, dirty, totals, recycling, lent>>

\* a slip: the vector is not cleared
EndWithoutClear ==
  /\ recycling = "array" /\ next_dirty > Len(m_p_dynamic_dirty_array)
  /\ recycling' = "no" /\ next_dirty' = 1
  /\ UNCHANGED <<pools, carving, free_list, dirty, totals, word, history>>

EndRecycle ==
  /\ recycling = "array" /\ next_dirty > Len(m_p_dynamic_dirty_array)
  /\ m_p_dynamic_dirty_array' = <<>>
  /\ recycling' = "no" /\ next_dirty' = 1
  /\ UNCHANGED <<pools, carving, free_list, dirty_list, dirty_list_length,
                 totals, word, history>>

-----------------------------------------------------------------------------
Lengths == 1 .. Max(Sizes)

Next ==
  \/ \E size \in Sizes, uniq \in BOOLEAN : AddPool(size, uniq)
  \/ \E len \in Lengths, i \in Types : MallocAt(len, i)
  \/ \E len \in Lengths : MallocFails(len) \/ GetType(len)
  \/ \E t \in Types : MallocFixed(t)
  \/ \E p \in DOMAIN lent, how \in UsedLengths :
       \/ FreeUnprotected(p, how) \/ FreeListed(p, how)
       \/ \E tail_writeable \in BOOLEAN : FreeLinked(p, how, tail_writeable)
  \/ Recycle \/ RecycleLinked \/ EndLinked \/ RecycleListed \/ EndRecycle

Spec == Init /\ [][Next]_vars

-----------------------------------------------------------------------------
(* Properties *)

Contents == Addresses \cup {Data, Blank}

TypeOK ==
  /\ fixed_size_mem_pool_num \in 0 .. MaxTypeNum
  /\ fixed_size_array \in [Types -> Nat]
  /\ sorted_fixed_size_array_index \in [Types -> Types]
  /\ alloc_num \in [Types -> 0 .. BlockNum]
  /\ avail_num \in [Types -> 0 .. BlockSize]
  /\ free_list \in [Types -> Addresses]
  /\ dirty_list \in Addresses /\ dirty_list_length \in Nat
  /\ m_p_dynamic_dirty_array \in Seq(Addresses)
  /\ total_used_length \in Int /\ total_allocated \in Nat
  /\ word \in [Addresses -> [Words -> Contents]]
  /\ recycling \in {"no", "list", "array"}
  /\ next_dirty \in Nat
  /\ DOMAIN lent \subseteq Addresses /\ DOMAIN kept \subseteq Addresses
  /\ \A p \in DOMAIN lent : lent[p] \in Lengths
  /\ \A p \in DOMAIN kept : kept[p] \in 0 .. Max(Sizes)

(***************************************************************************)
(* The user's words stay as they are: in an item in use, and, as the       *)
(* comment on free() has it, in a protected item until it is recycled,     *)
(* although links are written through both ends of the items.              *)
(***************************************************************************)
DataIntact ==
  /\ \A p \in DOMAIN lent : \A k \in 0 .. lent[p] - 1 : word[p][k] = Data
  /\ \A p \in DOMAIN kept : \A k \in 0 .. kept[p] - 1 : word[p][k] = Data

(***************************************************************************)
(* total_allocated counts the items in use, whatever pools they came from, *)
(* and the assertion of recycle() holds: dirty_list_length is 0 when the   *)
(* list is empty.                                                          *)
(***************************************************************************)
Accounting ==
  /\ total_allocated = MapThenSumSet(Size, DOMAIN lent)
  /\ dirty_list = Null => dirty_list_length = 0

(***************************************************************************)
(* An address is never handed out while it is in use or protected.         *)
(***************************************************************************)
Allocator == INSTANCE BlockAllocator
               WITH Blocks <- Addresses \ {Null},
                    live <- DOMAIN lent, kept <- DOMAIN kept

ImplementsAllocator == Allocator!AllocSpec

(***************************************************************************)
(* "tot_used": the memory in use, as the comment on get_mem_consume() has  *)
(* it.  It is not so.                                                      *)
(***************************************************************************)
UsedCounted == Drift = 0
=============================================================================
