----------------------------- MODULE HashTable -----------------------------
(***************************************************************************)
(* hashtable_t (data-structures/hash_table.h): buckets of chains of nodes. *)
(* The nodes come from a pool (module MemPool) and are named by address.   *)
(*                                                                         *)
(* The table is made for one writer and many readers without a lock (the   *)
(* comment on the switch in rehash()).  A step of the writer is one store  *)
(* that a reader could see, with what the writer does alone around it; a   *)
(* step of the reader is one read.  Readers change nothing, so that one    *)
(* stands for any number of them.                                          *)
(***************************************************************************)
EXTENDS Integers, FiniteSets, FiniteSetsExt

CONSTANTS
  NumKeys,         \* there are this many keys
  UserData,        \* Usr_data_t: what goes into a node
  NumNodes,        \* the nodes the pool can give
  BucketSizes,     \* arguments of create() and rehash(); 0 doubles the size
  MaxBucketSize,   \* bound on m_bucket_size
  QuietRehash      \* do readers stay away while rehash() runs?

ASSUME HashAssumption ==
  /\ NumKeys \in Nat \ {0}
  /\ UserData \subseteq Nat \ {0} /\ UserData # {}
  /\ NumNodes \in Nat \ {0} /\ MaxBucketSize \in Nat \ {0}
  /\ BucketSizes \subseteq 0 .. MaxBucketSize
  /\ QuietRehash \in BOOLEAN

Null == 0                        \* NULL_VADDRESS32
Nodes == 1 .. NumNodes
Addresses == Nodes \cup {Null}
Arrays == {0, 1}                 \* the bucket arrays new[] can give
NoArray == <<>>                  \* the contents of one that is deleted
Absent == 0                      \* no user data

Keys == 0 .. NumKeys - 1
m_extract_key_func(data) == data % NumKeys

\* default_uint32_hash_function_t
m_hash_func(k, bucket_size) == k % bucket_size

VARIABLES
  m_bucket_size, m_p_hash_bucket, m_node_num, m_protect_dirty,
  bucket,             \* the arrays: from position to address
  next, usr_data,     \* Hash_node_t
  live, kept,         \* the nodes in use, and those the pool protects
  writer, w,          \* the writer: where it is, and its local variables
  reader, r,          \* the same of the reader
  content,            \* what the table stands for (history)
  answers             \* what content held of the reader's key since it came

table == <<m_bucket_size, m_p_hash_bucket, m_node_num, m_protect_dirty>>
node == <<next, usr_data>>
pool == <<live, kept>>
theReader == <<reader, r>>
history == <<content, answers>>
vars == <<table, bucket, node, pool, writer, w, theReader, history>>

NoWork == [data |-> Absent, vptr |-> Null, old |-> Null, size |-> 0]
NoSeek == [key |-> 0, size |-> 0, array |-> 0, vptr |-> Null,
           found |-> Absent]

Init ==
  /\ m_bucket_size = 0 /\ m_p_hash_bucket = 0 /\ m_node_num = 0
  /\ m_protect_dirty = TRUE
  /\ bucket = [a \in Arrays |-> NoArray]
  /\ next = [n \in Nodes |-> Null]
  /\ usr_data = [n \in Nodes |-> Absent]
  /\ live = {} /\ kept = {}
  /\ writer = "new" /\ w = NoWork
  /\ reader = "out" /\ r = NoSeek
  /\ content = [k \in Keys |-> Absent] /\ answers = {}

Current == bucket[m_p_hash_bucket]
Empty(size) == [i \in 0 .. size - 1 |-> Null]

Create(size, protect) ==
  /\ writer = "new" /\ size > 0
  /\ m_bucket_size' = size /\ m_protect_dirty' = protect
  /\ bucket' = [bucket EXCEPT ![m_p_hash_bucket] = Empty(size)]
  /\ writer' = "idle"
  /\ UNCHANGED <<m_p_hash_bucket, m_node_num, node, pool, w, theReader, history>>

-----------------------------------------------------------------------------
(* The writer: add_node_vaddr() and remove_node_vaddr() *)

\* the chain that starts at p, link by link; Null from its end on
Chain(p) ==
  LET c[n \in 0 .. NumNodes] ==
        IF n = 0 THEN p ELSE IF c[n - 1] = Null THEN Null ELSE next[c[n - 1]]
  IN c

KeyAt(n) == m_extract_key_func(usr_data[n])
Position(k) == m_hash_func(k, m_bucket_size)
ChainOf(k) == Chain(Current[Position(k)])

\* how far down its chain the nodes with key k are
Depths(k) ==
  {n \in 0 .. NumNodes : ChainOf(k)[n] # Null /\ KeyAt(ChainOf(k)[n]) = k}

\* without protection the pool may hand out at once what it gets back, and
\* readers have to stay away from a writer
Apart == m_protect_dirty \/ reader = "out"
Start == writer = "idle" /\ Apart

\* a store that changes what the table stands for
Content(k, data) ==
  /\ content' = [content EXCEPT ![k] = data]
  /\ answers' = IF reader # "out" /\ r.key = k THEN answers \cup {data}
                ELSE answers

\* the node the pool gives: free nodes are blank and nobody is at them (that
\* is part of SeekSound), so that it does not matter which one it is
FreeNodes == Nodes \ (live \cup kept)
malloc == Min(FreeNodes)

\* ptr->next and ptr->usr_data: nobody else knows the node
FillNode(n, data) ==
  /\ next' = [next EXCEPT ![n] = Current[Position(m_extract_key_func(data))]]
  /\ usr_data' = [usr_data EXCEPT ![n] = data]

\* add_node_vaddr() of a key that is not there.  Of a key that is there and is
\* not to be overwritten, and with a pool that has nothing to give, it changes
\* nothing.
Add(data) ==
  /\ Start /\ FreeNodes # {}
  /\ Depths(m_extract_key_func(data)) = {}
  /\ live' = live \cup {malloc}
  /\ FillNode(malloc, data)
  /\ w' = [NoWork EXCEPT !.data = data, !.vptr = malloc]
  /\ writer' = "publish"
  /\ UNCHANGED <<table, bucket, kept, theReader, history>>

\* *vpre = ptr->next
Unlink(k) ==
  LET d == Min(Depths(k)) IN
  /\ IF d = 0
     THEN /\ bucket' = [bucket EXCEPT
                          ![m_p_hash_bucket][Position(k)] = next[ChainOf(k)[d]]]
          /\ UNCHANGED next
     ELSE /\ next' = [next EXCEPT ![ChainOf(k)[d - 1]] = next[ChainOf(k)[d]]]
          /\ UNCHANGED bucket
  /\ Content(k, Absent)

\* add_node_vaddr() with overwrite, of a key that is there
Replace(data) ==
  LET k == m_extract_key_func(data) IN
  /\ Start /\ FreeNodes # {} /\ Depths(k) # {}
  /\ live' = live \cup {malloc}
  /\ Unlink(k)
  /\ w' = [NoWork EXCEPT !.data = data, !.vptr = malloc,
                         !.old = ChainOf(k)[Min(Depths(k))]]
  /\ writer' = "replace"
  /\ UNCHANGED <<table, usr_data, kept, theReader>>

Remove(k) ==
  /\ Start /\ Depths(k) # {}
  /\ Unlink(k)
  /\ w' = [NoWork EXCEPT !.old = ChainOf(k)[Min(Depths(k))]]
  /\ writer' = "remove"
  /\ UNCHANGED <<table, usr_data, pool, theReader>>

AfterRelease ==
  /\ writer' = IF writer = "replace" THEN "fill" ELSE "idle"
  /\ w' = IF writer = "replace" THEN [w EXCEPT !.old = Null] ELSE NoWork

\* what the pool keeps in a free node is not modelled: it counts as blank
Blank(nodes) ==
  /\ next' = [n \in Nodes |-> IF n \in nodes THEN Null ELSE next[n]]
  /\ usr_data' = [n \in Nodes |-> IF n \in nodes THEN Absent ELSE usr_data[n]]

\* a slip: the node is not protected
FreeAtOnce == live' = live \ {w.old} /\ UNCHANGED kept /\ Blank({w.old})

\* m_p_mem_pool->free(vcur, sizeof(Hash_node_t), m_protect_dirty)
Free ==
  /\ live' = live \ {w.old}
  /\ IF m_protect_dirty
     THEN kept' = kept \cup {w.old} /\ UNCHANGED node
     ELSE UNCHANGED kept /\ Blank({w.old})

\* a slip: m_node_num is left alone
ReleaseUncounted ==
  /\ writer \in {"replace", "remove"}
  /\ Free /\ AfterRelease
  /\ UNCHANGED <<table, bucket, theReader, history>>

Release ==
  /\ writer \in {"replace", "remove"}
  /\ Free /\ AfterRelease
  /\ m_node_num' = m_node_num - 1
  /\ UNCHANGED <<m_bucket_size, m_p_hash_bucket, m_protect_dirty, bucket,
                 theReader, history>>

Fill ==
  /\ writer = "fill"
  /\ FillNode(w.vptr, w.data)
  /\ writer' = "publish"
  /\ UNCHANGED <<table, bucket, pool, w, theReader, history>>

Publish ==
  LET k == m_extract_key_func(w.data) IN
  /\ writer = "publish"
  /\ bucket' = [bucket EXCEPT ![m_p_hash_bucket][Position(k)] = w.vptr]
  /\ m_node_num' = m_node_num + 1
  /\ Content(k, w.data)
  /\ writer' = "idle" /\ w' = NoWork
  /\ UNCHANGED <<m_bucket_size, m_p_hash_bucket, m_protect_dirty, node, pool,
                 theReader>>

\* mem_pool_t::recycle(), which the user calls when no reader is inside
Recycle ==
  /\ writer = "idle" /\ reader = "out" /\ kept # {}
  /\ kept' = {} /\ Blank(kept)
  /\ UNCHANGED <<table, bucket, live, writer, w, theReader, history>>

-----------------------------------------------------------------------------
(* The writer: rehash() *)

Rehashing == writer \in {"rehash", "link", "put", "size", "array", "delete"}

\* new_hash_bucket until the arrays are switched, then old_bucket
Other == 1 - m_p_hash_bucket
NewSize(size) == IF size = 0 THEN 2 * m_bucket_size ELSE size

Rehash(size) ==
  /\ Start /\ (QuietRehash => reader = "out")
  /\ NewSize(size) <= MaxBucketSize
  /\ bucket' = [bucket EXCEPT ![Other] = Empty(NewSize(size))]
  /\ w' = [NoWork EXCEPT !.size = NewSize(size)]
  /\ writer' = "rehash"
  /\ UNCHANGED <<table, node, pool, theReader, history>>

Full(a) == {i \in DOMAIN bucket[a] : bucket[a][i] # Null}

\* head = ptr->next, at the first position that has a node
Detach ==
  LET pos == Min(Full(m_p_hash_bucket)) IN
  /\ writer = "rehash" /\ Full(m_p_hash_bucket) # {}
  /\ w' = [w EXCEPT !.vptr = Current[pos]]
  /\ bucket' = [bucket EXCEPT ![m_p_hash_bucket][pos] = next[Current[pos]]]
  /\ writer' = "link"
  /\ UNCHANGED <<table, node, pool, theReader, history>>

\* a slip: the position is computed with the old size
OldPosition == m_hash_func(KeyAt(w.vptr), m_bucket_size) % w.size

NewPosition == m_hash_func(KeyAt(w.vptr), w.size)

Link ==
  /\ writer = "link"
  /\ next' = [next EXCEPT ![w.vptr] = bucket[Other][NewPosition]]
  /\ writer' = "put"
  /\ UNCHANGED <<table, bucket, usr_data, pool, w, theReader, history>>

Put ==
  /\ writer = "put"
  /\ bucket' = [bucket EXCEPT ![Other][NewPosition] = w.vptr]
  /\ w' = [w EXCEPT !.vptr = Null]
  /\ writer' = "rehash"
  /\ UNCHANGED <<table, node, pool, theReader, history>>

Grows == w.size > m_bucket_size
Moved == writer = "rehash" /\ Full(m_p_hash_bucket) = {}

SwitchArray ==
  /\ (Moved /\ Grows) \/ writer = "array"
  /\ m_p_hash_bucket' = Other
  /\ writer' = IF writer = "array" THEN "delete" ELSE "size"
  /\ UNCHANGED <<m_bucket_size, m_node_num, m_protect_dirty, bucket, node,
                 pool, w, theReader, history>>

SwitchSize ==
  /\ (Moved /\ ~Grows) \/ writer = "size"
  /\ m_bucket_size' = w.size
  /\ writer' = IF writer = "size" THEN "delete" ELSE "array"
  /\ UNCHANGED <<m_p_hash_bucket, m_node_num, m_protect_dirty, bucket, node,
                 pool, w, theReader, history>>

Delete ==
  /\ writer = "delete"
  /\ bucket' = [bucket EXCEPT ![Other] = NoArray]
  /\ writer' = "idle" /\ w' = NoWork
  /\ UNCHANGED <<table, node, pool, theReader, history>>

Writer ==
  \/ \E size \in BucketSizes, protect \in BOOLEAN : Create(size, protect)
  \/ \E data \in UserData : Add(data) \/ Replace(data)
  \/ \E k \in Keys : Remove(k)
  \/ Release \/ Fill \/ Publish \/ Recycle
  \/ \E size \in BucketSizes : Rehash(size)
  \/ Detach \/ Link \/ Put \/ SwitchArray \/ SwitchSize \/ Delete

-----------------------------------------------------------------------------
(* A reader: seek_node(), and the use of what it returns *)

Enter(k) ==
  /\ reader = "out" /\ writer # "new"
  /\ m_protect_dirty \/ writer = "idle"
  /\ QuietRehash => ~Rehashing
  /\ reader' = "enter" /\ r' = [NoSeek EXCEPT !.key = k]
  /\ answers' = {content[k]}
  /\ UNCHANGED <<table, bucket, node, pool, writer, w, content>>

ReaderMoves == UNCHANGED <<table, bucket, node, pool, writer, w, history>>

\* m_p_hash_bucket[m_hash_func(key, m_bucket_size)]: the order of the first
\* two reads is the compiler's choice
ReadArray ==
  /\ reader \in {"enter", "array"}
  /\ r' = [r EXCEPT !.array = m_p_hash_bucket]
  /\ reader' = IF reader = "enter" THEN "size" ELSE "bucket"
  /\ ReaderMoves

ReadSize ==
  /\ reader \in {"enter", "size"}
  /\ r' = [r EXCEPT !.size = m_bucket_size]
  /\ reader' = IF reader = "enter" THEN "array" ELSE "bucket"
  /\ ReaderMoves

\* outside of the array anything may be found
Read(array, pos) ==
  IF pos \in DOMAIN bucket[array] THEN {bucket[array][pos]} ELSE Addresses

Reach(vptr) ==
  /\ r' = [r EXCEPT !.vptr = vptr]
  /\ reader' = IF vptr = Null THEN "done" ELSE "node"

ReadBucket ==
  /\ reader = "bucket"
  /\ \E vptr \in Read(r.array, m_hash_func(r.key, r.size)) : Reach(vptr)
  /\ ReaderMoves

Compare ==
  /\ reader = "node"
  /\ reader' = IF KeyAt(r.vptr) = r.key THEN "use" ELSE "next"
  /\ UNCHANGED r /\ ReaderMoves

Follow == reader = "next" /\ Reach(next[r.vptr]) /\ ReaderMoves

Use ==
  /\ reader = "use"
  /\ r' = [r EXCEPT !.found = usr_data[r.vptr]]
  /\ reader' = "done"
  /\ ReaderMoves

Leave ==
  /\ reader = "done"
  /\ reader' = "out" /\ r' = NoSeek /\ answers' = {}
  /\ UNCHANGED <<table, bucket, node, pool, writer, w, content>>

Seek == ReadArray \/ ReadSize \/ ReadBucket \/ Compare \/ Follow \/ Use

Next == Writer \/ (\E k \in Keys : Enter(k)) \/ Seek \/ Leave

\* a reader inside is not held up for ever by the scheduler
Spec == Init /\ [][Next]_vars /\ WF_vars(Seek)

-----------------------------------------------------------------------------
(* Iteration: begin(), end() and operator++ *)

FirstFrom(pos) ==
  LET full == {i \in Full(m_p_hash_bucket) : i >= pos} IN
  IF full = {} THEN m_bucket_size ELSE Min(full)

At(pos) == [bucket_pos |-> pos,
            vptr |-> IF pos = m_bucket_size THEN Null ELSE Current[pos]]

\* a slip: the next bucket is taken even if it is empty
NextBucket(it) ==
  IF next[it.vptr] # Null THEN [it EXCEPT !.vptr = next[it.vptr]]
  ELSE At(it.bucket_pos + 1)

get_next(it) ==
  IF next[it.vptr] # Null THEN [it EXCEPT !.vptr = next[it.vptr]]
  ELSE At(FirstFrom(it.bucket_pos + 1))

EndIterator == [bucket_pos |-> m_bucket_size, vptr |-> Null]

\* where the iterator is after each step; it stays where it has no node
Iteration ==
  LET it[n \in 0 .. NumNodes] ==
        IF n = 0 THEN At(FirstFrom(0))
        ELSE IF it[n - 1].vptr = Null THEN it[n - 1] ELSE get_next(it[n - 1])
  IN it

-----------------------------------------------------------------------------
(* Properties *)

TypeOK ==
  /\ m_bucket_size \in 0 .. MaxBucketSize /\ m_p_hash_bucket \in Arrays
  /\ m_node_num \in 0 .. NumNodes /\ m_protect_dirty \in BOOLEAN
  /\ \A a \in Arrays :
       bucket[a] \in {NoArray} \cup UNION {[0 .. s - 1 -> Addresses] :
                                           s \in 1 .. MaxBucketSize}
  /\ next \in [Nodes -> Addresses]
  /\ usr_data \in [Nodes -> UserData \cup {Absent}]
  /\ live \subseteq Nodes /\ kept \subseteq Nodes
  /\ writer \in {"new", "idle", "replace", "remove", "fill", "publish",
                 "rehash", "link", "put", "size", "array", "delete"}
  /\ w \in [data : UserData \cup {Absent}, vptr : Addresses,
            old : Addresses, size : 0 .. MaxBucketSize]
  /\ reader \in {"out", "enter", "array", "size", "bucket", "node", "next",
                 "use", "done"}
  /\ r \in [key : Keys, size : 0 .. MaxBucketSize, array : Arrays,
            vptr : Addresses, found : UserData \cup {Absent}]
  /\ content \in [Keys -> UserData \cup {Absent}]
  /\ answers \subseteq UserData \cup {Absent}

InChain(pos) == {Chain(Current[pos])[d] : d \in 0 .. NumNodes} \ {Null}

(***************************************************************************)
(* Between two calls of the writer the chains are the map: they end, every *)
(* node in use is in the chain of its key and no other node is, no key has *)
(* two nodes, and get_detect_info() finds m_node_num nodes.                *)
(***************************************************************************)
ChainSound ==
  writer = "idle" =>
    /\ \A pos \in DOMAIN Current :
         /\ Chain(Current[pos])[NumNodes] = Null
         /\ InChain(pos) = {n \in live : Position(KeyAt(n)) = pos}
    /\ \A m, n \in live : KeyAt(m) = KeyAt(n) => m = n
    /\ \A k \in Keys :
         {content[k]} \ {Absent} = {usr_data[n] : n \in {m \in live : KeyAt(m) = k}}
    /\ m_node_num = Cardinality(live)

(***************************************************************************)
(* An iteration goes through every node in use once, and then is at end(). *)
(***************************************************************************)
IterationComplete ==
  writer = "idle" =>
    LET count == Cardinality(live) IN
    /\ {Iteration[n].vptr : n \in 0 .. count - 1} \ {Null} = live
    /\ Iteration[count] = EndIterator

(***************************************************************************)
(* A reader without a lock answers with user data its key had while it was *)
(* inside, or finds nothing if the key was absent then; and it never is at *)
(* a node that the pool may hand out again.                                *)
(***************************************************************************)
SeekSound ==
  /\ reader = "done" => r.found \in answers
  /\ reader \in {"node", "next", "use"} => r.vptr \in live \cup kept

(***************************************************************************)
(* seek_node() comes back, however busy the writer is: what is added goes  *)
(* to the heads of the chains, and protected nodes stay where they lead.   *)
(***************************************************************************)
SeekReturns == reader = "enter" ~> reader = "done"

(***************************************************************************)
(* "Otherwise with one writer and many readers an access may be out of     *)
(* range", says rehash() of its order of switching: so a reader that reads *)
(* a bucket is inside the array it has.  It is not so.                     *)
(***************************************************************************)
InRange ==
  reader = "bucket" /\ bucket[r.array] # NoArray =>
    m_hash_func(r.key, r.size) \in DOMAIN bucket[r.array]
=============================================================================
