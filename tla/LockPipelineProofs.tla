------------------------- MODULE LockPipelineProofs -------------------------
(***************************************************************************)
(* Proofs about LockPipeline, for any number of processors, cells and      *)
(* items: in the first run the mutex and the semaphores keep every cell in *)
(* the hands of one thread; in no run does a processor find the queue empty *)
(* before the generator has stopped.                                       *)
(***************************************************************************)
EXTENDS LockPipeline, FiniteSetTheorems, SequenceTheorems, TLAPS

\* The steps from cell a to cell b, going round.
Dist(a, b) == IF a <= b THEN b - a ELSE b - a + QueueSize

\* The generator has ended the run, or none has begun.
Stopped == caller \in {"wake", "join", "idle"}

\* The processors that have a post of sem_waiting_cell and not yet moved head for it.
Fetching == {p \in Procs : \/ processor[p] \in {"lock", "dequeue"}
                           \/ processor[p] = "unlock" /\ pos[p] # -1}

\* A cell given to a processor and not yet back.
Taken(c) == Dist(cpos, c) < Dist(cpos, head)

\* Before the first run.
Untouched ==
  /\ status = "Null" => runs = 0
  /\ runs = 0 => /\ caller = "idle" /\ head = 0 /\ tail = 0 /\ cpos = 0 /\ consumer = "done"
                 /\ \A p \in Procs : processor[p] = "done"
                 /\ \A c \in Cells : sem_ready_cell[c] = 0
  /\ status = "Running" => ~Stopped

\* cpos, head and tail follow one another, and sem_null_cell counts the rest of the cells.
Order ==
  /\ Dist(cpos, head) + Dist(head, tail) = Dist(cpos, tail)
  /\ ~Stopped => sem_null_cell + Dist(cpos, tail)
                   + (IF caller \in {"generate", "mark", "advance"} THEN 1 ELSE 0)
                 = QueueSize - 1

\* One processor at a time is in mutex_dequeue(); what it found stays so.
Mutex ==
  \A p \in Procs :
    /\ processor[p] \in {"dequeue", "unlock"} => dequeue_mutex = p
    /\ processor[p] = "unlock" /\ pos[p] # -1 => pos[p] = head /\ head # tail
    /\ processor[p] = "unlock" /\ pos[p] = -1 => Stopped /\ head = tail
    /\ processor[p] \in {"exit", "done"} => Stopped /\ head = tail

\* While the generator runs there is an item for every post.
Count == ~Stopped => sem_waiting_cell + Cardinality(Fetching)
                       + (IF caller = "post" THEN 1 ELSE 0) = Dist(head, tail)

\* Each processor works on a taken cell of its own, not the one the consumer has.
Owners ==
  \A p \in Procs : Working(p) =>
    /\ Taken(pos[p]) /\ sem_ready_cell[pos[p]] = 0
    /\ consumer \in {"check", "consume", "clear", "post"} => pos[p] # cpos
    /\ \A q \in Procs : q # p /\ Working(q) => pos[q] # pos[p]

\* A cell is posted once, when it is finished, but for the posts that end the run; and
\* only a taken cell can look finished.
Posts ==
  /\ \A c \in Cells :
       /\ Taken(c) => sem_ready_cell[c] <= 1
       /\ ~Taken(c) /\ sem_ready_cell[c] > 0 => Stopped /\ c = head /\ head = tail
       /\ item_status[c] \notin {"Null", "Waiting"} => Taken(c)
  /\ consumer \in {"consume", "clear", "post"} => Taken(cpos)
  /\ consumer = "check" /\ ~Taken(cpos) => Stopped /\ head = tail
  /\ consumer \in {"check", "consume", "clear", "post"} /\ Taken(cpos) => sem_ready_cell[cpos] = 0
  /\ consumer = "post" => item_status[cpos] = "Null"

\* The processors with a cell, and the posts of sem_ready_cell nobody has taken.
Workers == {p \in Procs : Working(p)}
ReadyPosts == {x \in Cells \X Nat : 1 <= x[2] /\ x[2] <= sem_ready_cell[x[1]]}

\* No thread runs between two runs.
Between ==
  /\ status = "Running" => ~Stopped
  /\ caller = "idle" => consumer = "done" /\ \A p \in Procs : processor[p] = "done"

\* The post of sem_null_cell in the hands of the thread in run(), and the post of a cell in
\* those of the consumer.
Claimed == IF caller \in {"generate", "mark", "advance"} THEN 1 ELSE 0
Handed == IF consumer \in {"check", "consume", "clear", "post"} THEN 1 ELSE 0

\* While the generator runs, the posts of sem_null_cell and what will become one never
\* exceed the room in the queue; a consumer that leaves too early takes its post with it.
Spare ==
  /\ IsFiniteSet(ReadyPosts)
  /\ ~Stopped => sem_null_cell + Claimed + Dist(head, tail) + Cardinality(Workers)
                   + Cardinality(ReadyPosts) + Handed <= QueueSize - 1

\* The inductive invariant of all runs, beside TypeOK: it asks nothing of cpos, which
\* starts at cell 0 in every run, wherever head and tail are.
ReuseInv == Between /\ Mutex /\ Count /\ Spare

\* The inductive invariant of the first run, beside TypeOK.
LockInv == Untouched /\ Order /\ Mutex /\ Count /\ Owners /\ Posts

-----------------------------------------------------------------------------
(* Cells. *)

\* There is a cell and a processor.
LEMMA Sizes ==
  /\ NumProcessor \in Nat /\ NumProcessor > 0
  /\ QueueSize \in Nat /\ QueueSize > 0 /\ 0 \in Cells
<1>1. NumProcessor \in Nat /\ NumProcessor > 0 /\ BufSize \in Nat /\ BufSize > 0
  BY LockAssumption
<1>2. NumProcessor * BufSize \in Nat /\ NumProcessor * BufSize >= NumProcessor * 1
  BY <1>1
<1> QED BY <1>1, <1>2 DEF QueueSize, Cells

\* The step to the next cell stays in the queue.
LEMMA IncCell ==
  ASSUME NEW c \in Cells
  PROVE  Inc(c) \in Cells
BY Sizes DEF Inc, Cells

\* The way from one cell to another is shorter than the queue, and names the other cell.
LEMMA DistValue ==
  ASSUME NEW a \in Cells, NEW b \in Cells
  PROVE  /\ Dist(a, b) \in Nat /\ Dist(a, b) < QueueSize
         /\ Dist(a, b) = 0 <=> a = b
         /\ \A c \in Cells : Dist(a, b) = Dist(a, c) => b = c
BY Sizes DEF Dist, Cells

\* One step further, one step more.
LEMMA DistFurther ==
  ASSUME NEW a \in Cells, NEW b \in Cells, Dist(a, b) < QueueSize - 1
  PROVE  Dist(a, Inc(b)) = Dist(a, b) + 1
BY Sizes DEF Dist, Cells, Inc

\* One step ahead, one step less.
LEMMA DistAhead ==
  ASSUME NEW a \in Cells, NEW b \in Cells, a # b
  PROVE  Dist(Inc(a), b) = Dist(a, b) - 1
BY Sizes DEF Dist, Cells, Inc

\* The way is a matter of the cells alone.
LEMMA Primes ==
  /\ Dist(cpos, head)' = Dist(cpos', head')
  /\ Dist(head, tail)' = Dist(head', tail')
  /\ Dist(cpos, tail)' = Dist(cpos', tail')
  /\ \A c : Taken(c)' <=> Dist(cpos', c) < Dist(cpos', head')
BY DEF Dist, Taken

\* Setting one place of a sequence, inside its domain or not, leaves a sequence.
LEMMA PlaceSet ==
  ASSUME NEW S, NEW s \in Seq(S), NEW i, NEW x \in S
  PROVE  [s EXCEPT ![i] = x] \in Seq(S)
<1>1. PICK n \in Nat : s \in [1 .. n -> S]
  BY SeqDef
<1>2. [s EXCEPT ![i] = x] \in [1 .. n -> S]
  BY <1>1
<1> QED BY <1>2, SeqDef

\* There are only so many processors with a post.
LEMMA FetchingFinite == IsFiniteSet(Fetching) /\ Cardinality(Fetching) \in Nat
<1>1. IsFiniteSet(Procs)
  BY Sizes, FS_Interval DEF Procs
<1>2. Fetching \subseteq Procs
  BY DEF Fetching
<1>3. IsFiniteSet(Fetching)
  BY <1>1, <1>2, FS_Subset
<1> QED BY <1>3, FS_CardinalityType

\* A processor with a post makes one.
LEMMA FetchingSome ==
  ASSUME NEW p \in Fetching
  PROVE  Cardinality(Fetching) >= 1
BY FetchingFinite, FS_EmptySet

-----------------------------------------------------------------------------
(* Type correctness. *)

\* The initial state is typed.
LEMMA InitTyped == Init => TypeOK
BY LockAssumption, Sizes DEF Init, TypeOK, ItemStatus, NoProc

\* The steps of the thread in run() keep the types.
LEMMA CallerTyped ==
  ASSUME TypeOK, Caller
  PROVE  TypeOK'
<1> USE LockAssumption, Sizes DEF procVars, consVars, history, queue, sems
<1>1. CASE Create
  <2>1. item_status' \in [Cells -> ItemStatus]
    BY <1>1 DEF Create
  <2> QED BY <1>1, <2>1 DEF TypeOK, Create
<1>2. CASE Run
  BY <1>2 DEF TypeOK, Run, InitialNull
<1>3. CASE WaitNull
  BY <1>3 DEF TypeOK, WaitNull
<1>4. CASE GenerateItem
  <2>1. outcome' \in Seq(Results \cup {Pending}) /\ Len(outcome) + 1 \in Nat
    BY <1>4 DEF TypeOK, GenerateItem
  <2>2. array' \in [Cells -> Nat]
    BY <1>4, <2>1 DEF TypeOK, GenerateItem
  <2> QED BY <1>4, <2>1, <2>2 DEF TypeOK, GenerateItem
<1>5. CASE GenerateStop
  BY <1>5 DEF TypeOK, GenerateStop
<1>6. CASE MarkWaiting
  BY <1>6 DEF TypeOK, MarkWaiting, ItemStatus
<1>7. CASE AdvanceTail
  BY <1>7, IncCell DEF TypeOK, AdvanceTail
<1>8. CASE PostWaiting
  BY <1>8 DEF TypeOK, PostWaiting
<1>9. CASE Wake
  BY <1>9 DEF TypeOK, Wake
<1>10. CASE Join
  BY <1>10 DEF TypeOK, Join
<1> QED
  BY <1>1, <1>2, <1>3, <1>4, <1>5, <1>6, <1>7, <1>8, <1>9, <1>10 DEF Caller

\* The steps of a processor thread keep the types.
LEMMA ProcessorTyped ==
  ASSUME TypeOK, NEW p \in Procs, Processor(p)
  PROVE  TypeOK'
<1> USE DEF Goto, callerVars, consVars, history, queue, sems
<1>1. CASE WaitWaiting(p)
  BY <1>1 DEF TypeOK, WaitWaiting
<1>2. CASE Lock(p)
  BY <1>2 DEF TypeOK, Lock
<1>3. CASE DequeueRead(p)
  BY <1>3 DEF TypeOK, DequeueRead
<1>4. CASE Unlock(p)
  <2>1. head' \in Cells
    BY <1>4, IncCell DEF TypeOK, Unlock
  <2> QED BY <1>4, <2>1 DEF TypeOK, Unlock, NoProc
<1>5. CASE Process(p)
  <2>1. PICK r \in Results :
          /\ pres' = [pres EXCEPT ![p] = r]
          /\ item_status' = [item_status EXCEPT ![pos[p]] = IF r = 0 THEN "Ready" ELSE "Error"]
          /\ outcome' = IF array[pos[p]] \in DOMAIN outcome
                        THEN [outcome EXCEPT ![array[pos[p]]] = r] ELSE outcome
    BY <1>5 DEF Process
  <2>2. outcome' \in Seq(Results \cup {Pending})
    BY <2>1, PlaceSet DEF TypeOK
  <2>3. item_status' \in [Cells -> ItemStatus] /\ pres' \in [Procs -> Results \cup {Pending}]
    BY <2>1 DEF TypeOK, ItemStatus
  <2> QED BY <1>5, <2>2, <2>3 DEF TypeOK, Process
<1>6. CASE StoreReturn(p)
  BY <1>6 DEF TypeOK, StoreReturn
<1>7. CASE PostReady(p)
  BY <1>7 DEF TypeOK, PostReady
<1>8. CASE ExitPost(p)
  BY <1>8 DEF TypeOK, ExitPost
<1> QED BY <1>1, <1>2, <1>3, <1>4, <1>5, <1>6, <1>7, <1>8 DEF Processor

\* The steps of the consumer keep the types.
LEMMA ConsumerTyped ==
  ASSUME TypeOK, Consumer
  PROVE  TypeOK'
<1> USE DEF callerVars, procVars, history, queue, sems
<1>1. CASE WaitReady
  BY <1>1 DEF TypeOK, WaitReady
<1>2. CASE CheckCell
  BY <1>2 DEF TypeOK, CheckCell
<1>3. CASE Consume
  <2>1. delivered' \in Seq(Nat \X (Results \cup {Pending}))
    BY <1>3 DEF TypeOK, Consume
  <2> QED BY <1>3, <2>1 DEF TypeOK, Consume
<1>4. CASE ClearCell
  BY <1>4 DEF TypeOK, ClearCell, ItemStatus
<1>5. CASE PostNull
  BY <1>5, IncCell DEF TypeOK, PostNull
<1> QED BY <1>1, <1>2, <1>3, <1>4, <1>5 DEF Consumer

-----------------------------------------------------------------------------
(* The thread in run(). *)

\* Nothing is taken when cpos and head meet; a taken cell lies before tail.
LEMMA TakenWhere ==
  ASSUME TypeOK, LockInv, NEW c \in Cells
  PROVE  /\ Taken(c) => Dist(cpos, head) # 0 /\ c # head /\ c # tail /\ cpos # tail
         /\ ~Taken(cpos) => cpos = head
         /\ ~Taken(head)
<1>1. cpos \in Cells /\ head \in Cells /\ tail \in Cells
  BY DEF TypeOK
<1>2. /\ Dist(cpos, head) \in Nat /\ Dist(head, tail) \in Nat /\ Dist(cpos, c) \in Nat
      /\ Dist(cpos, tail) \in Nat /\ Dist(cpos, cpos) = 0
      /\ Dist(cpos, head) = 0 <=> cpos = head
      /\ Dist(cpos, tail) = 0 <=> cpos = tail
  BY <1>1, DistValue
<1>3. Dist(cpos, head) + Dist(head, tail) = Dist(cpos, tail)
  BY DEF LockInv, Order
<1> QED BY <1>1, <1>2, <1>3 DEF Taken

\* The initial state satisfies the invariant.
LEMMA InitLock == Init => LockInv
<1> SUFFICES ASSUME Init PROVE LockInv
  OBVIOUS
<1>1. /\ head = 0 /\ tail = 0 /\ cpos = 0 /\ Dist(0, 0) = 0
      /\ \A c \in Cells : ~Taken(c)
  BY Sizes, DistValue DEF Init, Taken
<1>2. Untouched /\ Order /\ Mutex /\ Count
  BY <1>1 DEF Init, Untouched, Order, Mutex, Count, Stopped
<1>3. Owners /\ Posts
  BY <1>1 DEF Init, Owners, Posts, Working
<1> QED BY <1>2, <1>3 DEF LockInv

\* The steps of the thread in run() keep the invariant.
LEMMA CallerLock ==
  ASSUME MaxRuns = 1, FreshStatus \subseteq {"Null", "Waiting"}, TypeOK, LockInv, Caller
  PROVE  LockInv'
<1> USE DEF procVars, consVars, history, queue, sems, Working
<1>0. /\ head \in Cells /\ tail \in Cells /\ cpos \in Cells /\ runs \in Nat
      /\ sem_null_cell \in Nat /\ sem_waiting_cell \in Nat /\ QueueSize \in Nat
      /\ sem_ready_cell \in [Cells -> Nat] /\ item_status \in [Cells -> ItemStatus]
      /\ \A p \in Procs : processor[p] \in {"process", "return", "post"} => pos[p] \in Cells
      /\ Untouched /\ Order /\ Mutex /\ Count /\ Owners /\ Posts
      /\ Dist(cpos, head) \in Nat /\ Dist(head, tail) \in Nat /\ Dist(cpos, tail) \in Nat
  BY Sizes, DistValue DEF TypeOK, LockInv
<1>1. CASE Create
  <2>1. \A c \in Cells : item_status'[c] \in {"Null", "Waiting"}
    BY <1>1 DEF Create
  <2>2. Untouched' /\ Order' /\ Mutex'
    BY <1>0, <1>1, Primes DEF Create, Untouched, Order, Mutex, Stopped
  <2>3. Count' /\ Owners'
    BY <1>0, <1>1, Primes DEF Create, Untouched, Count, Owners, Stopped, Taken, Fetching
  <2>4. Posts'
    BY <1>0, <1>1, <2>1, Primes DEF Create, Untouched, Posts, Stopped, Taken
  <2> QED BY <2>2, <2>3, <2>4 DEF LockInv
<1>2. CASE Run
  <2>1. runs = 0 /\ head = 0 /\ tail = 0 /\ cpos = 0 /\ Dist(0, 0) = 0
    BY <1>0, <1>2, DistValue DEF Run, Untouched
  <2>2. \A c \in Cells : ~Taken(c) /\ ~Taken(c)'
    BY <2>1, <1>0, <1>2, DistValue, Primes DEF Run, Taken
  <2>3. Fetching' = {}
    BY <1>2 DEF Run, Fetching
  <2>4. Untouched' /\ Mutex' /\ Owners'
    BY <1>0, <1>2, <2>1 DEF Run, Untouched, Mutex, Owners, Stopped
  <2>5. Order' /\ Count'
    BY <1>0, <1>2, <2>1, <2>3, Primes, FS_EmptySet DEF Run, Order, Count, Stopped, InitialNull
  <2>6. Posts'
    BY <1>0, <1>2, <2>2 DEF Run, Posts
  <2> QED BY <2>4, <2>5, <2>6 DEF LockInv
<1>3. CASE WaitNull
  <2>1. Fetching' = Fetching
    BY <1>3 DEF WaitNull, Fetching
  <2>2. \A c : Taken(c)' <=> Taken(c)
    BY <1>3, Primes DEF WaitNull, Taken
  <2>3. Order'
    BY <1>0, <1>3, Primes DEF WaitNull, Order, Stopped
  <2>5. Untouched' /\ Mutex'
    BY <1>0, <1>3 DEF WaitNull, Untouched, Mutex, Stopped
  <2>4. Count' /\ Owners' /\ Posts'
    BY <1>0, <1>3, <2>1, <2>2, Primes DEF WaitNull, Count, Owners, Posts, Stopped
  <2> QED BY <2>3, <2>4, <2>5 DEF LockInv
<1>4. CASE GenerateItem
  <2>1. Fetching' = Fetching
    BY <1>4 DEF GenerateItem, Fetching
  <2>2. \A c : Taken(c)' <=> Taken(c)
    BY <1>4, Primes DEF GenerateItem, Taken
  <2>3. Untouched' /\ Order' /\ Mutex'
    BY <1>0, <1>4, Primes DEF GenerateItem, Untouched, Order, Mutex, Stopped
  <2>4. Count' /\ Owners' /\ Posts'
    BY <1>0, <1>4, <2>1, <2>2, Primes DEF GenerateItem, Count, Owners, Posts, Stopped
  <2> QED BY <2>3, <2>4 DEF LockInv
<1>5. CASE GenerateStop
  <2>2. \A c : Taken(c)' <=> Taken(c)
    BY <1>5, Primes DEF GenerateStop, Taken
  <2>3. Untouched' /\ Order' /\ Mutex'
    BY <1>0, <1>5, Primes DEF GenerateStop, Untouched, Order, Mutex, Stopped
  <2>4. Count' /\ Owners' /\ Posts'
    BY <1>0, <1>5, <2>2 DEF GenerateStop, Count, Owners, Posts, Stopped
  <2> QED BY <2>3, <2>4 DEF LockInv
<1>6. CASE MarkWaiting
  <2>1. Fetching' = Fetching
    BY <1>6 DEF MarkWaiting, Fetching
  <2>2. \A c : Taken(c)' <=> Taken(c)
    BY <1>6, Primes DEF MarkWaiting, Taken
  <2>3. Untouched' /\ Order' /\ Mutex'
    BY <1>0, <1>6, Primes DEF MarkWaiting, Untouched, Order, Mutex, Stopped
  <2>4. Count' /\ Owners'
    BY <1>0, <1>6, <2>1, <2>2, Primes DEF MarkWaiting, Count, Owners, Stopped
  <2>5. item_status' = [item_status EXCEPT ![tail] = "Waiting"]
        /\ (consumer = "post" => cpos # tail)
    BY <1>0, <1>6, TakenWhere DEF MarkWaiting, Posts
  <2>6. Posts'
    BY <1>0, <1>6, <2>2, <2>5 DEF MarkWaiting, Posts, Stopped
  <2> QED BY <2>3, <2>4, <2>6 DEF LockInv
<1>7. CASE AdvanceTail
  <2>0. tail' \in Cells
    BY <1>0, <1>7, IncCell DEF AdvanceTail
  <2>1. Dist(cpos, tail) < QueueSize - 1 /\ Dist(head, tail) < QueueSize - 1
    BY <1>0, <1>7, <2>0 DEF AdvanceTail, Order, Stopped
  <2>2. Dist(cpos', tail') = Dist(cpos, tail) + 1 /\ Dist(head', tail') = Dist(head, tail) + 1
    BY <1>0, <1>7, <2>1, DistFurther DEF AdvanceTail
  <2>3. head' # tail'
    BY <1>0, <1>7, <2>0, <2>2, DistValue DEF AdvanceTail
  <2>4. Fetching' = Fetching
    BY <1>7 DEF AdvanceTail, Fetching
  <2>5. \A c : Taken(c)' <=> Taken(c)
    BY <1>7, Primes DEF AdvanceTail, Taken
  <2>6. Order'
    BY <1>0, <1>7, <2>0, <2>2, Primes DEF AdvanceTail, Order, Stopped
  <2>7. Untouched' /\ Mutex'
    BY <1>0, <1>7, <2>3 DEF AdvanceTail, Untouched, Mutex, Stopped
  <2>8. Count'
    BY <1>0, <1>7, <2>0, <2>2, <2>4, FetchingFinite, Primes DEF AdvanceTail, Count, Stopped
  <2>9. Owners' /\ Posts'
    BY <1>0, <1>7, <2>5 DEF AdvanceTail, Owners, Posts, Stopped
  <2> QED BY <2>6, <2>7, <2>8, <2>9 DEF LockInv
<1>8. CASE PostWaiting
  <2>1. Fetching' = Fetching
    BY <1>8 DEF PostWaiting, Fetching
  <2>2. \A c : Taken(c)' <=> Taken(c)
    BY <1>8, Primes DEF PostWaiting, Taken
  <2>3. Untouched' /\ Order' /\ Mutex'
    BY <1>0, <1>8, Primes DEF PostWaiting, Untouched, Order, Mutex, Stopped
  <2>4. Count'
    BY <1>0, <1>8, <2>1, FetchingFinite, Primes DEF PostWaiting, Count, Stopped
  <2>5. Owners' /\ Posts'
    BY <1>0, <1>8, <2>2 DEF PostWaiting, Owners, Posts, Stopped
  <2> QED BY <2>3, <2>4, <2>5 DEF LockInv
<1>9. CASE Wake
  <2>1. caller' \in {"wake", "join"}
    BY <1>9 DEF Wake
  <2>2. \A c : Taken(c)' <=> Taken(c)
    BY <1>9, Primes DEF Wake, Taken
  <2>3. Untouched' /\ Order' /\ Mutex'
    BY <1>0, <1>9, <2>1, Primes DEF Wake, Untouched, Order, Mutex, Stopped
  <2>4. Count' /\ Owners' /\ Posts'
    BY <1>0, <1>9, <2>1, <2>2 DEF Wake, Count, Owners, Posts, Stopped
  <2> QED BY <2>3, <2>4 DEF LockInv
<1>10. CASE Join
  <2>2. \A c : Taken(c)' <=> Taken(c)
    BY <1>10, Primes DEF Join, Taken
  <2>3. Untouched' /\ Order' /\ Mutex'
    BY <1>0, <1>10, Primes DEF Join, Untouched, Order, Mutex, Stopped
  <2>4. Count' /\ Owners' /\ Posts'
    BY <1>0, <1>10, <2>2 DEF Join, Count, Owners, Posts, Stopped
  <2> QED BY <2>3, <2>4 DEF LockInv
<1> QED
  BY <1>1, <1>2, <1>3, <1>4, <1>5, <1>6, <1>7, <1>8, <1>9, <1>10 DEF Caller

-----------------------------------------------------------------------------
(* The processors. *)

\* While the generator runs, a processor that holds a post finds an item.
LEMMA PostHasItem ==
  ASSUME TypeOK, Count, ~Stopped, NEW p \in Fetching
  PROVE  head # tail
<1>1. sem_waiting_cell + Cardinality(Fetching) + (IF caller = "post" THEN 1 ELSE 0)
        = Dist(head, tail)
  BY DEF Count
<1>2. Dist(head, tail) # 0
  BY <1>1, FetchingSome, FetchingFinite DEF TypeOK
<1> QED BY <1>2, DistValue DEF TypeOK

\* The steps of a processor thread up to the mutex, and under it, keep the invariant.
LEMMA FetchLock ==
  ASSUME TypeOK, LockInv, NEW p \in Procs,
         WaitWaiting(p) \/ Lock(p) \/ DequeueRead(p) \/ Unlock(p)
  PROVE  LockInv'
<1> USE DEF callerVars, consVars, history, queue, sems, Goto, Working
<1>0. /\ head \in Cells /\ tail \in Cells /\ cpos \in Cells
      /\ sem_null_cell \in Nat /\ sem_waiting_cell \in Nat /\ QueueSize \in Nat
      /\ sem_ready_cell \in [Cells -> Nat]
      /\ processor \in [Procs -> {"wait", "lock", "dequeue", "unlock", "process",
                                  "return", "post", "exit", "done"}]
      /\ pos \in [Procs -> Cells \cup {-1}]
      /\ \A q \in Procs : processor[q] \in {"process", "return", "post"} => pos[q] \in Cells
      /\ Untouched /\ Order /\ Mutex /\ Count /\ Owners /\ Posts
      /\ Dist(cpos, head) \in Nat /\ Dist(head, tail) \in Nat /\ Dist(cpos, tail) \in Nat
      /\ \A c \in Cells : c # -1
      /\ \A q \in Procs : q # NoProc
  <2>1. (\A c \in Cells : c # -1) /\ \A q \in Procs : q # NoProc
    BY Sizes DEF Cells, Procs, NoProc
  <2> QED BY <2>1, Sizes, DistValue DEF TypeOK, LockInv
<1>1. CASE WaitWaiting(p)
  <2>1. Fetching' = Fetching \cup {p} /\ p \notin Fetching
    BY <1>0, <1>1 DEF WaitWaiting, Fetching
  <2>2. Cardinality(Fetching') = Cardinality(Fetching) + 1
    BY <2>1, FetchingFinite, FS_AddElement
  <2>3. \A c : Taken(c)' <=> Taken(c)
    BY <1>1, Primes DEF WaitWaiting, Taken
  <2>4. Order'
    BY <1>0, <1>1, Primes DEF WaitWaiting, Order, Stopped
  <2>5. Untouched' /\ Mutex'
    BY <1>0, <1>1 DEF WaitWaiting, Untouched, Mutex, Stopped
  <2>6. Count'
    BY <1>0, <1>1, <2>2, FetchingFinite, Primes DEF WaitWaiting, Count, Stopped
  <2>7. Owners' /\ Posts'
    BY <1>0, <1>1, <2>3 DEF WaitWaiting, Owners, Posts, Stopped
  <2> QED BY <2>4, <2>5, <2>6, <2>7 DEF LockInv
<1>2. CASE Lock(p)
  <2>1. Fetching' = Fetching
    BY <1>0, <1>2 DEF Lock, Fetching
  <2>2. \A c : Taken(c)' <=> Taken(c)
    BY <1>2, Primes DEF Lock, Taken
  <2>3. Order'
    BY <1>0, <1>2, Primes DEF Lock, Order, Stopped
  <2>4. Untouched' /\ Mutex'
    BY <1>0, <1>2 DEF Lock, Untouched, Mutex, Stopped
  <2>5. Count'
    BY <1>0, <1>2, <2>1, Primes DEF Lock, Count, Stopped
  <2>6. Owners' /\ Posts'
    BY <1>0, <1>2, <2>2 DEF Lock, Owners, Posts, Stopped
  <2> QED BY <2>3, <2>4, <2>5, <2>6 DEF LockInv
<1>3. CASE DequeueRead(p)
  <2>1. ~Stopped => head # tail
    BY <1>0, <1>3, PostHasItem DEF DequeueRead, Fetching
  <2>2. pos' = [pos EXCEPT ![p] = pos'[p]] /\ (pos'[p] = IF head = tail THEN -1 ELSE head)
    BY <1>0, <1>3 DEF DequeueRead
  <2>3. ~Stopped => Fetching' = Fetching
    BY <1>0, <1>3, <2>1, <2>2 DEF DequeueRead, Fetching
  <2>4. \A c : Taken(c)' <=> Taken(c)
    BY <1>3, Primes DEF DequeueRead, Taken
  <2>5. Order'
    BY <1>0, <1>3, Primes DEF DequeueRead, Order, Stopped
  <2>6. Untouched' /\ Mutex'
    BY <1>0, <1>3, <2>1, <2>2 DEF DequeueRead, Untouched, Mutex, Stopped
  <2>7. Count'
    BY <1>0, <1>3, <2>3, Primes DEF DequeueRead, Count, Stopped
  <2>8. Owners' /\ Posts'
    BY <1>0, <1>3, <2>2, <2>4 DEF DequeueRead, Owners, Posts, Stopped
  <2> QED BY <2>5, <2>6, <2>7, <2>8 DEF LockInv
<1>4. CASE Unlock(p) /\ pos[p] = -1
  <2>1. Stopped /\ head = tail
    BY <1>0, <1>4 DEF Unlock, Mutex
  <2>2. \A c : Taken(c)' <=> Taken(c)
    BY <1>4, Primes DEF Unlock, Taken
  <2>3. Order'
    BY <1>0, <1>4, Primes DEF Unlock, Order, Stopped
  <2>4. Untouched' /\ Mutex'
    BY <1>0, <1>4, <2>1 DEF Unlock, Untouched, Mutex, Stopped
  <2>5. Count'
    BY <1>4, <2>1 DEF Unlock, Count, Stopped
  <2>6. Owners' /\ Posts'
    BY <1>0, <1>4, <2>2 DEF Unlock, Owners, Posts, Stopped
  <2> QED BY <2>3, <2>4, <2>5, <2>6 DEF LockInv
<1>5. CASE Unlock(p) /\ pos[p] # -1
  <2>1. /\ pos[p] = head /\ head # tail /\ head' = Inc(head) /\ head' \in Cells
        /\ processor' = [processor EXCEPT ![p] = "process"] /\ processor[p] = "unlock"
    BY <1>0, <1>5, IncCell DEF Unlock, Mutex
  <2>2. Dist(head, tail) > 0 /\ Dist(cpos, head) < QueueSize - 1
    BY <1>0, <2>1, DistValue DEF Order
  <2>3. Dist(cpos', head') = Dist(cpos, head) + 1 /\ Dist(head', tail') = Dist(head, tail) - 1
    BY <1>0, <1>5, <2>1, <2>2, DistFurther, DistAhead DEF Unlock
  <2>4. \A c \in Cells : Taken(c)' <=> Taken(c) \/ c = head
    <3> SUFFICES ASSUME NEW c \in Cells PROVE Taken(c)' <=> Taken(c) \/ c = head
      OBVIOUS
    <3>1. Dist(cpos, c) \in Nat /\ (Dist(cpos, c) = Dist(cpos, head) <=> c = head)
      BY <1>0, DistValue
    <3>2. cpos' = cpos
      BY <1>5 DEF Unlock
    <3> QED BY <1>0, <2>3, <3>1, <3>2, Primes DEF Taken
  <2>5. Fetching' = Fetching \ {p} /\ p \in Fetching
    BY <1>0, <1>5, <2>1 DEF Unlock, Fetching
  <2>6. Cardinality(Fetching') = Cardinality(Fetching) - 1
    BY <2>5, FetchingFinite, FS_RemoveElement
  <2>7. Order'
    BY <1>0, <1>5, <2>3, Primes DEF Unlock, Order, Stopped
  <2>8. Untouched' /\ Mutex'
    BY <1>0, <1>5, <2>1 DEF Unlock, Untouched, Mutex, Stopped
  <2>9. Count'
    BY <1>0, <1>5, <2>3, <2>6, FetchingFinite, Primes DEF Unlock, Count, Stopped
  <2>10. ~Taken(head) /\ (~Taken(cpos) => cpos = head)
    BY <1>0, TakenWhere
  <2>11. sem_ready_cell[head] = 0 /\ (consumer \in {"check", "consume", "clear", "post"}
                                        => cpos # head)
    BY <1>0, <2>1, <2>10 DEF Posts
  <2>12. Owners'
    BY <1>0, <1>5, <2>1, <2>4, <2>10, <2>11 DEF Unlock, Owners
  <2>13. Posts'
    BY <1>0, <1>5, <2>1, <2>4, <2>10, <2>11 DEF Unlock, Posts, Stopped
  <2> QED BY <2>7, <2>8, <2>9, <2>12, <2>13 DEF LockInv
<1> QED BY <1>1, <1>2, <1>3, <1>4, <1>5

\* So do the others.
LEMMA WorkLock ==
  ASSUME TypeOK, LockInv, NEW p \in Procs,
         Process(p) \/ StoreReturn(p) \/ PostReady(p) \/ ExitPost(p)
  PROVE  LockInv'
<1> USE DEF callerVars, consVars, history, queue, sems, Goto, Working
<1>0. /\ head \in Cells /\ tail \in Cells /\ cpos \in Cells
      /\ sem_null_cell \in Nat /\ sem_waiting_cell \in Nat /\ QueueSize \in Nat
      /\ sem_ready_cell \in [Cells -> Nat] /\ item_status \in [Cells -> ItemStatus]
      /\ processor \in [Procs -> {"wait", "lock", "dequeue", "unlock", "process",
                                  "return", "post", "exit", "done"}]
      /\ pos \in [Procs -> Cells \cup {-1}]
      /\ \A q \in Procs : processor[q] \in {"process", "return", "post"} => pos[q] \in Cells
      /\ Untouched /\ Order /\ Mutex /\ Count /\ Owners /\ Posts
      /\ Dist(cpos, head) \in Nat /\ Dist(head, tail) \in Nat /\ Dist(cpos, tail) \in Nat
  BY Sizes, DistValue DEF TypeOK, LockInv
<1>1. Fetching' = Fetching
  BY <1>0 DEF Process, StoreReturn, PostReady, ExitPost, Fetching
<1>2. \A c : Taken(c)' <=> Taken(c)
  BY Primes DEF Process, StoreReturn, PostReady, ExitPost, Taken
<1>3. Order' /\ Count'
  BY <1>0, <1>1, Primes DEF Process, StoreReturn, PostReady, ExitPost, Order, Count, Stopped
<1>4. Untouched'
  BY <1>0 DEF Process, StoreReturn, PostReady, ExitPost, Untouched, Stopped, Mutex
<1>5. Mutex'
  BY <1>0 DEF Process, StoreReturn, PostReady, ExitPost, Mutex, Stopped
<1>6. CASE Process(p)
  <2>1. item_status' = [item_status EXCEPT ![pos[p]] = item_status'[pos[p]]]
    BY <1>0, <1>6 DEF Process
  <2>2. Owners'
    BY <1>0, <1>2, <1>6 DEF Process, Owners
  <2>3. Posts'
    BY <1>0, <1>2, <1>6, <2>1 DEF Process, Owners, Posts, Stopped
  <2> QED BY <1>3, <1>4, <1>5, <2>2, <2>3 DEF LockInv
<1>7. CASE StoreReturn(p)
  <2>1. Owners' /\ Posts'
    BY <1>0, <1>2, <1>7 DEF StoreReturn, Owners, Posts, Stopped
  <2> QED BY <1>3, <1>4, <1>5, <2>1 DEF LockInv
<1>8. CASE PostReady(p)
  <2>1. Taken(pos[p]) /\ sem_ready_cell[pos[p]] = 0 /\ pos[p] \in Cells
    BY <1>0, <1>8 DEF PostReady, Owners
  <2>2. sem_ready_cell' = [sem_ready_cell EXCEPT ![pos[p]] = 1]
    BY <1>0, <1>8, <2>1 DEF PostReady
  <2>3. Owners'
    BY <1>0, <1>2, <1>8, <2>2 DEF PostReady, Owners
  <2>4. Posts'
    BY <1>0, <1>2, <1>8, <2>1, <2>2 DEF PostReady, Owners, Posts, Stopped
  <2> QED BY <1>3, <1>4, <1>5, <2>3, <2>4 DEF LockInv
<1>9. CASE ExitPost(p)
  <2>1. Stopped /\ head = tail /\ ~Taken(head)
    BY <1>0, <1>9, TakenWhere DEF ExitPost, Mutex
  <2>2. sem_ready_cell' = [sem_ready_cell EXCEPT ![head] = sem_ready_cell'[head]]
    BY <1>0, <1>9 DEF ExitPost
  <2>3. Owners'
    BY <1>0, <1>2, <1>9, <2>1, <2>2 DEF ExitPost, Owners
  <2>4. Posts'
    BY <1>0, <1>2, <1>9, <2>1, <2>2 DEF ExitPost, Posts, Stopped
  <2> QED BY <1>3, <1>4, <1>5, <2>3, <2>4 DEF LockInv
<1> QED BY <1>6, <1>7, <1>8, <1>9

-----------------------------------------------------------------------------
(* The consumer. *)

\* The steps of the consumer keep the invariant.
LEMMA ConsumerLock ==
  ASSUME TypeOK, LockInv, Consumer
  PROVE  LockInv'
<1> USE DEF callerVars, procVars, history, queue, sems, Working
<1>0. /\ head \in Cells /\ tail \in Cells /\ cpos \in Cells
      /\ sem_null_cell \in Nat /\ sem_waiting_cell \in Nat /\ QueueSize \in Nat
      /\ sem_ready_cell \in [Cells -> Nat] /\ item_status \in [Cells -> ItemStatus]
      /\ \A q \in Procs : processor[q] \in {"process", "return", "post"} => pos[q] \in Cells
      /\ Untouched /\ Order /\ Mutex /\ Count /\ Owners /\ Posts
      /\ Dist(cpos, head) \in Nat /\ Dist(head, tail) \in Nat /\ Dist(cpos, tail) \in Nat
  BY Sizes, DistValue DEF TypeOK, LockInv
<1>1. Fetching' = Fetching
  BY DEF Consumer, WaitReady, CheckCell, Consume, ClearCell, PostNull, Fetching
<1>2. Untouched' /\ Mutex'
  BY <1>0 DEF Consumer, WaitReady, CheckCell, Consume, ClearCell, PostNull, Untouched, Mutex,
              Stopped
<1>3. ASSUME WaitReady \/ CheckCell \/ Consume \/ ClearCell
      PROVE  Order' /\ Count' /\ \A c : Taken(c)' <=> Taken(c)
  BY <1>0, <1>1, <1>3, Primes
     DEF WaitReady, CheckCell, Consume, ClearCell, Order, Count, Stopped, Taken
<1>4. CASE WaitReady
  <2>1. sem_ready_cell' = [sem_ready_cell EXCEPT ![cpos] = sem_ready_cell'[cpos]]
        /\ sem_ready_cell'[cpos] = sem_ready_cell[cpos] - 1 /\ sem_ready_cell[cpos] > 0
    BY <1>0, <1>4 DEF WaitReady
  <2>2. Owners'
    BY <1>0, <1>3, <1>4, <2>1 DEF WaitReady, Owners
  <2>3. Posts'
    BY <1>0, <1>3, <1>4, <2>1 DEF WaitReady, Posts, Stopped
  <2> QED BY <1>2, <1>3, <1>4, <2>2, <2>3 DEF LockInv
<1>5. CASE CheckCell
  <2>1. Owners' /\ Posts'
    BY <1>0, <1>3, <1>5 DEF CheckCell, Owners, Posts, Stopped
  <2> QED BY <1>2, <1>3, <1>5, <2>1 DEF LockInv
<1>6. CASE Consume
  <2>1. Owners' /\ Posts'
    BY <1>0, <1>3, <1>6 DEF Consume, Owners, Posts, Stopped
  <2> QED BY <1>2, <1>3, <1>6, <2>1 DEF LockInv
<1>7. CASE ClearCell
  <2>1. Owners' /\ Posts'
    BY <1>0, <1>3, <1>7 DEF ClearCell, Owners, Posts, Stopped
  <2> QED BY <1>2, <1>3, <1>7, <2>1 DEF LockInv
<1>8. CASE PostNull
  <2>1. /\ Taken(cpos) /\ cpos # head /\ cpos # tail /\ cpos' = Inc(cpos) /\ cpos' \in Cells
        /\ Dist(cpos, head) # 0
    BY <1>0, <1>8, IncCell, TakenWhere DEF PostNull, Posts
  <2>2. /\ Dist(cpos', head') = Dist(cpos, head) - 1 /\ Dist(cpos', tail') = Dist(cpos, tail) - 1
        /\ Dist(head', tail') = Dist(head, tail)
    BY <1>0, <1>8, <2>1, DistAhead DEF PostNull
  <2>3. \A c \in Cells : Taken(c)' <=> Taken(c) /\ c # cpos
    <3> SUFFICES ASSUME NEW c \in Cells PROVE Taken(c)' <=> Taken(c) /\ c # cpos
      OBVIOUS
    <3>1. CASE c # cpos
      <4>1. Dist(cpos', c) = Dist(cpos, c) - 1 /\ Dist(cpos, c) \in Nat
        BY <1>0, <2>1, <3>1, DistAhead, DistValue
      <4> QED BY <1>0, <2>2, <3>1, <4>1, Primes DEF Taken
    <3>2. CASE c = cpos
      <4>1. Dist(cpos', c) = QueueSize - 1
        BY <1>0, <2>1, <3>2, Sizes DEF Dist, Inc, Cells
      <4>2. Dist(cpos, head) < QueueSize
        BY <1>0, DistValue
      <4> QED BY <1>0, <2>2, <3>2, <4>1, <4>2, Primes
    <3> QED BY <3>1, <3>2
  <2>4. Order' /\ Count'
    BY <1>0, <1>1, <1>8, <2>2, Primes DEF PostNull, Order, Count, Stopped
  <2>5. Owners'
    BY <1>0, <1>8, <2>1, <2>3 DEF PostNull, Owners
  <2>6. Posts'
    BY <1>0, <1>8, <2>1, <2>3 DEF PostNull, Posts, Stopped
  <2> QED BY <1>2, <2>4, <2>5, <2>6 DEF LockInv
<1> QED BY <1>4, <1>5, <1>6, <1>7, <1>8 DEF Consumer

-----------------------------------------------------------------------------
(* Any number of runs, and any contents of fresh memory. *)

\* There are only so many processors at work.
LEMMA WorkersFinite == IsFiniteSet(Workers) /\ Cardinality(Workers) \in Nat
<1>1. IsFiniteSet(Procs)
  BY Sizes, FS_Interval DEF Procs
<1>2. Workers \subseteq Procs
  BY DEF Workers
<1>3. IsFiniteSet(Workers)
  BY <1>1, <1>2, FS_Subset
<1> QED BY <1>3, FS_CardinalityType

\* A post adds one.
LEMMA PostAdded ==
  ASSUME TypeOK, IsFiniteSet(ReadyPosts), NEW c \in Cells,
         sem_ready_cell' = [sem_ready_cell EXCEPT ![c] = @ + 1]
  PROVE  /\ IsFiniteSet(ReadyPosts')
         /\ Cardinality(ReadyPosts') = Cardinality(ReadyPosts) + 1
<1>1. sem_ready_cell \in [Cells -> Nat] /\ sem_ready_cell[c] \in Nat
  BY DEF TypeOK
<1> DEFINE x == <<c, sem_ready_cell[c] + 1>>
<1>2. \A d \in Cells : sem_ready_cell'[d] = IF d = c THEN sem_ready_cell[c] + 1
                                            ELSE sem_ready_cell[d]
  BY <1>1
<1>3. \A d \in Cells, i \in Nat :
        1 <= i /\ i <= sem_ready_cell'[d]
          <=> (1 <= i /\ i <= sem_ready_cell[d]) \/ (d = c /\ i = sem_ready_cell[c] + 1)
  BY <1>1, <1>2
<1>4. ReadyPosts' = ReadyPosts \cup {x} /\ x \notin ReadyPosts
  BY <1>1, <1>3 DEF ReadyPosts
<1> HIDE DEF x
<1> QED BY <1>4, FS_AddElement

\* A wait takes one.
LEMMA PostTaken ==
  ASSUME TypeOK, IsFiniteSet(ReadyPosts), NEW c \in Cells, sem_ready_cell[c] > 0,
         sem_ready_cell' = [sem_ready_cell EXCEPT ![c] = @ - 1]
  PROVE  /\ IsFiniteSet(ReadyPosts')
         /\ Cardinality(ReadyPosts') = Cardinality(ReadyPosts) - 1
<1>1. sem_ready_cell \in [Cells -> Nat] /\ sem_ready_cell[c] \in Nat
  BY DEF TypeOK
<1> DEFINE x == <<c, sem_ready_cell[c]>>
<1>2. \A d \in Cells : sem_ready_cell'[d] = IF d = c THEN sem_ready_cell[c] - 1
                                            ELSE sem_ready_cell[d]
  BY <1>1
<1>3. \A d \in Cells, i \in Nat :
        1 <= i /\ i <= sem_ready_cell'[d]
          <=> (1 <= i /\ i <= sem_ready_cell[d]) /\ ~(d = c /\ i = sem_ready_cell[c])
  BY <1>1, <1>2
<1>4. ReadyPosts' = ReadyPosts \ {x} /\ x \in ReadyPosts
  BY <1>1, <1>3 DEF ReadyPosts
<1> HIDE DEF x
<1> QED BY <1>4, FS_RemoveElement

\* The numbers the invariant adds up.
LEMMA SpareNumbers ==
  ASSUME TypeOK, ReuseInv
  PROVE  /\ head \in Cells /\ tail \in Cells /\ cpos \in Cells /\ QueueSize \in Nat
         /\ sem_null_cell \in Nat /\ sem_waiting_cell \in Nat
         /\ sem_ready_cell \in [Cells -> Nat]
         /\ processor \in [Procs -> {"wait", "lock", "dequeue", "unlock", "process",
                                     "return", "post", "exit", "done"}]
         /\ pos \in [Procs -> Cells \cup {-1}]
         /\ \A p \in Procs : processor[p] \in {"process", "return", "post"} => pos[p] \in Cells
         /\ Dist(head, tail) \in Nat
         /\ Cardinality(Fetching) \in Nat /\ Cardinality(Workers) \in Nat
         /\ IsFiniteSet(ReadyPosts) /\ Cardinality(ReadyPosts) \in Nat
         /\ Claimed \in 0 .. 1 /\ Handed \in 0 .. 1
         /\ Between /\ Mutex /\ Count /\ Spare
<1>1. IsFiniteSet(ReadyPosts) /\ Cardinality(ReadyPosts) \in Nat
  BY FS_CardinalityType DEF ReuseInv, Spare
<1>2. Claimed \in 0 .. 1 /\ Handed \in 0 .. 1
  BY DEF Claimed, Handed
<1> QED BY <1>1, <1>2, Sizes, DistValue, FetchingFinite, WorkersFinite DEF TypeOK, ReuseInv

\* The initial state satisfies it.
LEMMA InitReuse == Init => ReuseInv
<1> SUFFICES ASSUME Init PROVE ReuseInv
  OBVIOUS
<1>1. ReadyPosts = {}
  BY DEF Init, ReadyPosts
<1> QED BY <1>1, FS_EmptySet
        DEF Init, ReuseInv, Between, Mutex, Count, Spare, Stopped

\* The steps of the thread in run() keep it.
LEMMA CallerReuse ==
  ASSUME TypeOK, ReuseInv, Caller
  PROVE  ReuseInv'
<1> USE DEF procVars, consVars, history, queue, sems
<1>0. /\ head \in Cells /\ tail \in Cells /\ QueueSize \in Nat
      /\ sem_null_cell \in Nat /\ sem_waiting_cell \in Nat /\ sem_ready_cell \in [Cells -> Nat]
      /\ Dist(head, tail) \in Nat
      /\ Cardinality(Fetching) \in Nat /\ Cardinality(Workers) \in Nat
      /\ IsFiniteSet(ReadyPosts) /\ Cardinality(ReadyPosts) \in Nat
      /\ Claimed \in 0 .. 1 /\ Handed \in 0 .. 1
      /\ Between /\ Mutex /\ Count /\ Spare
  BY SpareNumbers
<1>1. CASE Create
  <2>1. caller' = "idle" /\ Between' /\ Mutex'
    BY <1>0, <1>1 DEF Create, Between, Mutex, Stopped
  <2>2. ReadyPosts' = ReadyPosts
    BY <1>1 DEF Create, ReadyPosts
  <2> QED BY <1>0, <2>1, <2>2 DEF ReuseInv, Count, Spare, Stopped
<1>2. CASE Run
  <2>1. head = tail /\ Dist(head', tail') = 0
    <3>1. 0 \in Procs /\ processor[0] = "done"
      BY <1>0, <1>2, Sizes DEF Run, Between, Procs
    <3> QED BY <1>0, <1>2, <3>1, DistValue DEF Run, Mutex
  <2>2. Fetching' = {} /\ Workers' = {} /\ ReadyPosts' = {}
    <3>1. \A p \in Procs : processor'[p] = "wait"
      BY <1>2 DEF Run
    <3>2. \A c \in Cells : sem_ready_cell'[c] = 0
      BY <1>2 DEF Run
    <3> QED BY <3>1, <3>2 DEF Fetching, Workers, ReadyPosts, Working
  <2>3. Between' /\ Mutex'
    BY <1>2 DEF Run, Between, Mutex, Stopped
  <2>4. Count' /\ Spare'
    BY <1>0, <1>2, <2>1, <2>2, Primes, FS_EmptySet
       DEF Run, Count, Spare, Stopped, InitialNull, Claimed, Handed
  <2> QED BY <2>3, <2>4 DEF ReuseInv
<1>3. ASSUME ~Create, ~Run
      PROVE  /\ Fetching' = Fetching /\ Workers' = Workers /\ ReadyPosts' = ReadyPosts
             /\ head' = head /\ caller # "idle"
  BY <1>3 DEF Caller, WaitNull, GenerateItem, GenerateStop, MarkWaiting, AdvanceTail,
              PostWaiting, Wake, Join, Fetching, Workers, Working, ReadyPosts
<1>4. CASE WaitNull \/ GenerateItem \/ MarkWaiting \/ PostWaiting
  <2>1. ~Create /\ ~Run
    BY <1>4 DEF Create, Run, WaitNull, GenerateItem, MarkWaiting, PostWaiting
  <2>2. Between' /\ Mutex'
    BY <1>0, <1>4 DEF WaitNull, GenerateItem, MarkWaiting, PostWaiting, Between, Mutex, Stopped
  <2>3. Count'
    BY <1>0, <1>3, <1>4, <2>1, Primes
       DEF WaitNull, GenerateItem, MarkWaiting, PostWaiting, Count, Stopped
  <2>4. /\ sem_null_cell' + Claimed' = sem_null_cell + Claimed /\ sem_null_cell' \in Nat
        /\ Handed' = Handed /\ Dist(head, tail)' = Dist(head, tail) /\ ~Stopped
        /\ Claimed \in 0 .. 1 /\ Claimed' \in 0 .. 1 /\ Handed \in 0 .. 1
    BY <1>0, <1>4
       DEF WaitNull, GenerateItem, MarkWaiting, PostWaiting, Claimed, Handed, Stopped, Dist
  <2>5. Spare'
    BY <1>0, <1>3, <2>1, <2>4 DEF Spare
  <2> QED BY <2>2, <2>3, <2>5 DEF ReuseInv
<1>5. CASE AdvanceTail
  <2>0. ~Create /\ ~Run /\ tail' \in Cells /\ tail' = Inc(tail) /\ head' = head
    BY <1>0, <1>5, IncCell DEF AdvanceTail, Create, Run
  <2>1. Dist(head, tail) < QueueSize - 1
    BY <1>0, <1>5 DEF AdvanceTail, Spare, Stopped, Claimed, Handed
  <2>2. Dist(head', tail') = Dist(head, tail) + 1
    BY <1>0, <2>0, <2>1, DistFurther
  <2>3. head' # tail'
    BY <1>0, <2>0, <2>2, DistValue
  <2>4. Between' /\ Mutex'
    BY <1>0, <1>5, <2>3 DEF AdvanceTail, Between, Mutex, Stopped
  <2>5. Count'
    BY <1>0, <1>3, <1>5, <2>0, <2>2, Primes DEF AdvanceTail, Count, Stopped
  <2>6. Spare'
    BY <1>0, <1>3, <1>5, <2>0, <2>2, Primes DEF AdvanceTail, Spare, Stopped, Claimed, Handed
  <2> QED BY <2>4, <2>5, <2>6 DEF ReuseInv
<1>6. CASE GenerateStop \/ Wake \/ Join
  <2>1. ~Create /\ ~Run /\ Stopped'
    BY <1>6 DEF Create, Run, GenerateStop, Wake, Join, Stopped
  <2>2. Between' /\ Mutex'
    BY <1>0, <1>6, <2>1 DEF GenerateStop, Wake, Join, Between, Mutex, Stopped
  <2>3. Count' /\ Spare'
    BY <1>0, <1>3, <2>1 DEF Count, Spare
  <2> QED BY <2>2, <2>3 DEF ReuseInv
<1> QED BY <1>1, <1>2, <1>4, <1>5, <1>6 DEF Caller

\* The steps of a processor thread keep it.
LEMMA ProcessorReuse ==
  ASSUME TypeOK, ReuseInv, NEW p \in Procs, Processor(p)
  PROVE  ReuseInv'
<1> USE DEF callerVars, consVars, history, queue, sems, Goto
<1>0. /\ head \in Cells /\ tail \in Cells /\ QueueSize \in Nat
      /\ sem_null_cell \in Nat /\ sem_waiting_cell \in Nat /\ sem_ready_cell \in [Cells -> Nat]
      /\ processor \in [Procs -> {"wait", "lock", "dequeue", "unlock", "process",
                                  "return", "post", "exit", "done"}]
      /\ pos \in [Procs -> Cells \cup {-1}]
      /\ \A q \in Procs : processor[q] \in {"process", "return", "post"} => pos[q] \in Cells
      /\ Dist(head, tail) \in Nat
      /\ Cardinality(Fetching) \in Nat /\ Cardinality(Workers) \in Nat
      /\ IsFiniteSet(ReadyPosts) /\ Cardinality(ReadyPosts) \in Nat
      /\ Claimed \in 0 .. 1 /\ Handed \in 0 .. 1
      /\ Between /\ Mutex /\ Count /\ Spare
      /\ \A c \in Cells : c # -1
      /\ \A q \in Procs : q # NoProc
  <2>1. (\A c \in Cells : c # -1) /\ \A q \in Procs : q # NoProc
    BY Sizes DEF Cells, Procs, NoProc
  <2> QED BY <2>1, SpareNumbers
<1>1. caller' = caller /\ status' = status /\ consumer' = consumer /\ tail' = tail
      /\ sem_null_cell' = sem_null_cell /\ (Stopped' <=> Stopped)
      /\ Claimed' = Claimed /\ Handed' = Handed
  BY DEF Processor, WaitWaiting, Lock, DequeueRead, Unlock, Process, StoreReturn, PostReady,
         ExitPost, Stopped, Claimed, Handed
<1>2. Between'
  BY <1>0, <1>1 DEF Between, Processor, WaitWaiting, Lock, DequeueRead, Unlock, Process,
                    StoreReturn, PostReady, ExitPost
<1>3. CASE WaitWaiting(p)
  <2>1. Fetching' = Fetching \cup {p} /\ p \notin Fetching
    BY <1>0, <1>3 DEF WaitWaiting, Fetching
  <2>2. Cardinality(Fetching') = Cardinality(Fetching) + 1
    BY <2>1, FetchingFinite, FS_AddElement
  <2>3. Workers' = Workers /\ ReadyPosts' = ReadyPosts /\ head' = head
    BY <1>0, <1>3 DEF WaitWaiting, Workers, Working, ReadyPosts
  <2>4. Mutex'
    BY <1>0, <1>1, <1>3 DEF WaitWaiting, Mutex
  <2>5. Count' /\ Spare'
    BY <1>0, <1>1, <1>3, <2>2, <2>3, Primes DEF WaitWaiting, Count, Spare
  <2> QED BY <1>2, <2>4, <2>5 DEF ReuseInv
<1>4. CASE Lock(p)
  <2>1. Fetching' = Fetching /\ Workers' = Workers /\ ReadyPosts' = ReadyPosts /\ head' = head
    BY <1>0, <1>4 DEF Lock, Fetching, Workers, Working, ReadyPosts
  <2>2. Mutex'
    BY <1>0, <1>1, <1>4 DEF Lock, Mutex
  <2>3. Count' /\ Spare'
    BY <1>0, <1>1, <1>4, <2>1, Primes DEF Lock, Count, Spare
  <2> QED BY <1>2, <2>2, <2>3 DEF ReuseInv
<1>5. CASE DequeueRead(p)
  <2>1. ~Stopped => head # tail
    BY <1>0, <1>5, PostHasItem DEF DequeueRead, Fetching
  <2>2. pos' = [pos EXCEPT ![p] = pos'[p]] /\ (pos'[p] = IF head = tail THEN -1 ELSE head)
    BY <1>0, <1>5 DEF DequeueRead
  <2>3. ~Stopped => Fetching' = Fetching
    BY <1>0, <1>5, <2>1, <2>2 DEF DequeueRead, Fetching
  <2>4. Workers' = Workers /\ ReadyPosts' = ReadyPosts /\ head' = head
    BY <1>0, <1>5 DEF DequeueRead, Workers, Working, ReadyPosts
  <2>5. Mutex'
    BY <1>0, <1>1, <1>5, <2>1, <2>2 DEF DequeueRead, Mutex
  <2>6. Count' /\ Spare'
    BY <1>0, <1>1, <1>5, <2>3, <2>4, Primes DEF DequeueRead, Count, Spare
  <2> QED BY <1>2, <2>5, <2>6 DEF ReuseInv
<1>6. CASE Unlock(p) /\ pos[p] = -1
  <2>1. Stopped /\ head = tail /\ head' = head /\ ReadyPosts' = ReadyPosts
    BY <1>0, <1>6 DEF Unlock, Mutex, ReadyPosts
  <2>2. Mutex'
    BY <1>0, <1>1, <1>6, <2>1 DEF Unlock, Mutex
  <2>3. Count' /\ Spare'
    BY <1>0, <1>1, <2>1 DEF Count, Spare
  <2> QED BY <1>2, <2>2, <2>3 DEF ReuseInv
<1>7. CASE Unlock(p) /\ pos[p] # -1
  <2>1. /\ pos[p] = head /\ head # tail /\ head' = Inc(head) /\ head' \in Cells
        /\ processor' = [processor EXCEPT ![p] = "process"] /\ processor[p] = "unlock"
    BY <1>0, <1>7, IncCell DEF Unlock, Mutex
  <2>2. Dist(head', tail') = Dist(head, tail) - 1
    BY <1>0, <1>1, <2>1, DistAhead
  <2>3. Fetching' = Fetching \ {p} /\ p \in Fetching
    BY <1>0, <1>7, <2>1 DEF Unlock, Fetching
  <2>4. Workers' = Workers \cup {p} /\ p \notin Workers
    BY <1>0, <2>1 DEF Workers, Working
  <2>5. Cardinality(Fetching') = Cardinality(Fetching) - 1
    BY <2>3, FetchingFinite, FS_RemoveElement
  <2>6. Cardinality(Workers') = Cardinality(Workers) + 1
    BY <2>4, WorkersFinite, FS_AddElement
  <2>7. ReadyPosts' = ReadyPosts /\ sem_waiting_cell' = sem_waiting_cell
    BY <1>7 DEF Unlock, ReadyPosts
  <2>8. Mutex'
    BY <1>0, <1>1, <1>7, <2>1 DEF Unlock, Mutex
  <2>9. Count' /\ Spare'
    BY <1>0, <1>1, <2>2, <2>5, <2>6, <2>7, Primes DEF Count, Spare
  <2> QED BY <1>2, <2>8, <2>9 DEF ReuseInv
<1>8. CASE Process(p) \/ StoreReturn(p)
  <2>1. Fetching' = Fetching /\ Workers' = Workers /\ ReadyPosts' = ReadyPosts /\ head' = head
    BY <1>0, <1>8 DEF Process, StoreReturn, Fetching, Workers, Working, ReadyPosts
  <2>2. Mutex'
    BY <1>0, <1>1, <1>8 DEF Process, StoreReturn, Mutex
  <2>3. Count' /\ Spare'
    BY <1>0, <1>1, <1>8, <2>1, Primes DEF Process, StoreReturn, Count, Spare
  <2> QED BY <1>2, <2>2, <2>3 DEF ReuseInv
<1>9. CASE PostReady(p)
  <2>1. Fetching' = Fetching /\ head' = head /\ sem_waiting_cell' = sem_waiting_cell
    BY <1>0, <1>9 DEF PostReady, Fetching
  <2>2. Workers' = Workers \ {p} /\ p \in Workers
    BY <1>0, <1>9 DEF PostReady, Workers, Working
  <2>3. Cardinality(Workers') = Cardinality(Workers) - 1
    BY <2>2, WorkersFinite, FS_RemoveElement
  <2>4. IsFiniteSet(ReadyPosts') /\ Cardinality(ReadyPosts') = Cardinality(ReadyPosts) + 1
    BY <1>0, <1>9, PostAdded DEF PostReady
  <2>5. Mutex'
    BY <1>0, <1>1, <1>9 DEF PostReady, Mutex
  <2>6. Count' /\ Spare'
    BY <1>0, <1>1, <2>1, <2>3, <2>4, Primes DEF Count, Spare
  <2> QED BY <1>2, <2>5, <2>6 DEF ReuseInv
<1>10. CASE ExitPost(p)
  <2>1. Stopped /\ head = tail /\ head' = head
    BY <1>0, <1>10 DEF ExitPost, Mutex
  <2>2. IsFiniteSet(ReadyPosts')
    BY <1>0, <1>10, PostAdded DEF ExitPost
  <2>3. Mutex'
    BY <1>0, <1>1, <1>10, <2>1 DEF ExitPost, Mutex
  <2>4. Count' /\ Spare'
    BY <1>1, <2>1, <2>2 DEF Count, Spare
  <2> QED BY <1>2, <2>3, <2>4 DEF ReuseInv
<1> QED BY <1>3, <1>4, <1>5, <1>6, <1>7, <1>8, <1>9, <1>10 DEF Processor

\* So do the steps of the consumer, wherever it stands.
LEMMA ConsumerReuse ==
  ASSUME TypeOK, ReuseInv, Consumer
  PROVE  ReuseInv'
<1> USE DEF callerVars, procVars, history, queue, sems
<1>0. /\ head \in Cells /\ tail \in Cells /\ cpos \in Cells /\ QueueSize \in Nat
      /\ sem_null_cell \in Nat /\ sem_waiting_cell \in Nat /\ sem_ready_cell \in [Cells -> Nat]
      /\ Dist(head, tail) \in Nat
      /\ Cardinality(Fetching) \in Nat /\ Cardinality(Workers) \in Nat
      /\ IsFiniteSet(ReadyPosts) /\ Cardinality(ReadyPosts) \in Nat
      /\ Claimed \in 0 .. 1 /\ Handed \in 0 .. 1
      /\ Between /\ Mutex /\ Count /\ Spare
  BY SpareNumbers
<1>1. /\ Fetching' = Fetching /\ Workers' = Workers /\ head' = head /\ tail' = tail
      /\ caller' = caller /\ sem_waiting_cell' = sem_waiting_cell
      /\ (Stopped' <=> Stopped)
  BY DEF Consumer, WaitReady, CheckCell, Consume, ClearCell, PostNull, Fetching, Workers,
         Working, Stopped
<1>2. Between' /\ Mutex'
  BY <1>0 DEF Consumer, WaitReady, CheckCell, Consume, ClearCell, PostNull, Between, Mutex,
              Stopped
<1>3. Count'
  BY <1>0, <1>1, Primes DEF Count
<1>4. CASE WaitReady
  <2>1. IsFiniteSet(ReadyPosts') /\ Cardinality(ReadyPosts') = Cardinality(ReadyPosts) - 1
    BY <1>0, <1>4, PostTaken DEF WaitReady
  <2>2. Spare'
    BY <1>0, <1>1, <1>4, <2>1, Primes DEF WaitReady, Spare, Claimed, Handed
  <2> QED BY <1>2, <1>3, <2>2 DEF ReuseInv
<1>5. ASSUME CheckCell \/ Consume \/ ClearCell \/ PostNull
      PROVE  ReadyPosts' = ReadyPosts
  BY <1>5 DEF CheckCell, Consume, ClearCell, PostNull, ReadyPosts
<1>6. CASE CheckCell
  <2>1. Handed = 1 /\ (Handed' = 1 \/ Handed' = 0) /\ sem_null_cell' = sem_null_cell
    BY <1>6 DEF CheckCell, Handed
  <2>2. Spare'
    BY <1>0, <1>1, <1>5, <1>6, <2>1, Primes DEF Spare, Claimed
  <2> QED BY <1>2, <1>3, <2>2 DEF ReuseInv
<1>7. CASE Consume \/ ClearCell
  <2>1. Handed' = Handed /\ sem_null_cell' = sem_null_cell
    BY <1>7 DEF Consume, ClearCell, Handed
  <2>2. Spare'
    BY <1>0, <1>1, <1>5, <1>7, <2>1, Primes DEF Spare, Claimed
  <2> QED BY <1>2, <1>3, <2>2 DEF ReuseInv
<1>8. CASE PostNull
  <2>1. Handed = 1 /\ Handed' = 0 /\ sem_null_cell' = sem_null_cell + 1
    BY <1>8 DEF PostNull, Handed
  <2>2. Spare'
    BY <1>0, <1>1, <1>5, <1>8, <2>1, Primes DEF Spare, Claimed
  <2> QED BY <1>2, <1>3, <2>2 DEF ReuseInv
<1> QED BY <1>4, <1>6, <1>7, <1>8 DEF Consumer

-----------------------------------------------------------------------------
(* Theorems. *)

\* Every step keeps the types.
LEMMA NextTyped ==
  ASSUME TypeOK, [Next]_vars
  PROVE  TypeOK'
<1>1. CASE UNCHANGED vars
  BY <1>1 DEF vars, TypeOK
<1> QED BY <1>1, CallerTyped, ProcessorTyped, ConsumerTyped DEF Next, Terminated

\* Every step of the first run keeps the invariant.
LEMMA NextLock ==
  ASSUME MaxRuns = 1, FreshStatus \subseteq {"Null", "Waiting"},
         TypeOK, LockInv, [Next]_vars
  PROVE  LockInv'
<1>1. ASSUME NEW p \in Procs, Processor(p) PROVE LockInv'
  BY <1>1, FetchLock, WorkLock DEF Processor
<1>2. CASE UNCHANGED vars
  <2>1. Fetching' = Fetching /\ \A c : Taken(c)' <=> Taken(c)
    BY <1>2, Primes DEF vars, Fetching, Taken
  <2>2. Untouched' /\ Order' /\ Mutex' /\ Count'
    BY <1>2, <2>1, Primes DEF vars, LockInv, Untouched, Order, Mutex, Count, Stopped
  <2>3. Owners' /\ Posts'
    BY <1>2, <2>1 DEF vars, LockInv, Owners, Posts, Working, Stopped
  <2> QED BY <2>2, <2>3 DEF LockInv
<1> QED BY <1>1, <1>2, CallerLock, ConsumerLock DEF Next, Terminated

\* Every step of any run keeps what all runs have.
LEMMA NextReuse ==
  ASSUME TypeOK, ReuseInv, [Next]_vars
  PROVE  ReuseInv'
<1>1. CASE UNCHANGED vars
  <2>1. Fetching' = Fetching /\ Workers' = Workers /\ ReadyPosts' = ReadyPosts
    BY <1>1 DEF vars, Fetching, Workers, Working, ReadyPosts
  <2> QED BY <1>1, <2>1, Primes
          DEF vars, ReuseInv, Between, Mutex, Count, Spare, Stopped, Claimed, Handed
<1> QED BY <1>1, CallerReuse, ProcessorReuse, ConsumerReuse DEF Next, Terminated

\* The invariant keeps every cell in the hands of one thread.
LEMMA LockExclusive ==
  ASSUME TypeOK, LockInv
  PROVE  CellExclusive
<1>1. \A p \in Procs : Working(p) => pos[p] \in Cells /\ Taken(pos[p])
  BY DEF TypeOK, LockInv, Owners, Working
<1>2. \A p, q \in Procs : p # q /\ Working(p) /\ Working(q) => pos[p] # pos[q]
  BY DEF LockInv, Owners
<1>3. \A p \in Procs : Working(p) => pos[p] # tail
  BY <1>1, TakenWhere
<1>4. Consuming => \A p \in Procs : Working(p) => pos[p] # cpos
  BY DEF LockInv, Owners, Consuming
<1>5. Consuming => tail # cpos
  BY TakenWhere DEF TypeOK, LockInv, Posts, Consuming
<1> QED BY <1>2, <1>3, <1>4, <1>5 DEF CellExclusive

\* parallel_framework_lock.h: every variable keeps its type and no processor works at index
\* -1, whatever the number of runs and whatever create() leaves in the cells.
THEOREM TypeCorrect == Spec => []TypeOK
<1>1. Init => TypeOK
  BY InitTyped
<1>2. TypeOK /\ [Next]_vars => TypeOK'
  BY NextTyped
<1> QED BY <1>1, <1>2, PTL DEF Spec

\* parallel_framework_lock.h, mutex_dequeue, process_one_item, consume_one_item: in the
\* first run, from cells that do not look finished, no two threads hold a cell.
THEOREM Exclusive ==
  ASSUME MaxRuns = 1, FreshStatus \subseteq {"Null", "Waiting"}
  PROVE  Spec => []CellExclusive
<1>1. Init => TypeOK /\ LockInv
  BY InitTyped, InitLock
<1>2. TypeOK /\ LockInv /\ [Next]_vars => (TypeOK /\ LockInv)'
  BY NextTyped, NextLock
<1>3. TypeOK /\ LockInv => CellExclusive
  BY LockExclusive
<1> QED BY <1>1, <1>2, <1>3, PTL DEF Spec

\* parallel_framework_lock.h line 50: "Empty queue in mutex_dequeue while framework is
\* running" is never logged, whatever the number of runs and whatever create() leaves in the
\* cells: every post of sem_waiting_cell has its item.
THEOREM NeverEmpty == Spec => []NoEmptyDequeueWhileRunning
<1>1. Init => TypeOK /\ ReuseInv
  BY InitTyped, InitReuse
<1>2. TypeOK /\ ReuseInv /\ [Next]_vars => (TypeOK /\ ReuseInv)'
  BY NextTyped, NextReuse
<1>3. TypeOK /\ ReuseInv => NoEmptyDequeueWhileRunning
  <2> SUFFICES ASSUME TypeOK, ReuseInv, NEW p \in Procs, processor[p] = "dequeue",
                      status = "Running"
               PROVE  head # tail
    BY DEF NoEmptyDequeueWhileRunning
  <2>1. ~Stopped /\ p \in Fetching /\ Count
    BY DEF ReuseInv, Between, Fetching
  <2> QED BY <2>1, PostHasItem
<1> QED BY <1>1, <1>2, <1>3, PTL DEF Spec

-----------------------------------------------------------------------------
(***************************************************************************)
(* The lock framework implements the ordered pipeline, for any number of   *)
(* processors, cells and items: in the first run every item is processed   *)
(* once and handed to the consumer in order, with the value its processor  *)
(* returned, and run() comes back only when all of them have been.         *)
(***************************************************************************)

\* The items whose cells are free again.
Returned == Len(delivered) - (IF consumer \in {"clear", "post"} THEN 1 ELSE 0)

\* A cell with an item that the consumer has not given back.
Queued(c) == Dist(cpos, c) < Dist(cpos, tail)

Finished(c) == item_status[c] \in {"Ready", "Error"}

\* The cells hold the items in the order they were made.
Numbered ==
  /\ Returned \in Nat
  /\ Len(outcome) = Returned + Dist(cpos, tail) + (IF Filling THEN 1 ELSE 0)
  /\ Filling => array[tail] = Len(outcome)
  /\ \A c \in Cells : Queued(c) => array[c] = Returned + Dist(cpos, c) + 1

\* No item has an outcome before a processor is done with it.
Unprocessed ==
  /\ Filling => outcome[array[tail]] = Pending
  /\ \A c \in Cells : Queued(c) /\ ~Taken(c) => outcome[array[c]] = Pending
  /\ \A p \in Procs : processor[p] = "process" => outcome[array[pos[p]]] = Pending

\* The outcome goes into pres and from there, when it is posted, into the cell.
InHand ==
  \A p \in Procs :
    /\ processor[p] = "return" => outcome[array[pos[p]]] = pres[p] /\ pres[p] \in Results
    /\ processor[p] = "post" => outcome[array[pos[p]]] = processor_return[pos[p]]
    /\ processor[p] \in {"return", "post"} =>
         Finished(pos[p]) /\ outcome[array[pos[p]]] \in Results

\* A taken cell that no processor has any more is ready for the consumer.
Ready ==
  \A c \in Cells : Taken(c) /\ (\A p \in Procs : Working(p) => pos[p] # c) =>
    /\ outcome[array[c]] \in Results
    /\ outcome[array[c]] = processor_return[c]
    /\ Finished(c) \/ (c = cpos /\ consumer = "post")

\* The consumer leaves when everything has been consumed, run() when all have left.
Ended ==
  /\ caller = "idle" => consumer = "done" /\ \A p \in Procs : processor[p] = "done"
  /\ consumer = "done" /\ runs # 0 => Stopped /\ cpos = tail

\* The inductive invariant, beside TypeOK and LockInv.
HistoryInv == Numbered /\ Unprocessed /\ InHand /\ Ready /\ Ended

-----------------------------------------------------------------------------
(* Cells and items. *)

\* Where the three indices stay, so do the cells in use.
LEMMA Frame ==
  ASSUME UNCHANGED <<cpos, head, tail>>
  PROVE  /\ Dist(cpos, tail)' = Dist(cpos, tail)
         /\ \A c : Dist(cpos, c)' = Dist(cpos, c)
         /\ \A c : (Taken(c)' <=> Taken(c)) /\ (Queued(c)' <=> Queued(c))
BY DEF Dist, Taken, Queued

\* A taken cell is queued; queued cells hold different items, which have been made, and
\* the one being made is none of them.
LEMMA Places ==
  ASSUME TypeOK, LockInv, Numbered
  PROVE  /\ \A c \in Cells : Taken(c) => Queued(c)
         /\ ~Queued(tail)
         /\ \A c \in Cells : Queued(c) => array[c] \in 1 .. Len(outcome)
         /\ \A c, d \in Cells : Queued(c) /\ Queued(d) /\ c # d => array[c] # array[d]
         /\ Filling => /\ array[tail] \in 1 .. Len(outcome)
                       /\ \A c \in Cells : Queued(c) => array[c] # array[tail]
<1>1. cpos \in Cells /\ head \in Cells /\ tail \in Cells /\ Len(outcome) \in Nat
  BY DEF TypeOK
<1>2. /\ Dist(cpos, head) \in Nat /\ Dist(head, tail) \in Nat /\ Dist(cpos, tail) \in Nat
      /\ \A c \in Cells : Dist(cpos, c) \in Nat
      /\ \A c, d \in Cells : Dist(cpos, c) = Dist(cpos, d) => c = d
  BY <1>1, DistValue
<1>3. Dist(cpos, head) + Dist(head, tail) = Dist(cpos, tail)
  BY DEF LockInv, Order
<1>4. \A c \in Cells : Taken(c) => Queued(c)
  BY <1>2, <1>3 DEF Taken, Queued
<1>5. ~Queued(tail)
  BY <1>2 DEF Queued
<1>6. \A c \in Cells : Queued(c) => /\ array[c] = Returned + Dist(cpos, c) + 1
                                    /\ array[c] \in 1 .. Returned + Dist(cpos, tail)
  BY <1>2 DEF Numbered, Queued
<1>7. \A c \in Cells : Queued(c) => array[c] \in 1 .. Len(outcome)
  BY <1>1, <1>2, <1>6 DEF Numbered
<1>8. \A c, d \in Cells : Queued(c) /\ Queued(d) /\ c # d => array[c] # array[d]
  BY <1>2, <1>6 DEF Numbered
<1>9. Filling => /\ array[tail] \in 1 .. Len(outcome)
                 /\ \A c \in Cells : Queued(c) => array[c] # array[tail]
  BY <1>1, <1>2, <1>6 DEF Numbered
<1> QED BY <1>4, <1>5, <1>7, <1>8, <1>9

\* A processor at work has a taken cell that is not the one being filled.
LEMMA AtWork ==
  ASSUME TypeOK, LockInv, NEW p \in Procs, Working(p)
  PROVE  pos[p] \in Cells /\ Taken(pos[p]) /\ pos[p] # tail
BY TakenWhere DEF TypeOK, LockInv, Owners, Working

-----------------------------------------------------------------------------
(* The thread in run(). *)

\* The initial state satisfies the invariant.
LEMMA InitHistory == Init => HistoryInv
<1> SUFFICES ASSUME Init PROVE HistoryInv
  OBVIOUS
<1>1. /\ Dist(cpos, tail) = 0
      /\ \A c \in Cells : ~Taken(c) /\ ~Queued(c)
  BY Sizes, DistValue DEF Init, Taken, Queued
<1>2. Numbered
  BY <1>1 DEF Init, Numbered, Returned, Filling
<1>3. Unprocessed /\ InHand /\ Ready /\ Ended
  BY <1>1 DEF Init, Unprocessed, InHand, Ready, Ended, Filling
<1> QED BY <1>2, <1>3 DEF HistoryInv

\* The steps of the thread in run() keep the invariant.
LEMMA CallerHistory ==
  ASSUME MaxRuns = 1, TypeOK, LockInv, HistoryInv, Caller
  PROVE  HistoryInv'
<1> USE DEF procVars, consVars, history, queue, sems
<1>0. /\ head \in Cells /\ tail \in Cells /\ cpos \in Cells /\ runs \in Nat
      /\ outcome \in Seq(Results \cup {Pending}) /\ Len(outcome) \in Nat
      /\ array \in [Cells -> Nat] /\ item_status \in [Cells -> ItemStatus]
      /\ Dist(cpos, tail) \in Nat /\ Dist(cpos, tail) < QueueSize
      /\ Untouched /\ Order /\ Numbered /\ Unprocessed /\ InHand /\ Ready /\ Ended
  BY DistValue DEF TypeOK, LockInv, HistoryInv
<1>a. ASSUME UNCHANGED <<head, tail, cpos, item_status, array, processor_return, processor,
                         pos, pres, consumer, outcome, delivered>>,
             Filling' <=> Filling
      PROVE  (Numbered /\ Unprocessed /\ InHand /\ Ready)'
  <2>1. Numbered' /\ Unprocessed'
    BY <1>0, <1>a, Frame DEF Numbered, Returned, Unprocessed
  <2>2. InHand' /\ Ready'
    BY <1>0, <1>a, Frame DEF InHand, Ready, Finished, Working
  <2> QED BY <2>1, <2>2
<1>b. CASE Create \/ Run
  <2>1. /\ runs = 0 /\ cpos = 0 /\ head = 0 /\ tail = 0 /\ consumer = "done"
        /\ \A p \in Procs : processor[p] = "done"
    BY <1>0, <1>b DEF Create, Run, Untouched
  <2>2. cpos' = 0 /\ head' = 0 /\ tail' = 0
    BY <1>b, <2>1 DEF Create, Run
  <2>3. /\ Dist(cpos, tail) = 0 /\ Dist(cpos, tail)' = 0
        /\ \A c \in Cells : ~Taken(c)' /\ ~Queued(c)'
    BY <2>1, <2>2, Sizes DEF Taken, Queued, Dist, Cells
  <2>4. /\ UNCHANGED history
        /\ ~Filling /\ ~Filling' /\ consumer' \in {"done", "wait"}
        /\ \A p \in Procs : processor'[p] \in {"done", "wait"}
        /\ caller' = "idle" => UNCHANGED <<consumer, processor, runs>>
        /\ caller' # "idle" => consumer' = "wait"
    BY <1>b, <2>1 DEF Create, Run, Filling
  <2>5. Numbered'
    BY <1>0, <2>1, <2>3, <2>4 DEF Numbered, Returned
  <2>6. Unprocessed' /\ InHand' /\ Ready' /\ Ended'
    BY <2>1, <2>3, <2>4 DEF Unprocessed, InHand, Ready, Ended
  <2> QED BY <2>5, <2>6 DEF HistoryInv
<1>c. CASE WaitNull \/ GenerateStop \/ PostWaiting \/ Wake \/ Join
  <2>1. Filling' <=> Filling
    BY <1>c DEF WaitNull, GenerateStop, PostWaiting, Wake, Join, Filling
  <2>2. (Numbered /\ Unprocessed /\ InHand /\ Ready)'
    BY <1>a, <1>c, <2>1 DEF WaitNull, GenerateStop, PostWaiting, Wake, Join
  <2>3. Ended'
    BY <1>0, <1>c DEF WaitNull, GenerateStop, PostWaiting, Wake, Join, Ended, Stopped
  <2> QED BY <2>2, <2>3 DEF HistoryInv
<1>1. CASE GenerateItem
  <2>1. /\ Len(outcome') = Len(outcome) + 1 /\ outcome'[Len(outcome) + 1] = Pending
        /\ \A i \in 1 .. Len(outcome) : outcome'[i] = outcome[i]
    BY <1>0, <1>1 DEF GenerateItem
  <2>2. /\ array'[tail] = Len(outcome) + 1
        /\ \A c \in Cells : c # tail => array'[c] = array[c]
    BY <1>0, <1>1 DEF GenerateItem
  <2>3. /\ \A c \in Cells : Queued(c) => /\ array'[c] = array[c]
                                         /\ outcome'[array'[c]] = outcome[array[c]]
        /\ \A c \in Cells : Taken(c) => Queued(c)
    BY <2>1, <2>2, Places DEF HistoryInv
  <2>4. ~Filling /\ Filling'
    BY <1>1 DEF GenerateItem, Filling
  <2>5. /\ UNCHANGED <<head, tail, cpos, consumer, processor, pos>>
        /\ UNCHANGED <<item_status, processor_return>>
        /\ \A c : (Taken(c)' <=> Taken(c)) /\ (Queued(c)' <=> Queued(c))
    BY <1>1, Frame DEF GenerateItem
  <2>6. Numbered' /\ Unprocessed'
    <3>1. Numbered'
      BY <1>0, <1>1, <2>1, <2>2, <2>3, <2>4, Frame, SMTT(20)
         DEF GenerateItem, Numbered, Returned
    <3>2. outcome'[array'[tail]] = Pending
      BY <1>0, <2>1, <2>2
    <3>3. \A c \in Cells : Queued(c)' /\ ~Taken(c)' => outcome'[array'[c]] = Pending
      BY <1>0, <2>3, <2>5 DEF Unprocessed
    <3>4. \A p \in Procs : processor[p] = "process" => outcome'[array'[pos[p]]] = Pending
      BY <1>0, <2>3, AtWork DEF Unprocessed, Working
    <3> QED BY <2>5, <3>1, <3>2, <3>3, <3>4 DEF Unprocessed
  <2>7. InHand' /\ Ready'
    <3>1. InHand'
      <4>1. \A p \in Procs : Working(p) => outcome'[array'[pos[p]]] = outcome[array[pos[p]]]
        BY <2>3, AtWork
      <4>2. UNCHANGED <<processor, pos, pres, processor_return, item_status>>
        BY <1>1 DEF GenerateItem
      <4> QED BY <1>0, <4>1, <4>2 DEF InHand, Finished, Working
    <3>2. Ready'
      <4>1. \A c \in Cells : Taken(c)' => outcome'[array'[c]] = outcome[array[c]]
        BY <2>3, <2>5
      <4> QED BY <1>0, <2>5, <4>1 DEF Ready, Finished, Working
    <3> QED BY <3>1, <3>2
  <2>8. Ended'
    BY <1>0, <1>1 DEF GenerateItem, Ended, Stopped
  <2> QED BY <2>6, <2>7, <2>8 DEF HistoryInv
<1>2. CASE MarkWaiting
  <2>1. \A c \in Cells : Taken(c) => c # tail
    BY TakenWhere
  <2>2. \A c \in Cells : c # tail => (Finished(c)' <=> Finished(c))
    BY <1>0, <1>2 DEF MarkWaiting, Finished
  <2>3. Filling /\ Filling'
    BY <1>2 DEF MarkWaiting, Filling
  <2>4. Numbered' /\ Unprocessed'
    BY <1>0, <1>2, <2>3, Frame DEF MarkWaiting, Numbered, Returned, Unprocessed
  <2>5. InHand'
    BY <1>0, <1>2, <2>2, AtWork DEF MarkWaiting, InHand, Working
  <2>6. Ready'
    BY <1>0, <1>2, <2>1, <2>2, Frame DEF MarkWaiting, Ready, Working
  <2>7. Ended'
    BY <1>0, <1>2 DEF MarkWaiting, Ended, Stopped
  <2> QED BY <2>4, <2>5, <2>6, <2>7 DEF HistoryInv
<1>3. CASE AdvanceTail
  <2>1. Dist(cpos, tail) < QueueSize - 1
    BY <1>0, <1>3, Sizes DEF AdvanceTail, Order, Stopped, TypeOK
  <2>2. Dist(cpos, tail)' = Dist(cpos, tail) + 1
    BY <1>0, <1>3, <2>1, DistFurther, Primes DEF AdvanceTail
  <2>3. \A c \in Cells : /\ Dist(cpos, c)' = Dist(cpos, c) /\ Dist(cpos, c) \in Nat
                         /\ Dist(cpos, c) = Dist(cpos, tail) => c = tail
    BY <1>0, <1>3, DistValue DEF AdvanceTail, Dist
  <2>4. \A c \in Cells : (Queued(c)' <=> Queued(c) \/ c = tail) /\ (Taken(c)' <=> Taken(c))
    BY <1>0, <1>3, <2>2, <2>3, Primes DEF AdvanceTail, Queued, Taken, Dist
  <2>5. Filling /\ ~Filling'
    BY <1>3 DEF AdvanceTail, Filling
  <2>6. Numbered'
    BY <1>0, <1>3, <2>2, <2>3, <2>4, <2>5 DEF AdvanceTail, Numbered, Returned
  <2>7. Unprocessed'
    BY <1>0, <1>3, <2>4, <2>5 DEF AdvanceTail, Unprocessed
  <2>8. InHand' /\ Ready'
    BY <1>0, <1>3, <2>4 DEF AdvanceTail, InHand, Ready, Finished, Working
  <2>9. Ended'
    BY <1>0, <1>3 DEF AdvanceTail, Ended, Stopped, Untouched
  <2> QED BY <2>6, <2>7, <2>8, <2>9 DEF HistoryInv
<1> QED BY <1>b, <1>c, <1>1, <1>2, <1>3 DEF Caller

-----------------------------------------------------------------------------
(* The processor threads. *)

\* The steps before a processor has its item keep the invariant, and so does its last one.
LEMMA FetchHistory ==
  ASSUME TypeOK, LockInv, HistoryInv, NEW p \in Procs,
         WaitWaiting(p) \/ Lock(p) \/ DequeueRead(p) \/ Unlock(p) \/ ExitPost(p)
  PROVE  HistoryInv'
<1> USE DEF callerVars, consVars, history, queue, sems, Goto
<1>0. /\ head \in Cells /\ tail \in Cells /\ cpos \in Cells
      /\ processor \in [Procs -> {"wait", "lock", "dequeue", "unlock", "process",
                                  "return", "post", "exit", "done"}]
      /\ pos \in [Procs -> Cells \cup {-1}]
      /\ Untouched /\ Mutex /\ Order
      /\ Numbered /\ Unprocessed /\ InHand /\ Ready /\ Ended
  BY DEF TypeOK, LockInv, HistoryInv
<1>1. /\ UNCHANGED <<tail, cpos, item_status, array, processor_return, pres, consumer, caller,
                     runs, outcome, delivered>>
      /\ Filling' <=> Filling
      /\ \A q \in Procs : q # p => processor'[q] = processor[q] /\ pos'[q] = pos[q]
      /\ processor[p] # "done" /\ ~Working(p)
  BY <1>0 DEF WaitWaiting, Lock, DequeueRead, Unlock, ExitPost, Filling, Working
<1>2. Ended'
  BY <1>0, <1>1 DEF Ended, Stopped
<1>3. CASE UNCHANGED head /\ processor'[p] \notin {"process", "return", "post"}
  <2>1. \A q \in Procs : /\ Working(q)' <=> Working(q)
                         /\ Working(q) => processor'[q] = processor[q] /\ pos'[q] = pos[q]
    BY <1>1, <1>3 DEF Working
  <2>2. Numbered'
    BY <1>0, <1>1, <1>3, Frame DEF Numbered, Returned
  <2>3. Unprocessed'
    BY <1>0, <1>1, <1>3, <2>1, Frame DEF Unprocessed, Working
  <2>4. InHand'
    BY <1>0, <1>1, <1>3, <2>1 DEF InHand, Finished, Working
  <2>5. Ready'
    BY <1>0, <1>1, <1>3, <2>1, Frame DEF Ready, Finished
  <2> QED BY <1>2, <2>2, <2>3, <2>4, <2>5 DEF HistoryInv
<1>4. CASE Unlock(p) /\ pos[p] # -1
  <2>1. /\ pos[p] = head /\ head # tail /\ head' = Inc(head) /\ pos' = pos
        /\ processor'[p] = "process"
    BY <1>0, <1>4 DEF Unlock, Mutex
  <2>2. /\ Dist(cpos, head) \in Nat /\ Dist(head, tail) \in Nat /\ Dist(cpos, tail) \in Nat
        /\ Dist(cpos, tail) < QueueSize /\ Dist(head, tail) # 0
    BY <1>0, <2>1, DistValue
  <2>3. Dist(cpos, head) < QueueSize - 1 /\ Queued(head) /\ ~Taken(head)
    BY <2>2, <1>0, Sizes DEF Order, Queued, Taken
  <2>4. Dist(cpos, Inc(head)) = Dist(cpos, head) + 1
    BY <1>0, <2>3, DistFurther
  <2>5. \A c \in Cells : /\ Dist(cpos, c) \in Nat
                         /\ Dist(cpos, c) = Dist(cpos, head) => c = head
    BY <1>0, DistValue
  <2>6. \A c \in Cells : (Taken(c)' <=> Taken(c) \/ c = head) /\ (Queued(c)' <=> Queued(c))
    BY <1>1, <2>1, <2>2, <2>4, <2>5, Primes DEF Taken, Queued, Dist
  <2>7. Numbered'
    BY <1>0, <1>1, <2>6 DEF Numbered, Returned, Dist
  <2>8. Unprocessed'
    BY <1>0, <1>1, <2>1, <2>3, <2>6 DEF Unprocessed
  <2>9. InHand'
    BY <1>0, <1>1, <2>1 DEF InHand, Finished
  <2>10. Ready'
    <3> SUFFICES ASSUME NEW c \in Cells, Taken(c)', \A q \in Procs : Working(q)' => pos'[q] # c
                 PROVE  /\ outcome[array[c]] \in Results
                        /\ outcome[array[c]] = processor_return[c]
                        /\ Finished(c) \/ (c = cpos /\ consumer = "post")
      BY <1>1 DEF Ready, Finished
    <3>1. c # head
      BY <2>1 DEF Working
    <3>2. Taken(c) /\ \A q \in Procs : Working(q) => pos[q] # c
      BY <1>1, <2>1, <2>6, <3>1 DEF Working
    <3> QED BY <1>0, <3>2 DEF Ready
  <2> QED BY <1>2, <2>7, <2>8, <2>9, <2>10 DEF HistoryInv
<1> QED BY <1>0, <1>3, <1>4 DEF WaitWaiting, Lock, DequeueRead, Unlock, ExitPost

\* The steps of a processor with its item keep the invariant.
LEMMA WorkHistory ==
  ASSUME TypeOK, LockInv, HistoryInv, NEW p \in Procs,
         Process(p) \/ StoreReturn(p) \/ PostReady(p)
  PROVE  HistoryInv'
<1> USE DEF callerVars, consVars, history, queue, sems, Goto
<1> DEFINE c == pos[p]
<1>0. /\ tail \in Cells /\ cpos \in Cells
      /\ processor \in [Procs -> {"wait", "lock", "dequeue", "unlock", "process",
                                  "return", "post", "exit", "done"}]
      /\ item_status \in [Cells -> ItemStatus] /\ pres \in [Procs -> Results \cup {Pending}]
      /\ processor_return \in [Cells -> Results \cup {Pending}]
      /\ outcome \in Seq(Results \cup {Pending}) /\ Len(outcome) \in Nat
      /\ Owners /\ Numbered /\ Unprocessed /\ InHand /\ Ready /\ Ended
  BY DEF TypeOK, LockInv, HistoryInv
<1>1. /\ UNCHANGED <<head, tail, cpos, array, pos, consumer, caller, runs, delivered>>
      /\ Filling' <=> Filling
      /\ \A q \in Procs : q # p => processor'[q] = processor[q]
      /\ processor[p] # "done" /\ Working(p)
  BY <1>0 DEF Process, StoreReturn, PostReady, Filling, Working
<1>2. Ended'
  BY <1>0, <1>1 DEF Ended, Stopped
<1>3. /\ c \in Cells /\ Taken(c) /\ Queued(c) /\ c # tail
      /\ array[c] \in 1 .. Len(outcome)
      /\ \A d \in Cells : Taken(d) => Queued(d)
      /\ \A d \in Cells : Queued(d) /\ d # c => array[d] # array[c]
      /\ Filling => array[tail] # array[c]
  BY <1>0, <1>1, AtWork, Places
<1>4. \A q \in Procs : Working(q) /\ q # p => pos[q] # c /\ pos[q] \in Cells /\ Queued(pos[q])
  BY <1>0, <1>1, <1>3, AtWork DEF Owners
<1>5. CASE Process(p)
  <2>1. PICK r \in Results :
          /\ pres' = [pres EXCEPT ![p] = r]
          /\ item_status' = [item_status EXCEPT ![c] = IF r = 0 THEN "Ready" ELSE "Error"]
          /\ outcome' = [outcome EXCEPT ![array[c]] = r]
    <3>1. array[c] \in DOMAIN outcome
      BY <1>0, <1>3
    <3> QED BY <1>5, <3>1 DEF Process
  <2>2. processor'[p] = "return" /\ UNCHANGED processor_return
    BY <1>0, <1>5 DEF Process
  <2>3. /\ Len(outcome') = Len(outcome) /\ outcome'[array[c]] = r
        /\ \A i : i # array[c] => outcome'[i] = outcome[i]
    BY <1>0, <1>3, <2>1
  <2>4. /\ item_status'[c] \in {"Ready", "Error"} /\ pres'[p] = r
        /\ \A d \in Cells : d # c => item_status'[d] = item_status[d]
        /\ \A q \in Procs : q # p => pres'[q] = pres[q]
    BY <1>0, <1>3, <2>1
  <2>5. Numbered'
    BY <1>0, <1>1, <2>3, Frame DEF Numbered, Returned
  <2>6. Unprocessed'
    <3>1. \A d \in Cells : Queued(d) /\ ~Taken(d) => outcome'[array[d]] = Pending
      BY <1>0, <1>3, <2>3 DEF Unprocessed
    <3>2. \A q \in Procs : processor'[q] = "process" => outcome'[array[pos[q]]] = Pending
      BY <1>0, <1>1, <1>3, <1>4, <2>2, <2>3 DEF Unprocessed, Working
    <3>3. Filling => outcome'[array[tail]] = Pending
      BY <1>0, <1>3, <2>3 DEF Unprocessed
    <3> QED BY <1>1, <3>1, <3>2, <3>3, Frame DEF Unprocessed
  <2>7. InHand'
    <3>1. ASSUME NEW q \in Procs, q # p, Working(q)
          PROVE  /\ processor'[q] = processor[q] /\ pres'[q] = pres[q]
                 /\ outcome'[array[pos[q]]] = outcome[array[pos[q]]]
                 /\ item_status'[pos[q]] = item_status[pos[q]]
      BY <1>1, <1>3, <1>4, <2>3, <2>4, <3>1
    <3>2. \A q \in Procs : processor'[q] \in {"return", "post"} => q = p \/ Working(q)
      BY <1>1 DEF Working
    <3> QED BY <1>0, <1>1, <2>2, <2>3, <2>4, <3>1, <3>2 DEF InHand, Finished
  <2>8. Ready'
    <3> SUFFICES ASSUME NEW d \in Cells, Taken(d), \A q \in Procs : Working(q)' => pos[q] # d
                 PROVE  /\ outcome'[array[d]] \in Results
                        /\ outcome'[array[d]] = processor_return[d]
                        /\ Finished(d)' \/ (d = cpos /\ consumer = "post")
      BY <1>1, <2>2, Frame DEF Ready
    <3>1. d # c
      BY <2>2 DEF Working
    <3>2. \A q \in Procs : Working(q) => pos[q] # d
      BY <1>1, <3>1 DEF Working
    <3> QED BY <1>0, <1>3, <2>3, <2>4, <3>1, <3>2 DEF Ready, Finished
  <2> QED BY <1>2, <2>5, <2>6, <2>7, <2>8 DEF HistoryInv
<1>6. CASE StoreReturn(p)
  <2>1. /\ processor[p] = "return" /\ processor'[p] = "post"
        /\ UNCHANGED <<item_status, outcome, pres>>
        /\ processor_return'[c] = pres[p]
        /\ \A d \in Cells : d # c => processor_return'[d] = processor_return[d]
    BY <1>0, <1>3, <1>6 DEF StoreReturn
  <2>2. Numbered'
    BY <1>0, <1>1, <2>1, Frame DEF Numbered, Returned
  <2>3. Unprocessed'
    BY <1>0, <1>1, <2>1, Frame DEF Unprocessed
  <2>4. InHand'
    BY <1>0, <1>1, <1>4, <2>1 DEF InHand, Finished, Working
  <2>5. \A q \in Procs : Working(q)' <=> Working(q)
    BY <1>1, <2>1 DEF Working
  <2>6. Ready'
    BY <1>0, <1>1, <2>1, <2>5, Frame DEF Ready, Finished
  <2> QED BY <1>2, <2>2, <2>3, <2>4, <2>6 DEF HistoryInv
<1>7. CASE PostReady(p)
  <2>1. /\ processor[p] = "post" /\ processor'[p] = "wait"
        /\ UNCHANGED <<item_status, outcome, pres, processor_return>>
    BY <1>0, <1>7 DEF PostReady
  <2>2. Numbered'
    BY <1>0, <1>1, <2>1, Frame DEF Numbered, Returned
  <2>3. Unprocessed' /\ InHand'
    BY <1>0, <1>1, <2>1, Frame DEF Unprocessed, InHand, Finished
  <2>4. \A q \in Procs : q # p => (Working(q)' <=> Working(q))
    BY <1>1 DEF Working
  <2>5. /\ outcome[array[c]] \in Results /\ outcome[array[c]] = processor_return[c]
        /\ Finished(c)
    BY <1>0, <2>1 DEF InHand
  <2>6. Ready'
    <3> SUFFICES ASSUME NEW d \in Cells, Taken(d), \A q \in Procs : Working(q)' => pos[q] # d
                 PROVE  /\ outcome[array[d]] \in Results
                        /\ outcome[array[d]] = processor_return[d]
                        /\ Finished(d) \/ (d = cpos /\ consumer = "post")
      BY <1>1, <2>1, Frame DEF Ready, Finished
    <3>1. CASE d = c
      BY <2>5, <3>1
    <3>2. CASE d # c
      BY <1>0, <2>4, <3>2 DEF Ready
    <3> QED BY <3>1, <3>2
  <2> QED BY <1>2, <2>2, <2>3, <2>6 DEF HistoryInv
<1> QED BY <1>5, <1>6, <1>7

-----------------------------------------------------------------------------
(* The consumer. *)

\* The steps of the consumer keep the invariant.
LEMMA ConsumerHistory ==
  ASSUME TypeOK, LockInv, HistoryInv, Consumer
  PROVE  HistoryInv'
<1> USE DEF callerVars, procVars, history, queue, sems
<1>0. /\ head \in Cells /\ tail \in Cells /\ cpos \in Cells
      /\ item_status \in [Cells -> ItemStatus] /\ Len(delivered) \in Nat
      /\ array \in [Cells -> Nat]
      /\ processor_return \in [Cells -> Results \cup {Pending}]
      /\ delivered \in Seq(Nat \X (Results \cup {Pending}))
      /\ Untouched /\ Order /\ Owners /\ Posts
      /\ Numbered /\ Unprocessed /\ InHand /\ Ready /\ Ended
  BY DEF TypeOK, LockInv, HistoryInv
<1>1. /\ UNCHANGED <<head, tail, array, processor, pos, pres, processor_return, caller, runs,
                     outcome>>
      /\ consumer # "done"
  BY DEF Consumer, WaitReady, CheckCell, Consume, ClearCell, PostNull
<1>2. (Filling' <=> Filling) /\ \A p \in Procs : Working(p)' <=> Working(p)
  BY <1>1 DEF Filling, Working
<1>3. CASE WaitReady \/ CheckCell \/ Consume
  <2>1. UNCHANGED <<cpos, item_status>> /\ consumer # "post" /\ Returned' = Returned
    BY <1>0, <1>3 DEF WaitReady, CheckCell, Consume, Returned
  <2>2. Numbered' /\ Unprocessed'
    BY <1>0, <1>1, <1>2, <2>1, Frame DEF Numbered, Unprocessed
  <2>3. InHand' /\ Ready'
    BY <1>0, <1>1, <1>2, <2>1, Frame DEF InHand, Ready, Finished
  <2>4. consumer' = "done" => Stopped /\ cpos = tail
    <3> SUFFICES ASSUME consumer' = "done" PROVE Stopped /\ cpos = tail
      OBVIOUS
    <3>1. consumer = "check" /\ ~Finished(cpos)
      BY <1>3 DEF WaitReady, CheckCell, Consume, Finished
    <3>2. \A p \in Procs : Working(p) => pos[p] # cpos
      BY <1>0, <3>1 DEF Owners
    <3>3. ~Taken(cpos)
      BY <1>0, <3>1, <3>2 DEF Ready
    <3> QED BY <1>0, <3>1, <3>3, TakenWhere DEF Posts
  <2>5. Ended'
    BY <1>0, <1>1, <2>1, <2>4 DEF Ended, Stopped
  <2> QED BY <2>2, <2>3, <2>5 DEF HistoryInv
<1>4. CASE ClearCell
  <2>1. /\ UNCHANGED cpos /\ consumer = "clear" /\ consumer' = "post" /\ Returned' = Returned
        /\ \A c \in Cells : c # cpos => (Finished(c)' <=> Finished(c))
    BY <1>0, <1>4 DEF ClearCell, Returned, Finished
  <2>2. Numbered' /\ Unprocessed'
    BY <1>0, <1>1, <1>2, <2>1, Frame DEF Numbered, Unprocessed
  <2>3. \A p \in Procs : Working(p) => pos[p] \in Cells /\ pos[p] # cpos
    BY <1>0, <2>1, AtWork DEF Owners
  <2>4. InHand'
    BY <1>0, <1>1, <2>1, <2>3 DEF InHand, Working
  <2>5. Ready'
    BY <1>0, <1>1, <1>2, <2>1, Frame DEF Ready
  <2>6. Ended'
    BY <1>0, <1>1, <2>1 DEF Ended
  <2> QED BY <2>2, <2>4, <2>5, <2>6 DEF HistoryInv
<1>5. CASE PostNull
  <2>1. /\ consumer = "post" /\ consumer' = "wait" /\ cpos' = Inc(cpos)
        /\ UNCHANGED <<item_status, delivered>>
    BY <1>5 DEF PostNull
  <2>2. Returned' = Returned + 1
    BY <1>0, <2>1 DEF Returned
  <2>3. cpos # head /\ cpos # tail
    BY <1>0, <2>1, TakenWhere DEF Posts
  <2>4. /\ \A c \in Cells : Dist(cpos, c) \in Nat /\ Dist(cpos, c) < QueueSize
        /\ Dist(cpos, cpos) = 0
    BY <1>0, DistValue
  <2>5. \A c \in Cells : c # cpos => Dist(cpos, c)' = Dist(cpos, c) - 1
    BY <1>0, <2>1, DistAhead DEF Dist
  <2>6. Dist(cpos, tail)' = Dist(cpos, tail) - 1 /\ Dist(cpos, head)' = Dist(cpos, head) - 1
    BY <1>0, <1>1, <2>1, <2>3, DistAhead, Primes
  <2>7. Dist(cpos', cpos) = QueueSize - 1
    BY <1>0, <2>1, <2>3, Sizes DEF Dist, Inc, Cells
  <2>8. \A c \in Cells : /\ Queued(c)' <=> Queued(c) /\ c # cpos
                         /\ Taken(c)' <=> Taken(c) /\ c # cpos
    <3> SUFFICES ASSUME NEW c \in Cells
                 PROVE  /\ Queued(c)' <=> Queued(c) /\ c # cpos
                        /\ Taken(c)' <=> Taken(c) /\ c # cpos
      OBVIOUS
    <3>1. /\ Queued(c)' <=> Dist(cpos', c) < Dist(cpos, tail) - 1
          /\ Taken(c)' <=> Dist(cpos', c) < Dist(cpos, head) - 1
      BY <1>1, <2>6, Primes DEF Queued, Taken, Dist
    <3>2. c # cpos => Dist(cpos', c) = Dist(cpos, c) - 1
      BY <2>5 DEF Dist
    <3>3. CASE c = cpos
      <4>1. Dist(cpos, tail) < QueueSize /\ Dist(cpos, head) < QueueSize /\ QueueSize \in Nat
            /\ Dist(cpos, tail) \in Nat /\ Dist(cpos, head) \in Nat
        BY <1>0, <2>4, Sizes
      <4> QED BY <2>7, <3>1, <3>3, <4>1
    <3>4. CASE c # cpos
      <4>1. Dist(cpos, tail) \in Nat /\ Dist(cpos, head) \in Nat /\ Dist(cpos, c) \in Nat
        BY <1>0, <2>4
      <4> QED BY <3>1, <3>2, <3>4, <4>1 DEF Queued, Taken
    <3> QED BY <3>3, <3>4
  <2>9. Numbered'
    <3>1. Returned' \in Nat
      BY <1>0, <2>2 DEF Numbered
    <3>2. Len(outcome) = Returned' + Dist(cpos, tail)' + (IF Filling THEN 1 ELSE 0)
      BY <1>0, <2>2, <2>4, <2>6 DEF Numbered
    <3>3. \A c \in Cells : Queued(c) /\ c # cpos => array[c] = Returned' + Dist(cpos, c)' + 1
      BY <1>0, <2>2, <2>4, <2>5, SMTT(20) DEF Numbered
    <3> QED BY <1>0, <1>1, <1>2, <2>8, <3>1, <3>2, <3>3 DEF Numbered
  <2>10. Unprocessed' /\ InHand'
    BY <1>0, <1>1, <1>2, <2>1, <2>8 DEF Unprocessed, InHand, Finished
  <2>11. Ready'
    BY <1>0, <1>1, <1>2, <2>1, <2>8 DEF Ready, Finished
  <2>12. Ended'
    BY <1>0, <1>1, <2>1 DEF Ended
  <2> QED BY <2>9, <2>10, <2>11, <2>12 DEF HistoryInv
<1> QED BY <1>3, <1>4, <1>5 DEF Consumer

\* Every step keeps the invariant.
LEMMA NextHistory ==
  ASSUME MaxRuns = 1, TypeOK, LockInv, HistoryInv, [Next]_vars
  PROVE  HistoryInv'
<1>1. ASSUME NEW p \in Procs, Processor(p) PROVE HistoryInv'
  BY <1>1, FetchHistory, WorkHistory DEF Processor
<1>2. CASE UNCHANGED vars
  <2>1. (Filling' <=> Filling) /\ \A p \in Procs : Working(p)' <=> Working(p)
    BY <1>2 DEF vars, Filling, Working
  <2>2. Numbered' /\ Unprocessed'
    BY <1>2, <2>1, Frame DEF vars, HistoryInv, Numbered, Returned, Unprocessed
  <2>3. InHand' /\ Ready' /\ Ended'
    BY <1>2, <2>1, Frame DEF vars, HistoryInv, InHand, Ready, Ended, Finished, Stopped
  <2> QED BY <2>2, <2>3 DEF HistoryInv
<1> QED BY <1>1, <1>2, CallerHistory, ConsumerHistory DEF Next, Terminated

-----------------------------------------------------------------------------
(* Refinement. *)

\* A step of the thread in run() starts the pipeline, makes an item, finishes, or is
\* not seen.
LEMMA CallerStep ==
  ASSUME TypeOK, LockInv, HistoryInv, Caller
  PROVE  [Abstract!AbsNext]_(Abstract!absVars)
<1> USE DEF procVars, consVars, history, queue, sems
<1>1. CASE Run
  BY <1>1 DEF Run, Abstract!AbsNext, Abstract!Start
<1>2. CASE GenerateItem
  <2>1. /\ Dist(cpos, tail) \in Nat /\ Len(outcome) \in Nat /\ Len(delivered) \in Nat
        /\ sem_null_cell \in Nat /\ QueueSize \in Nat
    <3>1. Dist(cpos, tail) \in Nat
      BY DistValue DEF TypeOK
    <3> QED BY <3>1, Sizes DEF TypeOK
  <2>2. sem_null_cell + Dist(cpos, tail) + 1 = QueueSize - 1
    BY <1>2 DEF GenerateItem, LockInv, Order, Stopped
  <2>3. Len(outcome) - Len(delivered) <= Dist(cpos, tail)
    BY <1>2, <2>1 DEF GenerateItem, HistoryInv, Numbered, Returned, Filling
  <2>4. Len(outcome) - Len(delivered) < QueueSize - 1
    BY <2>1, <2>2, <2>3
  <2>5. Abstract!Make
    BY <1>2, <2>4 DEF GenerateItem, Abstract!Make
  <2> QED BY <2>5 DEF Abstract!AbsNext
<1>3. CASE Join
  <2>1. runs # 0
    BY <1>3 DEF Join, LockInv, Untouched
  <2>2. cpos = tail /\ consumer = "done" /\ ~Filling
    BY <1>3, <2>1 DEF Join, HistoryInv, Ended, Filling
  <2>3. Dist(cpos, tail) = 0
    BY <2>2, DistValue DEF TypeOK
  <2>4. Len(outcome) = Len(delivered)
    BY <2>2, <2>3 DEF HistoryInv, Numbered, Returned, TypeOK
  <2>5. Abstract!Finish
    BY <1>3, <2>4 DEF Join, Abstract!Finish
  <2> QED BY <2>5 DEF Abstract!AbsNext
<1>4. CASE Create \/ WaitNull \/ GenerateStop \/ MarkWaiting \/ AdvanceTail \/ PostWaiting \/ Wake
  <2>1. (caller' = "idle" <=> caller = "idle") /\ UNCHANGED history
    BY <1>4 DEF Create, WaitNull, GenerateStop, MarkWaiting, AdvanceTail, PostWaiting, Wake
  <2> QED BY <2>1 DEF Abstract!absVars
<1> QED BY <1>1, <1>2, <1>3, <1>4 DEF Caller

\* A step of a processor works on an item not worked on, or is not seen.
LEMMA ProcessorStep ==
  ASSUME TypeOK, LockInv, HistoryInv, NEW p \in Procs, Processor(p)
  PROVE  [Abstract!AbsNext]_(Abstract!absVars)
<1> USE DEF callerVars, consVars, history, queue, sems
<1>1. CASE Process(p)
  <2>1. Working(p) /\ caller # "idle"
    BY <1>1 DEF Process, Working, HistoryInv, Ended
  <2>2. array[pos[p]] \in 1 .. Len(outcome)
    BY <2>1, AtWork, Places DEF HistoryInv
  <2>3. outcome[array[pos[p]]] = Pending
    BY <1>1 DEF Process, HistoryInv, Unprocessed
  <2>4. array[pos[p]] \in DOMAIN outcome
    BY <2>2 DEF TypeOK
  <2>5. PICK r \in Results : outcome' = [outcome EXCEPT ![array[pos[p]]] = r]
    BY <1>1, <2>4 DEF Process
  <2>6. UNCHANGED <<caller, delivered>>
    BY <1>1 DEF Process
  <2>7. Abstract!Work
    BY <2>1, <2>2, <2>3, <2>5, <2>6 DEF Abstract!Work
  <2> QED BY <2>7 DEF Abstract!AbsNext
<1>2. CASE WaitWaiting(p) \/ Lock(p) \/ DequeueRead(p) \/ Unlock(p) \/ StoreReturn(p)
           \/ PostReady(p) \/ ExitPost(p)
  <2>1. UNCHANGED <<caller, outcome, delivered>>
    BY <1>2 DEF WaitWaiting, Lock, DequeueRead, Unlock, StoreReturn, PostReady, ExitPost
  <2> QED BY <2>1 DEF Abstract!absVars
<1> QED BY <1>1, <1>2 DEF Processor

\* A step of the consumer delivers the next item with its outcome, or is not seen.
LEMMA ConsumerStep ==
  ASSUME TypeOK, LockInv, HistoryInv, Consumer
  PROVE  [Abstract!AbsNext]_(Abstract!absVars)
<1> USE DEF callerVars, procVars, history, queue, sems
<1>1. CASE Consume
  <2>1. /\ caller # "idle" /\ cpos \in Cells
        /\ Taken(cpos) /\ \A p \in Procs : Working(p) => pos[p] # cpos
    BY <1>1 DEF Consume, TypeOK, HistoryInv, Ended, LockInv, Posts, Owners
  <2>2. Queued(cpos) /\ array[cpos] \in 1 .. Len(outcome)
    BY <2>1, Places DEF HistoryInv
  <2>3. Dist(cpos, cpos) = 0
    BY <2>1, DistValue
  <2>4. array[cpos] = Len(delivered) + 1
    BY <1>1, <2>1, <2>2, <2>3 DEF Consume, HistoryInv, Numbered, Returned, TypeOK
  <2>5. outcome[array[cpos]] \in Results /\ outcome[array[cpos]] = processor_return[cpos]
    BY <2>1 DEF HistoryInv, Ready
  <2>6. /\ delivered' = Append(delivered, <<array[cpos], processor_return[cpos]>>)
        /\ UNCHANGED <<caller, outcome>>
    BY <1>1 DEF Consume
  <2>7. Abstract!Deliver
    BY <2>1, <2>2, <2>4, <2>5, <2>6, LockAssumption DEF Abstract!Deliver
  <2> QED BY <2>7 DEF Abstract!AbsNext
<1>2. CASE WaitReady \/ CheckCell \/ ClearCell \/ PostNull
  <2>1. UNCHANGED <<caller, outcome, delivered>>
    BY <1>2 DEF WaitReady, CheckCell, ClearCell, PostNull
  <2> QED BY <2>1 DEF Abstract!absVars
<1> QED BY <1>1, <1>2 DEF Consumer

\* parallel_framework_lock.h, run() with its threads: in the first run every item is
\* processed once and consumed in the order of generation with the value its processor
\* returned, although processors finish in any order; run() returns when none is left.
THEOREM Implements ==
  ASSUME MaxRuns = 1, FreshStatus \subseteq {"Null", "Waiting"}
  PROVE  Spec => ImplementsPipeline
<1>1. Init => TypeOK /\ LockInv /\ HistoryInv
  BY InitTyped, InitLock, InitHistory
<1>2. TypeOK /\ LockInv /\ HistoryInv /\ [Next]_vars => (TypeOK /\ LockInv /\ HistoryInv)'
  BY NextTyped, NextLock, NextHistory
<1>3. Init => Abstract!AbsInit
  BY DEF Init, Abstract!AbsInit
<1>4. TypeOK /\ LockInv /\ HistoryInv /\ [Next]_vars => [Abstract!AbsNext]_(Abstract!absVars)
  <2>1. UNCHANGED vars => UNCHANGED Abstract!absVars
    BY DEF vars, Abstract!absVars
  <2> QED BY <2>1, CallerStep, ProcessorStep, ConsumerStep DEF Next, Terminated
<1> QED BY <1>1, <1>2, <1>3, <1>4, PTL DEF Spec, ImplementsPipeline, Abstract!AbsSpec
=============================================================================
