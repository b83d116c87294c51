------------------------- MODULE SpinPipelineProofs -------------------------
(***************************************************************************)
(* Proofs about SpinPipeline, for any number of processors and cells, any  *)
(* modes and any number of items and runs: without a lock or a semaphore,  *)
(* item_status alone keeps every cell in the hands of one thread.          *)
(***************************************************************************)
EXTENDS SpinPipeline, SequenceTheorems, TLAPS

\* The cells of class p.
Lane(p) == {p + NumProcessor * k : k \in 0 .. BufSize - 1}

\* The cells between head and tail, going round.
InUse(c) == IF head <= tail THEN head <= c /\ c < tail ELSE head <= c \/ c < tail

Consuming == {"check", "consume", "clear", "dequeue"}

\* A processor stays in its class, and only the threads that were started run.
Lanes == \A p \in Classes : /\ pos[p] \in Lane(p)
                            /\ processor[p] # "done" => p \in Threads

\* Who may be where: nobody after run(), and without a consumer thread the consumer
\* runs inside the caller.
Turns ==
  /\ caller = "idle" => consumer = "done" /\ \A p \in Classes : processor[p] = "done"
  /\ caller \in {"loop", "turn", "process", "consume"} => mode # 0
  /\ mode # 0 /\ consumer # "done" => caller = "consume"
  /\ mode # 0 => consumer \in Consuming \cup {"done"}
  /\ caller = "process" => mode = 2 /\ head % NumProcessor = NumProcessor - 1

\* The queue is not full while an item is put in, and not empty while one is taken.
Room ==
  /\ caller \in {"generate", "mark", "advance"} => Inc(tail) # head
  /\ caller = "process" \/ consumer \in Consuming => head # tail

\* A cell that waits for its processor is in the queue or just about to be; the
\* consumer has one that does not wait, and a processor at work one that does.
Marks ==
  /\ \A c \in Cells : item_status[c] = "Waiting" => InUse(c) \/ (caller = "advance" /\ c = tail)
  /\ consumer \in Consuming \ {"check"} => item_status[head] # "Waiting"
  /\ \A p \in Classes : processor[p] = "process" => item_status[pos[p]] = "Waiting"

\* The inductive invariant, beside TypeOK.
Own == Lanes /\ Turns /\ Room /\ Marks

-----------------------------------------------------------------------------
(* Cells. *)

\* The queue has at least two cells, and at least one of every class.
LEMMA Sizes ==
  /\ NumProcessor \in Nat /\ NumProcessor > 0 /\ BufSize \in Nat /\ BufSize > 0
  /\ QueueSize \in Nat /\ QueueSize > 1 /\ NumProcessor <= QueueSize
<1>1. NumProcessor \in Nat /\ NumProcessor > 0 /\ BufSize \in Nat /\ BufSize > 0
      /\ NumProcessor * BufSize > 1
  BY SpinAssumption
<1>2. NumProcessor * BufSize \in Nat
  BY <1>1
<1>3. NumProcessor * BufSize >= NumProcessor * 1
  BY <1>1
<1> QED BY <1>1, <1>2, <1>3 DEF QueueSize

\* The step to the next cell stays in the queue, and says where it goes.
LEMMA IncValue ==
  ASSUME NEW c \in Cells
  PROVE  Inc(c) \in Cells /\ Inc(c) = IF c + 1 = QueueSize THEN 0 ELSE c + 1
<1>1. QueueSize \in Nat /\ QueueSize > 1 /\ c \in Int /\ 0 <= c /\ c < QueueSize
  BY Sizes DEF Cells
<1>2. CASE c + 1 = QueueSize
  <2>1. (c + 1) % QueueSize = 0
    BY <1>1, <1>2
  <2> QED BY <2>1, <1>1, <1>2 DEF Inc, Cells
<1>3. CASE c + 1 # QueueSize
  <2>1. (c + 1) % QueueSize = c + 1
    BY <1>1, <1>3
  <2> QED BY <2>1, <1>1, <1>3 DEF Inc, Cells
<1> QED BY <1>2, <1>3

\* A cell of a class is in the queue, and the next one is of the same class.
LEMMA LaneStep ==
  ASSUME NEW p \in Classes, NEW c \in Lane(p)
  PROVE  c \in Cells /\ (c + NumProcessor) % QueueSize \in Lane(p)
<1>1. PICK k \in 0 .. BufSize - 1 : c = p + NumProcessor * k
  BY DEF Lane
<1> DEFINE N == NumProcessor
           B == BufSize
           Q == QueueSize
<1>2. /\ N \in Nat /\ N > 0 /\ B \in Nat /\ B > 0 /\ Q \in Nat /\ Q > 1
      /\ p \in Nat /\ p < N /\ k \in Nat /\ k < B
  BY Sizes DEF Classes
<1>3. Q = N * B
  BY DEF QueueSize
<1>4. N * k \in Nat /\ N * (k + 1) = N * k + N
  BY <1>2
<1>5. N * (k + 1) <= N * B
  BY <1>2
<1>6. c \in Nat /\ c < Q /\ c + N = p + N * (k + 1)
  BY <1>1, <1>2, <1>3, <1>4, <1>5
<1>7. CASE k + 1 < B
  <2>1. N * (k + 2) = N * (k + 1) + N /\ N * (k + 2) <= N * B
    BY <1>2, <1>7
  <2>2. c + N < Q
    BY <2>1, <1>2, <1>3, <1>4, <1>6
  <2>3. (c + N) % Q = c + N
    BY <2>2, <1>2, <1>6
  <2>4. k + 1 \in 0 .. B - 1
    BY <1>2, <1>7
  <2>5. c + N \in Lane(p)
    BY <2>4, <1>6 DEF Lane
  <2> QED BY <2>3, <2>5, <1>2, <1>6 DEF Cells
<1>8. CASE k + 1 = B
  <2>1. c + N = p + Q
    BY <1>3, <1>6, <1>8
  <2>2. p < Q
    BY <1>2, Sizes
  <2>3. (p + Q) % Q = p
    BY <1>2, <2>2
  <2>4. p = p + N * 0 /\ 0 \in 0 .. B - 1
    BY <1>2
  <2> QED BY <2>1, <2>3, <2>4, <1>2, <1>6 DEF Lane, Cells
<1> QED BY <1>2, <1>7, <1>8

\* A cell belongs to one class.
LEMMA LanesApart ==
  ASSUME NEW p \in Classes, NEW q \in Classes, NEW c \in Lane(p), c \in Lane(q)
  PROVE  p = q
<1>1. PICK k \in 0 .. BufSize - 1 : c = p + NumProcessor * k
  BY DEF Lane
<1>2. PICK j \in 0 .. BufSize - 1 : c = q + NumProcessor * j
  BY DEF Lane
<1> DEFINE N == NumProcessor
<1>3. /\ N \in Nat /\ N > 0 /\ p \in Nat /\ p < N /\ q \in Nat /\ q < N
      /\ k \in Nat /\ j \in Nat
  BY Sizes DEF Classes
<1>4. N * k \in Nat /\ N * j \in Nat
  BY <1>3
<1>5. ASSUME k < j PROVE FALSE
  <2>1. N * (k + 1) <= N * j /\ N * (k + 1) = N * k + N
    BY <1>3, <1>5
  <2> QED BY <2>1, <1>1, <1>2, <1>3, <1>4
<1>6. ASSUME j < k PROVE FALSE
  <2>1. N * (j + 1) <= N * k /\ N * (j + 1) = N * j + N
    BY <1>3, <1>6
  <2> QED BY <2>1, <1>1, <1>2, <1>3, <1>4
<1>7. k = j
  BY <1>3, <1>5, <1>6
<1> QED BY <1>1, <1>2, <1>3, <1>4, <1>7

\* The remainder names the class.
LEMMA LaneRemainder ==
  ASSUME NEW p \in Classes, NEW c \in Lane(p)
  PROVE  c % NumProcessor = p
<1>1. PICK k \in 0 .. BufSize - 1 : c = p + NumProcessor * k
  BY DEF Lane
<1> DEFINE N == NumProcessor
<1>2. N \in Nat /\ N > 0 /\ p \in Nat /\ p < N /\ k \in Nat
  BY Sizes DEF Classes
<1>3. (p + N * k) % N = p
  BY <1>2
<1> QED BY <1>1, <1>3


\* Setting one place of a sequence, inside its domain or not, leaves a sequence.
LEMMA PlaceSet ==
  ASSUME NEW S, NEW s \in Seq(S), NEW i, NEW x \in S
  PROVE  [s EXCEPT ![i] = x] \in Seq(S)
<1>1. PICK n \in Nat : s \in [1 .. n -> S]
  BY SeqDef
<1>2. [s EXCEPT ![i] = x] \in [1 .. n -> S]
  BY <1>1
<1> QED BY <1>2, SeqDef

-----------------------------------------------------------------------------
(* Type correctness. *)

\* A processor starts in its class, and 0 is a cell.
LEMMA First == (\A p \in Classes : p \in Lane(p) /\ p \in Cells) /\ 0 \in Cells
<1>1. 0 \in Cells
  BY Sizes DEF Cells
<1>2. ASSUME NEW p \in Classes PROVE p \in Lane(p) /\ p \in Cells
  <2>1. NumProcessor * 0 = 0 /\ 0 \in 0 .. BufSize - 1 /\ p \in Int
    BY Sizes DEF Classes
  <2>2. p = p + NumProcessor * 0
    BY <2>1
  <2> QED BY <2>1, <2>2, Sizes DEF Lane, Classes, Cells
<1> QED BY <1>1, <1>2

\* The initial state is typed.
LEMMA InitTyped == Init => TypeOK
<1> SUFFICES ASSUME Init PROVE TypeOK
  OBVIOUS
<1>1. go \in [Classes -> BOOLEAN] /\ generator_running \in BOOLEAN
  BY DEF Init
<1> QED BY <1>1, SpinAssumption, First DEF Init, TypeOK, ItemStatus

\* The steps of the thread in run() keep the types.
LEMMA CallerTyped ==
  ASSUME TypeOK, Caller
  PROVE  TypeOK'
<1> USE SpinAssumption, First DEF procVars, history, queue
<1>1. ASSUME NEW m \in Modes, Create(m) PROVE TypeOK'
  BY <1>1 DEF TypeOK, Create, ItemStatus
<1>2. CASE Run
  <2>1. go' \in [Classes -> BOOLEAN]
    BY <1>2 DEF Run
  <2>2. processor' \in [Classes -> {"start", "poll", "look", "process", "return", "done"}]
    BY <1>2 DEF Run
  <2>3. pos' \in [Classes -> Cells]
    BY <1>2 DEF Run
  <2> QED BY <1>2, <2>1, <2>2, <2>3 DEF TypeOK, Run
<1>3. CASE WaitFull
  BY <1>3 DEF TypeOK, WaitFull
<1>4. CASE Loop
  <2>1. caller' \in {"generate", "turn", "stop"}
    BY <1>4 DEF Loop
  <2> QED BY <1>4, <2>1 DEF TypeOK, Loop
<1>5. CASE GenerateItem
  <2>1. outcome' \in Seq(Results \cup {Pending})
    BY <1>5 DEF TypeOK, GenerateItem
  <2>2. Len(outcome) + 1 \in Nat
    BY DEF TypeOK
  <2>3. array' \in [Cells -> Nat]
    BY <1>5, <2>2 DEF TypeOK, GenerateItem
  <2> QED BY <1>5, <2>1, <2>3 DEF TypeOK, GenerateItem
<1>6. CASE GenerateStop
  BY <1>6 DEF TypeOK, GenerateStop
<1>7. CASE MarkWaiting
  <2>1. item_status' \in [Cells -> ItemStatus]
    BY <1>7 DEF TypeOK, MarkWaiting, ItemStatus
  <2> QED BY <1>7, <2>1 DEF TypeOK, MarkWaiting
<1>8. CASE AdvanceTail
  <2>1. tail' \in Cells
    BY <1>8, IncValue DEF TypeOK, AdvanceTail
  <2> QED BY <1>8, <2>1 DEF TypeOK, AdvanceTail
<1>9. CASE Turn
  <2>1. caller' \in {"process", "consume", "loop"}
        /\ consumer' \in {"done", "check", consumer}
    BY <1>9 DEF Turn
  <2> QED BY <1>9, <2>1 DEF TypeOK, Turn
<1>10. CASE ProcessHead
  <2>1. PICK r \in Results :
          /\ item_status' = [item_status EXCEPT ![head] = IF r = 0 THEN "Ready" ELSE "Error"]
          /\ processor_return' = [processor_return EXCEPT ![head] = r]
          /\ outcome' = [outcome EXCEPT ![array[head]] = r]
    BY <1>10 DEF ProcessHead
  <2>2. outcome' \in Seq(Results \cup {Pending})
    BY <2>1, PlaceSet DEF TypeOK
  <2>3. item_status' \in [Cells -> ItemStatus]
        /\ processor_return' \in [Cells -> Results \cup {Pending}]
    BY <2>1 DEF TypeOK, ItemStatus
  <2> QED BY <1>10, <2>2, <2>3 DEF TypeOK, ProcessHead
<1>11. CASE Stop
  BY <1>11 DEF TypeOK, Stop
<1>12. CASE Join
  BY <1>12 DEF TypeOK, Join
<1> QED
  BY <1>1, <1>2, <1>3, <1>4, <1>5, <1>6, <1>7, <1>8, <1>9, <1>10, <1>11, <1>12 DEF Caller

\* The steps of a processor thread keep the types, and its class.
LEMMA ProcessorTyped ==
  ASSUME TypeOK, Lanes, NEW p \in Classes, Processor(p)
  PROVE  TypeOK'
<1> USE DEF Goto, callerVars, history, queue
<1>1. CASE StartProcessor(p)
  BY <1>1 DEF TypeOK, StartProcessor
<1>2. CASE PollStatus(p)
  <2>1. go' \in [Classes -> BOOLEAN]
    BY <1>2 DEF TypeOK, PollStatus
  <2> QED BY <1>2, <2>1 DEF TypeOK, PollStatus
<1>3. CASE Look(p)
  <2>1. processor' \in [Classes -> {"start", "poll", "look", "process", "return", "done"}]
    BY <1>3 DEF TypeOK, Look
  <2> QED BY <1>3, <2>1 DEF TypeOK, Look
<1>4. CASE Process(p)
  <2>1. PICK r \in Results :
          /\ pres' = [pres EXCEPT ![p] = r]
          /\ item_status' = [item_status EXCEPT ![pos[p]] = IF r = 0 THEN "Ready" ELSE "Error"]
          /\ outcome' = [outcome EXCEPT ![array[pos[p]]] = r]
    BY <1>4 DEF Process
  <2>2. outcome' \in Seq(Results \cup {Pending})
    BY <2>1, PlaceSet DEF TypeOK
  <2>3. item_status' \in [Cells -> ItemStatus]
        /\ pres' \in [Classes -> Results \cup {Pending}]
    BY <2>1 DEF TypeOK, ItemStatus
  <2> QED BY <1>4, <2>2, <2>3 DEF TypeOK, Process
<1>5. CASE StoreReturn(p)
  <2>1. (pos[p] + NumProcessor) % QueueSize \in Cells
    BY LaneStep DEF Lanes
  <2>2. pos' \in [Classes -> Cells]
    BY <1>5, <2>1 DEF TypeOK, StoreReturn
  <2>3. processor_return' \in [Cells -> Results \cup {Pending}]
        /\ pres' \in [Classes -> Results \cup {Pending}]
    BY <1>5 DEF TypeOK, StoreReturn
  <2> QED BY <1>5, <2>2, <2>3 DEF TypeOK, StoreReturn
<1> QED BY <1>1, <1>2, <1>3, <1>4, <1>5 DEF Processor

\* The steps of the consumer keep the types.
LEMMA ConsumerTyped ==
  ASSUME TypeOK, Consumer
  PROVE  TypeOK'
<1> USE DEF callerVars, procVars, history, queue
<1>1. CASE ConsumerLoop
  BY <1>1 DEF TypeOK, ConsumerLoop
<1>2. CASE ConsumerHasItem
  BY <1>2 DEF TypeOK, ConsumerHasItem
<1>3. CASE CheckFront
  <2>1. consumer' \in {"consume", "loop", "done"} /\ caller' \in {caller, "loop"}
    BY <1>3 DEF CheckFront, Back
  <2> QED BY <1>3, <2>1 DEF TypeOK, CheckFront
<1>4. CASE Consume
  <2>1. delivered' \in Seq(Nat \X (Results \cup {Pending}))
    BY <1>4 DEF TypeOK, Consume
  <2> QED BY <1>4, <2>1 DEF TypeOK, Consume
<1>5. CASE ClearFront
  <2>1. item_status' \in [Cells -> ItemStatus]
    BY <1>5 DEF TypeOK, ClearFront, ItemStatus
  <2> QED BY <1>5, <2>1 DEF TypeOK, ClearFront
<1>6. CASE AdvanceHead
  <2>1. consumer' \in {"loop", "done"} /\ caller' \in {caller, "loop"}
    BY <1>6 DEF AdvanceHead, Back
  <2>2. head' \in Cells
    BY <1>6, IncValue DEF TypeOK, AdvanceHead
  <2> QED BY <1>6, <2>1, <2>2 DEF TypeOK, AdvanceHead
<1> QED BY <1>1, <1>2, <1>3, <1>4, <1>5, <1>6 DEF Consumer

-----------------------------------------------------------------------------
(* Ownership. *)

\* The initial state satisfies the invariant.
LEMMA InitOwn == Init => Own
<1> SUFFICES ASSUME Init PROVE Own
  OBVIOUS
<1>1. Lanes /\ Turns /\ Room
  BY First DEF Init, Lanes, Turns, Room, Consuming
<1>2. Marks
  BY First DEF Init, Marks, Consuming
<1> QED BY <1>1, <1>2 DEF Own

\* Two cells of the queue have different successors.
LEMMA IncInjective ==
  ASSUME NEW c \in Cells, NEW d \in Cells, c # d
  PROVE  Inc(c) # Inc(d)
BY IncValue, Sizes DEF Cells

\* Moving tail puts the cell it leaves in use, and no other cell out of use.
LEMMA TailMoved ==
  ASSUME head \in Cells, tail \in Cells, tail' = Inc(tail), head' = head,
         Inc(tail) # head, NEW c \in Cells, InUse(c) \/ c = tail
  PROVE  InUse(c)'
<1>1. tail' = IF tail + 1 = QueueSize THEN 0 ELSE tail + 1
  BY IncValue
<1>2. /\ head \in Int /\ tail \in Int /\ c \in Int /\ 0 <= head /\ 0 <= tail /\ 0 <= c
      /\ head < QueueSize /\ tail < QueueSize /\ c < QueueSize /\ QueueSize \in Int
  BY Sizes DEF Cells
<1>3. tail' # head
  OBVIOUS
<1> QED BY <1>1, <1>2, <1>3 DEF InUse

\* Moving head puts no other cell than the one it leaves out of use.
LEMMA HeadMoved ==
  ASSUME head \in Cells, tail \in Cells, head' = Inc(head), tail' = tail,
         head # tail, NEW c \in Cells, InUse(c), c # head
  PROVE  InUse(c)'
<1>1. head' = IF head + 1 = QueueSize THEN 0 ELSE head + 1
  BY IncValue
<1>2. /\ head \in Int /\ tail \in Int /\ c \in Int /\ 0 <= head /\ 0 <= tail /\ 0 <= c
      /\ head < QueueSize /\ tail < QueueSize /\ c < QueueSize /\ QueueSize \in Int
  BY Sizes DEF Cells
<1> QED BY <1>1, <1>2 DEF InUse

\* While an item is put in, the cell at tail does not wait for a processor yet.
LEMMA TailFree ==
  ASSUME TypeOK, Own, caller # "advance"
  PROVE  item_status[tail] # "Waiting"
<1>1. tail \in Cells /\ head \in Cells
  BY DEF TypeOK
<1>2. ~InUse(tail)
  BY <1>1, Sizes DEF InUse, Cells
<1> QED BY <1>1, <1>2 DEF Own, Marks

\* The steps of the thread in run() keep the invariant.
LEMMA CallerOwn ==
  ASSUME TypeOK, Own, Caller
  PROVE  Own'
<1> USE DEF procVars, history, queue
<1>0. /\ head \in Cells /\ tail \in Cells /\ item_status \in [Cells -> ItemStatus]
      /\ Lanes /\ Turns /\ Room /\ Marks
  BY DEF TypeOK, Own
<1>1. ASSUME NEW m \in Modes, Create(m) PROVE Own'
  <2>1. Lanes' /\ Turns' /\ Room'
    BY <1>0, <1>1 DEF Create, Lanes, Turns, Room, Consuming
  <2>2. Marks'
    BY <1>0, <1>1 DEF Create, Marks, Turns, Consuming
  <2> QED BY <2>1, <2>2 DEF Own
<1>2. CASE Run
  <2>1. Lanes'
    BY <1>2, First DEF Run, Lanes, Threads
  <2>2. Turns' /\ Room'
    BY <1>0, <1>2 DEF Run, Turns, Room, Consuming
  <2>3. \A p \in Classes : processor'[p] # "process"
    BY <1>2 DEF Run
  <2>4. Marks'
    BY <1>0, <1>2, <2>3 DEF Run, Marks, InUse, Consuming
  <2> QED BY <2>1, <2>2, <2>4 DEF Own
<1>3. CASE WaitFull
  <2>1. Lanes' /\ Turns'
    BY <1>0, <1>3 DEF WaitFull, Lanes, Turns, Threads
  <2>2. Room' /\ Marks'
    BY <1>0, <1>3 DEF WaitFull, Room, Marks, InUse, IsFull, Inc
  <2> QED BY <2>1, <2>2 DEF Own
<1>4. CASE Loop
  <2>1. Lanes' /\ Turns'
    BY <1>0, <1>4 DEF Loop, Lanes, Turns, Threads
  <2>2. Room' /\ Marks'
    BY <1>0, <1>4 DEF Loop, Room, Marks, InUse, IsFull, Inc
  <2> QED BY <2>1, <2>2 DEF Own
<1>5. CASE GenerateItem
  <2>1. Lanes' /\ Turns'
    BY <1>0, <1>5 DEF GenerateItem, Lanes, Turns, Threads
  <2>2. Room' /\ Marks'
    BY <1>0, <1>5 DEF GenerateItem, Room, Marks, InUse, Inc
  <2> QED BY <2>1, <2>2 DEF Own
<1>6. CASE GenerateStop
  <2>0. caller' # "idle" /\ (mode # 0 => caller' = "turn") /\ (mode = 0 => caller' = "stop")
    BY <1>6 DEF GenerateStop
  <2>1. Lanes' /\ Turns'
    BY <1>0, <1>6, <2>0 DEF GenerateStop, Lanes, Turns, Threads
  <2>2. Room' /\ Marks'
    BY <1>0, <1>6, <2>0 DEF GenerateStop, Room, Marks, InUse, Inc
  <2> QED BY <2>1, <2>2 DEF Own
<1>7. CASE MarkWaiting
  <2>1. Lanes' /\ Turns'
    BY <1>0, <1>7 DEF MarkWaiting, Lanes, Turns, Threads
  <2>2. Room'
    BY <1>0, <1>7 DEF MarkWaiting, Room, Inc
  <2>3. Marks'
    BY <1>0, <1>7 DEF MarkWaiting, Marks, Room, InUse, Consuming, Lanes
  <2> QED BY <2>1, <2>2, <2>3 DEF Own
<1>8. CASE AdvanceTail
  <2>1. Lanes' /\ Turns'
    BY <1>0, <1>8 DEF AdvanceTail, Lanes, Turns, Threads
  <2>2. Room'
    BY <1>0, <1>8 DEF AdvanceTail, Room
  <2>3. ASSUME NEW c \in Cells, item_status[c] = "Waiting" PROVE InUse(c)'
    BY <1>0, <1>8, <2>3, TailMoved DEF AdvanceTail, Room, Marks
  <2>4. Marks'
    BY <1>0, <1>8, <2>3 DEF AdvanceTail, Marks
  <2> QED BY <2>1, <2>2, <2>4 DEF Own
<1>9. CASE Turn
  <2>1. Lanes' /\ Turns'
    BY <1>0, <1>9 DEF Turn, Lanes, Turns, Threads, Consuming
  <2>2. Room' /\ Marks'
    BY <1>0, <1>9 DEF Turn, Room, Marks, InUse, HasItem, Consuming, Turns
  <2> QED BY <2>1, <2>2 DEF Own
<1>10. CASE ProcessHead
  <2>0. /\ item_status' = [item_status EXCEPT ![head] = item_status'[head]]
        /\ item_status'[head] # "Waiting"
    BY <1>0, <1>10 DEF ProcessHead
  <2>1. Lanes' /\ Turns' /\ Room'
    BY <1>0, <1>10 DEF ProcessHead, Lanes, Turns, Room, Threads, Consuming, Inc
  <2>2. ASSUME NEW p \in Classes, processor[p] = "process" PROVE pos[p] # head
    <3>1. p \in 0 .. NumProcessor - 2 /\ pos[p] \in Lane(p)
      BY <1>0, <1>10, <2>2 DEF ProcessHead, Turns, Lanes, Threads
    <3>2. pos[p] % NumProcessor = p
      BY <3>1, LaneRemainder
    <3> QED BY <1>0, <1>10, <3>1, <3>2, Sizes DEF ProcessHead, Turns
  <2>3. Marks'
    BY <1>0, <1>10, <2>0, <2>2 DEF ProcessHead, Marks, InUse, Consuming
  <2> QED BY <2>1, <2>3 DEF Own
<1>11. CASE Stop
  <2>1. Lanes' /\ Turns'
    BY <1>0, <1>11 DEF Stop, Lanes, Turns, Threads
  <2>2. Room' /\ Marks'
    BY <1>0, <1>11 DEF Stop, Room, Marks, InUse, Inc
  <2> QED BY <2>1, <2>2 DEF Own
<1>12. CASE Join
  <2>1. Lanes' /\ Turns'
    BY <1>0, <1>12 DEF Join, Lanes, Turns, Threads
  <2>2. Room' /\ Marks'
    BY <1>0, <1>12 DEF Join, Room, Marks, InUse, Inc
  <2> QED BY <2>1, <2>2 DEF Own
<1> QED
  BY <1>1, <1>2, <1>3, <1>4, <1>5, <1>6, <1>7, <1>8, <1>9, <1>10, <1>11, <1>12 DEF Caller

\* The steps of a processor thread keep the invariant: it changes a cell of its own class
\* only, and one that waited for it.
LEMMA ProcessorOwn ==
  ASSUME TypeOK, Own, NEW p \in Classes, Processor(p)
  PROVE  Own'
<1> USE DEF Goto, callerVars, history, queue
<1>0. /\ head \in Cells /\ tail \in Cells /\ item_status \in [Cells -> ItemStatus]
      /\ processor \in [Classes -> {"start", "poll", "look", "process", "return", "done"}]
      /\ pos \in [Classes -> Cells]
      /\ Lanes /\ Turns /\ Room /\ Marks
  BY DEF TypeOK, Own
<1>1. CASE StartProcessor(p)
  <2>1. Lanes' /\ Turns'
    BY <1>0, <1>1 DEF StartProcessor, Lanes, Turns, Threads
  <2>2. Room' /\ Marks'
    BY <1>0, <1>1 DEF StartProcessor, Room, Marks, InUse, Inc
  <2> QED BY <2>1, <2>2 DEF Own
<1>2. CASE PollStatus(p)
  <2>1. Lanes' /\ Turns'
    BY <1>0, <1>2 DEF PollStatus, Lanes, Turns, Threads
  <2>2. Room' /\ Marks'
    BY <1>0, <1>2 DEF PollStatus, Room, Marks, InUse, Inc
  <2> QED BY <2>1, <2>2 DEF Own
<1>3. CASE Look(p)
  <2>0. /\ processor' = [processor EXCEPT ![p] = processor'[p]]
        /\ processor'[p] = "process" => item_status[pos[p]] = "Waiting"
    BY <1>0, <1>3 DEF Look
  <2>1. Lanes' /\ Turns'
    BY <1>0, <1>3, <2>0 DEF Look, Lanes, Turns, Threads
  <2>2. Room' /\ Marks'
    BY <1>0, <1>3, <2>0 DEF Look, Room, Marks, InUse, Inc
  <2> QED BY <2>1, <2>2 DEF Own
<1>4. CASE Process(p)
  <2>0. /\ item_status' = [item_status EXCEPT ![pos[p]] = item_status'[pos[p]]]
        /\ item_status'[pos[p]] # "Waiting"
    BY <1>0, <1>4 DEF Process
  <2>1. Lanes' /\ Turns' /\ Room'
    BY <1>0, <1>4 DEF Process, Lanes, Turns, Room, Threads, Inc
  <2>2. ASSUME NEW q \in Classes, q # p PROVE pos[q] # pos[p]
    BY <1>0, <2>2, LanesApart DEF Lanes
  <2>3. Marks'
    BY <1>0, <1>4, <2>0, <2>2 DEF Process, Marks, InUse, Consuming
  <2> QED BY <2>1, <2>3 DEF Own
<1>5. CASE StoreReturn(p)
  <2>1. (pos[p] + NumProcessor) % QueueSize \in Lane(p)
    BY <1>0, LaneStep DEF Lanes
  <2>2. Lanes' /\ Turns'
    BY <1>0, <1>5, <2>1 DEF StoreReturn, Lanes, Turns, Threads
  <2>3. Room' /\ Marks'
    BY <1>0, <1>5 DEF StoreReturn, Room, Marks, InUse, Inc
  <2> QED BY <2>2, <2>3 DEF Own
<1> QED BY <1>1, <1>2, <1>3, <1>4, <1>5 DEF Processor

\* The steps of the consumer keep the invariant.
LEMMA ConsumerOwn ==
  ASSUME TypeOK, Own, Consumer
  PROVE  Own'
<1> USE DEF callerVars, procVars, history, queue
<1>0. /\ head \in Cells /\ tail \in Cells /\ item_status \in [Cells -> ItemStatus]
      /\ pos \in [Classes -> Cells]
      /\ Lanes /\ Turns /\ Room /\ Marks
  BY DEF TypeOK, Own
<1>1. CASE ConsumerLoop
  <2>1. Lanes' /\ Turns'
    BY <1>0, <1>1 DEF ConsumerLoop, Lanes, Turns, Threads, Consuming
  <2>2. Room' /\ Marks'
    BY <1>0, <1>1 DEF ConsumerLoop, Room, Marks, InUse, Consuming, Inc
  <2> QED BY <2>1, <2>2 DEF Own
<1>2. CASE ConsumerHasItem
  <2>1. Lanes' /\ Turns'
    BY <1>0, <1>2 DEF ConsumerHasItem, Lanes, Turns, Threads, Consuming
  <2>2. Room' /\ Marks'
    BY <1>0, <1>2 DEF ConsumerHasItem, HasItem, Room, Marks, InUse, Consuming, Inc
  <2> QED BY <2>1, <2>2 DEF Own
<1>3. CASE CheckFront
  <2>1. Lanes' /\ Turns'
    BY <1>0, <1>3 DEF CheckFront, Back, Lanes, Turns, Threads, Consuming
  <2>2. Room' /\ Marks'
    BY <1>0, <1>3 DEF CheckFront, Back, Room, Marks, Turns, InUse, Consuming, Inc
  <2> QED BY <2>1, <2>2 DEF Own
<1>4. CASE Consume
  <2>1. Lanes' /\ Turns'
    BY <1>0, <1>4 DEF Consume, Lanes, Turns, Threads, Consuming
  <2>2. Room' /\ Marks'
    BY <1>0, <1>4 DEF Consume, Room, Marks, InUse, Consuming, Inc
  <2> QED BY <2>1, <2>2 DEF Own
<1>5. CASE ClearFront
  <2>1. Lanes' /\ Turns'
    BY <1>0, <1>5 DEF ClearFront, Lanes, Turns, Threads, Consuming
  <2>2. Room'
    BY <1>0, <1>5 DEF ClearFront, Room, Consuming, Inc
  <2>3. Marks'
    BY <1>0, <1>5 DEF ClearFront, Marks, InUse, Consuming
  <2> QED BY <2>1, <2>2, <2>3 DEF Own
<1>6. CASE AdvanceHead
  <2>1. Lanes' /\ Turns'
    BY <1>0, <1>6 DEF AdvanceHead, Back, Lanes, Turns, Threads, Consuming
  <2>2. head # tail /\ Inc(tail) # Inc(head) /\ item_status[head] # "Waiting"
    BY <1>0, <1>6, IncInjective DEF AdvanceHead, Room, Marks, Consuming
  <2>3. Room'
    BY <1>0, <1>6, <2>2 DEF AdvanceHead, Back, Room, Turns, Consuming, Inc
  <2>4. ASSUME NEW c \in Cells, item_status[c] = "Waiting", InUse(c) PROVE InUse(c)'
    BY <1>0, <1>6, <2>2, <2>4, HeadMoved DEF AdvanceHead
  <2>5. Marks'
    BY <1>0, <1>6, <2>2, <2>4 DEF AdvanceHead, Back, Marks, Turns, Consuming
  <2> QED BY <2>1, <2>3, <2>5 DEF Own
<1> QED BY <1>1, <1>2, <1>3, <1>4, <1>5, <1>6 DEF Consumer

-----------------------------------------------------------------------------
(* Theorems. *)

\* Every step keeps the types and the invariant.
LEMMA NextOwn ==
  ASSUME TypeOK, Own, [Next]_vars
  PROVE  TypeOK' /\ Own'
<1>1. CASE Caller
  BY <1>1, CallerTyped, CallerOwn
<1>2. ASSUME NEW p \in Classes, Processor(p) PROVE TypeOK' /\ Own'
  BY <1>2, ProcessorTyped, ProcessorOwn DEF Own
<1>3. CASE Consumer
  BY <1>3, ConsumerTyped, ConsumerOwn
<1>4. CASE UNCHANGED vars
  <2>1. TypeOK'
    BY <1>4 DEF vars, TypeOK
  <2>2. Lanes' /\ Turns'
    BY <1>4 DEF vars, Own, Lanes, Turns, Threads
  <2>3. Room' /\ Marks'
    BY <1>4 DEF vars, Own, Room, Marks, InUse, Inc
  <2> QED BY <2>1, <2>2, <2>3 DEF Own
<1> QED BY <1>1, <1>2, <1>3, <1>4 DEF Next, Terminated

\* The invariant keeps every cell in the hands of one thread.
LEMMA OwnExclusive ==
  ASSUME TypeOK, Own
  PROVE  CellExclusive
<1> SUFFICES ASSUME NEW p \in Classes, processor[p] = "process"
             PROVE  /\ item_status[pos[p]] = "Waiting"
                    /\ caller = "mark" => pos[p] # tail
                    /\ consumer \in {"consume", "clear", "dequeue"} => pos[p] # head
                    /\ caller = "process" => pos[p] # head
                    /\ \A q \in Classes \ {p} : processor[q] = "process" => pos[p] # pos[q]
  BY DEF CellExclusive
<1>1. item_status[pos[p]] = "Waiting" /\ pos[p] \in Lane(p) /\ p \in Threads
  BY DEF Own, Marks, Lanes
<1>2. caller = "mark" => pos[p] # tail
  BY <1>1, TailFree
<1>3. consumer \in {"consume", "clear", "dequeue"} => pos[p] # head
  BY <1>1 DEF Own, Marks, Consuming
<1>4. ASSUME caller = "process" PROVE pos[p] # head
  <2>1. p \in 0 .. NumProcessor - 2 /\ head % NumProcessor = NumProcessor - 1
    BY <1>1, <1>4 DEF Own, Turns, Threads
  <2>2. pos[p] % NumProcessor = p
    BY <1>1, LaneRemainder
  <2> QED BY <2>1, <2>2, Sizes
<1>5. ASSUME NEW q \in Classes \ {p} PROVE pos[p] # pos[q]
  BY <1>1, <1>5, LanesApart DEF Own, Lanes
<1> QED BY <1>1, <1>2, <1>3, <1>4, <1>5

\* parallel_framework.h: every variable keeps its type, whatever the mode.
THEOREM TypeCorrect == Spec => []TypeOK
<1>1. Init => TypeOK /\ Own
  BY InitTyped, InitOwn
<1>2. TypeOK /\ Own /\ [Next]_vars => (TypeOK /\ Own)'
  BY NextOwn
<1> QED BY <1>1, <1>2, PTL DEF Spec

\* parallel_framework.h, enqueue, dequeue, process_one_item: without lock or semaphore,
\* no two threads hold a cell, with any number of threads, cells, items and calls of
\* run(), in every mode.
THEOREM Exclusive == Spec => []CellExclusive
<1>1. Init => TypeOK /\ Own
  BY InitTyped, InitOwn
<1>2. TypeOK /\ Own /\ [Next]_vars => (TypeOK /\ Own)'
  BY NextOwn
<1>3. TypeOK /\ Own => CellExclusive
  BY OwnExclusive
<1> QED BY <1>1, <1>2, <1>3, PTL DEF Spec

-----------------------------------------------------------------------------
(* The assertion of the processor threads, in the first run. *)

\* Until a thread has started, its first cell has not been given back: the cell waits for
\* it, or tail has not passed it.
Unstarted ==
  /\ runs = 0 => caller = "idle" /\ head = 0 /\ tail = 0
  /\ \A p \in Classes : processor[p] = "start" =>
       /\ pos[p] = p /\ head <= p
       /\ item_status[p] # "Waiting" =>
            head <= tail /\ tail <= p /\ (caller = "advance" => tail # p)

\* The steps of the thread in run() keep that.
LEMMA CallerUnstarted ==
  ASSUME MaxRuns = 1, TypeOK, Own, Unstarted, Caller
  PROVE  Unstarted'
<1> USE DEF procVars, history, queue
<1>0. /\ head \in Cells /\ tail \in Cells /\ item_status \in [Cells -> ItemStatus]
      /\ runs \in Nat /\ Turns /\ Room /\ Lanes
      /\ \A c \in Cells : c \in Int /\ 0 <= c /\ c < QueueSize
      /\ \A p \in Classes : p \in Cells
  BY First, Sizes DEF TypeOK, Own, Cells
<1>1. ASSUME NEW m \in Modes, Create(m) PROVE Unstarted'
  BY <1>0, <1>1 DEF Create, Unstarted, Turns
<1>2. CASE Run
  <2>1. runs = 0 /\ head = 0 /\ tail = 0 /\ runs' # 0
    BY <1>0, <1>2 DEF Run, Unstarted
  <2>2. caller' # "advance" /\ \A p \in Classes : pos'[p] = p
    BY <1>2 DEF Run
  <2>3. \A p \in Classes : 0 <= p
    BY <1>0
  <2> QED BY <1>2, <2>1, <2>2, <2>3 DEF Run, Unstarted
<1>3. CASE WaitFull \/ Loop \/ GenerateItem \/ GenerateStop \/ Turn \/ Stop
  BY <1>0, <1>3 DEF WaitFull, Loop, GenerateItem, GenerateStop, Turn, Stop, Unstarted
<1>4. CASE Join
  BY <1>0, <1>4 DEF Join, Unstarted
<1>5. CASE MarkWaiting
  BY <1>0, <1>5 DEF MarkWaiting, Unstarted
<1>6. CASE AdvanceTail
  <2>1. tail' = IF tail + 1 = QueueSize THEN 0 ELSE tail + 1
    BY <1>0, <1>6, IncValue DEF AdvanceTail
  <2> QED BY <1>0, <1>6, <2>1 DEF AdvanceTail, Unstarted
<1>7. CASE ProcessHead
  <2>1. item_status' = [item_status EXCEPT ![head] = item_status'[head]]
    BY <1>0, <1>7 DEF ProcessHead
  <2>2. ASSUME NEW p \in Classes, processor[p] = "start" PROVE p # head
    <3>1. p \in 0 .. NumProcessor - 2 /\ p \in Lane(p)
      BY <1>0, <1>7, <2>2, First DEF ProcessHead, Turns, Lanes, Threads
    <3>2. p % NumProcessor = p
      BY <3>1, LaneRemainder
    <3> QED BY <1>0, <1>7, <3>1, <3>2, Sizes DEF ProcessHead, Turns
  <2> QED BY <1>0, <1>7, <2>1, <2>2 DEF ProcessHead, Unstarted
<1> QED BY <1>1, <1>2, <1>3, <1>4, <1>5, <1>6, <1>7 DEF Caller

\* So do those of the other threads.
LEMMA OthersUnstarted ==
  ASSUME TypeOK, Own, Unstarted, (\E p \in Classes : Processor(p)) \/ Consumer
  PROVE  Unstarted'
<1> USE DEF Goto, callerVars, procVars, history, queue
<1>0. /\ head \in Cells /\ tail \in Cells /\ item_status \in [Cells -> ItemStatus]
      /\ processor \in [Classes -> {"start", "poll", "look", "process", "return", "done"}]
      /\ pos \in [Classes -> Cells]
      /\ Turns /\ Room /\ Marks /\ Lanes
      /\ \A c \in Cells : c \in Int /\ 0 <= c /\ c < QueueSize
      /\ \A p \in Classes : p \in Cells
  BY First, Sizes DEF TypeOK, Own, Cells
<1>1. ASSUME NEW p \in Classes, StartProcessor(p) \/ PollStatus(p) \/ Look(p) PROVE Unstarted'
  BY <1>0, <1>1 DEF StartProcessor, PollStatus, Look, Unstarted
<1>2. ASSUME NEW p \in Classes, Process(p) PROVE Unstarted'
  <2>1. item_status' = [item_status EXCEPT ![pos[p]] = item_status'[pos[p]]]
    BY <1>0, <1>2 DEF Process
  <2>2. ASSUME NEW q \in Classes, processor[q] = "start" PROVE q # pos[p]
    BY <1>0, <1>2, <2>2, First, LanesApart DEF Process, Lanes
  <2> QED BY <1>0, <1>2, <2>1, <2>2 DEF Process, Unstarted
<1>3. ASSUME NEW p \in Classes, StoreReturn(p) PROVE Unstarted'
  BY <1>0, <1>3 DEF StoreReturn, Unstarted
<1>4. CASE ConsumerLoop \/ ConsumerHasItem \/ CheckFront \/ Consume
  BY <1>0, <1>4 DEF ConsumerLoop, ConsumerHasItem, CheckFront, Back, Consume, Unstarted, Turns
<1>5. CASE ClearFront
  BY <1>0, <1>5 DEF ClearFront, Unstarted, Marks, Consuming
<1>6. CASE AdvanceHead
  <2>1. head' = IF head + 1 = QueueSize THEN 0 ELSE head + 1
    BY <1>0, <1>6, IncValue DEF AdvanceHead
  <2>2. head # tail /\ item_status[head] # "Waiting"
    BY <1>0, <1>6 DEF AdvanceHead, Room, Marks, Consuming
  <2>3. caller' = "advance" => caller = "advance"
    BY <1>6 DEF AdvanceHead, Back
  <2>4. runs # 0
    BY <1>0, <1>6 DEF AdvanceHead, Unstarted, Turns
  <2> QED BY <1>0, <1>6, <2>1, <2>2, <2>3, <2>4 DEF AdvanceHead, Unstarted
<1> QED BY <1>1, <1>2, <1>3, <1>4, <1>5, <1>6 DEF Processor, Consumer

\* parallel_framework.h line 241: assert(head <= pos) holds whenever a processor thread
\* begins, if run() is called once; a second call finds head where the first left it.
THEOREM StartsInTime ==
  ASSUME MaxRuns = 1
  PROVE  Spec => []StartAssert
<1>1. Init => TypeOK /\ Own /\ Unstarted
  <2>1. Init => Unstarted
    BY DEF Init, Unstarted
  <2> QED BY <2>1, InitTyped, InitOwn
<1>2. TypeOK /\ Own /\ Unstarted /\ [Next]_vars => (TypeOK /\ Own /\ Unstarted)'
  <2> SUFFICES ASSUME TypeOK, Own, Unstarted, [Next]_vars PROVE Unstarted'
    BY NextOwn
  <2>1. CASE UNCHANGED vars
    BY <2>1 DEF vars, Unstarted
  <2> QED BY <2>1, CallerUnstarted, OthersUnstarted DEF Next, Terminated
<1>3. Unstarted => StartAssert
  BY DEF Unstarted, StartAssert
<1> QED BY <1>1, <1>2, <1>3, PTL DEF Spec

-----------------------------------------------------------------------------
(***************************************************************************)
(* The spinning framework implements the ordered pipeline but for the      *)
(* return value, for any number of processors, cells, items and runs, in   *)
(* every mode: each item is processed once, handed to the consumer once    *)
(* and after that, in the order of generation, and a run ends when all     *)
(* have been.                                                              *)
(***************************************************************************)

\* The steps from cell a to cell b, going round.
Dist(a, b) == IF a <= b THEN b - a ELSE b - a + QueueSize

\* A cell with an item, from enqueue() to dequeue(); its processor may find the item
\* before tail has moved.
Live(c) == InUse(c) \/ (caller = "advance" /\ c = tail)

Finished(c) == item_status[c] \in {"Ready", "Error"}

\* The items whose cells are free again.
Returned == Len(delivered) - (IF consumer \in {"clear", "dequeue"} THEN 1 ELSE 0)

\* The cells hold the items in the order they were made.
Numbered ==
  /\ Returned \in Nat
  /\ Len(outcome) = Returned + Dist(head, tail)
                      + (IF caller \in {"mark", "advance"} THEN 1 ELSE 0)
  /\ caller \in {"mark", "advance"} => array[tail] = Len(outcome)
  /\ \A c \in Cells : InUse(c) => array[c] = Returned + Dist(head, c) + 1

\* The status of a cell says whether its item has been processed.
Outcomes ==
  /\ caller = "mark" => outcome[array[tail]] = Pending
  /\ \A c \in Cells :
       /\ item_status[c] = "Waiting" => outcome[array[c]] = Pending
       /\ Live(c) /\ Finished(c) => outcome[array[c]] \in Results
       /\ Live(c) /\ item_status[c] = "Null" => c = head /\ consumer = "dequeue"

\* The items were delivered in order, each after it had been processed.
InTurn == \A i \in 1 .. Len(delivered) : delivered[i][1] = i /\ outcome[i] \in Results

\* In mode 2 nobody but the thread in run() processes the items of the last class.
LastClass ==
  mode = 2 => \A c \in Cells : Live(c) /\ c % NumProcessor = NumProcessor - 1 =>
                item_status[c] = "Waiting" \/ (c = head /\ caller = "consume")

\* The consumer leaves when the queue is empty for good, run() when all have left.
Ended ==
  /\ caller = "idle" => head = tail
  /\ caller \in {"stop", "join"} /\ mode # 0 => head = tail
  /\ mode = 0 /\ consumer = "done" /\ caller # "idle" => caller = "join" /\ head = tail
  /\ consumer = "last" => status # "Running"
  /\ status # "Running" => caller \in {"join", "idle"}

\* The inductive invariant, beside TypeOK and Own.
HistoryInv == Numbered /\ Outcomes /\ InTurn /\ LastClass /\ Ended

-----------------------------------------------------------------------------
(* Cells and items. *)

\* The way from one cell to another is shorter than the queue, and names the other cell.
LEMMA DistValue ==
  ASSUME NEW a \in Cells, NEW b \in Cells
  PROVE  /\ Dist(a, b) \in Nat /\ Dist(a, b) < QueueSize
         /\ Dist(a, b) = 0 <=> a = b
         /\ \A c \in Cells : Dist(a, b) = Dist(a, c) => b = c
BY Sizes DEF Dist, Cells

\* One step further, one step more, unless the way was all the way round.
LEMMA DistFurther ==
  ASSUME NEW a \in Cells, NEW b \in Cells, Inc(b) # a
  PROVE  Dist(a, b) < QueueSize - 1 /\ Dist(a, Inc(b)) = Dist(a, b) + 1
BY Sizes, IncValue DEF Dist, Cells

\* One step ahead, one step less, and all the way round from behind.
LEMMA DistAhead ==
  ASSUME NEW a \in Cells, NEW b \in Cells
  PROVE  Dist(Inc(a), b) = IF a = b THEN QueueSize - 1 ELSE Dist(a, b) - 1
BY Sizes, IncValue DEF Dist, Cells

\* The cells in use are those nearer to head than tail.
LEMMA InUseDist ==
  ASSUME NEW h \in Cells, NEW t \in Cells, NEW c \in Cells
  PROVE  (IF h <= t THEN h <= c /\ c < t ELSE h <= c \/ c < t) <=> Dist(h, c) < Dist(h, t)
BY Sizes DEF Dist, Cells

\* The same of the state, now and then.
LEMMA UseDist ==
  ASSUME TypeOK, NEW c \in Cells
  PROVE  /\ InUse(c) <=> Dist(head, c) < Dist(head, tail)
         /\ head' \in Cells /\ tail' \in Cells =>
              (InUse(c)' <=> Dist(head', c) < Dist(head', tail'))
         /\ Dist(head, c)' = Dist(head', c) /\ Dist(head, tail)' = Dist(head', tail')
<1>1. head \in Cells /\ tail \in Cells
  BY DEF TypeOK
<1>2. InUse(c) <=> Dist(head, c) < Dist(head, tail)
  BY <1>1, InUseDist DEF InUse
<1>3. head' \in Cells /\ tail' \in Cells =>
        (InUse(c)' <=> Dist(head', c) < Dist(head', tail'))
  BY InUseDist DEF InUse
<1> QED BY <1>2, <1>3 DEF Dist

\* Where head and tail stay, so do the cells in use.
LEMMA Frame ==
  ASSUME UNCHANGED <<head, tail>>
  PROVE  /\ Dist(head, tail)' = Dist(head, tail)
         /\ \A c : Dist(head, c)' = Dist(head, c) /\ (InUse(c)' <=> InUse(c))
BY DEF Dist, InUse

\* What every lemma below starts from.
LEMMA Facts ==
  ASSUME TypeOK, Own, HistoryInv
  PROVE  /\ head \in Cells /\ tail \in Cells
         /\ Dist(head, tail) \in Nat /\ Dist(head, tail) < QueueSize
         /\ \A c \in Cells : Dist(head, c) \in Nat /\ Dist(head, c) < QueueSize
         /\ outcome \in Seq(Results \cup {Pending}) /\ Len(outcome) \in Nat
         /\ delivered \in Seq(Nat \X (Results \cup {Pending})) /\ Len(delivered) \in Nat
         /\ array \in [Cells -> Nat] /\ item_status \in [Cells -> ItemStatus]
         /\ pos \in [Classes -> Cells]
         /\ processor \in [Classes -> {"start", "poll", "look", "process", "return", "done"}]
         /\ Lanes /\ Turns /\ Room /\ Marks
         /\ Numbered /\ Outcomes /\ InTurn /\ LastClass /\ Ended
BY DistValue DEF TypeOK, HistoryInv, Own

\* Live cells hold different items, which have been made, and the one being made is none
\* of them; what waits has not been delivered.
LEMMA Places ==
  ASSUME TypeOK, Own, HistoryInv
  PROVE  /\ ~InUse(tail)
         /\ \A c \in Cells : Live(c) => array[c] = Returned + Dist(head, c) + 1
         /\ \A c \in Cells : Live(c) => array[c] \in 1 .. Len(outcome)
         /\ \A c, d \in Cells : Live(c) /\ Live(d) /\ c # d => array[c] # array[d]
         /\ caller = "mark" => /\ array[tail] \in 1 .. Len(outcome)
                               /\ \A c \in Cells : Live(c) => array[c] # array[tail]
         /\ Len(delivered) <= Len(outcome)
         /\ caller = "mark" => Len(delivered) < array[tail]
         /\ \A c \in Cells : item_status[c] = "Waiting" => Live(c) /\ array[c] > Len(delivered)
<1>1. /\ Returned \in Nat
      /\ Len(outcome) = Returned + Dist(head, tail)
                          + (IF caller \in {"mark", "advance"} THEN 1 ELSE 0)
      /\ caller \in {"mark", "advance"} => array[tail] = Len(outcome)
      /\ \A c \in Cells : InUse(c) => array[c] = Returned + Dist(head, c) + 1
  BY Facts DEF Numbered
<1>2. /\ ~InUse(tail)
      /\ \A c \in Cells : InUse(c) => Dist(head, c) < Dist(head, tail)
  BY Facts, UseDist
<1>3. \A c \in Cells : Live(c) => array[c] = Returned + Dist(head, c) + 1
  BY <1>1, Facts DEF Live
<1>4. \A c \in Cells : Live(c) => array[c] \in 1 .. Len(outcome)
  <2> SUFFICES ASSUME NEW c \in Cells, Live(c) PROVE array[c] \in 1 .. Len(outcome)
    OBVIOUS
  <2>1. /\ Dist(head, c) <= Dist(head, tail)
        /\ Dist(head, c) = Dist(head, tail) => caller = "advance"
    BY <1>2, Facts, DistValue DEF Live
  <2> QED BY <1>1, <1>3, <2>1, Facts
<1>5. \A c, d \in Cells : Live(c) /\ Live(d) /\ c # d => array[c] # array[d]
  <2> SUFFICES ASSUME NEW c \in Cells, NEW d \in Cells, Live(c), Live(d), c # d
               PROVE  array[c] # array[d]
    OBVIOUS
  <2>1. Dist(head, c) # Dist(head, d)
    BY Facts, DistValue
  <2> QED BY <1>1, <1>3, <2>1, Facts
<1>6. caller = "mark" => /\ array[tail] \in 1 .. Len(outcome)
                         /\ \A c \in Cells : Live(c) => array[c] # array[tail]
  <2> SUFFICES ASSUME caller = "mark"
               PROVE  /\ array[tail] \in 1 .. Len(outcome)
                      /\ \A c \in Cells : Live(c) => array[c] # array[tail]
    OBVIOUS
  <2>1. \A c \in Cells : Live(c) => Dist(head, c) < Dist(head, tail)
    BY <1>2 DEF Live
  <2> QED BY <1>1, <1>3, <2>1, Facts
<1>7. Len(delivered) <= Returned + Dist(head, tail)
  BY <1>1, Facts, DistValue DEF Returned, Room, Consuming
<1>8. Len(delivered) <= Len(outcome) /\ (caller = "mark" => Len(delivered) < array[tail])
  BY <1>1, <1>7, Facts
<1>9. ASSUME NEW c \in Cells, item_status[c] = "Waiting"
      PROVE  Live(c) /\ array[c] > Len(delivered)
  <2>1. Live(c)
    BY <1>9, Facts DEF Marks, Live
  <2>2. array[c] = Returned + Dist(head, c) + 1
    BY <1>3, <2>1
  <2>3. CASE consumer \in {"clear", "dequeue"}
    <3>1. c # head
      BY <1>9, <2>3, Facts DEF Marks, Consuming
    <3>2. Dist(head, c) # 0
      BY <3>1, Facts, DistValue
    <3> QED BY <1>1, <2>1, <2>2, <2>3, <3>2, Facts DEF Returned
  <2>4. CASE consumer \notin {"clear", "dequeue"}
    BY <2>1, <2>2, <2>4, Facts DEF Returned
  <2> QED BY <2>3, <2>4
<1> QED BY <1>2, <1>3, <1>4, <1>5, <1>6, <1>8, <1>9

-----------------------------------------------------------------------------
(* The thread in run(). *)

\* The initial state satisfies the invariant.
LEMMA InitHistory == Init => HistoryInv
<1> SUFFICES ASSUME Init PROVE HistoryInv
  OBVIOUS
<1>1. /\ Dist(head, tail) = 0
      /\ \A c \in Cells : ~InUse(c)
  BY First, DistValue DEF Init, InUse, Cells
<1>2. Numbered /\ InTurn
  BY <1>1 DEF Init, Numbered, Returned, InTurn
<1>3. Outcomes /\ LastClass /\ Ended
  BY <1>1 DEF Init, Outcomes, LastClass, Ended, Finished, Live
<1> QED BY <1>2, <1>3 DEF HistoryInv

\* Steps that leave the queue and the histories alone, and do not hide the end.
LEMMA Still ==
  ASSUME TypeOK, Own, HistoryInv,
         UNCHANGED <<head, tail, item_status, array, outcome, delivered, mode>>,
         caller' \in {"mark", "advance"} \/ caller \in {"mark", "advance"} => caller' = caller,
         consumer' \in {"clear", "dequeue"} \/ consumer \in {"clear", "dequeue"} =>
           consumer' = consumer
  PROVE  Numbered' /\ Outcomes' /\ InTurn'
<1>1. Returned' = Returned /\ \A c : (Live(c)' <=> Live(c)) /\ (Finished(c)' <=> Finished(c))
  BY Frame DEF Returned, Live, Finished
<1>2. Numbered'
  BY <1>1, Facts, Frame DEF Numbered
<1>3. Outcomes' /\ InTurn'
  BY <1>1, Facts DEF Outcomes, InTurn
<1> QED BY <1>2, <1>3

\* create(), and the steps of the thread in run() that leave the queue alone, keep the
\* invariant.
LEMMA CallerHistory ==
  ASSUME TypeOK, Own, HistoryInv,
         \/ \E m \in Modes : Create(m)
         \/ Run \/ WaitFull \/ Loop \/ GenerateStop \/ Turn \/ Stop \/ Join
  PROVE  HistoryInv'
<1> USE DEF procVars, history, queue
<1>1. CASE \E m \in Modes : Create(m)
  <2>1. /\ caller = "idle" /\ caller' = "idle" /\ consumer = "done" /\ consumer' = "done"
        /\ head = tail /\ head' = 0 /\ tail' = 0 /\ UNCHANGED history /\ status' = "Ready"
        /\ \A c \in Cells : item_status'[c] = "Null"
    BY <1>1, Facts DEF Create, Turns, Ended
  <2>2. /\ Dist(head, tail) = 0 /\ Dist(head, tail)' = 0
        /\ \A c \in Cells : ~InUse(c)'
    BY <2>1, Facts, First, DistValue, UseDist DEF Cells
  <2>3. Numbered' /\ InTurn'
    BY <2>1, <2>2, Facts DEF Numbered, Returned, InTurn
  <2>4. Outcomes' /\ LastClass' /\ Ended'
    BY <2>1, <2>2 DEF Outcomes, LastClass, Ended, Finished, Live
  <2> QED BY <2>3, <2>4 DEF HistoryInv
<1>2. CASE Run
  <2>1. /\ UNCHANGED <<head, tail, item_status, array, outcome, delivered, mode>>
        /\ caller = "idle" /\ caller' \in {"full", "loop"} /\ status' = "Running"
        /\ consumer = "done" /\ consumer' = IF mode = 0 THEN "loop" ELSE "done"
        /\ head = tail
    BY <1>2, Facts DEF Run, Turns, Ended
  <2>2. Numbered' /\ Outcomes' /\ InTurn'
    BY <2>1, Still
  <2>3. \A c \in Cells : ~Live(c)'
    BY <2>1, Facts, UseDist, Frame, DistValue DEF Live
  <2>4. LastClass' /\ Ended'
    BY <2>1, <2>3 DEF LastClass, Ended
  <2> QED BY <2>2, <2>4 DEF HistoryInv
<1>3. CASE WaitFull \/ Loop \/ GenerateStop \/ Turn \/ Stop \/ Join
  <2>1. /\ UNCHANGED <<head, tail, item_status, array, outcome, delivered, mode>>
        /\ caller \notin {"mark", "advance", "consume"} /\ caller' \notin {"mark", "advance"}
        /\ consumer' # consumer => caller = "turn"
    BY <1>3 DEF WaitFull, Loop, GenerateStop, Turn, Stop, Join
  <2>2. caller = "turn" => consumer = "done" /\ consumer' \in {"done", "check"}
    BY <1>3, Facts DEF WaitFull, Loop, GenerateStop, Turn, Stop, Join, Turns
  <2>3. Numbered' /\ Outcomes' /\ InTurn'
    BY <2>1, <2>2, Still
  <2>4. LastClass'
    BY <2>1, Facts, Frame DEF LastClass, Live
  <2>5. Ended'
    <3>1. CASE WaitFull \/ GenerateStop
      BY <3>1, Facts DEF WaitFull, GenerateStop, Ended
    <3>2. CASE Loop
      BY <3>2, Facts DEF Loop, Ended, Turns, HasItem
    <3>3. CASE Turn
      BY <3>3, Facts DEF Turn, Ended, Turns
    <3>4. CASE Stop \/ Join
      BY <3>4, Facts DEF Stop, Join, Ended, Turns
    <3> QED BY <1>3, <3>1, <3>2, <3>3, <3>4
  <2> QED BY <2>3, <2>4, <2>5 DEF HistoryInv
<1> QED BY <1>1, <1>2, <1>3

\* generate_one_item() keeps the invariant.
LEMMA GenerateHistory ==
  ASSUME TypeOK, Own, HistoryInv, GenerateItem
  PROVE  HistoryInv'
<1>1. /\ UNCHANGED <<head, tail, item_status, consumer, delivered, mode, status>>
      /\ caller = "generate" /\ caller' = "mark"
  BY DEF GenerateItem
<1>2. /\ Len(outcome') = Len(outcome) + 1 /\ outcome'[Len(outcome) + 1] = Pending
      /\ \A i \in 1 .. Len(outcome) : outcome'[i] = outcome[i]
  BY Facts DEF GenerateItem
<1>3. /\ array'[tail] = Len(outcome) + 1
      /\ \A c \in Cells : c # tail => array'[c] = array[c]
  BY Facts DEF GenerateItem
<1>4. \A c \in Cells : Live(c) => /\ c # tail /\ array'[c] = array[c]
                                  /\ outcome'[array'[c]] = outcome[array[c]]
  BY <1>1, <1>2, <1>3, Places DEF Live
<1>5. \A c \in Cells : (Live(c)' <=> Live(c)) /\ (InUse(c) => Live(c))
  BY <1>1, Frame DEF Live
<1>6. Numbered'
  BY <1>1, <1>2, <1>3, <1>4, <1>5, Facts, Frame, SMTT(20) DEF Numbered, Returned
<1>7. Outcomes'
  <2>1. \A c \in Cells : item_status[c] = "Waiting" => Live(c)
    BY Places
  <2> QED BY <1>1, <1>2, <1>3, <1>4, <1>5, <2>1, Facts DEF Outcomes, Finished
<1>8. InTurn'
  <2>1. delivered' = delivered /\ Len(delivered) \in Nat /\ Len(delivered) <= Len(outcome)
    BY <1>1, Facts, Places
  <2>2. \A i \in 1 .. Len(delivered) : delivered[i][1] = i /\ outcome[i] \in Results
    BY Facts DEF InTurn
  <2>3. Len(outcome) \in Nat
    BY Facts
  <2>4. \A i \in 1 .. Len(delivered) : outcome'[i] = outcome[i]
    BY <1>2, <2>1, <2>3
  <2> QED BY <2>1, <2>2, <2>4 DEF InTurn
<1>9. LastClass' /\ Ended'
  BY <1>1, <1>5, Facts DEF LastClass, Ended
<1> QED BY <1>6, <1>7, <1>8, <1>9 DEF HistoryInv

\* enqueue() keeps the invariant.
LEMMA EnqueueHistory ==
  ASSUME TypeOK, Own, HistoryInv, MarkWaiting \/ AdvanceTail
  PROVE  HistoryInv'
<1> USE DEF procVars, history
<1>1. CASE MarkWaiting
  <2>1. /\ UNCHANGED <<head, tail, array, outcome, delivered, consumer, mode, status>>
        /\ caller = "mark" /\ caller' = "advance"
        /\ item_status'[tail] = "Waiting"
        /\ \A c \in Cells : c # tail => item_status'[c] = item_status[c]
    BY <1>1, Facts DEF MarkWaiting
  <2>2. \A c \in Cells : (Live(c)' <=> Live(c) \/ c = tail) /\ (Live(c) => c # tail)
    BY <2>1, Frame, Places DEF Live
  <2>3. Numbered' /\ InTurn'
    BY <2>1, Facts, Frame DEF Numbered, Returned, InTurn
  <2>4. Outcomes'
    BY <2>1, <2>2, Facts DEF Outcomes, Finished
  <2>5. LastClass' /\ Ended'
    BY <2>1, <2>2, Facts DEF LastClass, Ended
  <2> QED BY <2>3, <2>4, <2>5 DEF HistoryInv
<1>2. CASE AdvanceTail
  <2>1. /\ UNCHANGED <<head, item_status, array, outcome, delivered, consumer, mode, status>>
        /\ caller = "advance" /\ caller' \in {"full", "turn"} /\ tail' = Inc(tail)
        /\ tail' \in Cells
    BY <1>2, Facts, IncValue DEF AdvanceTail
  <2>2. Dist(head, tail)' = Dist(head, tail) + 1
    BY <2>1, Facts, DistFurther, UseDist DEF Room
  <2>3. \A c \in Cells : InUse(c)' <=> InUse(c) \/ c = tail
    <3> SUFFICES ASSUME NEW c \in Cells PROVE InUse(c)' <=> InUse(c) \/ c = tail
      OBVIOUS
    <3>1. /\ InUse(c)' <=> Dist(head, c) < Dist(head, tail) + 1
          /\ InUse(c) <=> Dist(head, c) < Dist(head, tail)
      BY <2>1, <2>2, Facts, UseDist
    <3>2. Dist(head, c) = Dist(head, tail) <=> c = tail
      BY Facts, DistValue
    <3> QED BY <3>1, <3>2, Facts
  <2>4. \A c \in Cells : (Live(c)' <=> Live(c)) /\ (InUse(c)' <=> Live(c))
    BY <2>1, <2>3 DEF Live
  <2>5. Numbered'
    <3>1. \A c \in Cells : InUse(c)' => array[c] = Returned + Dist(head, c) + 1
      BY <2>4, Places
    <3>2. /\ Returned \in Nat /\ Dist(head, tail) \in Nat
          /\ Len(outcome) = Returned + Dist(head, tail) + 1
      BY <2>1, Facts DEF Numbered
    <3>3. Returned' = Returned
      BY <2>1 DEF Returned
    <3>4. \A c \in Cells : Dist(head, c)' = Dist(head, c)
      BY <2>1 DEF Dist
    <3>5. /\ UNCHANGED <<outcome, array>>
          /\ caller' \notin {"mark", "advance"}
      BY <2>1
    <3>6. Len(outcome') = Returned' + Dist(head, tail)'
      BY <2>2, <3>2, <3>3, <3>5
    <3>7. \A c \in Cells : InUse(c)' => array'[c] = Returned' + Dist(head, c)' + 1
      BY <3>1, <3>3, <3>4, <3>5
    <3> QED BY <3>2, <3>3, <3>5, <3>6, <3>7 DEF Numbered
  <2>6. Outcomes' /\ InTurn'
    BY <2>1, <2>4, Facts DEF Outcomes, InTurn, Finished
  <2>7. LastClass'
    BY <2>1, <2>4, Facts DEF LastClass
  <2>8. Ended'
    BY <2>1, Facts DEF Ended
  <2> QED BY <2>5, <2>6, <2>7, <2>8 DEF HistoryInv
<1> QED BY <1>1, <1>2

-----------------------------------------------------------------------------
(* Processing. *)

\* A cell that is processed waits, its item is alone in having its number, and has been
\* neither processed nor delivered.
LEMMA Processed ==
  ASSUME TypeOK, Own, HistoryInv, NEW c \in Cells, item_status[c] = "Waiting", NEW r \in Results,
         UNCHANGED <<head, tail, array, delivered, mode>>,
         item_status' = [item_status EXCEPT ![c] = IF r = 0 THEN "Ready" ELSE "Error"],
         outcome' = [outcome EXCEPT ![array[c]] = r],
         caller' \in {"mark", "advance"} \/ caller \in {"mark", "advance"} => caller' = caller,
         consumer' \in {"clear", "dequeue"} \/ consumer \in {"clear", "dequeue"} =>
           consumer' = consumer
  PROVE  /\ Numbered' /\ Outcomes' /\ InTurn'
         /\ \A d \in Cells : Live(d)' <=> Live(d)
<1>1. /\ Live(c) /\ array[c] \in 1 .. Len(outcome) /\ array[c] > Len(delivered)
      /\ \A d \in Cells : Live(d) /\ d # c => array[d] # array[c]
      /\ caller = "mark" => array[tail] # array[c]
  BY Places
<1>2. /\ Len(outcome') = Len(outcome) /\ outcome'[array[c]] = r
      /\ \A i : i # array[c] => outcome'[i] = outcome[i]
  BY <1>1, Facts
<1>3. /\ item_status'[c] \in {"Ready", "Error"}
      /\ \A d \in Cells : d # c => item_status'[d] = item_status[d]
  BY Facts
<1>4. Returned' = Returned /\ \A d \in Cells : Live(d)' <=> Live(d)
  BY Frame DEF Returned, Live
<1>5. Numbered'
  BY <1>2, <1>4, Facts, Frame DEF Numbered
<1>6. Outcomes'
  <2>1. caller' = "mark" => outcome'[array[tail]] = Pending
    BY <1>1, <1>2, Facts DEF Outcomes
  <2>2. ASSUME NEW d \in Cells
        PROVE  /\ item_status'[d] = "Waiting" => outcome'[array[d]] = Pending
               /\ Live(d) /\ item_status'[d] \in {"Ready", "Error"} =>
                    outcome'[array[d]] \in Results
               /\ Live(d) /\ item_status'[d] = "Null" => d = head /\ consumer' = "dequeue"
    <3>1. CASE d = c
      BY <1>2, <1>3, <3>1
    <3>2. CASE d # c
      <4>1. item_status'[d] = item_status[d] /\ (item_status[d] = "Waiting" => Live(d))
        BY <1>3, <3>2, Places
      <4>2. Live(d) => outcome'[array[d]] = outcome[array[d]]
        BY <1>1, <1>2, <3>2
      <4> QED BY <4>1, <4>2, Facts DEF Outcomes, Finished
    <3> QED BY <3>1, <3>2
  <2> QED BY <1>4, <2>1, <2>2 DEF Outcomes, Finished
<1>7. InTurn'
  BY <1>1, <1>2, Facts DEF InTurn
<1> QED BY <1>4, <1>5, <1>6, <1>7

\* process_one_item() of the thread in run() keeps the invariant.
LEMMA HeadHistory ==
  ASSUME TypeOK, Own, HistoryInv, ProcessHead
  PROVE  HistoryInv'
<1> USE DEF procVars
<1>1. /\ UNCHANGED <<head, tail, array, delivered, mode, status>>
      /\ caller = "process" /\ caller' = "consume" /\ consumer' = "check"
      /\ consumer = "done" /\ mode = 2 /\ head % NumProcessor = NumProcessor - 1
      /\ head # tail
  BY Facts DEF ProcessHead, Turns, Room
<1>2. item_status[head] = "Waiting"
  <2>1. InUse(head)
    BY <1>1, Facts, UseDist, DistValue
  <2> QED BY <1>1, <2>1, Facts DEF LastClass, Live
<1>3. PICK r \in Results :
        /\ item_status' = [item_status EXCEPT ![head] = IF r = 0 THEN "Ready" ELSE "Error"]
        /\ outcome' = [outcome EXCEPT ![array[head]] = r]
  BY DEF ProcessHead
<1>4. /\ Numbered' /\ Outcomes' /\ InTurn'
      /\ \A d \in Cells : Live(d)' <=> Live(d)
  BY <1>1, <1>2, <1>3, Processed, Facts
<1>5. \A d \in Cells : d # head => item_status'[d] = item_status[d]
  BY <1>3, Facts
<1>6. LastClass'
  BY <1>1, <1>4, <1>5, Facts DEF LastClass
<1>7. Ended'
  BY <1>1, Facts DEF Ended
<1> QED BY <1>4, <1>6, <1>7 DEF HistoryInv

\* The steps of a processor keep the invariant.
LEMMA ProcessorHistory ==
  ASSUME TypeOK, Own, HistoryInv, NEW p \in Classes, Processor(p)
  PROVE  HistoryInv'
<1> USE DEF callerVars, history, queue
<1>1. CASE StartProcessor(p) \/ PollStatus(p) \/ Look(p) \/ StoreReturn(p)
  <2>1. UNCHANGED <<head, tail, item_status, array, outcome, delivered, mode, status, caller,
                    consumer>>
    BY <1>1 DEF StartProcessor, PollStatus, Look, StoreReturn
  <2>2. Numbered' /\ Outcomes' /\ InTurn'
    BY <2>1, Still
  <2>3. LastClass' /\ Ended'
    BY <2>1, Facts, Frame DEF LastClass, Ended, Live
  <2> QED BY <2>2, <2>3 DEF HistoryInv
<1>2. CASE Process(p)
  <2> DEFINE c == pos[p]
  <2>1. /\ UNCHANGED <<head, tail, array, delivered, mode, status, caller, consumer>>
        /\ processor[p] = "process"
    BY <1>2 DEF Process
  <2>2. c \in Cells /\ c \in Lane(p) /\ p \in Threads /\ item_status[c] = "Waiting"
    BY <2>1, Facts DEF Lanes, Marks
  <2>3. PICK r \in Results :
          /\ item_status' = [item_status EXCEPT ![c] = IF r = 0 THEN "Ready" ELSE "Error"]
          /\ outcome' = [outcome EXCEPT ![array[c]] = r]
    BY <1>2 DEF Process
  <2>4. /\ Numbered' /\ Outcomes' /\ InTurn'
        /\ \A d \in Cells : Live(d)' <=> Live(d)
    BY <2>1, <2>2, <2>3, Processed
  <2>5. \A d \in Cells : d # c => item_status'[d] = item_status[d]
    BY <2>2, <2>3, Facts
  <2>6. mode = 2 => c % NumProcessor # NumProcessor - 1
    <3>1. c % NumProcessor = p
      BY <2>2, LaneRemainder
    <3>2. mode = 2 => p # NumProcessor - 1
      BY <2>2, Sizes DEF Threads
    <3> QED BY <3>1, <3>2
  <2>7. LastClass' /\ Ended'
    BY <2>1, <2>4, <2>5, <2>6, Facts DEF LastClass, Ended
  <2> QED BY <2>4, <2>7 DEF HistoryInv
<1> QED BY <1>1, <1>2 DEF Processor

-----------------------------------------------------------------------------
(* The consumer. *)

\* The item at head has been processed when it is consumed, and is the next one.
LEMMA FrontItem ==
  ASSUME TypeOK, Own, HistoryInv, consumer = "consume"
  PROVE  /\ array[head] = Len(delivered) + 1 /\ array[head] \in 1 .. Len(outcome)
         /\ outcome[array[head]] \in Results
<1>1. head # tail /\ item_status[head] # "Waiting"
  BY Facts DEF Room, Marks, Consuming
<1>2. InUse(head) /\ Dist(head, head) = 0
  BY <1>1, Facts, UseDist, DistValue
<1>3. item_status[head] # "Null"
  BY <1>2, Facts DEF Outcomes, Live
<1>4. outcome[array[head]] \in Results
  BY <1>1, <1>2, <1>3, Facts DEF Outcomes, Live, Finished, ItemStatus
<1>5. array[head] \in 1 .. Len(outcome)
  BY <1>2, Facts, Places DEF Live
<1> QED BY <1>2, <1>4, <1>5, Facts DEF Numbered, Returned

\* The steps of the consumer keep the invariant.
LEMMA ConsumerHistory ==
  ASSUME TypeOK, Own, HistoryInv, Consumer
  PROVE  HistoryInv'
<1> USE DEF callerVars, procVars, history, queue
<1>1. CASE ConsumerLoop \/ ConsumerHasItem \/ CheckFront
  <2>1. /\ UNCHANGED <<head, tail, item_status, array, outcome, delivered, mode, status>>
        /\ consumer \notin {"clear", "dequeue"} /\ consumer' \notin {"clear", "dequeue"}
        /\ caller' # caller => caller = "consume" /\ caller' = "loop" /\ mode # 0
                               /\ item_status[head] = "Waiting"
    BY <1>1, Facts DEF ConsumerLoop, ConsumerHasItem, CheckFront, Back, Turns, Consuming
  <2>2. Numbered' /\ Outcomes' /\ InTurn'
    BY <2>1, Still
  <2>3. \A c \in Cells : Live(c)' <=> Live(c)
    BY <2>1, Frame DEF Live
  <2>4. LastClass'
    BY <2>1, <2>3, Facts DEF LastClass
  <2>5. Ended'
    <3>1. CASE ConsumerLoop
      BY <3>1, Facts DEF ConsumerLoop, Ended
    <3>2. CASE ConsumerHasItem
      BY <3>2, Facts DEF ConsumerHasItem, Ended, Turns, HasItem, Consuming
    <3>3. CASE CheckFront
      BY <3>3, Facts DEF CheckFront, Ended, Turns, Back, Consuming
    <3> QED BY <1>1, <3>1, <3>2, <3>3
  <2> QED BY <2>2, <2>4, <2>5 DEF HistoryInv
<1>2. CASE Consume
  <2>1. /\ UNCHANGED <<head, tail, item_status, array, outcome, mode, status, caller>>
        /\ consumer = "consume" /\ consumer' = "clear"
        /\ delivered' = Append(delivered, <<array[head], processor_return[head]>>)
    BY <1>2 DEF Consume
  <2>2. /\ Len(delivered') = Len(delivered) + 1
        /\ delivered'[Len(delivered) + 1][1] = array[head]
        /\ \A i \in 1 .. Len(delivered) : delivered'[i] = delivered[i]
    BY <2>1, Facts
  <2>3. Returned' = Returned
    BY <2>1, <2>2, Facts DEF Returned
  <2>4. Numbered'
    BY <2>1, <2>3, Facts, Frame DEF Numbered
  <2>5. Outcomes' /\ LastClass' /\ Ended'
    BY <2>1, Facts, Frame DEF Outcomes, LastClass, Ended, Live, Finished
  <2>6. InTurn'
    BY <2>1, <2>2, FrontItem, Facts DEF InTurn
  <2> QED BY <2>4, <2>5, <2>6 DEF HistoryInv
<1>3. CASE ClearFront
  <2>1. /\ UNCHANGED <<head, tail, array, outcome, delivered, mode, status, caller>>
        /\ consumer = "clear" /\ consumer' = "dequeue"
        /\ item_status'[head] = "Null"
        /\ \A c \in Cells : c # head => item_status'[c] = item_status[c]
    BY <1>3, Facts DEF ClearFront
  <2>2. \A c \in Cells : Live(c)' <=> Live(c)
    BY <2>1, Frame DEF Live
  <2>3. Numbered' /\ InTurn'
    BY <2>1, Facts, Frame DEF Numbered, Returned, InTurn
  <2>4. Outcomes'
    BY <2>1, <2>2, Facts DEF Outcomes, Finished
  <2>5. LastClass'
    <3>1. mode = 2 => caller = "consume"
      BY <2>1, Facts DEF Turns
    <3> QED BY <2>1, <2>2, <3>1, Facts DEF LastClass
  <2>6. Ended'
    BY <2>1, Facts DEF Ended
  <2> QED BY <2>3, <2>4, <2>5, <2>6 DEF HistoryInv
<1>4. CASE AdvanceHead
  <2>1. /\ UNCHANGED <<tail, item_status, array, outcome, delivered, mode, status>>
        /\ consumer = "dequeue" /\ consumer' \in {"loop", "done"}
        /\ head' = Inc(head) /\ head' \in Cells /\ head # tail
        /\ mode = 0 => caller' = caller /\ consumer' = "loop"
        /\ mode # 0 => caller = "consume" /\ caller' = "loop" /\ consumer' = "done"
    BY <1>4, Facts, IncValue DEF AdvanceHead, Back, Room, Consuming, Turns
  <2>2. Returned' = Returned + 1
    BY <2>1, Facts DEF Returned
  <2>3. /\ Dist(head, tail)' = Dist(head, tail) - 1
        /\ \A c \in Cells : Dist(head, c)' = IF c = head THEN QueueSize - 1
                                             ELSE Dist(head, c) - 1
    BY <2>1, Facts, DistAhead, UseDist
  <2>4. \A c \in Cells : InUse(c)' <=> InUse(c) /\ c # head
    <3> SUFFICES ASSUME NEW c \in Cells PROVE InUse(c)' <=> InUse(c) /\ c # head
      OBVIOUS
    <3>1. /\ InUse(c)' <=> Dist(head, c)' < Dist(head, tail) - 1
          /\ InUse(c) <=> Dist(head, c) < Dist(head, tail)
      BY <2>1, <2>3, Facts, UseDist
    <3> QED BY <2>3, <3>1, Facts, Sizes
  <2>5. \A c \in Cells : Live(c)' => Live(c) /\ c # head
    BY <2>1, <2>4 DEF Live
  <2>6. Numbered'
    <3>1. \A c \in Cells : InUse(c)' => array[c] = Returned' + Dist(head, c)' + 1
      BY <2>2, <2>3, <2>4, Facts DEF Numbered
    <3>2. Len(outcome) = Returned' + Dist(head, tail)'
                           + (IF caller' \in {"mark", "advance"} THEN 1 ELSE 0)
      BY <2>1, <2>2, <2>3, Facts, SMTT(20) DEF Numbered
    <3> QED BY <2>1, <2>2, <3>1, <3>2, Facts DEF Numbered
  <2>7. Outcomes' /\ InTurn'
    BY <2>1, <2>5, Facts DEF Outcomes, InTurn, Finished
  <2>8. LastClass' /\ Ended'
    BY <2>1, <2>5, Facts DEF LastClass, Ended
  <2> QED BY <2>6, <2>7, <2>8 DEF HistoryInv
<1> QED BY <1>1, <1>2, <1>3, <1>4 DEF Consumer

\* Every step keeps the invariant.
LEMMA NextHistory ==
  ASSUME TypeOK, Own, HistoryInv, [Next]_vars
  PROVE  HistoryInv'
<1>1. CASE Caller
  BY <1>1, CallerHistory, GenerateHistory, EnqueueHistory, HeadHistory DEF Caller
<1>2. CASE UNCHANGED vars
  <2>1. Numbered' /\ Outcomes' /\ InTurn'
    BY <1>2, Still DEF vars
  <2>2. LastClass' /\ Ended'
    BY <1>2, Facts, Frame DEF vars, LastClass, Ended, Live
  <2> QED BY <2>1, <2>2 DEF HistoryInv
<1> QED BY <1>1, <1>2, ProcessorHistory, ConsumerHistory DEF Next, Terminated

-----------------------------------------------------------------------------
(* Refinement. *)

\* The deliveries, and what they become when one is added.
LEMMA Deliveries ==
  ASSUME TypeOK, Own, HistoryInv
  PROVE  /\ InOrder \in Seq(Nat \X (Results \cup {Pending})) /\ Len(InOrder) = Len(delivered)
         /\ \A i \in 1 .. Len(delivered) : InOrder[i] = <<i, outcome[i]>>
<1>1. DOMAIN delivered = 1 .. Len(delivered) /\ Len(delivered) \in Nat
  BY Facts
<1>2. \A i \in 1 .. Len(delivered) : delivered[i][1] = i /\ outcome[i] \in Results
  BY Facts DEF InTurn
<1>3. InOrder \in [1 .. Len(delivered) -> Nat \X (Results \cup {Pending})]
  BY <1>1, <1>2 DEF InOrder
<1>4. InOrder \in Seq(Nat \X (Results \cup {Pending})) /\ Len(InOrder) = Len(delivered)
  BY <1>1, <1>3, SeqDef
<1> QED BY <1>1, <1>2, <1>4 DEF InOrder

\* An item that is made, or processed, is none of those delivered.
LEMMA DeliveriesSame ==
  ASSUME TypeOK, Own, HistoryInv, UNCHANGED delivered,
         \A i \in 1 .. Len(delivered) : outcome'[i] = outcome[i]
  PROVE  InOrder' = InOrder
<1>1. DOMAIN delivered = 1 .. Len(delivered) /\ DOMAIN delivered' = DOMAIN delivered
  BY Facts
<1>2. \A i \in DOMAIN delivered : outcome'[delivered'[i][1]] = outcome[delivered[i][1]]
  BY <1>1, Facts DEF InTurn
<1> QED BY <1>1, <1>2 DEF InOrder

\* Processing an item is a step of the abstract pipeline.
LEMMA WorkStep ==
  ASSUME TypeOK, Own, HistoryInv, NEW c \in Cells, item_status[c] = "Waiting", NEW r \in Results,
         outcome' = [outcome EXCEPT ![array[c]] = r], UNCHANGED delivered,
         caller # "idle", caller' # "idle"
  PROVE  [Abstract!AbsNext]_(Abstract!absVars)
<1>1. array[c] \in 1 .. Len(outcome) /\ array[c] > Len(delivered)
  BY Places
<1>2. outcome[array[c]] = Pending
  BY Facts DEF Outcomes
<1>3. InOrder' = InOrder
  BY <1>1, Facts, DeliveriesSame
<1>4. Abstract!Work
  BY <1>1, <1>2, <1>3 DEF Abstract!Work
<1> QED BY <1>4 DEF Abstract!AbsNext

\* A step of the thread in run() starts the pipeline, makes an item, processes one,
\* finishes, or is not seen.
LEMMA CallerStep ==
  ASSUME TypeOK, Own, HistoryInv, Caller
  PROVE  [Abstract!AbsNext]_(Abstract!absVars)
<1> USE DEF procVars, history, queue
<1>1. CASE Run
  BY <1>1 DEF Run, InOrder, Abstract!AbsNext, Abstract!Start
<1>2. CASE GenerateItem
  <2>1. Dist(head, tail) < QueueSize - 1
    BY <1>2, Facts, DistFurther DEF GenerateItem, Room
  <2>2. Len(outcome) - Len(InOrder) < QueueSize - 1
    BY <1>2, <2>1, Facts, Deliveries, Sizes DEF GenerateItem, Numbered, Returned
  <2>3. \A i \in 1 .. Len(delivered) : outcome'[i] = outcome[i]
    BY <1>2, Facts, Places DEF GenerateItem
  <2>4. InOrder' = InOrder
    BY <1>2, <2>3, DeliveriesSame DEF GenerateItem
  <2>5. Abstract!Make
    BY <1>2, <2>2, <2>4 DEF GenerateItem, Abstract!Make
  <2> QED BY <2>5 DEF Abstract!AbsNext
<1>3. CASE ProcessHead
  <2>1. /\ caller = "process" /\ caller' = "consume" /\ UNCHANGED delivered
        /\ mode = 2 /\ head % NumProcessor = NumProcessor - 1 /\ head # tail
    BY <1>3, Facts DEF ProcessHead, Turns, Room
  <2>2. InUse(head)
    BY <2>1, Facts, UseDist, DistValue
  <2>3. item_status[head] = "Waiting"
    BY <2>1, <2>2, Facts DEF LastClass, Live
  <2>4. PICK r \in Results : outcome' = [outcome EXCEPT ![array[head]] = r]
    BY <1>3 DEF ProcessHead
  <2> QED BY <2>1, <2>3, <2>4, WorkStep, Facts
<1>4. CASE Join
  <2>1. head = tail /\ consumer = "done" /\ caller = "join"
    BY <1>4, Facts DEF Join, Ended
  <2>2. Dist(head, tail) = 0
    BY <2>1, DistValue, Facts
  <2>3. Len(InOrder) = Len(outcome)
    BY <2>1, <2>2, Facts, Deliveries DEF Numbered, Returned
  <2>4. Abstract!Finish
    BY <1>4, <2>3 DEF Join, InOrder, Abstract!Finish
  <2> QED BY <2>4 DEF Abstract!AbsNext
<1>5. CASE \/ (\E m \in Modes : Create(m)) \/ WaitFull \/ Loop \/ GenerateStop \/ MarkWaiting
           \/ AdvanceTail \/ Turn \/ Stop
  <2>1. (caller' = "idle" <=> caller = "idle") /\ UNCHANGED history
    BY <1>5 DEF Create, WaitFull, Loop, GenerateStop, MarkWaiting, AdvanceTail, Turn, Stop
  <2> QED BY <2>1 DEF Abstract!absVars, InOrder
<1> QED BY <1>1, <1>2, <1>3, <1>4, <1>5 DEF Caller

\* A step of a processor works on an item not worked on, or is not seen.
LEMMA ProcessorStep ==
  ASSUME TypeOK, Own, HistoryInv, NEW p \in Classes, Processor(p)
  PROVE  [Abstract!AbsNext]_(Abstract!absVars)
<1> USE DEF callerVars, history, queue
<1>1. CASE Process(p)
  <2>1. /\ caller # "idle" /\ UNCHANGED <<caller, delivered>> /\ pos[p] \in Cells
        /\ item_status[pos[p]] = "Waiting"
    BY <1>1, Facts DEF Process, Turns, Marks
  <2>2. PICK r \in Results : outcome' = [outcome EXCEPT ![array[pos[p]]] = r]
    BY <1>1 DEF Process
  <2> QED BY <2>1, <2>2, WorkStep
<1>2. CASE StartProcessor(p) \/ PollStatus(p) \/ Look(p) \/ StoreReturn(p)
  <2>1. UNCHANGED <<caller, outcome, delivered>>
    BY <1>2 DEF StartProcessor, PollStatus, Look, StoreReturn
  <2> QED BY <2>1 DEF Abstract!absVars, InOrder
<1> QED BY <1>1, <1>2 DEF Processor

\* A step of the consumer delivers the next item, or is not seen.
LEMMA ConsumerStep ==
  ASSUME TypeOK, Own, HistoryInv, TypeOK', Own', HistoryInv', Consumer
  PROVE  [Abstract!AbsNext]_(Abstract!absVars)
<1> USE DEF callerVars, procVars, history, queue
<1>1. CASE Consume
  <2> DEFINE n == Len(delivered) + 1
  <2>1. /\ caller # "idle" /\ consumer = "consume" /\ UNCHANGED <<caller, outcome>>
        /\ delivered' = Append(delivered, <<array[head], processor_return[head]>>)
    BY <1>1, Facts DEF Consume, Turns
  <2>2. n \in 1 .. Len(outcome) /\ outcome[n] \in Results
    BY <2>1, FrontItem
  <2>3. Len(delivered') = n /\ Len(delivered) \in Nat
    BY <2>1, Facts
  <2>4. /\ InOrder \in Seq(Nat \X (Results \cup {Pending})) /\ Len(InOrder) = Len(delivered)
        /\ \A i \in 1 .. Len(delivered) : InOrder[i] = <<i, outcome[i]>>
    BY Deliveries
  <2>5. /\ InOrder' \in Seq(Nat \X (Results \cup {Pending})) /\ Len(InOrder') = n
        /\ \A i \in 1 .. n : InOrder'[i] = <<i, outcome[i]>>
    <3>1. DOMAIN delivered' = 1 .. n
      BY <2>1, <2>3, Facts
    <3>2. \A i \in 1 .. n : delivered'[i][1] = i /\ outcome[i] \in Results
      BY <2>1, <2>2, <2>3, FrontItem, Facts, SMTT(20) DEF InTurn
    <3>3. InOrder' = [i \in 1 .. n |-> <<delivered'[i][1], outcome[delivered'[i][1]]>>]
      BY <2>1, <3>1 DEF InOrder
    <3>4. InOrder' \in [1 .. n -> Nat \X (Results \cup {Pending})]
      BY <2>3, <3>2, <3>3
    <3>5. n \in Nat
      BY <2>3
    <3>6. InOrder' \in Seq(Nat \X (Results \cup {Pending})) /\ Len(InOrder') = n
      BY <3>4, <3>5, SeqDef
    <3> QED BY <3>2, <3>3, <3>6
  <2>6. InOrder' = Append(InOrder, <<n, outcome[n]>>)
    <3> DEFINE s == Append(InOrder, <<n, outcome[n]>>)
    <3>1. <<n, outcome[n]>> \in Nat \X (Results \cup {Pending})
      BY <2>2, <2>3
    <3>2. s \in Seq(Nat \X (Results \cup {Pending})) /\ Len(s) = n
          /\ s[n] = <<n, outcome[n]>> /\ \A i \in 1 .. Len(delivered) : s[i] = InOrder[i]
      BY <2>3, <2>4, <3>1
    <3>3. \A i \in 1 .. n : s[i] = <<i, outcome[i]>>
      BY <2>3, <2>4, <3>2
    <3> HIDE DEF s
    <3>4. InOrder' = s
      BY <2>5, <3>2, <3>3, SeqEqual
    <3> QED BY <3>4 DEF s
  <2>7. Abstract!Deliver
    BY <2>1, <2>2, <2>4, <2>6, SpinAssumption DEF Abstract!Deliver
  <2> QED BY <2>7 DEF Abstract!AbsNext
<1>2. CASE ConsumerLoop \/ ConsumerHasItem \/ CheckFront \/ ClearFront \/ AdvanceHead
  <2>1. UNCHANGED <<outcome, delivered>> /\ (caller' = "idle" <=> caller = "idle")
    BY <1>2, Facts DEF ConsumerLoop, ConsumerHasItem, CheckFront, ClearFront, AdvanceHead, Back,
                       Turns
  <2> QED BY <2>1 DEF Abstract!absVars, InOrder
<1> QED BY <1>1, <1>2 DEF Consumer

\* parallel_framework.h, run() in its three modes with its threads: in any number of runs,
\* without a lock or a semaphore, every item is processed once and consumed after that, in
\* the order of generation, and run() returns when none is left.
THEOREM Implements == Spec => ImplementsOrder
<1>1. Init => TypeOK /\ Own /\ HistoryInv
  BY InitTyped, InitOwn, InitHistory
<1>2. TypeOK /\ Own /\ HistoryInv /\ [Next]_vars => (TypeOK /\ Own /\ HistoryInv)'
  BY NextOwn, NextHistory
<1>3. Init => Abstract!AbsInit
  <2> SUFFICES ASSUME Init PROVE Abstract!AbsInit
    OBVIOUS
  <2>1. InOrder = <<>>
    BY DEF Init, InOrder
  <2> QED BY <2>1 DEF Init, Abstract!AbsInit
<1>4. TypeOK /\ Own /\ HistoryInv /\ [Next]_vars => [Abstract!AbsNext]_(Abstract!absVars)
  <2>1. UNCHANGED vars => UNCHANGED Abstract!absVars
    BY DEF vars, Abstract!absVars, InOrder
  <2> QED BY <2>1, <1>2, CallerStep, ProcessorStep, ConsumerStep DEF Next, Terminated
<1> QED BY <1>1, <1>2, <1>3, <1>4, PTL DEF Spec, ImplementsOrder, Abstract!AbsSpec
=============================================================================
