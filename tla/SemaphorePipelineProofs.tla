----------------------- MODULE SemaphorePipelineProofs -----------------------
(***************************************************************************)
(* Proofs about SemaphorePipeline, for any number of processors, cells and *)
(* items, in every mode: in the first run, from cleared cells, the two     *)
(* assertions of the code hold, although the posts of one processor are    *)
(* not told apart, and the queue is never overrun.                         *)
(***************************************************************************)
EXTENDS SemaphorePipeline, FiniteSetTheorems, SequenceTheorems, TLAPS

\* The cells of processor p.
Lane(p) == {c \in Cells : Owner(c) = p}

\* The steps from cell a to cell b, going round.
Dist(a, b) == IF a <= b THEN b - a ELSE b - a + QueueSize

\* A cell with an item.
InUse(c) == Dist(head, c) < Dist(head, tail)

Finished == {"Ready", "Error"}

\* The cells of p that wait for it, and those it has finished.
WaitingCells(p) == {c \in Lane(p) : item_status[c] = "Waiting"}
FinishedCells(p) == {c \in Lane(p) : item_status[c] \in Finished}

\* The cell p works on next: at "return" it has finished one and not yet left it.
Ahead(p) == IF processor[p] = "return" THEN (pos[p] + NumProcessor) % QueueSize ELSE pos[p]

\* The cell the generator has filled last.
Filled == IF tail = 0 THEN QueueSize - 1 ELSE tail - 1

Generating == caller \in {"null", "generate", "mark", "post", "loop"}
Holding == consumer \in {"check", "consume", "clear"}

\* Before the first run, and at its end.
Phases ==
  /\ status = "Null" => runs = 0
  /\ runs = 0 => /\ caller = "idle" /\ head = 0 /\ tail = 0 /\ consumer = "done"
                 /\ \A p \in Procs : processor[p] = "done" /\ sem_ready_cell[p] = 0
                 /\ \A c \in Cells : item_status[c] = "Null"
  /\ Generating => status = "Running"
  /\ caller \in {"idle", "wake", "drain", "join"} => status # "Running"
  /\ caller = "idle" => consumer = "done"

\* Without a consumer thread the consumer runs inside the caller.
Turns ==
  /\ caller = "null" => mode # 1
  /\ caller \in {"loop", "drain"} => mode = 1
  /\ caller = "consume" <=> mode = 1 /\ consumer # "done"
  /\ mode = 1 => consumer \in {"wait", "consume", "clear", "next", "done"} /\ ~cdraining
  /\ cdraining => status # "Running"
  /\ consumer = "drain" => cdraining
  /\ consumer = "check" => ~cdraining

\* The cells with items are those between head and tail, and there is room for one more
\* when an item is put in.
Room ==
  /\ \A c \in Cells : InUse(c) <=> item_status[c] # "Null"
  /\ Generating /\ mode # 1 =>
       sem_null_cell + Dist(head, tail) + (IF caller \in {"generate", "mark"} THEN 1 ELSE 0)
         + (IF consumer = "next" THEN 1 ELSE 0) = QueueSize - 1
  /\ caller \in {"generate", "mark"} /\ mode = 1 => Dist(head, tail) < QueueSize - 1
  /\ consumer = "wait" /\ (mode = 1 \/ cdraining) => head # tail

\* A processor takes its cells in order: first those it has finished, then, from where it
\* is, those that wait; when none waits it is where the generator will put the next one.
InOrder ==
  \A p \in Procs :
    /\ pos[p] \in Lane(p)
    /\ \A c \in WaitingCells(p) : /\ item_status[Ahead(p)] = "Waiting"
                                  /\ Dist(head, Ahead(p)) <= Dist(head, c)
                                  /\ \A d \in FinishedCells(p) : Dist(head, d) < Dist(head, c)
    /\ WaitingCells(p) = {} =>
         runs = 0 \/ \A c \in Lane(p) : Dist(tail, Ahead(p)) <= Dist(tail, c)

\* A processor works on a cell that waits, and leaves only when none does.
AtWork ==
  \A p \in Procs :
    /\ processor[p] = "process" => item_status[pos[p]] = "Waiting"
    /\ draining[p] \/ processor[p] \in {"exit", "done"} => status # "Running"
    /\ processor[p] = "look" => draining[p] \/ mode = 2
    /\ processor[p] \in {"exit", "done"} => WaitingCells(p) = {}

\* While the generator runs there is a post for every cell that waits.
Posted ==
  status = "Running" /\ mode # 2 =>
    \A p \in Procs :
      sem_waiting_cell[p] + (IF processor[p] \in {"poll", "process"} THEN 1 ELSE 0)
        + (IF caller = "post" /\ Filled \in Lane(p) THEN 1 ELSE 0)
      = Cardinality(WaitingCells(p))

\* There are no more posts than finished cells, but for the one that ends the run.
Counted ==
  /\ \A p \in Procs :
       sem_ready_cell[p] + (IF processor[p] \in {"return", "post"} THEN 1 ELSE 0)
         + (IF Holding /\ head \in Lane(p) THEN 1 ELSE 0)
       <= Cardinality(FinishedCells(p)) + (IF processor[p] = "done" THEN 1 ELSE 0)
  /\ consumer \in {"consume", "clear"} => item_status[head] \in Finished
  /\ consumer = "check" /\ status = "Running" => item_status[head] \in Finished

\* The inductive invariant of the first run, beside TypeOK.
SemInv == Phases /\ Turns /\ Room /\ InOrder /\ AtWork /\ Posted /\ Counted

-----------------------------------------------------------------------------
(* Cells. *)

\* There is a cell, and at least one for each processor.
LEMMA Sizes ==
  /\ NumProcessor \in Nat /\ NumProcessor > 0 /\ BufSize \in Nat /\ BufSize > 0
  /\ QueueSize = NumProcessor * BufSize
  /\ QueueSize \in Nat /\ QueueSize > 0 /\ NumProcessor <= QueueSize /\ 0 \in Cells
<1>1. NumProcessor \in Nat /\ NumProcessor > 0 /\ BufSize \in Nat /\ BufSize > 0
  BY SemaphoreAssumption
<1>2. NumProcessor * BufSize \in Nat /\ NumProcessor * BufSize >= NumProcessor * 1
  BY <1>1
<1> QED BY <1>1, <1>2 DEF QueueSize, Cells

\* The step to the next cell stays in the queue.
LEMMA IncCell ==
  ASSUME NEW c \in Cells
  PROVE  Inc(c) \in Cells /\ Inc(c) = (c + 1) % QueueSize
<1>1. QueueSize \in Nat /\ QueueSize > 0 /\ c \in Nat /\ c < QueueSize
  BY Sizes DEF Cells
<1>2. CASE c + 1 = QueueSize
  <2>1. (c + 1) % QueueSize = 0
    BY <1>1, <1>2
  <2> QED BY <2>1, <1>1, <1>2 DEF Inc, Cells
<1>3. CASE c + 1 # QueueSize
  <2>1. (c + 1) % QueueSize = c + 1
    BY <1>1, <1>3
  <2> QED BY <2>1, <1>1, <1>3 DEF Inc, Cells
<1> QED BY <1>2, <1>3

\* The way from one cell to another is shorter than the queue, and names the other cell.
LEMMA DistValue ==
  ASSUME NEW a \in Cells, NEW b \in Cells
  PROVE  /\ Dist(a, b) \in Nat /\ Dist(a, b) < QueueSize
         /\ Dist(a, b) = 0 <=> a = b
         /\ \A c \in Cells : Dist(a, b) = Dist(a, c) => b = c
BY Sizes DEF Dist, Cells

\* One step further, one step more.
LEMMA DistFurther ==
  ASSUME NEW a \in Cells, NEW b \in Cells, Dist(a, b) < QueueSize - 1
  PROVE  Dist(a, Inc(b)) = Dist(a, b) + 1
BY Sizes DEF Dist, Cells, Inc

\* One step ahead, one step less.
LEMMA DistAhead ==
  ASSUME NEW a \in Cells, NEW b \in Cells, a # b
  PROVE  Dist(Inc(a), b) = Dist(a, b) - 1
BY Sizes DEF Dist, Cells, Inc

\* The way round is longest to the cell before.
LEMMA DistFull ==
  ASSUME NEW a \in Cells, NEW b \in Cells, Inc(b) # a
  PROVE  Dist(a, b) < QueueSize - 1
BY Sizes DEF Dist, Cells, Inc

\* From the next cell it is all the way round.
LEMMA DistAround ==
  ASSUME NEW a \in Cells
  PROVE  Dist(Inc(a), a) = QueueSize - 1
BY Sizes DEF Dist, Cells, Inc

\* The way from a cell b on the way from a.
LEMMA DistFrom ==
  ASSUME NEW a \in Cells, NEW b \in Cells, NEW c \in Cells
  PROVE  Dist(b, c) = IF Dist(a, b) <= Dist(a, c) THEN Dist(a, c) - Dist(a, b)
                      ELSE Dist(a, c) - Dist(a, b) + QueueSize
BY Sizes DEF Dist, Cells

\* Positive multiples of the number of processors.
LEMMA Multiple ==
  ASSUME NEW j \in Int, NEW k \in Int, j < k
  PROVE  NumProcessor * j + NumProcessor <= NumProcessor * k
<1>1. NumProcessor \in Nat /\ NumProcessor > 0 /\ k - j - 1 \in Nat
  BY Sizes
<1>2. NumProcessor * (k - j - 1) >= 0
  BY <1>1
<1> QED BY <1>1, <1>2

\* A cell of a processor is its first cell and a multiple of the number of processors.
LEMMA LaneForm ==
  ASSUME NEW p \in Procs, NEW c \in Lane(p)
  PROVE  \E k \in Nat : c = NumProcessor * k + p
<1>1. NumProcessor \in Nat /\ NumProcessor > 0 /\ c \in Nat /\ c % NumProcessor = p
  BY Sizes DEF Lane, Owner, Cells
<1>2. ASSUME NEW n \in Nat, n > 0, NEW i \in Nat
      PROVE  \E k \in Nat, r \in 0 .. n - 1 : i = n * k + r /\ i % n = r
  BY <1>2
<1> QED BY <1>1, <1>2

\* Any such cell is one.
LEMMA FormLane ==
  ASSUME NEW p \in Procs, NEW k \in Int, NumProcessor * k + p \in Cells
  PROVE  NumProcessor * k + p \in Lane(p)
<1>1. NumProcessor \in Int /\ NumProcessor > 0 /\ p \in Int /\ 0 <= p /\ p < NumProcessor
  BY Sizes DEF Procs
<1>2. ASSUME NEW r \in Int, NEW n \in Int, n > 0, 0 <= r, r < n PROVE (r + n * k) % n = r
  BY <1>2
<1>3. (p + NumProcessor * k) % NumProcessor = p /\ NumProcessor * k \in Int
  BY <1>1, <1>2
<1>4. NumProcessor * k + p = p + NumProcessor * k
  BY <1>1, <1>3
<1> QED BY <1>3, <1>4 DEF Lane, Owner

\* Cells of one processor are a multiple of the number of processors apart.
LEMMA LaneApart ==
  ASSUME NEW p \in Procs, NEW a \in Lane(p), NEW c \in Lane(p)
  PROVE  \E j \in Int : c - a = NumProcessor * j
<1>1. PICK k \in Nat : a = NumProcessor * k + p
  BY LaneForm
<1>2. PICK i \in Nat : c = NumProcessor * i + p
  BY LaneForm
<1>3. NumProcessor \in Int /\ p \in Int
  BY Sizes DEF Procs
<1>4. NumProcessor * (i - k) = NumProcessor * i - NumProcessor * k /\ i - k \in Int
  BY <1>3
<1>5. NumProcessor * i \in Int /\ NumProcessor * k \in Int
  BY <1>3
<1>6. c - a = NumProcessor * (i - k)
  BY <1>1, <1>2, <1>3, <1>4, <1>5
<1> QED BY <1>4, <1>6

\* Every cell has a processor, and only one.
LEMMA LaneOf ==
  ASSUME NEW c \in Cells
  PROVE  /\ Owner(c) \in Procs /\ c \in Lane(Owner(c))
         /\ \A p \in Procs : c \in Lane(p) => p = Owner(c)
<1>1. NumProcessor \in Nat /\ NumProcessor > 0 /\ c \in Nat
  BY Sizes DEF Cells
<1>2. c % NumProcessor \in 0 .. NumProcessor - 1
  BY <1>1
<1> QED BY <1>2 DEF Lane, Owner, Procs

\* The first cell of a processor has its number.
LEMMA LaneFirst ==
  ASSUME NEW p \in Procs
  PROVE  p \in Lane(p) /\ \A c \in Lane(p) : p <= c
<1>1. NumProcessor \in Nat /\ NumProcessor > 0 /\ p \in Nat /\ p < NumProcessor
  BY Sizes DEF Procs
<1>2. p % NumProcessor = p /\ p \in Cells
  BY <1>1, Sizes DEF Cells
<1>3. ASSUME NEW c \in Lane(p) PROVE p <= c
  <2>1. c \in Nat /\ c % NumProcessor = p
    BY <1>3 DEF Lane, Owner, Cells
  <2> QED BY <1>1, <2>1
<1> QED BY <1>2, <1>3 DEF Lane, Owner

\* The next cell of a processor is its own.
LEMMA LaneStep ==
  ASSUME NEW p \in Procs, NEW c \in Lane(p)
  PROVE  /\ (c + NumProcessor) % QueueSize \in Lane(p)
         /\ (c + NumProcessor) % QueueSize
              = IF c + NumProcessor < QueueSize THEN c + NumProcessor
                ELSE c + NumProcessor - QueueSize
<1> DEFINE N == NumProcessor
           Q == QueueSize
<1>1. /\ N \in Nat /\ N > 0 /\ Q \in Nat /\ N <= Q /\ BufSize \in Nat /\ Q = N * BufSize
      /\ c \in Nat /\ c < Q
  BY Sizes DEF Lane, Cells
<1>2. PICK k \in Nat : c = N * k + p
  BY LaneForm
<1>3. p \in Int /\ N * k \in Int /\ N * (k + 1) = N * k + N
      /\ N * (k + 1 - BufSize) = N * k + N - N * BufSize
  BY <1>1 DEF Procs
<1>4. CASE c + N < Q
  <2>1. (c + N) % Q = c + N
    BY <1>1, <1>4
  <2>2. c + N = N * (k + 1) + p /\ c + N \in Cells /\ k + 1 \in Int
    BY <1>1, <1>2, <1>3, <1>4 DEF Cells
  <2> QED BY <1>4, <2>1, <2>2, FormLane
<1>5. CASE c + N >= Q
  <2>1. c + N - Q \in Nat /\ c + N - Q < Q
    BY <1>1, <1>5
  <2>2. (c + N) % Q = c + N - Q
    BY <1>1, <1>5, <2>1
  <2>3. c + N - Q = N * (k + 1 - BufSize) + p /\ c + N - Q \in Cells /\ k + 1 - BufSize \in Int
    BY <1>1, <1>2, <1>3, <2>1 DEF Cells
  <2>4. N * (k + 1 - BufSize) + p \in Lane(p)
    BY <2>3, FormLane
  <2>5. ~(c + N < Q)
    BY <1>1, <1>5
  <2> QED BY <2>2, <2>3, <2>4, <2>5
<1> QED BY <1>1, <1>4, <1>5

\* Seen from any cell h, no cell of a processor lies between one of them and its next.
LEMMA LaneGap ==
  ASSUME NEW p \in Procs, NEW h \in Cells, NEW a \in Lane(p), NEW c \in Lane(p)
  PROVE  LET n == (a + NumProcessor) % QueueSize IN
         /\ Dist(h, a) + NumProcessor < QueueSize =>
              /\ Dist(h, n) = Dist(h, a) + NumProcessor
              /\ Dist(h, c) > Dist(h, a) => Dist(h, c) >= Dist(h, n)
         /\ Dist(h, a) + NumProcessor >= QueueSize =>
              /\ Dist(h, n) = Dist(h, a) + NumProcessor - QueueSize
              /\ Dist(h, c) <= Dist(h, a) /\ Dist(h, c) >= Dist(h, n)
<1> DEFINE N == NumProcessor
           Q == QueueSize
           n == (a + N) % Q
<1>1. /\ N \in Nat /\ N > 0 /\ Q \in Nat /\ N <= Q /\ BufSize \in Nat /\ Q = N * BufSize
      /\ a \in Cells /\ c \in Cells /\ n \in Cells
      /\ a \in Int /\ h \in Int /\ 0 <= a /\ a < Q /\ 0 <= h /\ h < Q
  BY Sizes, LaneStep DEF Lane, Cells
<1>2. n = IF a + N < Q THEN a + N ELSE a + N - Q
  BY LaneStep
<1>3. Dist(h, n) = IF Dist(h, a) + N < Q THEN Dist(h, a) + N ELSE Dist(h, a) + N - Q
  BY <1>1, <1>2 DEF Dist
<1>4. PICK j \in Int : c - a = N * j
  BY LaneApart
<1>5. \E k \in Int : Dist(h, c) - Dist(h, a) = N * k
  <2>1. \/ Dist(h, c) - Dist(h, a) = N * j
        \/ Dist(h, c) - Dist(h, a) = N * j + Q
        \/ Dist(h, c) - Dist(h, a) = N * j - Q
    BY <1>1, <1>4 DEF Dist, Cells
  <2>2. N * j + Q = N * (j + BufSize) /\ N * j - Q = N * (j - BufSize)
    BY <1>1
  <2>3. j + BufSize \in Int /\ j - BufSize \in Int
    BY <1>1
  <2> QED BY <2>1, <2>2, <2>3
<1>6. PICK k \in Int : Dist(h, c) - Dist(h, a) = N * k
  BY <1>5
<1>7. /\ Dist(h, c) \in Nat /\ Dist(h, c) < Q /\ Dist(h, a) \in Nat /\ Dist(h, a) < Q
  BY <1>1, DistValue
<1>8. N * 0 = 0 /\ N * (0 - BufSize) = 0 - Q /\ 0 - BufSize \in Int /\ N * k \in Int
  BY <1>1
<1>9. Dist(h, c) > Dist(h, a) => Dist(h, c) >= Dist(h, a) + N
  <2> SUFFICES ASSUME Dist(h, c) > Dist(h, a) PROVE N * k >= N
    BY <1>6, <1>7, <1>8, <1>1
  <2>1. N * k > 0
    BY <1>6, <1>7
  <2>2. k > 0
    <3> SUFFICES ASSUME ~(k > 0) PROVE FALSE
      OBVIOUS
    <3>1. CASE k = 0
      BY <2>1, <1>8, <3>1
    <3>2. CASE k < 0
      BY <2>1, <1>8, <1>1, <3>2, Multiple
    <3> QED BY <3>1, <3>2
  <2> QED BY <2>2, <1>1, <1>8, Multiple
<1>10. Dist(h, c) >= Dist(h, a) + N - Q
  <2>1. N * k > N * (0 - BufSize)
    BY <1>6, <1>7, <1>8, <1>1
  <2>2. k > 0 - BufSize
    <3> SUFFICES ASSUME ~(k > 0 - BufSize) PROVE FALSE
      OBVIOUS
    <3>1. CASE k = 0 - BufSize
      BY <2>1, <1>8, <1>1, <3>1
    <3>2. CASE k < 0 - BufSize
      BY <2>1, <1>8, <1>1, <3>2, Multiple
    <3> QED BY <3>1, <3>2, <1>1
  <2>3. N * (0 - BufSize) + N <= N * k
    BY <2>2, <1>8, Multiple
  <2> QED BY <2>3, <1>6, <1>7, <1>8, <1>1
<1> QED BY <1>1, <1>3, <1>7, <1>9, <1>10

\* Setting one place of a sequence, inside its domain or not, leaves a sequence.
LEMMA PlaceSet ==
  ASSUME NEW S, NEW s \in Seq(S), NEW i, NEW x \in S
  PROVE  [s EXCEPT ![i] = x] \in Seq(S)
<1>1. PICK n \in Nat : s \in [1 .. n -> S]
  BY SeqDef
<1>2. [s EXCEPT ![i] = x] \in [1 .. n -> S]
  BY <1>1
<1> QED BY <1>2, SeqDef

\* Counting one up or down keeps a row of counters.
LEMMA Counters ==
  ASSUME NEW S, NEW f \in [S -> Nat], NEW i
  PROVE  /\ [f EXCEPT ![i] = f[i] + 1] \in [S -> Nat]
         /\ f[i] > 0 => [f EXCEPT ![i] = f[i] - 1] \in [S -> Nat]
<1>1. CASE i \in S
  BY <1>1
<1>2. CASE i \notin S
  <2>1. \A x : [f EXCEPT ![i] = x] = f
    BY <1>2
  <2> QED BY <2>1
<1> QED BY <1>1, <1>2

-----------------------------------------------------------------------------
(* Type correctness. *)

\* The initial state is typed.
LEMMA InitTyped == Init => TypeOK
<1> SUFFICES ASSUME Init PROVE TypeOK
  OBVIOUS
<1>1. draining \in [Procs -> BOOLEAN] /\ cdraining \in BOOLEAN
  BY DEF Init
<1>2. pos \in [Procs -> Cells]
  BY LaneFirst DEF Init, Lane
<1> QED BY <1>1, <1>2, SemaphoreAssumption, Sizes DEF Init, TypeOK, ItemStatus

\* The steps of the thread in run() keep the types.
LEMMA CallerTyped ==
  ASSUME TypeOK, Caller
  PROVE  TypeOK'
<1> USE SemaphoreAssumption, Sizes DEF procVars, consVars, history, queue, sems
<1>1. CASE Create
  <2>1. item_status' \in [Cells -> ItemStatus]
    BY <1>1 DEF Create
  <2> QED BY <1>1, <2>1 DEF TypeOK, Create
<1>2. ASSUME NEW m \in Modes, Run(m) PROVE TypeOK'
  <2>1. draining' \in [Procs -> BOOLEAN] /\ cdraining' \in BOOLEAN
    BY <1>2 DEF Run
  <2>2. pos' \in [Procs -> Cells]
    BY <1>2, LaneFirst DEF Run, Lane
  <2>3. /\ processor' \in [Procs -> {"wait", "poll", "look", "process", "return", "post",
                                     "exit", "done"}]
        /\ consumer' \in {"done", "wait"} /\ caller' \in {"loop", "null"} /\ mode' \in 0 .. 2
    BY <1>2 DEF Run
  <2>4. /\ sem_ready_cell' \in [Procs -> Nat] /\ sem_waiting_cell' \in [Procs -> Nat]
        /\ sem_null_cell' \in Nat /\ status' = "Running" /\ runs' = runs + 1
        /\ UNCHANGED <<head, tail, item_status, array, processor_return, woken, pres,
                    outcome, delivered>>
    BY <1>2 DEF Run, InitialNull
  <2> QED BY <2>1, <2>2, <2>3, <2>4 DEF TypeOK
<1>3. CASE WaitNull
  BY <1>3 DEF TypeOK, WaitNull
<1>4. CASE TestFull
  <2>1. caller' \in {"generate", "consume"} /\ consumer' \in {consumer, "wait"}
    BY <1>4 DEF TestFull
  <2> QED BY <1>4, <2>1 DEF TypeOK, TestFull
<1>5. CASE GenerateItem
  <2>1. outcome' \in Seq(Results \cup {Pending}) /\ Len(outcome) + 1 \in Nat
    BY <1>5 DEF TypeOK, GenerateItem
  <2>2. array' \in [Cells -> Nat]
    BY <1>5, <2>1 DEF TypeOK, GenerateItem
  <2> QED BY <1>5, <2>1, <2>2 DEF TypeOK, GenerateItem
<1>6. CASE GenerateStop
  BY <1>6 DEF TypeOK, GenerateStop
<1>7. CASE MarkWaiting
  <2>1. item_status' \in [Cells -> ItemStatus] /\ tail' \in Cells
    BY <1>7, IncCell DEF TypeOK, MarkWaiting, ItemStatus
  <2> QED BY <1>7, <2>1 DEF TypeOK, MarkWaiting
<1>8. CASE PostWaiting
  <2>1. sem_waiting_cell' \in [Procs -> Nat]
    <3> DEFINE i == Owner(IF tail = 0 THEN QueueSize - 1 ELSE tail - 1)
    <3>1. sem_waiting_cell' = [sem_waiting_cell EXCEPT ![i] = sem_waiting_cell[i] + 1]
      BY <1>8 DEF PostWaiting
    <3>2. sem_waiting_cell \in [Procs -> Nat]
      BY DEF TypeOK
    <3> HIDE DEF i
    <3> QED BY <3>1, <3>2, Counters
  <2>2. /\ caller' \in {"loop", "null"}
        /\ UNCHANGED <<status, mode, head, tail, item_status, array, processor_return,
                    sem_ready_cell, sem_null_cell, woken, processor, pos, pres,
                    draining, consumer, cdraining, runs, outcome, delivered>>
    BY <1>8 DEF PostWaiting
  <2> QED BY <2>1, <2>2 DEF TypeOK
<1>9. CASE Wake
  <2>1. caller' \in {"wake", "drain", "join"} /\ woken' \in 0 .. NumProcessor
        /\ (caller' = "wake" => woken' < NumProcessor)
    BY <1>9 DEF TypeOK, Wake
  <2>2. sem_waiting_cell' \in [Procs -> Nat]
    <3>1. sem_waiting_cell' = [sem_waiting_cell EXCEPT ![woken] = sem_waiting_cell[woken] + 1]
      BY <1>9 DEF Wake
    <3>2. sem_waiting_cell \in [Procs -> Nat]
      BY DEF TypeOK
    <3> QED BY <3>1, <3>2, Counters
  <2>3. UNCHANGED <<status, mode, head, tail, item_status, array, processor_return,
                    sem_ready_cell, sem_null_cell, processor, pos, pres, draining,
                    consumer, cdraining, runs, outcome, delivered>>
    BY <1>9 DEF Wake
  <2> QED BY <2>1, <2>2, <2>3 DEF TypeOK
<1>10. CASE TestDrain
  <2>1. caller' \in {"consume", "join"} /\ consumer' \in {consumer, "wait"}
    BY <1>10 DEF TestDrain
  <2> QED BY <1>10, <2>1 DEF TypeOK, TestDrain
<1>11. CASE Join
  BY <1>11 DEF TypeOK, Join
<1> QED
  BY <1>1, <1>2, <1>3, <1>4, <1>5, <1>6, <1>7, <1>8, <1>9, <1>10, <1>11 DEF Caller

\* The steps of a processor thread keep the types, as long as it keeps to its cells.
LEMMA ProcessorTyped ==
  ASSUME TypeOK, NEW p \in Procs, pos[p] \in Lane(p), Processor(p)
  PROVE  TypeOK'
<1> USE DEF Goto, callerVars, consVars, history, queue, sems
<1>1. CASE WaitWaiting(p)
  BY <1>1 DEF TypeOK, WaitWaiting
<1>2. CASE PollStatus(p)
  <2>1. draining' \in [Procs -> BOOLEAN]
    BY <1>2 DEF TypeOK, PollStatus
  <2>2. processor' \in [Procs -> {"wait", "poll", "look", "process", "return", "post",
                                  "exit", "done"}]
    BY <1>2 DEF TypeOK, PollStatus
  <2> QED BY <1>2, <2>1, <2>2 DEF TypeOK, PollStatus
<1>3. CASE Look(p)
  <2>1. processor' \in [Procs -> {"wait", "poll", "look", "process", "return", "post",
                                  "exit", "done"}]
    BY <1>3 DEF TypeOK, Look
  <2> QED BY <1>3, <2>1 DEF TypeOK, Look
<1>4. CASE Process(p)
  <2>1. PICK r \in Results :
          /\ pres' = [pres EXCEPT ![p] = r]
          /\ item_status' = [item_status EXCEPT ![pos[p]] = IF r = 0 THEN "Ready" ELSE "Error"]
          /\ outcome' = IF array[pos[p]] \in DOMAIN outcome
                        THEN [outcome EXCEPT ![array[pos[p]]] = r] ELSE outcome
    BY <1>4 DEF Process
  <2>2. outcome' \in Seq(Results \cup {Pending})
    BY <2>1, PlaceSet DEF TypeOK
  <2>3. item_status' \in [Cells -> ItemStatus] /\ pres' \in [Procs -> Results \cup {Pending}]
    BY <2>1 DEF TypeOK, ItemStatus
  <2> QED BY <1>4, <2>2, <2>3 DEF TypeOK, Process
<1>5. CASE StoreReturn(p)
  <2>1. (pos[p] + NumProcessor) % QueueSize \in Cells
    BY LaneStep DEF Lane
  <2>2. pos' \in [Procs -> Cells] /\ processor_return' \in [Cells -> Results \cup {Pending}]
    BY <1>5, <2>1 DEF TypeOK, StoreReturn
  <2> QED BY <1>5, <2>2 DEF TypeOK, StoreReturn
<1>6. CASE PostReady(p)
  <2>1. processor' \in [Procs -> {"wait", "poll", "look", "process", "return", "post",
                                  "exit", "done"}]
    BY <1>6 DEF TypeOK, PostReady
  <2> QED BY <1>6, <2>1 DEF TypeOK, PostReady
<1>7. CASE ExitPost(p)
  BY <1>7 DEF TypeOK, ExitPost
<1> QED BY <1>1, <1>2, <1>3, <1>4, <1>5, <1>6, <1>7 DEF Processor

\* The steps of the consumer keep the types.
LEMMA ConsumerTyped ==
  ASSUME TypeOK, Consumer
  PROVE  TypeOK'
<1> USE DEF callerVars, procVars, history, queue, sems
<1>1. CASE WaitReady
  <2>1. sem_ready_cell' \in [Procs -> Nat]
    <3> DEFINE i == Owner(head)
    <3>1. sem_ready_cell[i] > 0
          /\ sem_ready_cell' = [sem_ready_cell EXCEPT ![i] = sem_ready_cell[i] - 1]
      BY <1>1 DEF WaitReady
    <3>2. sem_ready_cell \in [Procs -> Nat]
      BY DEF TypeOK
    <3> HIDE DEF i
    <3> QED BY <3>1, <3>2, Counters
  <2>2. consumer' \in {"consume", "check"}
    BY <1>1 DEF WaitReady
  <2>3. UNCHANGED <<status, mode, head, tail, item_status, array, processor_return,
                    sem_waiting_cell, sem_null_cell, caller, woken, processor, pos,
                    pres, draining, cdraining, runs, outcome, delivered>>
    BY <1>1 DEF WaitReady
  <2> QED BY <2>1, <2>2, <2>3 DEF TypeOK
<1>2. CASE CheckStatus
  <2>1. consumer' \in {"drain", "consume"} /\ cdraining' \in BOOLEAN
    BY <1>2 DEF TypeOK, CheckStatus
  <2> QED BY <1>2, <2>1 DEF TypeOK, CheckStatus
<1>3. CASE Drain
  BY <1>3 DEF TypeOK, Drain
<1>4. CASE Consume
  <2>1. delivered' \in Seq(Nat \X (Results \cup {Pending}))
    <3>1. CASE item_status[head] = "Null"
      BY <1>4, <3>1 DEF TypeOK, Consume
    <3>2. CASE item_status[head] # "Null"
      <4>1. <<array[head], processor_return[head]>> \in Nat \X (Results \cup {Pending})
        BY DEF TypeOK
      <4>2. delivered' = Append(delivered, <<array[head], processor_return[head]>>)
            /\ delivered \in Seq(Nat \X (Results \cup {Pending}))
        BY <1>4, <3>2 DEF TypeOK, Consume
      <4> QED BY <4>1, <4>2
    <3> QED BY <3>1, <3>2
  <2>2. consumer' \in {"next", "clear"}
    BY <1>4 DEF Consume
  <2> QED BY <1>4, <2>1, <2>2 DEF TypeOK, Consume
<1>5. CASE ClearCell
  <2>1. item_status' \in [Cells -> ItemStatus] /\ head' \in Cells
    BY <1>5, IncCell DEF TypeOK, ClearCell, ItemStatus
  <2> QED BY <1>5, <2>1 DEF TypeOK, ClearCell
<1>6. CASE NextItem
  <2>1. /\ consumer' \in {"done", "drain", "wait"} /\ caller' \in {caller, "loop", "drain"}
        /\ sem_null_cell' \in Nat
    BY <1>6 DEF TypeOK, NextItem, Next1
  <2> QED BY <1>6, <2>1 DEF TypeOK, NextItem
<1> QED BY <1>1, <1>2, <1>3, <1>4, <1>5, <1>6 DEF Consumer

-----------------------------------------------------------------------------
(* Steps that leave most of the cells alone. *)

\* The parts of the invariant after a step, in terms of its variables.
LEMMA Later ==
  /\ \A c : InUse(c)' <=> Dist(head', c) < Dist(head', tail')
  /\ \A p : WaitingCells(p)' = {c \in Lane(p) : item_status'[c] = "Waiting"}
  /\ \A p : FinishedCells(p)' = {c \in Lane(p) : item_status'[c] \in Finished}
  /\ InOrder' <=>
       \A p \in Procs :
         /\ pos'[p] \in Lane(p)
         /\ \A c \in WaitingCells(p)' :
              /\ item_status'[Ahead(p)'] = "Waiting"
              /\ Dist(head', Ahead(p)') <= Dist(head', c)
              /\ \A d \in FinishedCells(p)' : Dist(head', d) < Dist(head', c)
         /\ WaitingCells(p)' = {} =>
              runs' = 0 \/ \A c \in Lane(p) : Dist(tail', Ahead(p)') <= Dist(tail', c)
  /\ Dist(head, tail)' = Dist(head', tail')
BY DEF InUse, WaitingCells, FinishedCells, InOrder, Dist, Lane, Owner

\* The sets of cells are finite.
LEMMA CellSets ==
  ASSUME NEW p
  PROVE  /\ IsFiniteSet(WaitingCells(p)) /\ Cardinality(WaitingCells(p)) \in Nat
         /\ IsFiniteSet(FinishedCells(p)) /\ Cardinality(FinishedCells(p)) \in Nat
<1>1. IsFiniteSet(Cells)
  BY Sizes, FS_Interval DEF Cells
<1>2. WaitingCells(p) \subseteq Cells /\ FinishedCells(p) \subseteq Cells
  BY DEF WaitingCells, FinishedCells, Lane
<1>3. IsFiniteSet(WaitingCells(p)) /\ IsFiniteSet(FinishedCells(p))
  BY <1>1, <1>2, FS_Subset
<1> QED BY <1>3, FS_CardinalityType

\* A set of cells that counts has a member.
LEMMA CountedCell ==
  ASSUME NEW p
  PROVE  /\ Cardinality(WaitingCells(p)) > 0 <=> WaitingCells(p) # {}
         /\ Cardinality(FinishedCells(p)) > 0 <=> FinishedCells(p) # {}
BY CellSets, FS_EmptySet

\* A step that leaves the queue alone, and the processors where they are in it.
LEMMA CellsStill ==
  ASSUME TypeOK, SemInv, UNCHANGED <<item_status, head, tail, runs>>,
         \A p \in Procs : pos'[p] \in Lane(p) /\ Ahead(p)' = Ahead(p)
  PROVE  /\ \A p : WaitingCells(p)' = WaitingCells(p) /\ FinishedCells(p)' = FinishedCells(p)
         /\ \A c : InUse(c)' <=> InUse(c)
         /\ InOrder'
         /\ Dist(head, tail)' = Dist(head, tail)
<1>1. \A p : WaitingCells(p)' = WaitingCells(p) /\ FinishedCells(p)' = FinishedCells(p)
  BY DEF WaitingCells, FinishedCells, Lane, Owner
<1>2. (\A c : InUse(c)' <=> InUse(c)) /\ Dist(head, tail)' = Dist(head, tail)
  BY Later DEF InUse
<1>3. InOrder'
  BY <1>1, Later DEF SemInv, InOrder
<1> QED BY <1>1, <1>2, <1>3

\* What the invariant says of the variables' ranges.
LEMMA Known ==
  ASSUME TypeOK, SemInv
  PROVE  /\ head \in Cells /\ tail \in Cells /\ runs \in Nat /\ QueueSize \in Nat
         /\ sem_null_cell \in Nat /\ Dist(head, tail) \in Nat /\ Dist(head, tail) < QueueSize
         /\ Dist(head, tail) = 0 <=> head = tail
         /\ item_status \in [Cells -> ItemStatus]
         /\ sem_ready_cell \in [Procs -> Nat] /\ sem_waiting_cell \in [Procs -> Nat]
         /\ processor \in [Procs -> {"wait", "poll", "look", "process", "return", "post",
                                     "exit", "done"}]
         /\ pos \in [Procs -> Cells]
         /\ Phases /\ Turns /\ Room /\ InOrder /\ AtWork /\ Posted /\ Counted
<1>1. Phases /\ Turns /\ Room /\ InOrder /\ AtWork /\ Posted /\ Counted
  BY DEF SemInv
<1>2. head \in Cells /\ tail \in Cells
  BY DEF TypeOK
<1> QED BY <1>1, <1>2, DistValue, Sizes DEF TypeOK

-----------------------------------------------------------------------------
(* The thread in run(). *)

\* The initial state satisfies the invariant.
LEMMA InitSem == Init => SemInv
<1> SUFFICES ASSUME Init PROVE SemInv
  OBVIOUS
<1>0. /\ head = 0 /\ tail = 0 /\ 0 \in Cells /\ item_status = [c \in Cells |-> "Null"]
      /\ Dist(0, 0) = 0 /\ runs = 0
  BY Sizes, DistValue DEF Init
<1>1. \A p : WaitingCells(p) = {} /\ FinishedCells(p) = {}
  BY <1>0 DEF WaitingCells, FinishedCells, Lane, Finished
<1>2. Phases /\ Turns
  BY <1>0 DEF Init, Phases, Turns, Generating
<1>3. \A c \in Cells : ~InUse(c) /\ item_status[c] = "Null"
  BY <1>0, DistValue DEF InUse
<1>4. Room
  BY <1>3 DEF Init, Room, Generating
<1>5. InOrder /\ AtWork
  BY <1>0, <1>1, LaneFirst DEF Init, InOrder, AtWork
<1>6. Posted /\ Counted
  BY <1>1, CellSets DEF Init, Posted, Counted, Holding
<1> QED BY <1>2, <1>4, <1>5, <1>6 DEF SemInv

\* The steps of the thread in run() that leave the queue alone keep the invariant.
LEMMA CallerSem ==
  ASSUME MaxRuns = 1, QueueSize > 1, TypeOK, SemInv,
         \/ WaitNull \/ TestFull \/ GenerateItem \/ GenerateStop \/ PostWaiting \/ Wake
         \/ TestDrain \/ Join
  PROVE  SemInv'
<1> USE DEF procVars, consVars, history, queue, sems
<1>0. UNCHANGED <<item_status, head, tail, runs, pos, processor, draining, cdraining, mode,
                  sem_ready_cell>>
  BY DEF WaitNull, TestFull, GenerateItem, GenerateStop, PostWaiting, Wake, TestDrain, Join
<1>1. \A p \in Procs : pos'[p] \in Lane(p) /\ Ahead(p)' = Ahead(p)
  BY <1>0, Known DEF Ahead, InOrder
<1>2. /\ \A p : WaitingCells(p)' = WaitingCells(p) /\ FinishedCells(p)' = FinishedCells(p)
      /\ \A c : InUse(c)' <=> InUse(c)
      /\ InOrder'
      /\ Dist(head, tail)' = Dist(head, tail)
  BY <1>0, <1>1, CellsStill
<1>3. CASE WaitNull
  <2>1. Phases' /\ Turns' /\ AtWork'
    BY <1>0, <1>2, <1>3, Known DEF WaitNull, Phases, Turns, AtWork, Generating
  <2>2. Room'
    BY <1>0, <1>2, <1>3, Known DEF WaitNull, Room, Turns, Generating
  <2>3. Posted' /\ Counted'
    BY <1>0, <1>2, <1>3, Known DEF WaitNull, Posted, Counted, Filled, Holding
  <2> QED BY <1>2, <2>1, <2>2, <2>3 DEF SemInv
<1>4. CASE TestFull
  <2>0. /\ consumer = "done" /\ mode = 1 /\ status = "Running" /\ caller = "loop"
        /\ \/ caller' = "generate" /\ consumer' = "done" /\ Inc(tail) # head
           \/ caller' = "consume" /\ consumer' = "wait" /\ Inc(tail) = head
    BY <1>4, IncCell, Known DEF TestFull, Turns, Phases, Generating
  <2>1. Phases' /\ Turns' /\ AtWork'
    BY <1>0, <1>2, <1>4, <2>0, Known DEF TestFull, Phases, Turns, AtWork, Generating
  <2>2. Inc(tail) # tail
    BY Known DEF Inc, Cells
  <2>3. Inc(tail) # head => Dist(head, tail) < QueueSize - 1
    BY Known, DistFull
  <2>4. Room'
    BY <1>0, <1>2, <1>4, <2>0, <2>2, <2>3, Known DEF TestFull, Room, Generating
  <2>5. Posted' /\ Counted'
    BY <1>0, <1>2, <1>4, <2>0, Known DEF TestFull, Posted, Counted, Filled, Holding
  <2> QED BY <1>2, <2>1, <2>4, <2>5 DEF SemInv
<1>5. CASE GenerateItem
  <2>1. Phases' /\ Turns' /\ AtWork'
    BY <1>0, <1>2, <1>5, Known DEF GenerateItem, Phases, Turns, AtWork, Generating
  <2>2. Room'
    BY <1>0, <1>2, <1>5, Known DEF GenerateItem, Room, Generating
  <2>3. Posted' /\ Counted'
    BY <1>0, <1>2, <1>5, Known DEF GenerateItem, Posted, Counted, Filled, Holding
  <2> QED BY <1>2, <2>1, <2>2, <2>3 DEF SemInv
<1>6. CASE GenerateStop
  <2>1. Phases' /\ Turns' /\ AtWork'
    BY <1>0, <1>2, <1>6, Known DEF GenerateStop, Phases, Turns, AtWork, Generating
  <2>2. Room'
    BY <1>0, <1>2, <1>6, Known DEF GenerateStop, Room, Generating
  <2>3. Posted' /\ Counted'
    BY <1>0, <1>2, <1>6, Known DEF GenerateStop, Posted, Counted, Holding
  <2> QED BY <1>2, <2>1, <2>2, <2>3 DEF SemInv
<1>7. CASE PostWaiting
  <2>1. Phases' /\ Turns' /\ AtWork'
    BY <1>0, <1>2, <1>7, Known DEF PostWaiting, Phases, Turns, AtWork, Generating
  <2>2. Room'
    BY <1>0, <1>2, <1>7, Known DEF PostWaiting, Room, Turns, Generating
  <2>3. Counted'
    BY <1>0, <1>2, <1>7, Known DEF PostWaiting, Counted, Holding
  <2>4. Filled \in Cells
    BY Known, Sizes DEF Filled, Cells
  <2>5. caller = "post" /\ caller' # "post"
        /\ sem_waiting_cell' = [sem_waiting_cell EXCEPT ![Owner(Filled)] = @ + 1]
    BY <1>7 DEF PostWaiting, Filled
  <2>6. \A p \in Procs : sem_waiting_cell'[p]
           = sem_waiting_cell[p] + (IF Filled \in Lane(p) THEN 1 ELSE 0)
    BY <2>4, <2>5, LaneOf, Known
  <2>7. Posted'
    BY <1>0, <1>2, <1>7, <2>5, <2>6, CellSets, Known DEF PostWaiting, Posted
  <2> QED BY <1>2, <2>1, <2>2, <2>3, <2>7 DEF SemInv
<1>8. CASE Wake
  <2>0. caller = "wake" /\ caller' \in {"wake", "drain", "join"} /\ status # "Running"
        /\ (caller' = "drain" => mode = 1) /\ UNCHANGED <<status, consumer>>
    BY <1>8, Known DEF Wake, Phases
  <2>1. Phases' /\ Turns' /\ AtWork'
    BY <1>0, <1>2, <2>0, Known DEF Phases, Turns, AtWork, Generating
  <2>2. Room'
    BY <1>0, <1>2, <2>0, Known DEF Room, Generating
  <2>3. Posted' /\ Counted'
    BY <1>0, <1>2, <2>0, Known DEF Posted, Counted, Holding
  <2> QED BY <1>2, <2>1, <2>2, <2>3 DEF SemInv
<1>9. CASE TestDrain
  <2>0. /\ caller = "drain" /\ mode = 1 /\ consumer = "done" /\ status # "Running"
        /\ \/ caller' = "consume" /\ consumer' = "wait" /\ head # tail
           \/ caller' = "join" /\ consumer' = "done"
        /\ status' = status
    BY <1>9, Known DEF TestDrain, Turns, Phases
  <2>1. Phases' /\ Turns' /\ AtWork'
    BY <1>0, <1>2, <2>0, Known DEF Phases, Turns, AtWork, Generating
  <2>2. Room'
    BY <1>0, <1>2, <2>0, Known DEF Room, Generating
  <2>3. Posted' /\ Counted'
    BY <1>0, <1>2, <2>0, Known DEF Posted, Counted, Holding
  <2> QED BY <1>2, <2>1, <2>2, <2>3 DEF SemInv
<1>10. CASE Join
  <2>1. Phases' /\ Turns' /\ AtWork'
    BY <1>0, <1>2, <1>10, Known DEF Join, Phases, Turns, AtWork, Generating
  <2>2. Room'
    BY <1>0, <1>2, <1>10, Known DEF Join, Room, Generating
  <2>3. Posted' /\ Counted'
    BY <1>0, <1>2, <1>10, Known DEF Join, Posted, Counted, Phases, Holding
  <2> QED BY <1>2, <2>1, <2>2, <2>3 DEF SemInv
<1> QED BY <1>3, <1>4, <1>5, <1>6, <1>7, <1>8, <1>9, <1>10

\* create() and run() set up a queue without items.
LEMMA StartSem ==
  ASSUME MaxRuns = 1, FreshStatus = {"Null"}, TypeOK, SemInv,
         Create \/ \E m \in Modes : Run(m)
  PROVE  SemInv'
<1> USE DEF procVars, consVars, history, queue, sems
<1>0. /\ runs = 0 /\ head = 0 /\ tail = 0 /\ consumer = "done" /\ head' = 0 /\ tail' = 0
      /\ \A p \in Procs : processor[p] = "done" /\ sem_ready_cell[p] = 0
      /\ \A c \in Cells : item_status'[c] = "Null"
      /\ caller = "idle"
  BY Known DEF Create, Run, Phases
<1>1. Dist(0, 0) = 0 /\ \A c \in Cells : ~(Dist(0, c) < 0)
  BY Sizes, DistValue
<1>2. \A p : WaitingCells(p)' = {} /\ FinishedCells(p)' = {}
  BY <1>0, Later DEF Lane, Finished
<1>3. \A c \in Cells : ~InUse(c)'
  BY <1>0, <1>1, Later
<1>4. Cardinality({}) = 0
  BY FS_EmptySet
<1>5. CASE Create
  <2>1. Phases' /\ Turns' /\ AtWork'
    BY <1>0, <1>2, <1>5, Known DEF Create, Phases, Turns, AtWork, Generating
  <2>2. Room'
    BY <1>0, <1>3, <1>5, Known DEF Create, Room, Generating, Turns
  <2>3. InOrder'
    BY <1>0, <1>2, <1>5, Later, Known DEF Create, InOrder
  <2>4. Posted' /\ Counted'
    BY <1>0, <1>2, <1>4, <1>5, Known DEF Create, Posted, Counted, Holding
  <2> QED BY <2>1, <2>2, <2>3, <2>4 DEF SemInv
<1>6. ASSUME NEW m \in Modes, Run(m) PROVE SemInv'
  <2>0. /\ runs' = 1 /\ status' = "Running" /\ mode' = m /\ ~cdraining'
        /\ \A p \in Procs : /\ pos'[p] = p /\ ~draining'[p] /\ processor'[p] \in {"poll", "wait"}
                            /\ processor'[p] = "poll" <=> m = 2
                            /\ sem_ready_cell'[p] = 0 /\ sem_waiting_cell'[p] = 0
        /\ consumer' = IF m = 1 THEN "done" ELSE "wait"
        /\ caller' = IF m = 1 THEN "loop" ELSE "null"
        /\ sem_null_cell' = QueueSize - 1
    BY <1>0, <1>6 DEF Run, InitialNull
  <2>1. Phases' /\ Turns'
    BY <1>0, <2>0 DEF Phases, Turns, Generating
  <2>2. AtWork'
    BY <1>2, <2>0 DEF AtWork
  <2>3. Room'
    BY <1>0, <1>1, <1>3, <2>0, Later, Sizes DEF Room, Generating
  <2>4. InOrder'
    <3> SUFFICES ASSUME NEW p \in Procs
                 PROVE  /\ pos'[p] \in Lane(p)
                        /\ \A c \in Lane(p) : Dist(tail', Ahead(p)') <= Dist(tail', c)
      BY <1>2, Later
    <3>1. Ahead(p)' = p /\ p \in Lane(p) /\ tail' = 0 /\ pos'[p] = p
      BY <1>0, <2>0, LaneFirst DEF Ahead
    <3>2. \A c \in Lane(p) : p <= c /\ c \in Nat
      BY LaneFirst DEF Lane, Cells
    <3>3. p \in Nat
      BY DEF Procs
    <3>4. \A c \in Lane(p) : Dist(0, c) = c
      BY <3>2 DEF Dist
    <3> QED BY <3>1, <3>2, <3>4
  <2>5. caller' # "post" /\ consumer' \in {"done", "wait"}
        /\ \A p \in Procs : processor'[p] # "process" /\ (processor'[p] = "poll" => mode' = 2)
    BY <2>0
  <2>6. Posted'
    BY <1>2, <1>4, <2>0, <2>5 DEF Posted
  <2>7. Counted'
    BY <1>2, <1>4, <2>0, <2>5 DEF Counted, Holding
  <2> QED BY <2>1, <2>2, <2>3, <2>4, <2>6, <2>7 DEF SemInv
<1> QED BY <1>5, <1>6

\* Putting an item in keeps the invariant: the cell at tail is the next one of its
\* processor.
LEMMA MarkSem ==
  ASSUME TypeOK, SemInv, MarkWaiting
  PROVE  SemInv'
<1> USE DEF procVars, consVars, history, queue, sems
<1>0. /\ head' = head /\ tail' = Inc(tail) /\ item_status' = [item_status EXCEPT ![tail] = "Waiting"]
      /\ UNCHANGED <<runs, pos, processor, draining, cdraining, consumer, mode, status,
                     sem_ready_cell, sem_waiting_cell, sem_null_cell>>
      /\ caller = "mark" /\ caller' = IF mode = 2 THEN "null" ELSE "post"
  BY DEF MarkWaiting
<1>1. /\ status = "Running" /\ runs # 0 /\ Dist(head, tail) < QueueSize - 1
      /\ (mode = 1 => consumer = "done")
  BY <1>0, Known DEF Phases, Turns, Room, Generating
<1>2. Inc(tail) \in Cells /\ Dist(head, Inc(tail)) = Dist(head, tail) + 1
  BY <1>1, Known, IncCell, DistFurther
<1>3. \A c \in Cells : InUse(c)' <=> InUse(c) \/ c = tail
  <2> SUFFICES ASSUME NEW c \in Cells PROVE InUse(c)' <=> InUse(c) \/ c = tail
    OBVIOUS
  <2>1. Dist(head, c) \in Nat /\ (Dist(head, c) = Dist(head, tail) <=> c = tail)
    BY Known, DistValue
  <2> QED BY <1>0, <1>2, <2>1, Known, Later DEF InUse
<1>4. item_status[tail] = "Null"
  BY Known DEF Room, InUse
<1>5. \A p \in Procs : /\ FinishedCells(p)' = FinishedCells(p)
                       /\ tail \in Lane(p) =>
                            /\ WaitingCells(p)' = WaitingCells(p) \cup {tail}
                            /\ tail \notin WaitingCells(p)
                       /\ tail \notin Lane(p) => WaitingCells(p)' = WaitingCells(p)
  BY <1>0, <1>4, Later, Known DEF WaitingCells, FinishedCells, Finished, Lane
<1>6. \A p \in Procs : Cardinality(WaitingCells(p)')
         = Cardinality(WaitingCells(p)) + (IF tail \in Lane(p) THEN 1 ELSE 0)
  BY <1>5, CellSets, FS_AddElement
<1>7. \A p \in Procs : Ahead(p)' = Ahead(p) /\ Ahead(p) \in Lane(p)
  BY <1>0, Known, LaneStep DEF Ahead, InOrder
<1>8. Phases' /\ Turns'
  BY <1>0, <1>1, Known DEF Phases, Turns, Generating
<1>9. Room'
  BY <1>0, <1>1, <1>2, <1>3, Later, Known DEF Room, Generating, Turns
<1>10. AtWork'
  BY <1>0, <1>1, <1>5, Known DEF AtWork
<1>11. InOrder'
  <2> SUFFICES ASSUME NEW p \in Procs
               PROVE  /\ pos'[p] \in Lane(p)
                      /\ \A c \in WaitingCells(p)' :
                           /\ item_status'[Ahead(p)'] = "Waiting"
                           /\ Dist(head', Ahead(p)') <= Dist(head', c)
                           /\ \A d \in FinishedCells(p)' : Dist(head', d) < Dist(head', c)
                      /\ WaitingCells(p)' = {} =>
                           \A c \in Lane(p) : Dist(tail', Ahead(p)') <= Dist(tail', c)
    BY Later
  <2>0. pos'[p] \in Lane(p) /\ Ahead(p) \in Cells /\ \A c \in Lane(p) : c \in Cells
    BY <1>0, <1>7, Known DEF InOrder, Lane
  <2>1. CASE tail \in Lane(p)
    <3>1. \A d \in FinishedCells(p) : Dist(head, d) < Dist(head, tail)
      BY Known DEF FinishedCells, Finished, Room, Lane, InUse
    <3>2. CASE WaitingCells(p) = {}
      <4>1. Dist(tail, Ahead(p)) <= 0 /\ Dist(tail, Ahead(p)) \in Nat
        BY <1>1, <2>0, <2>1, <3>2, Known, DistValue DEF InOrder
      <4>2. Ahead(p) = tail
        BY <4>1, <2>0, Known, DistValue
      <4>3. WaitingCells(p)' = {tail} /\ Dist(head, tail) <= Dist(head, tail)
        BY <1>5, <2>1, <3>2, Known
      <4> QED BY <1>0, <1>5, <1>7, <2>0, <3>1, <4>2, <4>3, Known
    <3>3. CASE WaitingCells(p) # {}
      <4>1. item_status[Ahead(p)] = "Waiting"
        BY <3>3, Known DEF InOrder
      <4>2. Dist(head, Ahead(p)) < Dist(head, tail)
        BY <4>1, <2>0, Known DEF Room, InUse
      <4>3. Dist(head, Ahead(p)) <= Dist(head, tail)
        BY <4>2, <2>0, Known, DistValue
      <4>4. item_status'[Ahead(p)] = "Waiting" /\ WaitingCells(p)' = WaitingCells(p) \cup {tail}
        BY <1>0, <1>5, <2>0, <2>1, <4>1, Known
      <4>5. \A c \in WaitingCells(p) : /\ Dist(head, Ahead(p)) <= Dist(head, c)
                                       /\ \A d \in FinishedCells(p) : Dist(head, d) < Dist(head, c)
        BY Known DEF InOrder
      <4> QED BY <1>0, <1>5, <1>7, <2>0, <3>1, <4>3, <4>4, <4>5
    <3> QED BY <3>2, <3>3
  <2>2. CASE tail \notin Lane(p)
    <3>1. WaitingCells(p)' = WaitingCells(p) /\ Ahead(p) # tail
      BY <1>5, <1>7, <2>2
    <3>2. \A c \in WaitingCells(p) : item_status'[Ahead(p)] = "Waiting"
      BY <1>0, <3>1, <2>0, Known DEF InOrder
    <3>3. \A c \in Lane(p) : Dist(Inc(tail), c) = Dist(tail, c) - 1 /\ Dist(tail, c) \in Nat
      BY <2>0, <2>2, Known, DistAhead, DistValue
    <3>4. WaitingCells(p) = {} => \A c \in Lane(p) : Dist(tail, Ahead(p)) <= Dist(tail, c)
      BY <1>1, Known DEF InOrder
    <3>5. WaitingCells(p) = {} => \A c \in Lane(p) : Dist(tail', Ahead(p)) <= Dist(tail', c)
      BY <1>0, <1>7, <3>3, <3>4
    <3>6. \A c \in WaitingCells(p) : /\ Dist(head, Ahead(p)) <= Dist(head, c)
                                     /\ \A d \in FinishedCells(p) : Dist(head, d) < Dist(head, c)
      BY Known DEF InOrder
    <3> QED BY <1>0, <1>5, <1>7, <2>0, <3>1, <3>2, <3>5, <3>6
  <2> QED BY <2>1, <2>2
<1>12. Filled' = tail
  <2>1. Filled' = IF tail' = 0 THEN QueueSize - 1 ELSE tail' - 1
    BY DEF Filled
  <2>2. tail \in Nat /\ QueueSize \in Nat
    BY Known DEF Cells
  <2> QED BY <1>0, <2>1, <2>2 DEF Inc
<1>13. Posted'
  BY <1>0, <1>6, <1>12, Known, CellSets DEF Posted
<1>14. Counted'
  <2>1. head # tail => item_status'[head] = item_status[head]
    BY <1>0, Known
  <2>2. item_status[head] \in Finished => head # tail
    BY <1>4 DEF Finished
  <2> QED BY <1>0, <1>5, <2>1, <2>2, Known DEF Counted, Holding
<1> QED BY <1>8, <1>9, <1>10, <1>11, <1>13, <1>14 DEF SemInv

-----------------------------------------------------------------------------
(* The processors. *)

\* A processor that looks at a cell that does not wait has none.
LEMMA NothingWaits ==
  ASSUME TypeOK, SemInv, NEW p \in Procs, processor[p] # "return",
         item_status[pos[p]] # "Waiting"
  PROVE  WaitingCells(p) = {}
BY Known DEF InOrder, Ahead

\* The steps of a processor thread that leave its cells alone keep the invariant.
LEMMA ProcessorSem ==
  ASSUME TypeOK, SemInv, NEW p \in Procs,
         \/ WaitWaiting(p) \/ PollStatus(p) \/ Look(p) \/ StoreReturn(p) \/ PostReady(p)
         \/ ExitPost(p)
  PROVE  SemInv'
<1> USE DEF Goto, callerVars, consVars, history, queue, sems
<1>0. UNCHANGED <<item_status, head, tail, runs, cdraining, mode, status, consumer, caller,
                  sem_null_cell>>
  BY DEF WaitWaiting, PollStatus, Look, StoreReturn, PostReady, ExitPost
<1>1. \A q \in Procs : pos'[q] \in Lane(q) /\ Ahead(q)' = Ahead(q)
  <2>1. CASE StoreReturn(p)
    <3>1. pos[p] \in Lane(p) /\ (pos[p] + NumProcessor) % QueueSize \in Lane(p)
      BY Known, LaneStep DEF InOrder
    <3>2. /\ pos'[p] = (pos[p] + NumProcessor) % QueueSize
          /\ processor[p] = "return" /\ processor'[p] = "post"
          /\ \A q \in Procs : q # p => pos'[q] = pos[q] /\ processor'[q] = processor[q]
      BY <2>1, Known DEF StoreReturn
    <3> QED BY <3>1, <3>2, Known DEF Ahead, InOrder
  <2>2. CASE ~StoreReturn(p)
    <3>1. pos' = pos /\ \A q \in Procs : processor'[q] = "return" <=> processor[q] = "return"
      BY <2>2, Known DEF WaitWaiting, PollStatus, Look, PostReady, ExitPost
    <3> QED BY <3>1, Known DEF Ahead, InOrder
  <2> QED BY <2>1, <2>2
<1>2. /\ \A q : WaitingCells(q)' = WaitingCells(q) /\ FinishedCells(q)' = FinishedCells(q)
      /\ \A c : InUse(c)' <=> InUse(c)
      /\ InOrder'
      /\ Dist(head, tail)' = Dist(head, tail)
  BY <1>0, <1>1, CellsStill
<1>3. \A q \in Procs : q # p =>
        /\ processor'[q] = processor[q] /\ pos'[q] = pos[q] /\ (draining'[q] <=> draining[q])
        /\ sem_ready_cell'[q] = sem_ready_cell[q] /\ sem_waiting_cell'[q] = sem_waiting_cell[q]
  <2>1. \A q \in Procs : q # p =>
          /\ processor'[q] = processor[q] /\ pos'[q] = pos[q]
          /\ sem_ready_cell'[q] = sem_ready_cell[q] /\ sem_waiting_cell'[q] = sem_waiting_cell[q]
    BY Known DEF WaitWaiting, PollStatus, Look, StoreReturn, PostReady, ExitPost
  <2>2. draining \in [Procs -> BOOLEAN]
    BY DEF TypeOK
  <2>3. ASSUME NEW q \in Procs, q # p PROVE draining'[q] <=> draining[q]
    <3>1. CASE PollStatus(p)
      BY <2>2, <2>3, <3>1 DEF PollStatus
    <3>2. CASE ~PollStatus(p)
      <4>1. draining' = draining
        BY <3>2 DEF WaitWaiting, Look, StoreReturn, PostReady, ExitPost
      <4> QED BY <4>1
    <3> QED BY <3>1, <3>2
  <2> QED BY <2>1, <2>3
<1>4. Turns' /\ Room'
  BY <1>0, <1>2, Known DEF Turns, Room, Generating
<1>5. runs = 0 => processor[p] = "done"
  BY Known DEF Phases
<1>6. Phases'
  <2>1. processor[p] # "done"
    BY DEF WaitWaiting, PollStatus, Look, StoreReturn, PostReady, ExitPost
  <2> QED BY <1>0, <1>5, <2>1, Known DEF Phases, Generating
<1>7. ASSUME /\ processor'[p] = "process" => item_status[pos'[p]] = "Waiting"
             /\ draining'[p] \/ processor'[p] \in {"exit", "done"} => status # "Running"
             /\ processor'[p] = "look" => draining'[p] \/ mode = 2
             /\ processor'[p] \in {"exit", "done"} => WaitingCells(p) = {}
      PROVE  AtWork'
  BY <1>0, <1>2, <1>3, <1>7, Known DEF AtWork
<1>8. ASSUME status = "Running" /\ mode # 2 =>
               sem_waiting_cell'[p] + (IF processor'[p] \in {"poll", "process"} THEN 1 ELSE 0)
             = sem_waiting_cell[p] + (IF processor[p] \in {"poll", "process"} THEN 1 ELSE 0)
      PROVE  Posted'
  <2> SUFFICES ASSUME status = "Running", mode # 2, NEW q \in Procs
               PROVE  sem_waiting_cell'[q] + (IF processor'[q] \in {"poll", "process"} THEN 1 ELSE 0)
                        + (IF caller = "post" /\ Filled \in Lane(q) THEN 1 ELSE 0)
                      = Cardinality(WaitingCells(q))
    BY <1>0, <1>2 DEF Posted, Filled
  <2>1. CASE q # p
    BY <1>3, <2>1, Known DEF Posted
  <2>2. CASE q = p
    BY <1>8, <2>2, Known DEF Posted
  <2> QED BY <2>1, <2>2
<1>9. ASSUME sem_ready_cell'[p] + (IF processor'[p] \in {"return", "post"} THEN 1 ELSE 0)
               + (IF processor[p] = "done" THEN 1 ELSE 0)
             <= sem_ready_cell[p] + (IF processor[p] \in {"return", "post"} THEN 1 ELSE 0)
               + (IF processor'[p] = "done" THEN 1 ELSE 0),
             sem_ready_cell'[p] \in Nat
      PROVE  Counted'
  <2>0. (consumer \in {"consume", "clear"} => item_status[head] \in Finished)
        /\ (consumer = "check" /\ status = "Running" => item_status[head] \in Finished)
    BY Known DEF Counted
  <2> SUFFICES ASSUME NEW q \in Procs
               PROVE  sem_ready_cell'[q] + (IF processor'[q] \in {"return", "post"} THEN 1 ELSE 0)
                        + (IF Holding /\ head \in Lane(q) THEN 1 ELSE 0)
                      <= Cardinality(FinishedCells(q)) + (IF processor'[q] = "done" THEN 1 ELSE 0)
    BY <1>0, <1>2, <2>0 DEF Counted, Holding
  <2>1. CASE q # p
    BY <1>3, <2>1, Known DEF Counted
  <2>2. CASE q = p
    <3>1. Cardinality(FinishedCells(p)) \in Nat
      BY CellSets
    <3>2. sem_ready_cell[p] + (IF processor[p] \in {"return", "post"} THEN 1 ELSE 0)
            + (IF Holding /\ head \in Lane(p) THEN 1 ELSE 0)
          <= Cardinality(FinishedCells(p)) + (IF processor[p] = "done" THEN 1 ELSE 0)
      BY Known DEF Counted
    <3> QED BY <1>9, <2>2, <3>1, <3>2, Known
  <2> QED BY <2>1, <2>2
<1>10. CASE WaitWaiting(p)
  <2>1. /\ sem_waiting_cell'[p] = sem_waiting_cell[p] - 1 /\ sem_ready_cell' = sem_ready_cell
        /\ processor[p] = "wait" /\ processor'[p] = "poll" /\ pos' = pos /\ draining' = draining
    BY <1>10, Known DEF WaitWaiting
  <2>2. AtWork'
    BY <1>7, <2>1, Known DEF AtWork
  <2>3. Posted' /\ Counted'
    BY <1>8, <1>9, <2>1, Known
  <2> QED BY <1>2, <1>4, <1>6, <2>2, <2>3 DEF SemInv
<1>11. CASE PollStatus(p)
  <2>1. /\ UNCHANGED <<sem_waiting_cell, sem_ready_cell, pos>> /\ processor[p] = "poll"
        /\ processor'[p] = IF status # "Running" \/ mode = 2 THEN "look" ELSE "process"
    BY <1>11, Known DEF PollStatus
  <2>2. draining'[p] <=> status # "Running"
    BY <1>11 DEF PollStatus, TypeOK
  <2>3. status = "Running" /\ mode # 2 => item_status[pos[p]] = "Waiting"
    <3> SUFFICES ASSUME status = "Running", mode # 2 PROVE item_status[pos[p]] = "Waiting"
      OBVIOUS
    <3>1. Cardinality(WaitingCells(p)) > 0
      BY <2>1, Known DEF Posted
    <3>2. WaitingCells(p) # {}
      BY <3>1, CountedCell
    <3> QED BY <2>1, <3>2, NothingWaits
  <2>4. AtWork'
    BY <1>7, <2>1, <2>2, <2>3
  <2>5. Posted' /\ Counted'
    BY <1>8, <1>9, <2>1, Known
  <2> QED BY <1>2, <1>4, <1>6, <2>4, <2>5 DEF SemInv
<1>12. CASE Look(p)
  <2>1. /\ UNCHANGED <<sem_waiting_cell, sem_ready_cell, pos, draining>> /\ processor[p] = "look"
        /\ \/ processor'[p] = "process" /\ item_status[pos[p]] = "Waiting"
           \/ processor'[p] = "exit" /\ draining[p] /\ item_status[pos[p]] # "Waiting"
           \/ processor'[p] = "poll" /\ ~draining[p]
    BY <1>12, Known DEF Look
  <2>2. AtWork'
    BY <1>7, <2>1, NothingWaits, Known DEF AtWork
  <2>3. Counted'
    BY <1>9, <2>1, Known
  <2>4. Posted'
    <3> SUFFICES ASSUME status = "Running", mode # 2 PROVE FALSE
      BY <1>8
    <3> QED BY <2>1, Known DEF AtWork
  <2> QED BY <1>2, <1>4, <1>6, <2>2, <2>3, <2>4 DEF SemInv
<1>13. CASE StoreReturn(p)
  <2>1. /\ UNCHANGED <<sem_waiting_cell, sem_ready_cell, draining>> /\ processor[p] = "return"
        /\ processor'[p] = "post"
    BY <1>13, Known DEF StoreReturn
  <2>2. AtWork'
    BY <1>7, <2>1, Known DEF AtWork
  <2>3. Posted' /\ Counted'
    BY <1>8, <1>9, <2>1, Known
  <2> QED BY <1>2, <1>4, <1>6, <2>2, <2>3 DEF SemInv
<1>14. CASE PostReady(p)
  <2>1. /\ UNCHANGED <<sem_waiting_cell, pos, draining>> /\ processor[p] = "post"
        /\ processor'[p] \in {"look", "wait"}
        /\ processor'[p] = "look" => draining[p] \/ mode = 2
        /\ sem_ready_cell'[p] = sem_ready_cell[p] + 1
    BY <1>14, Known DEF PostReady
  <2>2. AtWork'
    BY <1>7, <2>1, Known DEF AtWork
  <2>3. Posted' /\ Counted'
    BY <1>8, <1>9, <2>1, Known
  <2> QED BY <1>2, <1>4, <1>6, <2>2, <2>3 DEF SemInv
<1>15. CASE ExitPost(p)
  <2>1. /\ UNCHANGED <<sem_waiting_cell, pos, draining>> /\ processor[p] = "exit"
        /\ processor'[p] = "done"
        /\ sem_ready_cell'[p] = sem_ready_cell[p] + 1
    BY <1>15, Known DEF ExitPost
  <2>2. AtWork'
    BY <1>7, <2>1, Known DEF AtWork
  <2>3. Posted' /\ Counted'
    BY <1>8, <1>9, <2>1, Known
  <2> QED BY <1>2, <1>4, <1>6, <2>2, <2>3 DEF SemInv
<1> QED BY <1>10, <1>11, <1>12, <1>13, <1>14, <1>15

\* Finishing a cell keeps the invariant: the next cell of the processor is the first of
\* those that wait, or the place of its next item.
LEMMA ProcessSem ==
  ASSUME TypeOK, SemInv, NEW p \in Procs, Process(p)
  PROVE  SemInv'
<1> USE DEF Goto, callerVars, consVars, history, queue, sems
<1> DEFINE a == pos[p]
           n == (a + NumProcessor) % QueueSize
<1>0. /\ UNCHANGED <<head, tail, runs, pos, draining, cdraining, mode, status, consumer, caller,
                     sem_ready_cell, sem_waiting_cell, sem_null_cell>>
      /\ processor[p] = "process" /\ processor' = [processor EXCEPT ![p] = "return"]
  BY DEF Process
<1>1. /\ a \in Lane(p) /\ a \in Cells /\ item_status[a] = "Waiting"
      /\ n \in Lane(p) /\ n \in Cells
      /\ \A c \in Lane(p) : c \in Cells
  BY <1>0, Known, LaneStep DEF InOrder, AtWork, Lane
<1>2. /\ item_status' = [item_status EXCEPT ![a] = item_status'[a]]
      /\ item_status'[a] \in Finished
  BY <1>1, Known DEF Process, Finished
<1>3. /\ WaitingCells(p)' = WaitingCells(p) \ {a} /\ a \in WaitingCells(p)
      /\ FinishedCells(p)' = FinishedCells(p) \cup {a} /\ a \notin FinishedCells(p)
  BY <1>1, <1>2, Later, Known DEF WaitingCells, FinishedCells, Finished
<1>4. \A q \in Procs : q # p => a \notin Lane(q)
  BY <1>1, LaneOf
<1>5. \A q \in Procs : q # p => WaitingCells(q)' = WaitingCells(q)
                                /\ FinishedCells(q)' = FinishedCells(q)
  BY <1>1, <1>2, <1>4, Later, Known DEF WaitingCells, FinishedCells, Lane
<1>6. \A q \in Procs : q # p => Ahead(q)' = Ahead(q) /\ Ahead(q) \in Lane(q)
  BY <1>0, Known, LaneStep DEF Ahead, InOrder
<1>7. Ahead(p)' = n /\ Ahead(p) = a
  BY <1>0, Known DEF Ahead
<1>8. Phases' /\ Turns'
  BY <1>0, <1>2, Known DEF Phases, Turns, Generating
<1>9. Room'
  <2>1. \A c \in Cells : item_status'[c] # "Null" <=> item_status[c] # "Null"
    BY <1>1, <1>2, Known DEF Finished
  <2>2. \A c \in Cells : InUse(c)' <=> InUse(c)
    BY <1>0, Later DEF InUse
  <2> QED BY <1>0, <2>1, <2>2, Later, Known DEF Room, Generating
<1>10. AtWork'
  <2>1. \A q \in Procs : q # p => pos[q] # a
    BY <1>4, Known DEF InOrder
  <2> QED BY <1>0, <1>2, <1>3, <1>5, <2>1, Known DEF AtWork
<1>11. Posted'
  <2>1. Cardinality(WaitingCells(p)') = Cardinality(WaitingCells(p)) - 1
    BY <1>3, CellSets, FS_RemoveElement
  <2> SUFFICES ASSUME status = "Running", mode # 2, NEW q \in Procs
               PROVE  sem_waiting_cell[q] + (IF processor'[q] \in {"poll", "process"} THEN 1 ELSE 0)
                        + (IF caller = "post" /\ Filled \in Lane(q) THEN 1 ELSE 0)
                      = Cardinality(WaitingCells(q)')
    BY <1>0 DEF Posted, Filled
  <2>2. CASE q # p
    BY <1>0, <1>5, <2>2, Known DEF Posted
  <2>3. CASE q = p
    BY <1>0, <2>1, <2>3, CellSets, Known DEF Posted
  <2> QED BY <2>2, <2>3
<1>12. Counted'
  <2>1. Cardinality(FinishedCells(p)') = Cardinality(FinishedCells(p)) + 1
    BY <1>3, CellSets, FS_AddElement
  <2>2. \A c \in Cells : item_status[c] \in Finished => item_status'[c] \in Finished
    BY <1>1, <1>2, Known
  <2>3. ASSUME NEW q \in Procs
        PROVE  sem_ready_cell[q] + (IF processor'[q] \in {"return", "post"} THEN 1 ELSE 0)
                 + (IF Holding /\ head \in Lane(q) THEN 1 ELSE 0)
               <= Cardinality(FinishedCells(q)') + (IF processor'[q] = "done" THEN 1 ELSE 0)
    <3>1. CASE q # p
      BY <1>0, <1>5, <3>1, Known DEF Counted
    <3>2. CASE q = p
      <4>1. sem_ready_cell[p] + (IF Holding /\ head \in Lane(p) THEN 1 ELSE 0)
              <= Cardinality(FinishedCells(p))
        BY <1>0, CellSets, Known DEF Counted
      <4> QED BY <1>0, <2>1, <3>2, <4>1, CellSets, Known
    <3> QED BY <3>1, <3>2
  <2> QED BY <1>0, <2>2, <2>3, Known DEF Counted, Holding
<1>13. ASSUME NEW c \in WaitingCells(p), c # a
       PROVE  /\ item_status'[n] = "Waiting" /\ Dist(head, n) <= Dist(head, c)
              /\ \A d \in FinishedCells(p)' : Dist(head, d) < Dist(head, c)
  <2>1. c \in Lane(p) /\ c \in Cells /\ item_status[c] = "Waiting"
    BY <1>1, <1>13 DEF WaitingCells
  <2>2. /\ Dist(head, a) \in Nat /\ Dist(head, c) \in Nat /\ Dist(head, n) \in Nat
        /\ Dist(head, c) < QueueSize /\ Dist(head, a) # Dist(head, c)
    BY <1>1, <1>13, <2>1, Known, DistValue
  <2>3. Dist(head, a) <= Dist(head, c)
    BY <1>7, Known DEF InOrder
  <2>4. Dist(head, n) = Dist(head, a) + NumProcessor /\ Dist(head, n) <= Dist(head, c)
    BY <1>1, <2>1, <2>2, <2>3, LaneGap, Known, Sizes
  <2>5. Dist(head, c) < Dist(head, tail)
    BY <2>1, Known DEF Room, InUse
  <2>6. item_status[n] # "Null"
    BY <1>1, <2>2, <2>4, <2>5, Known DEF Room, InUse
  <2>7. n \notin FinishedCells(p)
    BY <1>3, <2>2, <2>4, Known, Sizes DEF InOrder
  <2>8. item_status[n] = "Waiting"
    BY <1>1, <2>6, <2>7, Known DEF FinishedCells, Finished, ItemStatus
  <2>9. n # a
    BY <2>2, <2>4, Sizes
  <2>10. \A d \in FinishedCells(p) : Dist(head, d) < Dist(head, c)
    BY Known DEF InOrder
  <2>11. Dist(head, a) < Dist(head, c)
    BY <2>2, <2>3
  <2> QED BY <1>1, <1>2, <1>3, <2>4, <2>8, <2>9, <2>10, <2>11, Known
<1>14. ASSUME WaitingCells(p) = {a}, NEW c \in Lane(p)
       PROVE  Dist(tail, n) <= Dist(tail, c)
  <2>1. /\ Dist(head, a) \in Nat /\ Dist(head, c) \in Nat /\ Dist(head, n) \in Nat
        /\ Dist(head, a) < QueueSize /\ Dist(head, c) < QueueSize /\ Dist(head, n) < QueueSize
        /\ Dist(head, a) = Dist(head, c) <=> a = c
    BY <1>1, Known, DistValue
  <2>2. Dist(head, a) < Dist(head, tail)
    BY <1>1, Known DEF Room, InUse
  <2>3. ASSUME NEW d \in Lane(p), d # a, Dist(head, d) < Dist(head, tail)
        PROVE  Dist(head, d) < Dist(head, a)
    <3>1. item_status[d] # "Null" /\ d \notin WaitingCells(p) /\ d \in Cells
      BY <1>1, <1>14, <2>3, Known DEF Room, InUse
    <3>2. d \in FinishedCells(p)
      BY <2>3, <3>1, Known DEF WaitingCells, FinishedCells, Finished, ItemStatus
    <3> QED BY <1>3, <3>2, Known DEF InOrder
  <2>4. /\ Dist(tail, n) = IF Dist(head, tail) <= Dist(head, n)
                           THEN Dist(head, n) - Dist(head, tail)
                           ELSE Dist(head, n) - Dist(head, tail) + QueueSize
        /\ Dist(tail, c) = IF Dist(head, tail) <= Dist(head, c)
                           THEN Dist(head, c) - Dist(head, tail)
                           ELSE Dist(head, c) - Dist(head, tail) + QueueSize
    BY <1>1, Known, DistFrom
  <2>5. CASE Dist(head, a) + NumProcessor < QueueSize
    <3>1. /\ Dist(head, n) = Dist(head, a) + NumProcessor
          /\ Dist(head, c) > Dist(head, a) => Dist(head, c) >= Dist(head, n)
      BY <1>1, <2>5, LaneGap, Known
    <3>2. Dist(head, tail) <= Dist(head, n)
      BY <1>1, <2>1, <2>3, <3>1, Known, Sizes
    <3>3. Dist(head, c) < Dist(head, tail) \/ Dist(head, c) >= Dist(head, n)
      BY <2>1, <2>2, <3>1, Known
    <3> QED BY <2>1, <2>4, <3>2, <3>3, Known
  <2>6. CASE Dist(head, a) + NumProcessor >= QueueSize
    <3>1. Dist(head, c) <= Dist(head, a) /\ Dist(head, c) >= Dist(head, n)
          /\ Dist(head, n) <= Dist(head, a)
      BY <1>1, <2>1, <2>6, LaneGap, Known, Sizes
    <3> QED BY <2>1, <2>2, <2>4, <3>1, Known
  <2> QED BY <2>1, <2>5, <2>6, Sizes
<1>15. InOrder'
  <2> SUFFICES ASSUME NEW q \in Procs
               PROVE  /\ pos'[q] \in Lane(q)
                      /\ \A c \in WaitingCells(q)' :
                           /\ item_status'[Ahead(q)'] = "Waiting"
                           /\ Dist(head', Ahead(q)') <= Dist(head', c)
                           /\ \A d \in FinishedCells(q)' : Dist(head', d) < Dist(head', c)
                      /\ WaitingCells(q)' = {} =>
                           runs' = 0 \/ \A c \in Lane(q) : Dist(tail', Ahead(q)') <= Dist(tail', c)
    BY Later
  <2>1. pos'[q] \in Lane(q)
    BY <1>0, Known DEF InOrder
  <2>2. CASE q = p
    BY <1>0, <1>3, <1>7, <1>13, <1>14, <2>1, <2>2
  <2>3. CASE q # p
    <3>1. Ahead(q) # a /\ Ahead(q) \in Cells
      BY <1>4, <1>6, <2>3 DEF Lane
    <3>2. item_status'[Ahead(q)] = item_status[Ahead(q)]
      BY <1>1, <1>2, <3>1, Known
    <3>3. /\ \A c \in WaitingCells(q) :
               /\ item_status[Ahead(q)] = "Waiting"
               /\ Dist(head, Ahead(q)) <= Dist(head, c)
               /\ \A d \in FinishedCells(q) : Dist(head, d) < Dist(head, c)
          /\ WaitingCells(q) = {} =>
               runs = 0 \/ \A c \in Lane(q) : Dist(tail, Ahead(q)) <= Dist(tail, c)
      BY Known DEF InOrder
    <3> QED BY <1>0, <1>5, <1>6, <2>1, <2>3, <3>2, <3>3
  <2> QED BY <2>2, <2>3
<1> QED BY <1>8, <1>9, <1>10, <1>11, <1>12, <1>15 DEF SemInv

-----------------------------------------------------------------------------
(* The consumer. *)

\* A post of its processor means that the cell at head is finished, unless the processor
\* has left; and then none of its cells waits.
LEMMA PostMeans ==
  ASSUME TypeOK, SemInv, sem_ready_cell[Owner(head)] > 0
  PROVE  /\ item_status[head] # "Waiting"
         /\ status = "Running" \/ head # tail => item_status[head] \in Finished
<1> DEFINE p == Owner(head)
<1>1. p \in Procs /\ head \in Lane(p) /\ Dist(head, head) = 0
  BY Known, LaneOf, DistValue
<1>2. head # tail => item_status[head] # "Null"
  BY <1>1, Known DEF Room, InUse
<1>3. CASE processor[p] = "done"
  <2>1. WaitingCells(p) = {} /\ (runs # 0 => status # "Running")
    BY <1>1, <1>3, Known DEF AtWork
  <2>2. item_status[head] # "Waiting" /\ status # "Running"
    BY <1>1, <1>3, <2>1, Known DEF WaitingCells, AtWork
  <2> QED BY <1>2, <2>2, Known DEF Finished, ItemStatus
<1>4. CASE processor[p] # "done"
  <2>1. Cardinality(FinishedCells(p)) > 0
    BY <1>1, <1>4, CellSets, Known DEF Counted
  <2>2. PICK d \in FinishedCells(p) : TRUE
    BY <2>1, CountedCell
  <2>3. d \in Cells /\ item_status[d] \in Finished /\ Dist(head, d) \in Nat
    BY Known, DistValue DEF FinishedCells, Lane
  <2>4. head \notin WaitingCells(p)
    BY <1>1, <2>2, <2>3, Known DEF InOrder
  <2>5. head # tail
    BY <2>3, Known DEF Room, InUse, Finished
  <2> QED BY <1>1, <1>2, <2>4, <2>5, Known DEF WaitingCells, Finished, ItemStatus
<1> QED BY <1>3, <1>4

\* The steps of the consumer that leave the cells alone keep the invariant.
LEMMA ConsumerSem ==
  ASSUME TypeOK, SemInv,
         WaitReady \/ CheckStatus \/ Drain \/ Consume \/ NextItem
  PROVE  SemInv'
<1> USE DEF callerVars, procVars, history, queue, sems
<1>0. UNCHANGED <<item_status, head, tail, runs, pos, processor, draining, mode, status,
                  sem_waiting_cell>>
  BY DEF WaitReady, CheckStatus, Drain, Consume, NextItem
<1>1. \A q \in Procs : pos'[q] \in Lane(q) /\ Ahead(q)' = Ahead(q)
  BY <1>0, Known DEF Ahead, InOrder
<1>2. /\ \A q : WaitingCells(q)' = WaitingCells(q) /\ FinishedCells(q)' = FinishedCells(q)
      /\ \A c : InUse(c)' <=> InUse(c)
      /\ InOrder'
      /\ Dist(head, tail)' = Dist(head, tail)
  BY <1>0, <1>1, CellsStill
<1>3. AtWork'
  BY <1>0, <1>2, Known DEF AtWork
<1>4. runs # 0
  BY Known DEF WaitReady, CheckStatus, Drain, Consume, NextItem, Phases
<1>5. CASE WaitReady
  <2>0. /\ consumer = "wait" /\ UNCHANGED <<caller, cdraining, sem_null_cell>>
        /\ sem_ready_cell[Owner(head)] > 0
        /\ sem_ready_cell' = [sem_ready_cell EXCEPT ![Owner(head)] = @ - 1]
        /\ \/ consumer' = "consume" /\ (mode = 1 \/ cdraining)
           \/ consumer' = "check" /\ mode # 1 /\ ~cdraining
    BY <1>5 DEF WaitReady
  <2>1. Phases'
    BY <1>0, <1>4, <2>0, Known DEF Phases, Generating
  <2>2. Turns' /\ Room'
    BY <1>0, <1>2, <2>0, Known DEF Turns, Room, Generating
  <2>3. Posted'
    BY <1>0, <1>2, <2>0, Known DEF Posted, Filled
  <2>4. /\ consumer' = "consume" => item_status[head] \in Finished
        /\ consumer' = "check" /\ status = "Running" => item_status[head] \in Finished
    BY <2>0, PostMeans, Known DEF Room
  <2>5. \A q \in Procs : head \in Lane(q) <=> q = Owner(head)
    BY Known, LaneOf
  <2>6. Counted'
    BY <1>0, <1>2, <2>0, <2>4, <2>5, CellSets, Known DEF Counted, Holding
  <2> QED BY <1>2, <1>3, <2>1, <2>2, <2>3, <2>6 DEF SemInv
<1>6. CASE CheckStatus
  <2>0. /\ consumer = "check" /\ UNCHANGED <<caller, sem_null_cell, sem_ready_cell>>
        /\ mode # 1 /\ ~cdraining
    BY <1>6, Known DEF CheckStatus, Turns
  <2>1. \/ status # "Running" /\ cdraining' /\ consumer' = "drain"
        \/ status = "Running" /\ consumer' = "consume" /\ cdraining' = cdraining
    BY <1>6 DEF CheckStatus
  <2>2. Phases' /\ Turns'
    BY <1>0, <1>4, <2>0, <2>1, Known DEF Phases, Turns, Generating
  <2>3. Room'
    BY <1>0, <1>2, <2>0, <2>1, Known DEF Room, Generating
  <2>4. Posted'
    BY <1>0, <1>2, <2>0, Known DEF Posted, Filled
  <2>5. Counted'
    BY <1>0, <1>2, <2>0, <2>1, CellSets, Known DEF Counted, Holding
  <2> QED BY <1>2, <1>3, <2>2, <2>3, <2>4, <2>5 DEF SemInv
<1>7. CASE Drain
  <2>0. /\ consumer = "drain" /\ UNCHANGED <<caller, sem_null_cell, sem_ready_cell, cdraining>>
        /\ \/ consumer' = "wait" /\ head # tail
           \/ consumer' = "done"
        /\ mode # 1 /\ cdraining /\ status # "Running"
    BY <1>7, Known DEF Drain, Turns
  <2>1. Phases' /\ Turns'
    BY <1>0, <1>4, <2>0, Known DEF Phases, Turns, Generating
  <2>2. Room'
    BY <1>0, <1>2, <2>0, Known DEF Room, Generating, Phases
  <2>3. Posted'
    BY <1>0, <1>2, <2>0, Known DEF Posted, Filled
  <2>4. Counted'
    BY <1>0, <1>2, <2>0, CellSets, Known DEF Counted, Holding
  <2> QED BY <1>2, <1>3, <2>1, <2>2, <2>3, <2>4 DEF SemInv
<1>8. CASE Consume
  <2>0. /\ consumer = "consume" /\ consumer' = "clear"
        /\ UNCHANGED <<caller, sem_null_cell, sem_ready_cell, cdraining>>
    BY <1>8, Known DEF Consume, Counted, Finished
  <2>1. Phases' /\ Turns'
    BY <1>0, <1>4, <2>0, Known DEF Phases, Turns, Generating
  <2>2. Room'
    BY <1>0, <1>2, <2>0, Known DEF Room, Generating
  <2>3. Posted'
    BY <1>0, <1>2, <2>0, Known DEF Posted, Filled
  <2>4. Counted'
    BY <1>0, <1>2, <2>0, CellSets, Known DEF Counted, Holding
  <2> QED BY <1>2, <1>3, <2>1, <2>2, <2>3, <2>4 DEF SemInv
<1>9. CASE NextItem
  <2>0. /\ consumer = "next" /\ UNCHANGED <<sem_ready_cell, cdraining>>
        /\ \/ /\ mode = 1 /\ consumer' = "done" /\ caller' = Next1
           \/ /\ mode # 1 /\ cdraining /\ consumer' = "drain" /\ caller' = caller
              /\ sem_null_cell' = sem_null_cell
           \/ /\ mode # 1 /\ ~cdraining /\ consumer' = "wait" /\ caller' = caller
              /\ sem_null_cell' = sem_null_cell + 1
    BY <1>9 DEF NextItem
  <2>1. Phases'
    BY <1>0, <1>4, <2>0, Known DEF Phases, Generating, Next1, Turns
  <2>2. Turns'
    BY <1>0, <2>0, Known DEF Turns, Next1
  <2>3. Room'
    BY <1>0, <1>2, <2>0, Known DEF Room, Generating, Next1, Turns, Phases
  <2>4. Posted'
    BY <1>0, <1>2, <2>0, Known DEF Posted, Filled, Next1, Turns
  <2>5. Counted'
    BY <1>0, <1>2, <2>0, CellSets, Known DEF Counted, Holding
  <2> QED BY <1>2, <1>3, <2>1, <2>2, <2>3, <2>4, <2>5 DEF SemInv
<1> QED BY <1>5, <1>6, <1>7, <1>8, <1>9

\* Giving a cell back keeps the invariant.
LEMMA ClearSem ==
  ASSUME TypeOK, SemInv, ClearCell
  PROVE  SemInv'
<1> USE DEF callerVars, procVars, history, queue, sems
<1>0. /\ head' = Inc(head) /\ item_status' = [item_status EXCEPT ![head] = "Null"]
      /\ UNCHANGED <<tail, runs, pos, processor, draining, cdraining, mode, status, caller,
                     sem_ready_cell, sem_waiting_cell, sem_null_cell>>
      /\ consumer = "clear" /\ consumer' = "next"
  BY DEF ClearCell
<1>1. item_status[head] \in Finished /\ runs # 0
  BY <1>0, Known DEF Counted, Phases
<1>2. head # tail /\ Inc(head) \in Cells /\ Dist(Inc(head), tail) = Dist(head, tail) - 1
      /\ Dist(head, tail) > 0
  <2>1. head # tail
    BY <1>1, Known DEF Room, InUse, Finished
  <2> QED BY <2>1, Known, IncCell, DistAhead
<1>3. \A c \in Cells : c # head => Dist(Inc(head), c) = Dist(head, c) - 1 /\ Dist(head, c) \in Nat
  BY Known, DistAhead, DistValue
<1>4. \A c \in Cells : InUse(c)' <=> InUse(c) /\ c # head
  <2> SUFFICES ASSUME NEW c \in Cells PROVE InUse(c)' <=> InUse(c) /\ c # head
    OBVIOUS
  <2>1. CASE c # head
    BY <1>0, <1>2, <1>3, <2>1, Later, Known DEF InUse
  <2>2. CASE c = head
    <3>1. Dist(Inc(head), head) = QueueSize - 1
      BY Known, DistAround
    <3>2. Dist(head', c) = QueueSize - 1 /\ Dist(head', tail') = Dist(head, tail) - 1
      BY <1>0, <1>2, <2>2, <3>1
    <3>3. ~(Dist(head', c) < Dist(head', tail'))
      BY <3>2, Known
    <3> QED BY <2>2, <3>3, Later
  <2> QED BY <2>1, <2>2
<1>5. \A q \in Procs : /\ WaitingCells(q)' = WaitingCells(q)
                       /\ FinishedCells(q)' = FinishedCells(q) \ {head}
                       /\ head \in Lane(q) <=> head \in FinishedCells(q)
  BY <1>0, <1>1, Later, Known DEF WaitingCells, FinishedCells, Finished, Lane
<1>6. \A q \in Procs : Cardinality(FinishedCells(q)')
         = Cardinality(FinishedCells(q)) - (IF head \in Lane(q) THEN 1 ELSE 0)
  <2> SUFFICES ASSUME NEW q \in Procs
               PROVE  Cardinality(FinishedCells(q)')
                        = Cardinality(FinishedCells(q)) - (IF head \in Lane(q) THEN 1 ELSE 0)
    OBVIOUS
  <2>1. CASE head \in Lane(q)
    BY <1>5, <2>1, CellSets, FS_RemoveElement
  <2>2. CASE head \notin Lane(q)
    <3>1. FinishedCells(q)' = FinishedCells(q)
      BY <1>5, <2>2
    <3> QED BY <2>2, <3>1, CellSets
  <2> QED BY <2>1, <2>2
<1>7. \A q \in Procs : Ahead(q)' = Ahead(q) /\ Ahead(q) \in Lane(q) /\ Ahead(q) \in Cells
  BY <1>0, Known, LaneStep DEF Ahead, InOrder, Lane
<1>8. Phases' /\ Turns'
  BY <1>0, <1>1, Known DEF Phases, Turns, Generating
<1>9. Room'
  BY <1>0, <1>2, <1>4, Later, Known DEF Room, Generating, Turns
<1>10. AtWork'
  BY <1>0, <1>1, <1>5, Known DEF AtWork, Finished
<1>11. Posted'
  BY <1>0, <1>5, Known DEF Posted, Filled
<1>12. Counted'
  BY <1>0, <1>6, CellSets, Known DEF Counted, Holding
<1>13. InOrder'
  <2> SUFFICES ASSUME NEW q \in Procs
               PROVE  /\ pos'[q] \in Lane(q)
                      /\ \A c \in WaitingCells(q)' :
                           /\ item_status'[Ahead(q)'] = "Waiting"
                           /\ Dist(head', Ahead(q)') <= Dist(head', c)
                           /\ \A d \in FinishedCells(q)' : Dist(head', d) < Dist(head', c)
                      /\ WaitingCells(q)' = {} =>
                           runs' = 0 \/ \A c \in Lane(q) : Dist(tail', Ahead(q)') <= Dist(tail', c)
    BY Later
  <2>1. /\ \A c \in WaitingCells(q) :
             /\ item_status[Ahead(q)] = "Waiting"
             /\ Dist(head, Ahead(q)) <= Dist(head, c)
             /\ \A d \in FinishedCells(q) : Dist(head, d) < Dist(head, c)
        /\ WaitingCells(q) = {} =>
             runs = 0 \/ \A c \in Lane(q) : Dist(tail, Ahead(q)) <= Dist(tail, c)
        /\ pos[q] \in Lane(q)
    BY Known DEF InOrder
  <2>2. ASSUME NEW c \in WaitingCells(q)
        PROVE  /\ item_status'[Ahead(q)] = "Waiting"
               /\ Dist(Inc(head), Ahead(q)) <= Dist(Inc(head), c)
               /\ \A d \in FinishedCells(q) \ {head} : Dist(Inc(head), d) < Dist(Inc(head), c)
    <3>1. c \in Cells /\ c # head /\ Ahead(q) # head
      BY <1>1, <2>1, <2>2 DEF WaitingCells, Lane, Finished
    <3>2. \A d \in FinishedCells(q) : d \in Cells
      BY DEF FinishedCells, Lane
    <3>3. item_status'[Ahead(q)] = "Waiting"
      BY <1>0, <1>7, <2>1, <3>1, Known
    <3> QED BY <1>3, <1>7, <2>1, <3>1, <3>2, <3>3
  <2> QED BY <1>0, <1>5, <1>7, <2>1, <2>2
<1> QED BY <1>8, <1>9, <1>10, <1>11, <1>12, <1>13 DEF SemInv

-----------------------------------------------------------------------------
(* Theorems. *)

\* Every step keeps the types and the invariant.
LEMMA NextSem ==
  ASSUME MaxRuns = 1, QueueSize > 1, FreshStatus = {"Null"}, TypeOK, SemInv, [Next]_vars
  PROVE  TypeOK' /\ SemInv'
<1>1. CASE Caller
  BY <1>1, CallerTyped, CallerSem, StartSem, MarkSem DEF Caller
<1>2. ASSUME NEW p \in Procs, Processor(p) PROVE TypeOK' /\ SemInv'
  <2>1. pos[p] \in Lane(p)
    BY Known DEF InOrder
  <2> QED BY <1>2, <2>1, ProcessorTyped, ProcessorSem, ProcessSem DEF Processor
<1>3. CASE Consumer
  BY <1>3, ConsumerTyped, ConsumerSem, ClearSem DEF Consumer
<1>4. CASE UNCHANGED vars
  <2>1. TypeOK'
    BY <1>4 DEF vars, TypeOK
  <2>2. UNCHANGED <<item_status, head, tail, runs, processor, pos>>
    BY <1>4 DEF vars
  <2>3. \A p \in Procs : pos'[p] \in Lane(p) /\ Ahead(p)' = Ahead(p)
    BY <2>2, Known DEF InOrder, Ahead
  <2>4. /\ \A p : WaitingCells(p)' = WaitingCells(p) /\ FinishedCells(p)' = FinishedCells(p)
        /\ \A c : InUse(c)' <=> InUse(c)
        /\ InOrder'
        /\ Dist(head, tail)' = Dist(head, tail)
    BY <2>2, <2>3, CellsStill
  <2>5. Phases' /\ Turns' /\ Room' /\ AtWork'
    BY <1>4, <2>4, Known DEF vars, Phases, Turns, Room, AtWork, Generating
  <2>6. Posted' /\ Counted'
    BY <1>4, <2>4, Known DEF vars, Posted, Counted, Holding, Filled
  <2> QED BY <2>1, <2>4, <2>5, <2>6 DEF SemInv
<1> QED BY <1>1, <1>2, <1>3, <1>4 DEF Next, Terminated

\* parallel_framework_semaphore.h: in the first run, from cleared cells and with two cells
\* or more, every variable keeps its type; each processor keeps to its own cells.
THEOREM TypeCorrect ==
  ASSUME MaxRuns = 1, QueueSize > 1, FreshStatus = {"Null"}
  PROVE  Spec => []TypeOK
<1>1. Init => TypeOK /\ SemInv
  BY InitTyped, InitSem
<1>2. TypeOK /\ SemInv /\ [Next]_vars => (TypeOK /\ SemInv)'
  BY NextSem
<1> QED BY <1>1, <1>2, PTL DEF Spec

\* parallel_framework_semaphore.h, thread_processor: the assertion that the cell of a
\* processor that was woken waits for it, in every mode and for any number of items.
THEOREM ProcessorAsserts ==
  ASSUME MaxRuns = 1, QueueSize > 1, FreshStatus = {"Null"}
  PROVE  Spec => []ProcessorAssert
<1>1. Init => TypeOK /\ SemInv
  BY InitTyped, InitSem
<1>2. TypeOK /\ SemInv /\ [Next]_vars => (TypeOK /\ SemInv)'
  BY NextSem
<1>3. TypeOK /\ SemInv => ProcessorAssert
  BY Known DEF AtWork, ProcessorAssert
<1> QED BY <1>1, <1>2, <1>3, PTL DEF Spec

\* parallel_framework_semaphore.h, thread_consumer and run1: the assertion that the item
\* at head is not waiting any more when the consumer has been woken for it, although it
\* loses a post when status changes.
THEOREM ConsumerAsserts ==
  ASSUME MaxRuns = 1, QueueSize > 1, FreshStatus = {"Null"}
  PROVE  Spec => []ConsumerAssert
<1>1. Init => TypeOK /\ SemInv
  BY InitTyped, InitSem
<1>2. TypeOK /\ SemInv /\ [Next]_vars => (TypeOK /\ SemInv)'
  BY NextSem
<1>3. TypeOK /\ SemInv => ConsumerAssert
  BY Known DEF Counted, ConsumerAssert, Finished
<1> QED BY <1>1, <1>2, <1>3, PTL DEF Spec

-----------------------------------------------------------------------------
(***************************************************************************)
(* The semaphore framework implements the ordered pipeline, for any number *)
(* of processors, cells and items, in every mode: in the first run every   *)
(* item is processed once and handed to the consumer in order, with the    *)
(* value its processor returned, and run() comes back only when all of     *)
(* them have been.                                                         *)
(***************************************************************************)

\* The items whose cells are free again.
Returned == Len(delivered) - (IF consumer = "clear" THEN 1 ELSE 0)

\* The cells hold the items in the order they were made.
Numbered ==
  /\ Returned \in Nat
  /\ Len(outcome) = Returned + Dist(head, tail) + (IF caller = "mark" THEN 1 ELSE 0)
  /\ caller = "mark" => array[tail] = Len(outcome)
  /\ \A c \in Cells : InUse(c) => array[c] = Returned + Dist(head, c) + 1

\* No item has an outcome before a processor is done with it.
Unprocessed ==
  /\ caller = "mark" => outcome[array[tail]] = Pending
  /\ \A c \in Cells : item_status[c] = "Waiting" => outcome[array[c]] = Pending

\* A finished cell holds what its processor returned, or the processor is about to put it
\* there.
Returns ==
  /\ \A c \in Cells : item_status[c] \in Finished =>
       /\ outcome[array[c]] \in Results
       /\ \/ processor_return[c] = outcome[array[c]]
          \/ \E p \in Procs : processor[p] = "return" /\ pos[p] = c
  /\ \A p \in Procs : processor[p] = "return" =>
       item_status[pos[p]] \in Finished /\ pres[p] = outcome[array[pos[p]]]

\* The cell a processor has not left yet is the last of its finished ones.
LastFinished ==
  \A p \in Procs : processor[p] = "return" =>
    \A c \in FinishedCells(p) : Dist(head, c) <= Dist(head, pos[p])

\* The consumer leaves when the queue is empty for good, run() when all have left.
Ended ==
  /\ caller = "idle" => consumer = "done" /\ \A p \in Procs : processor[p] = "done"
  /\ mode = 1 /\ caller = "join" => head = tail
  /\ mode # 1 /\ consumer = "done" /\ runs # 0 =>
       head = tail /\ caller \in {"wake", "join", "idle"}

\* The inductive invariant, beside TypeOK and SemInv.
HistoryInv == Numbered /\ Unprocessed /\ Returns /\ LastFinished /\ Ended

-----------------------------------------------------------------------------
(* Cells and items. *)

\* Where head and tail stay, so do the cells in use; where the cells stay, so do those
\* that are finished.
LEMMA Frame ==
  /\ UNCHANGED <<head, tail>> =>
       /\ Dist(head, tail)' = Dist(head, tail)
       /\ \A c : Dist(head, c)' = Dist(head, c) /\ (InUse(c)' <=> InUse(c))
  /\ UNCHANGED item_status => \A p : FinishedCells(p)' = FinishedCells(p)
BY DEF Dist, InUse, FinishedCells, Lane, Owner

\* Cells in use hold different items, which have been made, and the one being made is none
\* of them.
LEMMA Places ==
  ASSUME TypeOK, SemInv, Numbered
  PROVE  /\ \A c \in Cells : InUse(c) <=> item_status[c] # "Null"
         /\ ~InUse(tail)
         /\ \A c \in Cells : InUse(c) => array[c] \in 1 .. Len(outcome)
         /\ \A c, d \in Cells : InUse(c) /\ InUse(d) /\ c # d => array[c] # array[d]
         /\ caller = "mark" => /\ array[tail] \in 1 .. Len(outcome)
                               /\ \A c \in Cells : InUse(c) => array[c] # array[tail]
<1>1. head \in Cells /\ tail \in Cells /\ Len(outcome) \in Nat
  BY DEF TypeOK
<1>2. /\ Dist(head, tail) \in Nat
      /\ \A c \in Cells : Dist(head, c) \in Nat
      /\ \A c, d \in Cells : Dist(head, c) = Dist(head, d) => c = d
  BY <1>1, DistValue
<1>3. \A c \in Cells : InUse(c) <=> item_status[c] # "Null"
  BY DEF SemInv, Room
<1>4. ~InUse(tail)
  BY <1>2 DEF InUse
<1>5. \A c \in Cells : InUse(c) => /\ array[c] = Returned + Dist(head, c) + 1
                                   /\ array[c] \in 1 .. Returned + Dist(head, tail)
  BY <1>2 DEF Numbered, InUse
<1>6. \A c \in Cells : InUse(c) => array[c] \in 1 .. Len(outcome)
  BY <1>1, <1>2, <1>5 DEF Numbered
<1>7. \A c, d \in Cells : InUse(c) /\ InUse(d) /\ c # d => array[c] # array[d]
  BY <1>2, <1>5 DEF Numbered
<1>8. caller = "mark" => /\ array[tail] \in 1 .. Len(outcome)
                         /\ \A c \in Cells : InUse(c) => array[c] # array[tail]
  BY <1>1, <1>2, <1>5 DEF Numbered
<1> QED BY <1>3, <1>4, <1>6, <1>7, <1>8

\* The consumer takes up an item only when its processor has left it: the post of a cell
\* that is not left yet is not among those the consumer can have had.
LEMMA NotReturning ==
  ASSUME TypeOK, SemInv, Returns, LastFinished, consumer \in {"consume", "clear"},
         NEW p \in Procs, processor[p] = "return"
  PROVE  pos[p] # head
<1> SUFFICES ASSUME pos[p] = head PROVE FALSE
  OBVIOUS
<1>1. head \in Cells /\ pos[p] \in Lane(p) /\ head \in Lane(p)
  BY Known DEF InOrder
<1>2. head \in FinishedCells(p)
  BY <1>1 DEF Returns, FinishedCells
<1>3. \A c \in FinishedCells(p) : Dist(head, c) <= 0
  BY <1>1, DistValue DEF LastFinished
<1>4. \A c \in FinishedCells(p) : c = head
  BY <1>1, <1>3, DistValue DEF FinishedCells, Lane
<1>5. FinishedCells(p) = {head}
  BY <1>2, <1>4
<1>6. Cardinality(FinishedCells(p)) = 1
  BY <1>5, FS_Singleton
<1>7. sem_ready_cell[p] + 1 + 1 <= 1 + 0 /\ sem_ready_cell[p] \in Nat
  BY <1>1, <1>6, Known DEF Counted, Holding
<1> QED BY <1>7

\* What every lemma below starts from.
LEMMA Facts ==
  ASSUME TypeOK, SemInv, HistoryInv
  PROVE  /\ head \in Cells /\ tail \in Cells
         /\ Dist(head, tail) \in Nat /\ Dist(head, tail) < QueueSize
         /\ outcome \in Seq(Results \cup {Pending}) /\ Len(outcome) \in Nat
         /\ delivered \in Seq(Nat \X (Results \cup {Pending})) /\ Len(delivered) \in Nat
         /\ array \in [Cells -> Nat] /\ item_status \in [Cells -> ItemStatus]
         /\ processor_return \in [Cells -> Results \cup {Pending}]
         /\ pres \in [Procs -> Results \cup {Pending}] /\ pos \in [Procs -> Cells]
         /\ processor \in [Procs -> {"wait", "poll", "look", "process", "return", "post",
                                     "exit", "done"}]
         /\ Phases /\ Turns /\ Room /\ InOrder /\ AtWork
         /\ Numbered /\ Unprocessed /\ Returns /\ LastFinished /\ Ended
BY Known DEF TypeOK, HistoryInv

-----------------------------------------------------------------------------
(* The thread in run(). *)

\* The initial state satisfies the invariant.
LEMMA InitHistory == Init => HistoryInv
<1> SUFFICES ASSUME Init PROVE HistoryInv
  OBVIOUS
<1>1. /\ Dist(head, tail) = 0
      /\ \A c \in Cells : ~InUse(c)
  BY Sizes, DistValue DEF Init, InUse
<1>2. Numbered
  BY <1>1 DEF Init, Numbered, Returned
<1>3. Unprocessed /\ Returns /\ LastFinished /\ Ended
  BY <1>1 DEF Init, Unprocessed, Returns, LastFinished, Ended, Finished
<1> QED BY <1>2, <1>3 DEF HistoryInv

\* create() and the beginning of run() keep the invariant.
LEMMA StartHistory ==
  ASSUME MaxRuns = 1, FreshStatus = {"Null"}, TypeOK, SemInv, HistoryInv,
         Create \/ \E m \in Modes : Run(m)
  PROVE  HistoryInv'
<1> USE DEF procVars, consVars, history, queue, sems
<1>1. /\ runs = 0 /\ head = 0 /\ tail = 0 /\ consumer = "done"
      /\ \A p \in Procs : processor[p] = "done"
      /\ \A c \in Cells : item_status[c] = "Null"
      /\ caller = "idle"
  BY Facts DEF Create, Run, Phases, TypeOK
<1>2. /\ head' = 0 /\ tail' = 0 /\ UNCHANGED history
      /\ consumer' \in {"done", "wait"} /\ caller' # "mark"
      /\ \A c \in Cells : item_status'[c] = "Null"
      /\ \A p \in Procs : processor'[p] \in {"done", "wait", "poll"}
      /\ caller' = "idle" => UNCHANGED <<consumer, processor, runs>>
      /\ caller' # "idle" => (mode' # 1 => consumer' = "wait")
      /\ caller' # "join"
  BY <1>1 DEF Create, Run
<1>3. /\ Dist(head, tail) = 0 /\ Dist(head, tail)' = 0
      /\ \A c \in Cells : ~InUse(c)'
  BY <1>1, <1>2, Sizes DEF InUse, Dist, Cells
<1>4. Numbered'
  BY <1>1, <1>2, <1>3, Facts DEF Numbered, Returned
<1>5. Unprocessed' /\ Returns' /\ LastFinished'
  BY <1>2 DEF Unprocessed, Returns, LastFinished, Finished
<1>6. Ended'
  BY <1>1, <1>2 DEF Ended
<1> QED BY <1>4, <1>5, <1>6 DEF HistoryInv

\* The steps of the thread in run() keep the invariant.
LEMMA CallerHistory ==
  ASSUME TypeOK, SemInv, HistoryInv,
         \/ WaitNull \/ TestFull \/ GenerateItem \/ GenerateStop \/ MarkWaiting \/ PostWaiting
         \/ Wake \/ TestDrain \/ Join
  PROVE  HistoryInv'
<1> USE DEF procVars, consVars, history, queue, sems
<1>1. CASE WaitNull \/ TestFull \/ GenerateStop \/ PostWaiting \/ Wake \/ TestDrain \/ Join
  <2>1. /\ UNCHANGED <<head, tail, item_status, array, processor_return, processor, pos, pres,
                       outcome, delivered, mode, runs>>
        /\ caller # "mark" /\ caller' # "mark"
    BY <1>1 DEF WaitNull, TestFull, GenerateStop, PostWaiting, Wake, TestDrain, Join
  <2>2. Returned' = Returned
    BY <1>1, Facts DEF WaitNull, TestFull, GenerateStop, PostWaiting, Wake, TestDrain, Join,
                       Returned, Turns
  <2>3. Numbered'
    BY <2>1, <2>2, Facts, Frame DEF Numbered
  <2>4. Unprocessed' /\ Returns' /\ LastFinished'
    BY <2>1, Facts, Frame DEF Unprocessed, Returns, LastFinished
  <2>5. Ended'
    <3>1. CASE WaitNull \/ TestFull \/ PostWaiting \/ Wake
      BY <3>1, Facts DEF WaitNull, TestFull, PostWaiting, Wake, Ended, Turns, Phases
    <3>2. CASE GenerateStop
      BY <3>2, Facts DEF GenerateStop, Ended, Phases
    <3>3. CASE TestDrain
      BY <3>3, Facts DEF TestDrain, Ended, Turns
    <3>4. CASE Join
      BY <3>4, Facts DEF Join, Ended, Turns
    <3> QED BY <1>1, <3>1, <3>2, <3>3, <3>4
  <2> QED BY <2>3, <2>4, <2>5 DEF HistoryInv
<1>2. CASE GenerateItem
  <2>1. /\ Len(outcome') = Len(outcome) + 1 /\ outcome'[Len(outcome) + 1] = Pending
        /\ \A i \in 1 .. Len(outcome) : outcome'[i] = outcome[i]
    BY <1>2, Facts DEF GenerateItem
  <2>2. /\ array'[tail] = Len(outcome) + 1
        /\ \A c \in Cells : c # tail => array'[c] = array[c]
    BY <1>2, Facts DEF GenerateItem
  <2>3. /\ UNCHANGED <<head, tail, item_status, processor_return, processor, pos, pres, consumer,
                       delivered, mode, runs>>
        /\ caller # "mark" /\ caller' = "mark"
    BY <1>2 DEF GenerateItem
  <2>4. \A c \in Cells : item_status[c] # "Null" =>
          array'[c] = array[c] /\ outcome'[array'[c]] = outcome[array[c]]
    BY <2>1, <2>2, Places, Facts
  <2>5. \A c \in Cells : InUse(c) => array'[c] = array[c]
    BY <2>4, Places, Facts
  <2>6. Numbered'
    BY <2>1, <2>2, <2>3, <2>5, Facts, Frame DEF Numbered, Returned
  <2>7. Unprocessed'
    BY <2>1, <2>2, <2>3, <2>4, Facts DEF Unprocessed
  <2>8. Returns'
    <3>1. \A c \in Cells : item_status[c] \in Finished =>
            outcome'[array'[c]] = outcome[array[c]]
      BY <2>4 DEF Finished
    <3>2. \A p \in Procs : processor[p] = "return" =>
            outcome'[array'[pos[p]]] = outcome[array[pos[p]]]
      BY <3>1, Facts DEF Returns
    <3> QED BY <2>3, <3>1, <3>2, Facts DEF Returns
  <2>9. LastFinished' /\ Ended'
    BY <1>2, <2>3, Facts, Frame DEF GenerateItem, LastFinished, Ended, Phases
  <2> QED BY <2>6, <2>7, <2>8, <2>9 DEF HistoryInv
<1>3. CASE MarkWaiting
  <2>1. /\ UNCHANGED <<head, array, processor_return, processor, pos, pres, consumer, outcome,
                       delivered, mode, runs>>
        /\ item_status' = [item_status EXCEPT ![tail] = "Waiting"] /\ tail' = Inc(tail)
        /\ caller = "mark" /\ caller' \notin {"mark", "idle", "join"}
    BY <1>3 DEF MarkWaiting
  <2>2. Dist(head, tail) < QueueSize - 1
    BY <2>1, Facts, Known DEF Room, Generating
  <2>3. Dist(head, tail)' = Dist(head, tail) + 1
    BY <2>1, <2>2, Facts, DistFurther DEF Dist
  <2>4. \A c \in Cells : /\ Dist(head, c)' = Dist(head, c) /\ Dist(head, c) \in Nat
                         /\ Dist(head, c) = Dist(head, tail) => c = tail
    BY <2>1, Facts, DistValue DEF Dist
  <2>5. \A c \in Cells : InUse(c)' <=> InUse(c) \/ c = tail
    BY <2>3, <2>4, Facts, Later DEF InUse, Dist
  <2>6. /\ item_status[tail] = "Null" /\ item_status'[tail] = "Waiting"
        /\ \A c \in Cells : c # tail => item_status'[c] = item_status[c]
    BY <2>1, Places, Facts
  <2>7. \A c \in Cells : item_status'[c] \in Finished <=> item_status[c] \in Finished
    BY <2>6 DEF Finished
  <2>8. Numbered'
    BY <2>1, <2>3, <2>4, <2>5, Facts, SMTT(20) DEF Numbered, Returned
  <2>9. Unprocessed'
    BY <2>1, <2>6, Facts DEF Unprocessed
  <2>10. Returns'
    BY <2>1, <2>7, Facts DEF Returns
  <2>11. \A p : FinishedCells(p)' = FinishedCells(p)
    BY <2>7, Later DEF FinishedCells, Lane
  <2>12. LastFinished'
    BY <2>1, <2>11, Facts DEF LastFinished, Dist
  <2>13. Ended'
    BY <2>1, Facts DEF Ended, Phases
  <2> QED BY <2>8, <2>9, <2>10, <2>12, <2>13 DEF HistoryInv
<1> QED BY <1>1, <1>2, <1>3

-----------------------------------------------------------------------------
(* The processor threads. *)

\* The steps of a processor that finish no cell keep the invariant.
LEMMA ProcessorHistory ==
  ASSUME TypeOK, SemInv, HistoryInv, NEW p \in Procs,
         \/ WaitWaiting(p) \/ PollStatus(p) \/ Look(p) \/ StoreReturn(p) \/ PostReady(p)
         \/ ExitPost(p)
  PROVE  HistoryInv'
<1> USE DEF callerVars, consVars, history, queue, sems, Goto
<1>1. /\ UNCHANGED <<head, tail, item_status, array, pres, consumer, caller, mode, runs,
                     outcome, delivered>>
      /\ \A q \in Procs : q # p => processor'[q] = processor[q] /\ pos'[q] = pos[q]
      /\ processor[p] # "done" /\ processor'[p] # "return"
  BY Facts DEF WaitWaiting, PollStatus, Look, StoreReturn, PostReady, ExitPost
<1>2. Numbered' /\ Unprocessed' /\ Ended'
  BY <1>1, Facts, Frame DEF Numbered, Returned, Unprocessed, Ended
<1>3. LastFinished'
  BY <1>1, Facts, Frame DEF LastFinished
<1>4. \A q \in Procs : processor'[q] = "return" => /\ q # p /\ processor[q] = "return"
                                                   /\ pos'[q] = pos[q]
  BY <1>1
<1>5. CASE StoreReturn(p)
  <2>1. /\ processor[p] = "return" /\ processor_return'[pos[p]] = pres[p]
        /\ \A c \in Cells : c # pos[p] => processor_return'[c] = processor_return[c]
    BY <1>5, Facts DEF StoreReturn
  <2>2. Returns'
    <3> SUFFICES ASSUME NEW c \in Cells, item_status[c] \in Finished
                 PROVE  /\ outcome[array[c]] \in Results
                        /\ \/ processor_return'[c] = outcome[array[c]]
                           \/ \E q \in Procs : processor'[q] = "return" /\ pos'[q] = c
      BY <1>1, <1>4, Facts DEF Returns
    <3>1. outcome[array[c]] \in Results
      BY Facts DEF Returns
    <3>2. CASE c = pos[p]
      BY <2>1, <3>1, <3>2, Facts DEF Returns
    <3>3. CASE c # pos[p]
      <4>1. \/ processor_return[c] = outcome[array[c]]
            \/ \E q \in Procs : processor[q] = "return" /\ pos[q] = c
        BY Facts DEF Returns
      <4> QED BY <1>1, <2>1, <3>1, <3>3, <4>1
    <3> QED BY <3>2, <3>3
  <2> QED BY <1>2, <1>3, <2>2 DEF HistoryInv
<1>6. CASE WaitWaiting(p) \/ PollStatus(p) \/ Look(p) \/ PostReady(p) \/ ExitPost(p)
  <2>1. /\ UNCHANGED processor_return /\ processor[p] # "return"
    BY <1>6 DEF WaitWaiting, PollStatus, Look, PostReady, ExitPost
  <2>2. \A q \in Procs : processor[q] = "return" => /\ processor'[q] = "return"
                                                    /\ pos'[q] = pos[q]
    BY <1>1, <2>1
  <2>3. Returns'
    <3>1. \A c \in Cells : item_status[c] \in Finished =>
            /\ outcome[array[c]] \in Results
            /\ \/ processor_return[c] = outcome[array[c]]
               \/ \E q \in Procs : processor'[q] = "return" /\ pos'[q] = c
      BY <2>2, Facts DEF Returns
    <3> QED BY <1>1, <1>4, <2>1, <3>1, Facts DEF Returns
  <2> QED BY <1>2, <1>3, <2>3 DEF HistoryInv
<1> QED BY <1>5, <1>6

\* process_one_item() keeps the invariant.
LEMMA ProcessHistory ==
  ASSUME TypeOK, SemInv, HistoryInv, NEW p \in Procs, Process(p)
  PROVE  HistoryInv'
<1> USE DEF callerVars, consVars, history, queue, sems, Goto
<1> DEFINE c == pos[p]
<1>1. /\ UNCHANGED <<head, tail, array, pos, processor_return, consumer, caller, mode, runs,
                     delivered>>
      /\ \A q \in Procs : q # p => processor'[q] = processor[q]
      /\ processor[p] = "process" /\ processor'[p] = "return"
  BY Facts DEF Process
<1>2. /\ c \in Cells /\ c \in Lane(p) /\ item_status[c] = "Waiting" /\ InUse(c) /\ c # tail
      /\ array[c] \in 1 .. Len(outcome)
      /\ \A d \in Cells : item_status[d] # "Null" /\ d # c => array[d] # array[c]
      /\ caller = "mark" => array[tail] # array[c]
  BY <1>1, Places, Facts DEF AtWork, InOrder
<1>3. PICK r \in Results :
        /\ pres' = [pres EXCEPT ![p] = r]
        /\ item_status' = [item_status EXCEPT ![c] = IF r = 0 THEN "Ready" ELSE "Error"]
        /\ outcome' = [outcome EXCEPT ![array[c]] = r]
  <2>1. array[c] \in DOMAIN outcome
    BY <1>2, Facts
  <2> QED BY <2>1 DEF Process
<1>4. /\ Len(outcome') = Len(outcome) /\ outcome'[array[c]] = r
      /\ \A i : i # array[c] => outcome'[i] = outcome[i]
  BY <1>2, <1>3, Facts
<1>5. /\ item_status'[c] \in Finished /\ item_status'[c] # "Waiting" /\ pres'[p] = r
      /\ \A d \in Cells : d # c => item_status'[d] = item_status[d]
      /\ \A q \in Procs : q # p => pres'[q] = pres[q]
  BY <1>2, <1>3, Facts DEF Finished
<1>6. Numbered'
  BY <1>1, <1>4, Facts, Frame DEF Numbered, Returned
<1>7. Unprocessed'
  <2>1. \A d \in Cells : item_status'[d] = "Waiting" =>
          d # c /\ item_status[d] = "Waiting" /\ outcome'[array[d]] = outcome[array[d]]
    BY <1>2, <1>4, <1>5
  <2> QED BY <1>1, <1>2, <1>4, <2>1, Facts DEF Unprocessed
<1>8. Returns'
  <2>1. ASSUME NEW d \in Cells, item_status'[d] \in Finished
        PROVE  /\ outcome'[array[d]] \in Results
               /\ \/ processor_return[d] = outcome'[array[d]]
                  \/ \E q \in Procs : processor'[q] = "return" /\ pos[q] = d
    <3>1. CASE d = c
      BY <1>1, <1>4, <3>1
    <3>2. CASE d # c
      <4>1. item_status[d] \in Finished /\ outcome'[array[d]] = outcome[array[d]]
        BY <1>2, <1>4, <1>5, <2>1, <3>2 DEF Finished
      <4>2. \/ processor_return[d] = outcome[array[d]]
            \/ \E q \in Procs : processor[q] = "return" /\ pos[q] = d
        BY <4>1, Facts DEF Returns
      <4>3. \A q \in Procs : processor[q] = "return" => processor'[q] = "return"
        BY <1>1
      <4> QED BY <4>1, <4>2, <4>3, Facts DEF Returns
    <3> QED BY <3>1, <3>2
  <2>2. ASSUME NEW q \in Procs, processor'[q] = "return"
        PROVE  item_status'[pos[q]] \in Finished /\ pres'[q] = outcome'[array[pos[q]]]
    <3>1. CASE q = p
      BY <1>4, <1>5, <3>1
    <3>2. CASE q # p
      <4>1. /\ pos[q] \in Cells /\ item_status[pos[q]] \in Finished
            /\ pres[q] = outcome[array[pos[q]]]
        BY <1>1, <2>2, <3>2, Facts DEF Returns
      <4>2. pos[q] # c
        BY <1>2, <4>1 DEF Finished
      <4> QED BY <1>2, <1>4, <1>5, <3>2, <4>1, <4>2 DEF Finished
    <3> QED BY <3>1, <3>2
  <2> QED BY <1>1, <2>1, <2>2 DEF Returns
<1>9. LastFinished'
  <2> SUFFICES ASSUME NEW q \in Procs, processor'[q] = "return", NEW d \in FinishedCells(q)'
               PROVE  Dist(head, d) <= Dist(head, pos[q])
    BY <1>1 DEF LastFinished, Dist
  <2>1. d \in Cells /\ d \in Lane(q) /\ item_status'[d] \in Finished
    BY Later DEF Lane
  <2>2. CASE d = c
    <3>1. q = p
      BY <1>2, <2>1, <2>2, LaneOf
    <3> QED BY <1>2, <2>2, <3>1, DistValue, Facts
  <2>3. CASE d # c
    <3>1. d \in FinishedCells(q)
      BY <1>5, <2>1, <2>3 DEF FinishedCells
    <3>2. CASE q = p
      <4>1. c \in WaitingCells(p)
        BY <1>2 DEF WaitingCells
      <4>2. Dist(head, d) < Dist(head, c)
        BY <3>1, <3>2, <4>1, Facts DEF InOrder
      <4> QED BY <1>2, <2>1, <3>2, <4>2, DistValue, Facts, SMTT(20)
    <3>3. CASE q # p
      BY <1>1, <3>1, <3>3, Facts DEF LastFinished
    <3> QED BY <3>2, <3>3
  <2> QED BY <2>2, <2>3
<1>10. Ended'
  BY <1>1, Facts DEF Ended
<1> QED BY <1>6, <1>7, <1>8, <1>9, <1>10 DEF HistoryInv

-----------------------------------------------------------------------------
(* The consumer. *)

\* The consumer has a finished item when it takes one up.
LEMMA FrontFinished ==
  ASSUME TypeOK, SemInv, consumer \in {"consume", "clear"}
  PROVE  item_status[head] \in Finished /\ item_status[head] # "Null"
BY Known DEF Counted, Finished

\* The steps of the consumer that free no cell keep the invariant.
LEMMA ConsumerHistory ==
  ASSUME TypeOK, SemInv, HistoryInv,
         WaitReady \/ CheckStatus \/ Drain \/ Consume \/ NextItem
  PROVE  HistoryInv'
<1> USE DEF callerVars, procVars, history, queue, sems
<1>1. /\ UNCHANGED <<head, tail, item_status, array, processor, pos, pres, processor_return,
                     runs, mode, outcome>>
      /\ caller' = "mark" <=> caller = "mark"
  BY Facts DEF WaitReady, CheckStatus, Drain, Consume, NextItem, Next1, Turns
<1>2. Returned' = Returned
  BY Facts, FrontFinished DEF WaitReady, CheckStatus, Drain, Consume, NextItem, Returned
<1>3. Numbered'
  BY <1>1, <1>2, Facts, Frame DEF Numbered
<1>4. Unprocessed' /\ Returns' /\ LastFinished'
  BY <1>1, Facts, Frame DEF Unprocessed, Returns, LastFinished
<1>5. Ended'
  <2>1. CASE WaitReady \/ CheckStatus \/ Consume
    BY <2>1, Facts DEF WaitReady, CheckStatus, Consume, Ended
  <2>2. CASE Drain
    <3>1. /\ mode # 1 /\ consumer = "drain" /\ status # "Running"
          /\ consumer' = "done" => head = tail
      BY <2>2, Facts DEF Drain, Turns
    <3>2. caller \in {"wake", "join", "idle"}
      BY <3>1, Facts DEF Phases, Turns, Generating, TypeOK
    <3> QED BY <2>2, <3>1, <3>2, Facts DEF Drain, Ended
  <2>3. CASE NextItem
    BY <2>3, Facts DEF NextItem, Next1, Ended, Turns
  <2> QED BY <2>1, <2>2, <2>3
<1> QED BY <1>3, <1>4, <1>5 DEF HistoryInv

\* Giving back the cell at head keeps the invariant.
LEMMA ClearHistory ==
  ASSUME TypeOK, SemInv, HistoryInv, ClearCell
  PROVE  HistoryInv'
<1> USE DEF callerVars, procVars, history, queue, sems
<1>1. /\ UNCHANGED <<tail, array, processor, pos, pres, processor_return, caller, runs, mode,
                     outcome, delivered>>
      /\ consumer = "clear" /\ consumer' = "next"
      /\ item_status' = [item_status EXCEPT ![head] = "Null"] /\ head' = Inc(head)
  BY DEF ClearCell
<1>2. Returned' = Returned + 1
  BY <1>1, Facts DEF Returned
<1>3. InUse(head)
  BY <1>1, FrontFinished, Places, Facts
<1>4. /\ \A c \in Cells : Dist(head, c) \in Nat /\ Dist(head, c) < QueueSize
      /\ Dist(head, head) = 0 /\ QueueSize \in Nat
  BY Facts, DistValue, Sizes
<1>5. head # tail
  BY <1>3, <1>4, Facts DEF InUse
<1>6. /\ \A c \in Cells : c # head => Dist(head', c) = Dist(head, c) - 1
      /\ Dist(head, tail)' = Dist(head, tail) - 1
      /\ Dist(head', head) = QueueSize - 1
  BY <1>1, <1>5, Facts, DistAhead, DistAround DEF Dist
<1>7. \A c \in Cells : InUse(c)' <=> InUse(c) /\ c # head
  <2> SUFFICES ASSUME NEW c \in Cells PROVE InUse(c)' <=> InUse(c) /\ c # head
    OBVIOUS
  <2>1. InUse(c)' <=> Dist(head', c) < Dist(head, tail) - 1
    BY <1>6, Later DEF Dist
  <2>2. CASE c = head
    BY <1>4, <1>6, <2>1, <2>2, Facts
  <2>3. CASE c # head
    BY <1>4, <1>6, <2>1, <2>3, Facts DEF InUse
  <2> QED BY <2>2, <2>3
<1>8. /\ item_status'[head] = "Null"
      /\ \A c \in Cells : c # head => item_status'[c] = item_status[c]
  BY <1>1, Facts
<1>9. Numbered'
  <2>1. Returned' \in Nat
    BY <1>2, Facts DEF Numbered
  <2>2. Len(outcome) = Returned' + Dist(head, tail)' + (IF caller = "mark" THEN 1 ELSE 0)
    BY <1>2, <1>6, Facts DEF Numbered
  <2>3. \A c \in Cells : InUse(c) /\ c # head => array[c] = Returned' + Dist(head', c) + 1
    BY <1>2, <1>4, <1>6, Facts DEF Numbered
  <2> QED BY <1>1, <1>7, <2>1, <2>2, <2>3, Facts DEF Numbered, Dist
<1>10. Unprocessed'
  BY <1>1, <1>8, Facts DEF Unprocessed
<1>11. \A p \in Procs : processor[p] = "return" => pos[p] # head /\ pos[p] \in Cells
  BY <1>1, NotReturning, Facts
<1>12. Returns'
  <2>1. \A c \in Cells : item_status'[c] \in Finished => c # head /\ item_status[c] \in Finished
    BY <1>8 DEF Finished
  <2> QED BY <1>1, <1>8, <1>11, <2>1, Facts DEF Returns
<1>13. LastFinished'
  <2> SUFFICES ASSUME NEW p \in Procs, processor[p] = "return", NEW d \in FinishedCells(p)'
               PROVE  Dist(head', d) <= Dist(head', pos[p])
    BY <1>1 DEF LastFinished, Dist
  <2>1. d \in Cells /\ d \in Lane(p) /\ item_status'[d] \in Finished
    BY Later DEF Lane
  <2>2. d # head /\ d \in FinishedCells(p)
    BY <1>8, <2>1 DEF Finished, FinishedCells
  <2>3. Dist(head, d) <= Dist(head, pos[p])
    BY <2>2, Facts DEF LastFinished
  <2>4. Dist(head', d) = Dist(head, d) - 1 /\ Dist(head', pos[p]) = Dist(head, pos[p]) - 1
    BY <1>6, <1>11, <2>1, <2>2
  <2>5. Dist(head, d) \in Nat /\ Dist(head, pos[p]) \in Nat
    BY <1>4, <1>11, <2>1
  <2> QED BY <2>3, <2>4, <2>5
<1>14. Ended'
  BY <1>1, <1>5, Facts DEF Ended, Phases, Turns
<1> QED BY <1>9, <1>10, <1>12, <1>13, <1>14 DEF HistoryInv

\* Every step keeps the invariant.
LEMMA NextHistory ==
  ASSUME MaxRuns = 1, FreshStatus = {"Null"}, TypeOK, SemInv, HistoryInv, [Next]_vars
  PROVE  HistoryInv'
<1>1. CASE Caller
  BY <1>1, StartHistory, CallerHistory DEF Caller
<1>2. ASSUME NEW p \in Procs, Processor(p) PROVE HistoryInv'
  BY <1>2, ProcessorHistory, ProcessHistory DEF Processor
<1>3. CASE Consumer
  BY <1>3, ConsumerHistory, ClearHistory DEF Consumer
<1>4. CASE UNCHANGED vars
  <2>1. Numbered' /\ Unprocessed'
    BY <1>4, Facts, Frame DEF vars, Numbered, Returned, Unprocessed
  <2>2. Returns' /\ LastFinished' /\ Ended'
    BY <1>4, Facts, Frame DEF vars, Returns, LastFinished, Ended
  <2> QED BY <2>1, <2>2 DEF HistoryInv
<1> QED BY <1>1, <1>2, <1>3, <1>4 DEF Next, Terminated

-----------------------------------------------------------------------------
(* Refinement. *)

\* A step of the thread in run() starts the pipeline, makes an item, finishes, or is
\* not seen.
LEMMA CallerStep ==
  ASSUME TypeOK, SemInv, HistoryInv, Caller
  PROVE  [Abstract!AbsNext]_(Abstract!absVars)
<1> USE DEF procVars, consVars, history, queue, sems
<1>1. CASE \E m \in Modes : Run(m)
  BY <1>1 DEF Run, Abstract!AbsNext, Abstract!Start
<1>2. CASE GenerateItem
  <2>1. sem_null_cell \in Nat /\ QueueSize \in Nat
    BY Known
  <2>2. Dist(head, tail) < QueueSize - 1
    BY <1>2, <2>1, Facts DEF GenerateItem, Room, Generating
  <2>3. Len(outcome) - Len(delivered) <= Dist(head, tail)
    BY <1>2, Facts DEF GenerateItem, Numbered, Returned
  <2>4. Len(outcome) - Len(delivered) < QueueSize - 1
    BY <2>1, <2>2, <2>3, Facts
  <2>5. Abstract!Make
    BY <1>2, <2>4 DEF GenerateItem, Abstract!Make
  <2> QED BY <2>5 DEF Abstract!AbsNext
<1>3. CASE Join
  <2>1. runs # 0
    BY <1>3, Facts DEF Join, Phases
  <2>2. head = tail /\ consumer = "done" /\ caller = "join"
    BY <1>3, <2>1, Facts DEF Join, Ended
  <2>3. Dist(head, tail) = 0
    BY <2>2, DistValue, Facts
  <2>4. Len(outcome) = Len(delivered)
    BY <2>2, <2>3, Facts DEF Numbered, Returned
  <2>5. Abstract!Finish
    BY <1>3, <2>4 DEF Join, Abstract!Finish
  <2> QED BY <2>5 DEF Abstract!AbsNext
<1>4. CASE \/ Create \/ WaitNull \/ TestFull \/ GenerateStop \/ MarkWaiting \/ PostWaiting
           \/ Wake \/ TestDrain
  <2>1. (caller' = "idle" <=> caller = "idle") /\ UNCHANGED history
    BY <1>4 DEF Create, WaitNull, TestFull, GenerateStop, MarkWaiting, PostWaiting, Wake,
                TestDrain
  <2> QED BY <2>1 DEF Abstract!absVars
<1> QED BY <1>1, <1>2, <1>3, <1>4 DEF Caller

\* A step of a processor works on an item not worked on, or is not seen.
LEMMA ProcessorStep ==
  ASSUME TypeOK, SemInv, HistoryInv, NEW p \in Procs, Processor(p)
  PROVE  [Abstract!AbsNext]_(Abstract!absVars)
<1> USE DEF callerVars, consVars, history, queue, sems
<1>1. CASE Process(p)
  <2>1. /\ caller # "idle" /\ pos[p] \in Cells /\ item_status[pos[p]] = "Waiting"
    BY <1>1, Facts DEF Process, Ended, AtWork
  <2>2. array[pos[p]] \in 1 .. Len(outcome) /\ outcome[array[pos[p]]] = Pending
    BY <2>1, Places, Facts DEF Unprocessed
  <2>3. array[pos[p]] \in DOMAIN outcome
    BY <2>2, Facts
  <2>4. PICK r \in Results : outcome' = [outcome EXCEPT ![array[pos[p]]] = r]
    BY <1>1, <2>3 DEF Process
  <2>5. UNCHANGED <<caller, delivered>>
    BY <1>1 DEF Process
  <2>6. Abstract!Work
    BY <2>1, <2>2, <2>4, <2>5 DEF Abstract!Work
  <2> QED BY <2>6 DEF Abstract!AbsNext
<1>2. CASE \/ WaitWaiting(p) \/ PollStatus(p) \/ Look(p) \/ StoreReturn(p) \/ PostReady(p)
           \/ ExitPost(p)
  <2>1. UNCHANGED <<caller, outcome, delivered>>
    BY <1>2 DEF WaitWaiting, PollStatus, Look, StoreReturn, PostReady, ExitPost
  <2> QED BY <2>1 DEF Abstract!absVars
<1> QED BY <1>1, <1>2 DEF Processor

\* A step of the consumer delivers the next item with its outcome, or is not seen.
LEMMA ConsumerStep ==
  ASSUME TypeOK, SemInv, HistoryInv, Consumer
  PROVE  [Abstract!AbsNext]_(Abstract!absVars)
<1> USE DEF callerVars, procVars, history, queue, sems
<1>1. CASE Consume
  <2>1. /\ consumer = "consume" /\ caller # "idle" /\ head \in Cells
        /\ item_status[head] \in Finished /\ item_status[head] # "Null"
    BY <1>1, FrontFinished, Facts DEF Consume, Ended
  <2>2. InUse(head) /\ array[head] \in 1 .. Len(outcome)
    BY <2>1, Places, Facts
  <2>3. Dist(head, head) = 0
    BY <2>1, DistValue
  <2>4. array[head] = Len(delivered) + 1
    BY <2>1, <2>2, <2>3, Facts DEF Numbered, Returned
  <2>5. outcome[array[head]] \in Results /\ outcome[array[head]] = processor_return[head]
    BY <2>1, NotReturning, Facts DEF Returns
  <2>6. /\ delivered' = Append(delivered, <<array[head], processor_return[head]>>)
        /\ UNCHANGED <<caller, outcome>>
    BY <1>1, <2>1 DEF Consume
  <2>7. Abstract!Deliver
    BY <2>1, <2>2, <2>4, <2>5, <2>6, SemaphoreAssumption DEF Abstract!Deliver
  <2> QED BY <2>7 DEF Abstract!AbsNext
<1>2. CASE WaitReady \/ CheckStatus \/ Drain \/ ClearCell \/ NextItem
  <2>1. UNCHANGED <<outcome, delivered>> /\ (caller' = "idle" <=> caller = "idle")
    BY <1>2, Facts DEF WaitReady, CheckStatus, Drain, ClearCell, NextItem, Next1, Ended
  <2> QED BY <2>1 DEF Abstract!absVars
<1> QED BY <1>1, <1>2 DEF Consumer

\* parallel_framework_semaphore.h, run() in its three modes with its threads: in the first
\* run every item is processed once and consumed in the order of generation with the value
\* its processor returned, although posts are not told apart and the consumer loses one;
\* run() returns when none is left.
THEOREM Implements ==
  ASSUME MaxRuns = 1, QueueSize > 1, FreshStatus = {"Null"}
  PROVE  Spec => ImplementsPipeline
<1>1. Init => TypeOK /\ SemInv /\ HistoryInv
  BY InitTyped, InitSem, InitHistory
<1>2. TypeOK /\ SemInv /\ HistoryInv /\ [Next]_vars => (TypeOK /\ SemInv /\ HistoryInv)'
  BY NextSem, NextHistory
<1>3. Init => Abstract!AbsInit
  BY DEF Init, Abstract!AbsInit
<1>4. TypeOK /\ SemInv /\ HistoryInv /\ [Next]_vars => [Abstract!AbsNext]_(Abstract!absVars)
  <2>1. UNCHANGED vars => UNCHANGED Abstract!absVars
    BY DEF vars, Abstract!absVars
  <2> QED BY <2>1, CallerStep, ProcessorStep, ConsumerStep DEF Next, Terminated
<1> QED BY <1>1, <1>2, <1>3, <1>4, PTL DEF Spec, ImplementsPipeline, Abstract!AbsSpec
=============================================================================
