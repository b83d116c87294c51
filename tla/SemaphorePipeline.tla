------------------------- MODULE SemaphorePipeline -------------------------
(***************************************************************************)
(* parallel_framework_semaphore_t (threads-lib/                            *)
(* parallel_framework_semaphore.h): cell c belongs to processor            *)
(* c % num_processor for good, so a processor walks its own cells in order *)
(* and the consumer waits for the processor of the cell at head.           *)
(*                                                                         *)
(* Modes of run(): 0 - generator, consumer and processors are threads of   *)
(* their own; 1 - the thread in run() is generator and consumer; 2 - as 0, *)
(* but the processors poll item_status instead of waiting.                 *)
(*                                                                         *)
(* An action is one access to what other threads may touch; head belongs   *)
(* to the consumer, and tail to the generator until status is Ready, so    *)
(* they move together with the access to item_status next to them.         *)
(***************************************************************************)
EXTENDS Integers, Sequences

CONSTANTS
  NumProcessor, BufSize,   \* the arguments of create()
  Modes,                   \* the modes run() may be called with
  Results, Pending,        \* the processors' return values; none yet
  FreshStatus,             \* what new item_status_t[] may leave in a cell
  MaxItems, MaxRuns        \* bounds: items generated, calls of run()

ItemStatus == {"Null", "Waiting", "Ready", "Error"}

ASSUME SemaphoreAssumption ==
  /\ NumProcessor \in Nat \ {0} /\ BufSize \in Nat \ {0}
  /\ Modes \subseteq 0 .. 2
  /\ 0 \in Results /\ Pending \notin Results
  /\ FreshStatus \subseteq ItemStatus /\ FreshStatus # {}
  /\ MaxItems \in Nat /\ MaxRuns \in Nat

QueueSize == NumProcessor * BufSize
Procs == 0 .. NumProcessor - 1
Cells == 0 .. QueueSize - 1

VARIABLES
  status, mode,
  head, tail, item_status, array, processor_return,
  sem_ready_cell, sem_waiting_cell,   \* one of each per processor
  sem_null_cell,
  caller, woken,            \* the thread in run(), its loop variable i
  processor, pos, pres,     \* per processor thread: where it is, pos, pres
  draining,                 \* it has left its first loop
  consumer, cdraining,      \* where the consumer is, in its second loop or not
  runs, outcome, delivered

vars == <<status, mode, head, tail, item_status, array, processor_return,
          sem_ready_cell, sem_waiting_cell, sem_null_cell, caller, woken,
          processor, pos, pres, draining, consumer, cdraining, runs, outcome,
          delivered>>

queue == <<head, tail, item_status, array, processor_return>>
sems == <<sem_ready_cell, sem_waiting_cell, sem_null_cell>>
callerVars == <<status, mode, caller, woken, runs>>
procVars == <<processor, pos, pres, draining>>
consVars == <<consumer, cdraining>>
history == <<outcome, delivered>>

\* a slip: the wrap comes one cell too late
LateWrap(i) == IF i = QueueSize THEN 0 ELSE i + 1

\* ((i + 1) == queue_size) ? 0 : i + 1
Inc(i) == IF i + 1 = QueueSize THEN 0 ELSE i + 1

\* a slip: items are dealt to the processors in blocks
BlockOwner(c) == c \div BufSize

\* the processor of a cell: tail % num_processor, head % inc
Owner(c) == c % NumProcessor

\* a slip: every cell may be in flight
AllCells == QueueSize

\* what run() initialises sem_null_cell with
InitialNull == QueueSize - 1

Init ==
  /\ status = "Null" /\ mode = 0 /\ head = 0 /\ tail = 0
  /\ item_status = [c \in Cells |-> "Null"]
  /\ array = [c \in Cells |-> 0]
  /\ processor_return = [c \in Cells |-> Pending]
  /\ sem_ready_cell = [p \in Procs |-> 0]
  /\ sem_waiting_cell = [p \in Procs |-> 0]
  /\ sem_null_cell = 0
  /\ caller = "idle" /\ woken = 0
  /\ processor = [p \in Procs |-> "done"]
  /\ pos = [p \in Procs |-> p] /\ pres = [p \in Procs |-> Pending]
  /\ draining = [p \in Procs |-> FALSE]
  /\ consumer = "done" /\ cdraining = FALSE
  /\ runs = 0 /\ outcome = <<>> /\ delivered = <<>>

\* create(): the elements of the new arrays are not initialised
Create ==
  /\ caller = "idle" /\ status = "Null"
  /\ status' = "Ready"
  /\ item_status' \in [Cells -> FreshStatus]
  /\ UNCHANGED <<mode, head, tail, array, processor_return, sems, caller,
                 woken, runs, procVars, consVars, history>>

(***************************************************************************)
(* run(mode): head, tail and item_status keep what an earlier run left,    *)
(* while every processor starts again at the cell of its own number.       *)
(***************************************************************************)
Run(m) ==
  /\ caller = "idle" /\ status = "Ready" /\ runs < MaxRuns
  /\ runs' = runs + 1
  /\ mode' = m
  /\ sem_waiting_cell' = [p \in Procs |-> 0]
  /\ sem_ready_cell' = [p \in Procs |-> 0]
  /\ sem_null_cell' = InitialNull
  /\ status' = "Running"
  /\ processor' = [p \in Procs |-> IF m = 2 THEN "poll" ELSE "wait"]
  /\ pos' = [p \in Procs |-> p]
  /\ draining' = [p \in Procs |-> FALSE]
  /\ consumer' = IF m = 1 THEN "done" ELSE "wait"
  /\ cdraining' = FALSE
  /\ caller' = IF m = 1 THEN "loop" ELSE "null"
  /\ UNCHANGED <<queue, woken, pres, history>>

-----------------------------------------------------------------------------
(* The thread in run(): run0(), run1() and run2(). *)

\* sem_wait(&sem_null_cell), modes 0 and 2
WaitNull ==
  /\ caller = "null" /\ sem_null_cell > 0
  /\ sem_null_cell' = sem_null_cell - 1
  /\ caller' = "generate"
  /\ UNCHANGED <<queue, sem_ready_cell, sem_waiting_cell, status, mode, woken,
                 runs, procVars, consVars, history>>

\* mode 1: generate while the queue has room, else consume one item
TestFull ==
  /\ caller = "loop"
  /\ IF (tail + 1) % QueueSize # head
     THEN caller' = "generate" /\ UNCHANGED consumer
     ELSE caller' = "consume" /\ consumer' = "wait"
  /\ UNCHANGED <<queue, sems, status, mode, woken, runs, procVars, cdraining,
                 history>>

GenerateItem ==
  /\ caller = "generate" /\ Len(outcome) < MaxItems
  /\ array' = [array EXCEPT ![tail] = Len(outcome) + 1]
  /\ outcome' = Append(outcome, Pending)
  /\ caller' = "mark"
  /\ UNCHANGED <<head, tail, item_status, processor_return, sems, status, mode,
                 woken, runs, procVars, consVars, delivered>>

\* the generator returned another value than 0: the loop ends, status is Ready
GenerateStop ==
  /\ caller = "generate"
  /\ status' = "Ready"
  /\ woken' = 0
  /\ caller' = IF mode = 2 THEN "join" ELSE "wake"
  /\ UNCHANGED <<queue, sems, mode, runs, procVars, consVars, history>>

\* item_status[tail] = item_Waiting, and tail moves
MarkWaiting ==
  /\ caller = "mark"
  /\ item_status' = [item_status EXCEPT ![tail] = "Waiting"]
  /\ tail' = Inc(tail)
  /\ caller' = IF mode = 2 THEN "null" ELSE "post"
  /\ UNCHANGED <<head, array, processor_return, sems, status, mode, woken,
                 runs, procVars, consVars, history>>

\* sem_post of the processor of the cell just filled
PostWaiting ==
  LET filled == IF tail = 0 THEN QueueSize - 1 ELSE tail - 1 IN
  /\ caller = "post"
  /\ sem_waiting_cell' = [sem_waiting_cell EXCEPT ![Owner(filled)] = @ + 1]
  /\ caller' = IF mode = 1 THEN "loop" ELSE "null"
  /\ UNCHANGED <<queue, sem_ready_cell, sem_null_cell, status, mode, woken,
                 runs, procVars, consVars, history>>

\* one more post for each processor; then mode 1 consumes what is left
Wake ==
  /\ caller = "wake"
  /\ sem_waiting_cell' = [sem_waiting_cell EXCEPT ![woken] = @ + 1]
  /\ woken' = woken + 1
  /\ caller' = IF woken + 1 < NumProcessor THEN "wake"
               ELSE IF mode = 1 THEN "drain" ELSE "join"
  /\ UNCHANGED <<queue, sem_ready_cell, sem_null_cell, status, mode, runs,
                 procVars, consVars, history>>

\* mode 1: while (head != tail)
TestDrain ==
  /\ caller = "drain"
  /\ IF head # tail
     THEN caller' = "consume" /\ consumer' = "wait"
     ELSE caller' = "join" /\ UNCHANGED consumer
  /\ UNCHANGED <<queue, sems, status, mode, woken, runs, procVars, cdraining,
                 history>>

Join ==
  /\ caller = "join"
  /\ \A p \in Procs : processor[p] = "done"
  /\ consumer = "done"
  /\ caller' = "idle"
  /\ UNCHANGED <<queue, sems, status, mode, woken, runs, procVars, consVars,
                 history>>

-----------------------------------------------------------------------------
(* thread_processor and thread_processor_mode2 *)

Goto(p, label) == processor' = [processor EXCEPT ![p] = label]

WaitWaiting(p) ==
  /\ processor[p] = "wait" /\ sem_waiting_cell[p] > 0
  /\ sem_waiting_cell' = [sem_waiting_cell EXCEPT ![p] = @ - 1]
  /\ Goto(p, "poll")
  /\ UNCHANGED <<queue, sem_ready_cell, sem_null_cell, callerVars, pos, pres,
                 draining, consVars, history>>

\* a slip: the processor ends without a look at what it still holds
LeaveAtOnce(p) ==
  /\ processor[p] = "poll"
  /\ Goto(p, IF status # "Running" THEN "exit"
             ELSE IF mode = 2 THEN "look" ELSE "process")
  /\ UNCHANGED <<queue, sems, callerVars, pos, pres, draining, consVars,
                 history>>

\* the test of status: its first loop ends, or goes on
PollStatus(p) ==
  /\ processor[p] = "poll"
  /\ draining' = [draining EXCEPT ![p] = status # "Running"]
  /\ Goto(p, IF status # "Running" \/ mode = 2 THEN "look" ELSE "process")
  /\ UNCHANGED <<queue, sems, callerVars, pos, pres, consVars, history>>

\* while (item_status[pos] == item_Waiting)
Look(p) ==
  /\ processor[p] = "look"
  /\ Goto(p, IF item_status[pos[p]] = "Waiting" THEN "process"
             ELSE IF draining[p] THEN "exit" ELSE "poll")
  /\ UNCHANGED <<queue, sems, callerVars, pos, pres, draining, consVars,
                 history>>

\* process_one_item() up to item_status; a cell nothing was put in holds 0
Process(p) ==
  LET c == pos[p] IN
  /\ processor[p] = "process"
  /\ \E r \in Results :
       /\ pres' = [pres EXCEPT ![p] = r]
       /\ item_status' =
            [item_status EXCEPT ![c] = IF r = 0 THEN "Ready" ELSE "Error"]
       /\ outcome' = IF array[c] \in DOMAIN outcome
                     THEN [outcome EXCEPT ![array[c]] = r] ELSE outcome
  /\ Goto(p, "return")
  /\ UNCHANGED <<head, tail, array, processor_return, sems, callerVars, pos,
                 draining, consVars, delivered>>

\* processor_return[pos] = pres, then pos = (pos + inc) % queue_size
StoreReturn(p) ==
  /\ processor[p] = "return"
  /\ processor_return' = [processor_return EXCEPT ![pos[p]] = pres[p]]
  /\ pos' = [pos EXCEPT ![p] = (@ + NumProcessor) % QueueSize]
  /\ Goto(p, "post")
  /\ UNCHANGED <<head, tail, item_status, array, sems, callerVars, pres,
                 draining, consVars, history>>

PostReady(p) ==
  /\ processor[p] = "post"
  /\ sem_ready_cell' = [sem_ready_cell EXCEPT ![p] = @ + 1]
  /\ Goto(p, IF draining[p] \/ mode = 2 THEN "look" ELSE "wait")
  /\ UNCHANGED <<queue, sem_waiting_cell, sem_null_cell, callerVars, pos, pres,
                 draining, consVars, history>>

\* a slip: the consumer is not woken
ExitSilently(p) ==
  /\ processor[p] = "exit"
  /\ Goto(p, "done")
  /\ UNCHANGED <<queue, sems, callerVars, pos, pres, draining, consVars,
                 history>>

\* one more post, to wake the consumer when all is over
ExitPost(p) ==
  /\ processor[p] = "exit"
  /\ sem_ready_cell' = [sem_ready_cell EXCEPT ![p] = @ + 1]
  /\ Goto(p, "done")
  /\ UNCHANGED <<queue, sem_waiting_cell, sem_null_cell, callerVars, pos, pres,
                 draining, consVars, history>>

Processor(p) ==
  \/ WaitWaiting(p) \/ PollStatus(p) \/ Look(p) \/ Process(p)
  \/ StoreReturn(p) \/ PostReady(p) \/ ExitPost(p)

-----------------------------------------------------------------------------
(* thread_consumer; in mode 1 the thread in run() does these steps while   *)
(* caller is "consume", and returns to its own loop after each item.       *)

\* a slip: the consumer goes by the status of the cell, not the semaphore
PeekReady ==
  /\ consumer = "wait" /\ item_status[head] # "Null"
  /\ consumer' = IF mode = 1 \/ cdraining THEN "consume" ELSE "check"
  /\ UNCHANGED <<queue, sems, callerVars, procVars, cdraining, history>>

WaitReady ==
  LET p == Owner(head) IN
  /\ consumer = "wait" /\ sem_ready_cell[p] > 0
  /\ sem_ready_cell' = [sem_ready_cell EXCEPT ![p] = @ - 1]
  /\ consumer' = IF mode = 1 \/ cdraining THEN "consume" ELSE "check"
  /\ UNCHANGED <<queue, sem_waiting_cell, sem_null_cell, callerVars, procVars,
                 cdraining, history>>

\* status is not Running: the first loop ends, the post just taken is lost
CheckStatus ==
  /\ consumer = "check"
  /\ IF status # "Running"
     THEN cdraining' = TRUE /\ consumer' = "drain"
     ELSE consumer' = "consume" /\ UNCHANGED cdraining
  /\ UNCHANGED <<queue, sems, callerVars, procVars, history>>

\* while (head != tail)
Drain ==
  /\ consumer = "drain"
  /\ consumer' = IF head # tail THEN "wait" ELSE "done"
  /\ UNCHANGED <<queue, sems, callerVars, procVars, cdraining, history>>

\* consume_one_item() up to the call; a Null cell is logged and left alone
Consume ==
  /\ consumer = "consume"
  /\ IF item_status[head] = "Null"
     THEN consumer' = "next" /\ UNCHANGED delivered
     ELSE /\ delivered' = Append(delivered, <<array[head], processor_return[head]>>)
          /\ consumer' = "clear"
  /\ UNCHANGED <<queue, sems, callerVars, procVars, cdraining, outcome>>

ClearCell ==
  /\ consumer = "clear"
  /\ item_status' = [item_status EXCEPT ![head] = "Null"]
  /\ head' = Inc(head)
  /\ consumer' = "next"
  /\ UNCHANGED <<tail, array, processor_return, sems, callerVars, procVars,
                 cdraining, history>>

\* sem_post(&sem_null_cell) in the first loop; in mode 1, back to the loop
Next1 == IF status = "Running" THEN "loop" ELSE "drain"

NextItem ==
  /\ consumer = "next"
  /\ IF mode = 1
     THEN /\ consumer' = "done" /\ caller' = Next1
          /\ UNCHANGED sem_null_cell
     ELSE /\ consumer' = IF cdraining THEN "drain" ELSE "wait"
          /\ sem_null_cell' = IF cdraining THEN sem_null_cell
                              ELSE sem_null_cell + 1
          /\ UNCHANGED caller
  /\ UNCHANGED <<queue, sem_ready_cell, sem_waiting_cell, status, mode, woken,
                 runs, procVars, cdraining, history>>

Consumer ==
  \/ WaitReady \/ CheckStatus \/ Drain \/ Consume \/ ClearCell \/ NextItem

-----------------------------------------------------------------------------
Caller ==
  \/ Create \/ (\E m \in Modes : Run(m)) \/ WaitNull \/ TestFull
  \/ GenerateItem \/ GenerateStop \/ MarkWaiting \/ PostWaiting \/ Wake
  \/ TestDrain \/ Join

\* nothing is left to call: the only state in which the system may stop
Terminated ==
  /\ caller = "idle" /\ runs = MaxRuns
  /\ UNCHANGED vars

Next == Caller \/ (\E p \in Procs : Processor(p)) \/ Consumer \/ Terminated

\* the scheduler runs every thread that is not blocked
Fairness ==
  /\ WF_vars(Caller /\ caller # "idle")
  /\ \A p \in Procs : WF_vars(Processor(p))
  /\ WF_vars(Consumer)

Spec == Init /\ [][Next]_vars

FairSpec == Spec /\ Fairness

-----------------------------------------------------------------------------
(* Properties *)

TypeOK ==
  /\ status \in {"Null", "Ready", "Running"} /\ mode \in 0 .. 2
  /\ head \in Cells /\ tail \in Cells
  /\ item_status \in [Cells -> ItemStatus]
  /\ array \in [Cells -> Nat]
  /\ processor_return \in [Cells -> Results \cup {Pending}]
  /\ sem_ready_cell \in [Procs -> Nat]
  /\ sem_waiting_cell \in [Procs -> Nat]
  /\ sem_null_cell \in Nat
  /\ caller \in {"idle", "null", "loop", "generate", "mark", "post", "wake",
                 "drain", "consume", "join"}
  /\ woken \in 0 .. NumProcessor
  /\ caller = "wake" => woken < NumProcessor
  /\ processor \in [Procs -> {"wait", "poll", "look", "process", "return",
                              "post", "exit", "done"}]
  /\ pos \in [Procs -> Cells]
  /\ pres \in [Procs -> Results \cup {Pending}]
  /\ draining \in [Procs -> BOOLEAN]
  /\ consumer \in {"wait", "check", "drain", "consume", "clear", "next", "done"}
  /\ cdraining \in BOOLEAN
  /\ runs \in Nat
  /\ outcome \in Seq(Results \cup {Pending})
  /\ delivered \in Seq(Nat \X (Results \cup {Pending}))

(***************************************************************************)
(* assert(item_status[pos] == item_Waiting) in thread_processor: a         *)
(* processor woken while status is Running finds its item in its cell.     *)
(***************************************************************************)
ProcessorAssert ==
  \A p \in Procs : processor[p] = "process" => item_status[pos[p]] = "Waiting"

(***************************************************************************)
(* assert(item_status[head] != item_Waiting) in thread_consumer and run1():*)
(* the semaphores never wake the consumer before the item at head is done, *)
(* although the posts of one processor are not told apart and the consumer *)
(* loses one when status changes.                                          *)
(***************************************************************************)
ConsumerAssert == consumer = "consume" => item_status[head] # "Waiting"

\* Every call of run() returns, in every mode: no wake-up is lost at the end.
RunReturns == caller # "idle" ~> caller = "idle"

(***************************************************************************)
(* In every mode the framework implements the ordered pipeline.            *)
(***************************************************************************)
Abstract == INSTANCE OrderedPipeline
              WITH running <- caller # "idle", Capacity <- QueueSize - 1

ImplementsPipeline == Abstract!AbsSpec
=============================================================================
