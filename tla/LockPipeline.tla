---------------------------- MODULE LockPipeline ----------------------------
(***************************************************************************)
(* parallel_framework_lock_t (threads-lib/parallel_framework_lock.h): one  *)
(* queue of cells, processors that take the next cell under a mutex, and a *)
(* consumer that waits on one semaphore per cell.                          *)
(*                                                                         *)
(* The thread that calls run() is the generator.  An action is one access  *)
(* to shared state (a semaphore operation, the mutex, a cell, head, tail); *)
(* each thread has a program counter.  The user's T is the number of the   *)
(* item, counted over the life of the framework.                           *)
(***************************************************************************)
EXTENDS Integers, Sequences

CONSTANTS
  NumProcessor, BufSize,   \* the arguments of create()
  Results,                 \* what the user's processor may return
  Pending,                 \* not a result: nothing was returned yet
  FreshStatus,             \* what new item_status_t[] may leave in a cell
  MaxItems, MaxRuns        \* bounds: items generated, calls of run()

ItemStatus == {"Null", "Waiting", "Ready", "Error"}

ASSUME LockAssumption ==
  /\ NumProcessor \in Nat \ {0} /\ BufSize \in Nat \ {0}
  /\ 0 \in Results /\ Pending \notin Results
  /\ FreshStatus \subseteq ItemStatus /\ FreshStatus # {}
  /\ MaxItems \in Nat /\ MaxRuns \in Nat

QueueSize == NumProcessor * BufSize
Procs == 0 .. NumProcessor - 1
Cells == 0 .. QueueSize - 1
NoProc == -1

\* a slip: every cell may be in flight
AllCells == QueueSize

\* what run() initialises sem_null_cell with
InitialNull == QueueSize - 1

VARIABLES
  status,            \* framework_status_t
  head, tail,        \* the cells dequeued and filled next
  item_status,       \* the status of each cell
  array,             \* the item in each cell, 0 when none was put there
  processor_return,  \* the processor's return value, per cell
  sem_ready_cell,    \* one semaphore per cell
  sem_waiting_cell, sem_null_cell,
  dequeue_mutex,     \* the processor that holds the mutex, or NoProc
  caller,            \* where the thread in run() is
  woken,             \* its loop variable i while it wakes the processors
  processor, pos, pres,  \* per processor thread: where it is, pos, pres
  consumer, cpos,    \* where the consumer thread is, and its pos
  runs,              \* calls of run() so far
  outcome, delivered \* the histories of OrderedPipeline

vars == <<status, head, tail, item_status, array, processor_return,
          sem_ready_cell, sem_waiting_cell, sem_null_cell, dequeue_mutex,
          caller, woken, processor, pos, pres, consumer, cpos, runs,
          outcome, delivered>>

queue == <<head, tail, item_status, array, processor_return>>
sems == <<sem_ready_cell, sem_waiting_cell, sem_null_cell>>
callerVars == <<status, caller, woken, runs>>
procVars == <<processor, pos, pres, dequeue_mutex>>
consVars == <<consumer, cpos>>
history == <<outcome, delivered>>

\* a slip: the wrap comes one cell too late
LateWrap(i) == IF i = QueueSize THEN 0 ELSE i + 1

\* ((i + 1) == queue_size) ? 0 : i + 1
Inc(i) == IF i + 1 = QueueSize THEN 0 ELSE i + 1

Init ==
  /\ status = "Null" /\ head = 0 /\ tail = 0
  /\ item_status = [c \in Cells |-> "Null"]
  /\ array = [c \in Cells |-> 0]
  /\ processor_return = [c \in Cells |-> Pending]
  /\ sem_ready_cell = [c \in Cells |-> 0]
  /\ sem_waiting_cell = 0 /\ sem_null_cell = 0
  /\ dequeue_mutex = NoProc
  /\ caller = "idle" /\ woken = 0
  /\ processor = [p \in Procs |-> "done"]
  /\ pos = [p \in Procs |-> 0] /\ pres = [p \in Procs |-> Pending]
  /\ consumer = "done" /\ cpos = 0
  /\ runs = 0 /\ outcome = <<>> /\ delivered = <<>>

(***************************************************************************)
(* create(): the arrays are allocated, their elements are not initialised. *)
(***************************************************************************)
Create ==
  /\ caller = "idle" /\ status = "Null"
  /\ status' = "Ready"
  /\ item_status' \in [Cells -> FreshStatus]
  /\ UNCHANGED <<head, tail, array, processor_return, sems, caller, woken,
                 runs, procVars, consVars, history>>

(***************************************************************************)
(* run(): initialise the semaphores and the mutex and start the threads.   *)
(* head, tail and item_status keep what an earlier run left in them.       *)
(***************************************************************************)
Run ==
  /\ caller = "idle" /\ status = "Ready" /\ runs < MaxRuns
  /\ runs' = runs + 1
  /\ dequeue_mutex' = NoProc
  /\ sem_ready_cell' = [c \in Cells |-> 0]
  /\ sem_waiting_cell' = 0
  /\ sem_null_cell' = InitialNull
  /\ status' = "Running"
  /\ processor' = [p \in Procs |-> "wait"]
  /\ consumer' = "wait" /\ cpos' = 0
  /\ caller' = "null"
  /\ UNCHANGED <<queue, woken, pos, pres, history>>

-----------------------------------------------------------------------------
(* The thread in run(). *)

WaitNull ==
  /\ caller = "null" /\ sem_null_cell > 0
  /\ sem_null_cell' = sem_null_cell - 1
  /\ caller' = "generate"
  /\ UNCHANGED <<queue, sem_ready_cell, sem_waiting_cell, status, woken, runs,
                 procVars, consVars, history>>

\* generate_one_item() returned 0: array[tail] holds a new item
GenerateItem ==
  /\ caller = "generate" /\ Len(outcome) < MaxItems
  /\ array' = [array EXCEPT ![tail] = Len(outcome) + 1]
  /\ outcome' = Append(outcome, Pending)
  /\ caller' = "mark"
  /\ UNCHANGED <<head, tail, item_status, processor_return, sems, status,
                 woken, runs, procVars, consVars, delivered>>

\* a slip: the end of the run is not published
StopWithoutStatus ==
  /\ caller = "generate"
  /\ woken' = 0
  /\ caller' = "wake"
  /\ UNCHANGED <<queue, sems, status, runs, procVars, consVars, history>>

\* it returned another value: the loop ends
GenerateStop ==
  /\ caller = "generate"
  /\ status' = "Ready"
  /\ woken' = 0
  /\ caller' = "wake"
  /\ UNCHANGED <<queue, sems, runs, procVars, consVars, history>>

MarkWaiting ==
  /\ caller = "mark"
  /\ item_status' = [item_status EXCEPT ![tail] = "Waiting"]
  /\ caller' = "advance"
  /\ UNCHANGED <<head, tail, array, processor_return, sems, status, woken,
                 runs, procVars, consVars, history>>

AdvanceTail ==
  /\ caller = "advance"
  /\ tail' = Inc(tail)
  /\ caller' = "post"
  /\ UNCHANGED <<head, item_status, array, processor_return, sems, status,
                 woken, runs, procVars, consVars, history>>

PostWaiting ==
  /\ caller = "post"
  /\ sem_waiting_cell' = sem_waiting_cell + 1
  /\ caller' = "null"
  /\ UNCHANGED <<queue, sem_ready_cell, sem_null_cell, status, woken, runs,
                 procVars, consVars, history>>

\* a slip: one post for all the processors
WakeOne ==
  /\ caller = "wake"
  /\ sem_waiting_cell' = sem_waiting_cell + 1
  /\ caller' = "join"
  /\ UNCHANGED <<queue, sem_ready_cell, sem_null_cell, status, woken, runs,
                 procVars, consVars, history>>

\* one more post of sem_waiting_cell for each processor
Wake ==
  /\ caller = "wake"
  /\ sem_waiting_cell' = sem_waiting_cell + 1
  /\ woken' = woken + 1
  /\ caller' = IF woken + 1 = NumProcessor THEN "join" ELSE "wake"
  /\ UNCHANGED <<queue, sem_ready_cell, sem_null_cell, status, runs,
                 procVars, consVars, history>>

\* pthread_join of every thread, then run() returns 0
Join ==
  /\ caller = "join"
  /\ \A p \in Procs : processor[p] = "done"
  /\ consumer = "done"
  /\ caller' = "idle"
  /\ UNCHANGED <<queue, sems, status, woken, runs, procVars, consVars, history>>

-----------------------------------------------------------------------------
(* thread_processor *)

Goto(p, label) == processor' = [processor EXCEPT ![p] = label]

WaitWaiting(p) ==
  /\ processor[p] = "wait" /\ sem_waiting_cell > 0
  /\ sem_waiting_cell' = sem_waiting_cell - 1
  /\ Goto(p, "lock")
  /\ UNCHANGED <<queue, sem_ready_cell, sem_null_cell, callerVars, pos, pres,
                 dequeue_mutex, consVars, history>>

\* a slip: the mutex is not taken
NoLock(p) ==
  /\ processor[p] = "lock"
  /\ Goto(p, "dequeue")
  /\ UNCHANGED <<queue, sems, callerVars, pos, pres, dequeue_mutex, consVars,
                 history>>

Lock(p) ==
  /\ processor[p] = "lock" /\ dequeue_mutex = NoProc
  /\ dequeue_mutex' = p
  /\ Goto(p, "dequeue")
  /\ UNCHANGED <<queue, sems, callerVars, pos, pres, consVars, history>>

\* mutex_dequeue(): ret = head, then the test of head == tail
DequeueRead(p) ==
  /\ processor[p] = "dequeue"
  /\ pos' = [pos EXCEPT ![p] = IF head = tail THEN -1 ELSE head]
  /\ Goto(p, "unlock")
  /\ UNCHANGED <<queue, sems, callerVars, pres, dequeue_mutex, consVars,
                 history>>

\* the rest of it: head moves past the cell, the mutex is released
Unlock(p) ==
  /\ processor[p] = "unlock"
  /\ head' = IF pos[p] = -1 THEN head ELSE Inc(head)
  /\ dequeue_mutex' = NoProc
  /\ Goto(p, IF pos[p] = -1 THEN "exit" ELSE "process")
  /\ UNCHANGED <<tail, item_status, array, processor_return, sems, callerVars,
                 pos, pres, consVars, history>>

\* process_one_item() up to item_status; a cell nothing was put in holds 0,
\* and has no outcome to record
Process(p) ==
  LET c == pos[p] IN
  /\ processor[p] = "process"
  /\ \E r \in Results :
       /\ pres' = [pres EXCEPT ![p] = r]
       /\ item_status' =
            [item_status EXCEPT ![c] = IF r = 0 THEN "Ready" ELSE "Error"]
       /\ outcome' = IF array[c] \in DOMAIN outcome
                     THEN [outcome EXCEPT ![array[c]] = r] ELSE outcome
  /\ Goto(p, "return")
  /\ UNCHANGED <<head, tail, array, processor_return, sems, callerVars, pos,
                 dequeue_mutex, consVars, delivered>>

StoreReturn(p) ==
  /\ processor[p] = "return"
  /\ processor_return' = [processor_return EXCEPT ![pos[p]] = pres[p]]
  /\ Goto(p, "post")
  /\ UNCHANGED <<head, tail, item_status, array, sems, callerVars, pos, pres,
                 dequeue_mutex, consVars, history>>

PostReady(p) ==
  /\ processor[p] = "post"
  /\ sem_ready_cell' = [sem_ready_cell EXCEPT ![pos[p]] = @ + 1]
  /\ Goto(p, "wait")
  /\ UNCHANGED <<queue, sem_waiting_cell, sem_null_cell, callerVars, pos, pres,
                 dequeue_mutex, consVars, history>>

\* the queue was empty: wake the consumer at the cell after the last item
ExitPost(p) ==
  /\ processor[p] = "exit"
  /\ sem_ready_cell' = [sem_ready_cell EXCEPT ![head] = @ + 1]
  /\ Goto(p, "done")
  /\ UNCHANGED <<queue, sem_waiting_cell, sem_null_cell, callerVars, pos, pres,
                 dequeue_mutex, consVars, history>>

Processor(p) ==
  \/ WaitWaiting(p) \/ Lock(p) \/ DequeueRead(p) \/ Unlock(p) \/ Process(p)
  \/ StoreReturn(p) \/ PostReady(p) \/ ExitPost(p)

-----------------------------------------------------------------------------
(* thread_consumer *)

WaitReady ==
  /\ consumer = "wait" /\ sem_ready_cell[cpos] > 0
  /\ sem_ready_cell' = [sem_ready_cell EXCEPT ![cpos] = @ - 1]
  /\ consumer' = "check"
  /\ UNCHANGED <<queue, sem_waiting_cell, sem_null_cell, callerVars, procVars,
                 cpos, history>>

\* a Null cell ends the thread, and so does a Waiting one, which is logged
CheckCell ==
  /\ consumer = "check"
  /\ consumer' =
       IF item_status[cpos] \in {"Null", "Waiting"} THEN "done" ELSE "consume"
  /\ UNCHANGED <<queue, sems, callerVars, procVars, cpos, history>>

\* consume_one_item(): the call of the user's consumer
Consume ==
  /\ consumer = "consume"
  /\ delivered' = Append(delivered, <<array[cpos], processor_return[cpos]>>)
  /\ consumer' = "clear"
  /\ UNCHANGED <<queue, sems, callerVars, procVars, cpos, outcome>>

ClearCell ==
  /\ consumer = "clear"
  /\ item_status' = [item_status EXCEPT ![cpos] = "Null"]
  /\ consumer' = "post"
  /\ UNCHANGED <<head, tail, array, processor_return, sems, callerVars,
                 procVars, cpos, history>>

\* sem_post(&sem_null_cell), then pos moves on
PostNull ==
  /\ consumer = "post"
  /\ sem_null_cell' = sem_null_cell + 1
  /\ cpos' = Inc(cpos)
  /\ consumer' = "wait"
  /\ UNCHANGED <<queue, sem_ready_cell, sem_waiting_cell, callerVars, procVars,
                 history>>

Consumer == WaitReady \/ CheckCell \/ Consume \/ ClearCell \/ PostNull

-----------------------------------------------------------------------------
Caller ==
  \/ Create \/ Run \/ WaitNull \/ GenerateItem \/ GenerateStop \/ MarkWaiting
  \/ AdvanceTail \/ PostWaiting \/ Wake \/ Join

\* nothing is left to call: the only state in which the system may stop
Terminated ==
  /\ caller = "idle" /\ runs = MaxRuns
  /\ UNCHANGED vars

Next == Caller \/ (\E p \in Procs : Processor(p)) \/ Consumer \/ Terminated

(***************************************************************************)
(* The scheduler runs every thread that is not blocked; the user may stop  *)
(* calling run(), but a call once begun is executed, and the generator     *)
(* stops after at most MaxItems items.                                     *)
(***************************************************************************)
Fairness ==
  /\ WF_vars(Caller /\ caller # "idle")
  /\ \A p \in Procs : WF_vars(Processor(p))
  /\ WF_vars(Consumer)

Spec == Init /\ [][Next]_vars

FairSpec == Spec /\ Fairness

-----------------------------------------------------------------------------
(* Properties *)

TypeOK ==
  /\ status \in {"Null", "Ready", "Running"}
  /\ head \in Cells /\ tail \in Cells
  /\ item_status \in [Cells -> ItemStatus]
  /\ array \in [Cells -> Nat]
  /\ processor_return \in [Cells -> Results \cup {Pending}]
  /\ sem_ready_cell \in [Cells -> Nat]
  /\ sem_waiting_cell \in Nat /\ sem_null_cell \in Nat
  /\ dequeue_mutex \in Procs \cup {NoProc}
  /\ caller \in {"idle", "null", "generate", "mark", "advance", "post", "wake",
                 "join"}
  /\ woken \in Nat
  /\ processor \in [Procs -> {"wait", "lock", "dequeue", "unlock", "process",
                              "return", "post", "exit", "done"}]
  /\ pos \in [Procs -> Cells \cup {-1}]
  /\ \A p \in Procs : processor[p] \in {"process", "return", "post"}
                        => pos[p] \in Cells
  /\ pres \in [Procs -> Results \cup {Pending}]
  /\ consumer \in {"wait", "check", "consume", "clear", "post", "done"}
  /\ cpos \in Cells
  /\ runs \in Nat
  /\ outcome \in Seq(Results \cup {Pending})
  /\ delivered \in Seq(Nat \X (Results \cup {Pending}))

(***************************************************************************)
(* No two threads are inside one cell: not the generator filling the cell  *)
(* at tail, a processor in process_one_item() and the consumer in          *)
(* consume_one_item().  Nothing but the semaphores protects array,         *)
(* item_status and processor_return.                                       *)
(***************************************************************************)
Working(p) == processor[p] \in {"process", "return", "post"}
Filling == caller \in {"mark", "advance"}
Consuming == consumer \in {"consume", "clear", "post"}

CellExclusive ==
  /\ \A p, q \in Procs : p # q /\ Working(p) /\ Working(q) => pos[p] # pos[q]
  /\ Filling => \A p \in Procs : Working(p) => pos[p] # tail
  /\ Consuming => \A p \in Procs : Working(p) => pos[p] # cpos
  /\ Filling /\ Consuming => tail # cpos

(***************************************************************************)
(* The FATAL message of mutex_dequeue() is never logged: a processor finds *)
(* the queue empty only after the generator has stopped.                   *)
(***************************************************************************)
NoEmptyDequeueWhileRunning ==
  \A p \in Procs : processor[p] = "dequeue" /\ head = tail
                     => status # "Running"

(***************************************************************************)
(* Every call of run() returns: no lost wake-up leaves a processor or the  *)
(* consumer blocked, whatever the number of items.                         *)
(***************************************************************************)
RunReturns == caller # "idle" ~> caller = "idle"

(***************************************************************************)
(* The framework implements the ordered pipeline.                          *)
(***************************************************************************)
Abstract == INSTANCE OrderedPipeline
              WITH running <- caller # "idle", Capacity <- QueueSize - 1

ImplementsPipeline == Abstract!AbsSpec
=============================================================================
