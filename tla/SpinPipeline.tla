---------------------------- MODULE SpinPipeline ----------------------------
(***************************************************************************)
(* parallel_framework_t (threads-lib/parallel_framework.h): the threads    *)
(* share one circular queue and spin, there is no lock and no semaphore.   *)
(* Cell c belongs to class c % inc: class p < num_processor is handled by  *)
(* processor p; in mode 2 the last class is handled by the thread in run().*)
(*                                                                         *)
(* Modes of create(): 0 - a consumer thread; 1 - the thread in run()       *)
(* generates and consumes; 2 - it also processes one class, and there is   *)
(* one processor thread less.                                              *)
(*                                                                         *)
(* An action is one access to a variable that another thread uses at the   *)
(* time.  Accesses take effect in program order, as the code supposes.     *)
(***************************************************************************)
EXTENDS Integers, Sequences

CONSTANTS
  NumProcessor, BufSize,   \* the arguments of create()
  Modes,                   \* the modes create() may be called with
  Results, Pending,        \* the processors' return values; none yet
  MaxItems, MaxRuns        \* bounds: items generated, calls of run()

\* circular_queue_t::create() refuses a queue of one cell
ASSUME SpinAssumption ==
  /\ NumProcessor \in Nat \ {0} /\ BufSize \in Nat \ {0}
  /\ NumProcessor * BufSize > 1
  /\ Modes \subseteq 0 .. 2 /\ Modes # {}
  /\ 0 \in Results /\ Pending \notin Results
  /\ MaxItems \in Nat /\ MaxRuns \in Nat

ItemStatus == {"Null", "Waiting", "Ready", "Error"}
QueueSize == NumProcessor * BufSize
Cells == 0 .. QueueSize - 1
Classes == 0 .. NumProcessor - 1

VARIABLES
  status, mode,
  head, tail, item_status, array, processor_return,
  caller, generator_running,   \* the thread in run(), its flag of mode 1, 2
  processor, pos, pres, go,    \* per class: where its thread is, pos, pres, go
  consumer,                    \* where the consumer is
  runs, outcome, delivered     \* run() calls; the histories of OrderedPipeline

vars == <<status, mode, head, tail, item_status, array, processor_return,
          caller, generator_running, processor, pos, pres, go, consumer, runs,
          outcome, delivered>>

queue == <<head, tail, item_status, array, processor_return>>
callerVars == <<status, mode, caller, generator_running, runs>>
procVars == <<processor, pos, pres, go>>
history == <<outcome, delivered>>

\* num_processor: mode 2 has a thread less than create() was told
Threads == IF mode = 2 THEN 0 .. NumProcessor - 2 ELSE Classes

\* a slip: no wrap
NoWrap(c) == c + 1

Inc(c) == (c + 1) % QueueSize

IsFull == Inc(tail) = head
HasItem == head # tail

Init ==
  /\ status = "Null" /\ mode = 0 /\ head = 0 /\ tail = 0
  /\ item_status = [c \in Cells |-> "Null"]
  /\ array = [c \in Cells |-> 0]
  /\ processor_return = [c \in Cells |-> Pending]
  /\ caller = "idle" /\ generator_running = FALSE
  /\ processor = [p \in Classes |-> "done"]
  /\ pos = [p \in Classes |-> p] /\ pres = [p \in Classes |-> Pending]
  /\ go = [p \in Classes |-> FALSE]
  /\ consumer = "done"
  /\ runs = 0 /\ outcome = <<>> /\ delivered = <<>>

\* create(num_processor, buf_size, m), which may be called again
Create(m) ==
  /\ caller = "idle" /\ runs < MaxRuns
  /\ mode' = m /\ status' = "Ready"
  /\ head' = 0 /\ tail' = 0
  /\ item_status' = [c \in Cells |-> "Null"]
  /\ array' = [c \in Cells |-> 0]
  /\ processor_return' = [c \in Cells |-> Pending]
  /\ UNCHANGED <<caller, generator_running, runs, procVars, consumer, history>>

\* run(): create_threads(), then run0(), run1() or run2()
Run ==
  /\ caller = "idle" /\ status = "Ready" /\ runs < MaxRuns
  /\ runs' = runs + 1
  /\ status' = "Running"
  /\ processor' = [p \in Classes |-> IF p \in Threads THEN "start" ELSE "done"]
  /\ pos' = [p \in Classes |-> p]
  /\ go' = [p \in Classes |-> p \in Threads]
  /\ consumer' = IF mode = 0 THEN "loop" ELSE "done"
  /\ caller' = IF mode = 0 THEN "full" ELSE "loop"
  /\ generator_running' = TRUE
  /\ UNCHANGED <<mode, queue, pres, history>>

-----------------------------------------------------------------------------
(* The thread in run(). *)

\* mode 0: while (queue.is_full());
WaitFull ==
  /\ caller = "full" /\ ~IsFull
  /\ caller' = "generate"
  /\ UNCHANGED <<queue, status, mode, generator_running, runs, procVars,
                 consumer, history>>

\* modes 1 and 2: the head of the loop
Loop ==
  /\ caller = "loop"
  /\ caller' = IF generator_running /\ ~IsFull THEN "generate"
               ELSE IF generator_running \/ HasItem THEN "turn" ELSE "stop"
  /\ UNCHANGED <<queue, status, mode, generator_running, runs, procVars,
                 consumer, history>>

GenerateItem ==
  /\ caller = "generate" /\ Len(outcome) < MaxItems
  /\ array' = [array EXCEPT ![tail] = Len(outcome) + 1]
  /\ outcome' = Append(outcome, Pending)
  /\ caller' = "mark"
  /\ UNCHANGED <<head, tail, item_status, processor_return, status, mode,
                 generator_running, runs, procVars, consumer, delivered>>

\* any other value than 0 ends the generation
GenerateStop ==
  /\ caller = "generate"
  /\ generator_running' = FALSE
  /\ caller' = IF mode = 0 THEN "stop" ELSE "turn"
  /\ UNCHANGED <<queue, status, mode, runs, procVars, consumer, history>>

\* enqueue(), first half
MarkWaiting ==
  /\ caller = "mark"
  /\ item_status' = [item_status EXCEPT ![tail] = "Waiting"]
  /\ caller' = "advance"
  /\ UNCHANGED <<head, tail, array, processor_return, status, mode,
                 generator_running, runs, procVars, consumer, history>>

\* enqueue(), second half
AdvanceTail ==
  /\ caller = "advance"
  /\ tail' = Inc(tail)
  /\ caller' = IF mode = 0 THEN "full" ELSE "turn"
  /\ UNCHANGED <<head, item_status, array, processor_return, status, mode,
                 generator_running, runs, procVars, consumer, history>>

\* modes 1 and 2: if (queue.has_item()) ...
Turn ==
  LET mine == mode = 2 /\ head % NumProcessor = NumProcessor - 1 IN
  /\ caller = "turn"
  /\ IF HasItem
     THEN /\ caller' = IF mine THEN "process" ELSE "consume"
          /\ consumer' = IF mine THEN "done" ELSE "check"
     ELSE caller' = "loop" /\ UNCHANGED consumer
  /\ UNCHANGED <<queue, status, mode, generator_running, runs, procVars,
                 history>>

\* mode 2: process_one_item(queue.head, num_processor)
ProcessHead ==
  /\ caller = "process"
  /\ \E r \in Results :
       /\ item_status' =
            [item_status EXCEPT ![head] = IF r = 0 THEN "Ready" ELSE "Error"]
       /\ processor_return' = [processor_return EXCEPT ![head] = r]
       /\ outcome' = [outcome EXCEPT ![array[head]] = r]
  /\ caller' = "consume" /\ consumer' = "check"
  /\ UNCHANGED <<head, tail, array, status, mode, generator_running, runs,
                 procVars, delivered>>

\* a slip: status is not changed
StopWithoutStatus ==
  /\ caller = "stop"
  /\ caller' = "join"
  /\ UNCHANGED <<queue, status, mode, generator_running, runs, procVars,
                 consumer, history>>

\* stop(): status = Ready, then the threads are joined
Stop ==
  /\ caller = "stop"
  /\ status' = "Ready"
  /\ caller' = "join"
  /\ UNCHANGED <<queue, mode, generator_running, runs, procVars, consumer,
                 history>>

Join ==
  /\ caller = "join"
  /\ \A p \in Classes : processor[p] = "done"
  /\ consumer = "done"
  /\ caller' = "idle"
  /\ UNCHANGED <<queue, status, mode, generator_running, runs, procVars,
                 consumer, history>>

-----------------------------------------------------------------------------
(* thread_processor *)

Goto(p, label) == processor' = [processor EXCEPT ![p] = label]

\* the assertion on head, then the loop
StartProcessor(p) ==
  /\ processor[p] = "start"
  /\ Goto(p, "poll")
  /\ UNCHANGED <<queue, callerVars, pos, pres, go, consumer, history>>

\* a slip: the thread leaves as soon as it sees that the run is over
LeaveAtOnce(p) ==
  /\ processor[p] = "poll"
  /\ go' = [go EXCEPT ![p] = status = "Running"]
  /\ Goto(p, IF status = "Running" THEN "look" ELSE "done")
  /\ UNCHANGED <<queue, callerVars, pos, pres, consumer, history>>

\* the head of the loop: a last turn follows when status is not Running
PollStatus(p) ==
  /\ processor[p] = "poll"
  /\ go' = [go EXCEPT ![p] = status = "Running"]
  /\ Goto(p, "look")
  /\ UNCHANGED <<queue, callerVars, pos, pres, consumer, history>>

Look(p) ==
  /\ processor[p] = "look"
  /\ Goto(p, IF item_status[pos[p]] = "Waiting" THEN "process"
             ELSE IF go[p] THEN "poll" ELSE "done")
  /\ UNCHANGED <<queue, callerVars, pos, pres, go, consumer, history>>

\* process_one_item(): item_status is stored before processor_return
Process(p) ==
  LET c == pos[p] IN
  /\ processor[p] = "process"
  /\ \E r \in Results :
       /\ pres' = [pres EXCEPT ![p] = r]
       /\ item_status' =
            [item_status EXCEPT ![c] = IF r = 0 THEN "Ready" ELSE "Error"]
       /\ outcome' = [outcome EXCEPT ![array[c]] = r]
  /\ Goto(p, "return")
  /\ UNCHANGED <<head, tail, array, processor_return, callerVars, pos, go,
                 consumer, delivered>>

\* a slip: the processor goes on to the next cell of the queue
NextCell(p) ==
  /\ processor[p] = "return"
  /\ processor_return' = [processor_return EXCEPT ![pos[p]] = pres[p]]
  /\ pos' = [pos EXCEPT ![p] = (@ + 1) % QueueSize]
  /\ pres' = [pres EXCEPT ![p] = Pending]
  /\ Goto(p, "look")
  /\ UNCHANGED <<head, tail, item_status, array, callerVars, go,
                 consumer, history>>

\* processor_return[pos] = pres, whose scope ends; pos = (pos + inc) %
\* queue_size
StoreReturn(p) ==
  /\ processor[p] = "return"
  /\ processor_return' = [processor_return EXCEPT ![pos[p]] = pres[p]]
  /\ pos' = [pos EXCEPT ![p] = (@ + NumProcessor) % QueueSize]
  /\ pres' = [pres EXCEPT ![p] = Pending]
  /\ Goto(p, "look")
  /\ UNCHANGED <<head, tail, item_status, array, callerVars, go,
                 consumer, history>>

Processor(p) ==
  \/ StartProcessor(p) \/ PollStatus(p) \/ Look(p) \/ Process(p)
  \/ StoreReturn(p)

-----------------------------------------------------------------------------
(* thread_consumer of mode 0; in modes 1 and 2 the thread in run() does    *)
(* the steps of consume_one_item() while caller is "consume".              *)

\* the head of the loop of thread_consumer, up to its read of status
ConsumerLoop ==
  /\ consumer = "loop"
  /\ consumer' = IF status = "Running" THEN "item" ELSE "last"
  /\ UNCHANGED <<queue, callerVars, procVars, history>>

\* queue.has_item(), in the head of the loop or in the inner loop
ConsumerHasItem ==
  /\ consumer \in {"item", "last"}
  /\ consumer' = IF HasItem THEN "check"
                 ELSE IF consumer = "item" THEN "loop" ELSE "done"
  /\ UNCHANGED <<queue, callerVars, procVars, history>>

\* back to the caller's loop, or to the thread's own
Back == IF mode = 0
        THEN consumer' = "loop" /\ UNCHANGED caller
        ELSE consumer' = "done" /\ caller' = "loop"

\* a slip: whatever is at the front is consumed
TakeFront ==
  /\ consumer = "check"
  /\ consumer' = "consume"
  /\ UNCHANGED <<queue, callerVars, procVars, history>>

\* front_item_status() != Waiting
CheckFront ==
  /\ consumer = "check"
  /\ IF item_status[head] # "Waiting"
     THEN consumer' = "consume" /\ UNCHANGED caller
     ELSE Back
  /\ UNCHANGED <<queue, status, mode, generator_running, runs, procVars,
                 history>>

\* the call of the user's consumer
Consume ==
  /\ consumer = "consume"
  /\ delivered' = Append(delivered, <<array[head], processor_return[head]>>)
  /\ consumer' = "clear"
  /\ UNCHANGED <<queue, callerVars, procVars, outcome>>

\* dequeue(), first half
ClearFront ==
  /\ consumer = "clear"
  /\ item_status' = [item_status EXCEPT ![head] = "Null"]
  /\ consumer' = "dequeue"
  /\ UNCHANGED <<head, tail, array, processor_return, callerVars, procVars,
                 history>>

\* dequeue(), second half
AdvanceHead ==
  /\ consumer = "dequeue"
  /\ head' = Inc(head)
  /\ Back
  /\ UNCHANGED <<tail, item_status, array, processor_return, status, mode,
                 generator_running, runs, procVars, history>>

Consumer ==
  \/ ConsumerLoop \/ ConsumerHasItem \/ CheckFront \/ Consume \/ ClearFront
  \/ AdvanceHead

-----------------------------------------------------------------------------
Caller ==
  \/ (\E m \in Modes : Create(m)) \/ Run \/ WaitFull \/ Loop \/ GenerateItem
  \/ GenerateStop \/ MarkWaiting \/ AdvanceTail \/ Turn \/ ProcessHead
  \/ Stop \/ Join

\* nothing is left to call: the only state in which the system may stop
Terminated ==
  /\ caller = "idle" /\ runs = MaxRuns
  /\ UNCHANGED vars

Next == Caller \/ (\E p \in Classes : Processor(p)) \/ Consumer \/ Terminated

(***************************************************************************)
(* The scheduler runs every thread; the generator stops after at most      *)
(* MaxItems items.                                                         *)
(***************************************************************************)
Fairness ==
  /\ WF_vars(Caller /\ caller # "idle")
  /\ \A p \in Classes : WF_vars(Processor(p))
  /\ WF_vars(Consumer)

Spec == Init /\ [][Next]_vars

FairSpec == Spec /\ Fairness

-----------------------------------------------------------------------------
(* Properties *)

TypeOK ==
  /\ status \in {"Null", "Ready", "Running"} /\ mode \in 0 .. 2
  /\ head \in Cells /\ tail \in Cells
  /\ item_status \in [Cells -> ItemStatus]
  /\ array \in [Cells -> Nat]
  /\ processor_return \in [Cells -> Results \cup {Pending}]
  /\ caller \in {"idle", "full", "loop", "generate", "mark", "advance",
                 "turn", "process", "consume", "stop", "join"}
  /\ generator_running \in BOOLEAN
  /\ processor \in [Classes -> {"start", "poll", "look", "process", "return",
                                "done"}]
  /\ pos \in [Classes -> Cells]
  /\ pres \in [Classes -> Results \cup {Pending}]
  /\ go \in [Classes -> BOOLEAN]
  /\ consumer \in {"loop", "item", "last", "check", "consume", "clear",
                   "dequeue", "done"}
  /\ runs \in Nat
  /\ outcome \in Seq(Results \cup {Pending})
  /\ delivered \in Seq(Nat \X (Results \cup {Pending}))

(***************************************************************************)
(* A cell is in the hands of one thread: a processor that has found its    *)
(* cell Waiting works on an item that neither the consumer nor another     *)
(* processor touches, and the cell being filled is nobody else's.          *)
(***************************************************************************)
CellExclusive ==
  \A p \in Classes : processor[p] = "process" =>
    /\ item_status[pos[p]] = "Waiting"
    /\ caller = "mark" => pos[p] # tail
    /\ consumer \in {"consume", "clear", "dequeue"} => pos[p] # head
    /\ caller = "process" => pos[p] # head
    /\ \A q \in Classes \ {p} : processor[q] = "process" => pos[p] # pos[q]

(***************************************************************************)
(* assert(p_frame->queue.head <= pos) when a processor thread starts,      *)
(* however late it does: the consumer cannot have passed its first cell.   *)
(***************************************************************************)
StartAssert == \A p \in Classes : processor[p] = "start" => head <= pos[p]

\* Every call of run() returns, in every mode.
RunReturns == caller # "idle" ~> caller = "idle"

(***************************************************************************)
(* In every mode each item is processed once and handed to the consumer    *)
(* once, processed, in the order of generation: the ordered pipeline, the  *)
(* return value the consumer is shown left aside.                          *)
(***************************************************************************)
InOrder == [i \in DOMAIN delivered |->
              <<delivered[i][1], outcome[delivered[i][1]]>>]

Abstract == INSTANCE OrderedPipeline
              WITH running <- caller # "idle", Capacity <- QueueSize - 1,
                   delivered <- InOrder

ImplementsOrder == Abstract!AbsSpec

(***************************************************************************)
(* The consumer is called with the value the processor returned for the    *)
(* item.  It is not so: see StoreReturn.                                   *)
(***************************************************************************)
ReturnDelivered ==
  \A i \in DOMAIN delivered : delivered[i][2] = outcome[delivered[i][1]]
=============================================================================
