--------------------------- MODULE BufferPipeline ---------------------------
(***************************************************************************)
(* parallel_framework_buffer_t (threads-lib/parallel_framework_buffer.h):  *)
(* each processor owns one buffer of BufSize spots.  The thread in run()   *)
(* fills the buffers in turn, the processor of a buffer works through it,  *)
(* and the consumer takes the buffers in the same turn.  Three semaphores  *)
(* per buffer pass it round: null -> generator -> waiting -> processor ->  *)
(* ready -> consumer -> null.                                              *)
(*                                                                         *)
(* An action is one semaphore operation, one test or store of              *)
(* buffer_status or one item.  A buffer is one queue_t: its head, tail and *)
(* spots.  The user's T is the number of the item.                         *)
(***************************************************************************)
EXTENDS Integers, Sequences

CONSTANTS
  NumProcessor, BufSize,   \* the arguments of create()
  Results, Pending,        \* the processors' return values; none yet
  FreshStatus,             \* what new buffer_status_t[] may leave
  MaxItems, MaxRuns        \* bounds: items generated, calls of run()

BufferStatus == {"Null", "Waiting", "Ready", "Error"}

ASSUME BufferAssumption ==
  /\ NumProcessor \in Nat \ {0} /\ BufSize \in Nat \ {0}
  /\ 0 \in Results /\ Pending \notin Results
  /\ FreshStatus \subseteq BufferStatus /\ FreshStatus # {}
  /\ MaxItems \in Nat /\ MaxRuns \in Nat

Procs == 0 .. NumProcessor - 1
Spots == 0 .. BufSize - 1

VARIABLES
  status,                   \* framework_status_t
  buffer_status,
  head, tail,               \* of the queue_t of each buffer
  item, processor_return,   \* its spots: queue_item_t
  sem_null, sem_waiting, sem_ready,
  caller,                   \* where the thread in run() is
  buffer_pos, gen_res,      \* its buffer_pos, and what the generator last said
  woken,                    \* its loop variable while it wakes processors
  processor,                \* where each processor thread is
  consumer, cpos,           \* where the consumer is, its buffer_pos
  runs,                     \* calls of run() so far
  outcome, delivered        \* the histories of OrderedPipeline

buffers == <<buffer_status, head, tail, item, processor_return>>
sems == <<sem_null, sem_waiting, sem_ready>>
callerVars == <<status, caller, buffer_pos, gen_res, woken, runs>>
consVars == <<consumer, cpos>>
history == <<outcome, delivered>>

vars == <<buffers, sems, callerVars, processor, consVars, history>>

\* a slip: no wrap
NoWrap(b) == b + 1

Inc(b) == (b + 1) % NumProcessor

Init ==
  /\ status = "Null"
  /\ buffer_status = [b \in Procs |-> "Null"]
  /\ head = [b \in Procs |-> 0] /\ tail = [b \in Procs |-> 0]
  /\ item = [b \in Procs |-> [s \in Spots |-> 0]]
  /\ processor_return = [b \in Procs |-> [s \in Spots |-> Pending]]
  /\ sem_null = [b \in Procs |-> 0]
  /\ sem_waiting = [b \in Procs |-> 0]
  /\ sem_ready = [b \in Procs |-> 0]
  /\ caller = "idle" /\ buffer_pos = 0 /\ gen_res = 0 /\ woken = 0
  /\ processor = [p \in Procs |-> "done"]
  /\ consumer = "done" /\ cpos = 0
  /\ runs = 0 /\ outcome = <<>> /\ delivered = <<>>

\* create(): the queues are empty, buffer_status is not initialised
Create ==
  /\ caller = "idle" /\ status = "Null"
  /\ status' = "Ready"
  /\ buffer_status' \in [Procs -> FreshStatus]
  /\ UNCHANGED <<head, tail, item, processor_return, sems, caller, buffer_pos,
                 gen_res, woken, runs, processor, consVars, history>>

\* a slip: sem_null_buffer starts with one post too many
TwoNulls == 2

\* what run() initialises each sem_null_buffer with
InitialNull == 1

\* run(): the semaphores are initialised and the threads started
Run ==
  /\ caller = "idle" /\ status = "Ready" /\ runs < MaxRuns
  /\ runs' = runs + 1
  /\ sem_null' = [b \in Procs |-> InitialNull]
  /\ sem_waiting' = [b \in Procs |-> 0]
  /\ sem_ready' = [b \in Procs |-> 0]
  /\ status' = "Running"
  /\ processor' = [p \in Procs |-> "wait"]
  /\ consumer' = "wait" /\ cpos' = 0
  /\ caller' = "null" /\ buffer_pos' = 0
  /\ UNCHANGED <<buffers, gen_res, woken, history>>

-----------------------------------------------------------------------------
(* The thread in run(). *)

\* sem_wait(sem_null_buffer + buffer_pos), then buffer.clear()
WaitNull ==
  /\ caller = "null" /\ sem_null[buffer_pos] > 0
  /\ sem_null' = [sem_null EXCEPT ![buffer_pos] = @ - 1]
  /\ head' = [head EXCEPT ![buffer_pos] = 0]
  /\ tail' = [tail EXCEPT ![buffer_pos] = 0]
  /\ caller' = "fill"
  /\ UNCHANGED <<buffer_status, item, processor_return, sem_waiting,
                 sem_ready, status, buffer_pos, gen_res, woken, runs,
                 processor, consVars, history>>

\* the generator returned 0: the item is pushed
GenerateItem ==
  LET spot == tail[buffer_pos] IN
  /\ caller = "fill" /\ spot < BufSize
  /\ Len(outcome) < MaxItems
  /\ item' = [item EXCEPT ![buffer_pos][spot] = Len(outcome) + 1]
  /\ tail' = [tail EXCEPT ![buffer_pos] = spot + 1]
  /\ outcome' = Append(outcome, Pending)
  /\ UNCHANGED <<buffer_status, head, processor_return, sems, callerVars,
                 processor, consVars, delivered>>

\* the buffer is full, or the generator returned another value
EndBuffer ==
  /\ caller = "fill"
  /\ gen_res' = IF tail[buffer_pos] < BufSize THEN 1 ELSE 0
  /\ buffer_status' = [buffer_status EXCEPT ![buffer_pos] = "Waiting"]
  /\ caller' = "post"
  /\ UNCHANGED <<head, tail, item, processor_return, sems, status, buffer_pos,
                 woken, runs, processor, consVars, history>>

\* sem_post(sem_waiting_buffer + buffer_pos), then the next buffer, or the
\* end of the loop
PostWaiting ==
  /\ caller = "post"
  /\ sem_waiting' = [sem_waiting EXCEPT ![buffer_pos] = @ + 1]
  /\ IF gen_res # 0
     THEN /\ caller' = "wake" /\ woken' = 0 /\ status' = "Ready"
          /\ UNCHANGED buffer_pos
     ELSE /\ caller' = "null" /\ buffer_pos' = Inc(buffer_pos)
          /\ UNCHANGED <<woken, status>>
  /\ UNCHANGED <<buffers, sem_null, sem_ready, gen_res, runs, processor,
                 consVars, history>>

\* one more post for each processor
Wake ==
  /\ caller = "wake"
  /\ sem_waiting' = [sem_waiting EXCEPT ![woken] = @ + 1]
  /\ woken' = woken + 1
  /\ caller' = IF woken + 1 = NumProcessor THEN "join" ELSE "wake"
  /\ UNCHANGED <<buffers, sem_null, sem_ready, status, buffer_pos, gen_res,
                 runs, processor, consVars, history>>

Join ==
  /\ caller = "join"
  /\ \A p \in Procs : processor[p] = "done"
  /\ consumer = "done"
  /\ caller' = "idle"
  /\ UNCHANGED <<buffers, sems, status, buffer_pos, gen_res, woken, runs,
                 processor, consVars, history>>

-----------------------------------------------------------------------------
(* thread_processor *)

Goto(p, label) == processor' = [processor EXCEPT ![p] = label]

WaitWaiting(p) ==
  /\ processor[p] = "wait" /\ sem_waiting[p] > 0
  /\ sem_waiting' = [sem_waiting EXCEPT ![p] = @ - 1]
  /\ Goto(p, "test")
  /\ UNCHANGED <<buffers, sem_null, sem_ready, callerVars, consVars, history>>

\* a slip: the processor does not look at its buffer when run() ends
LeaveAtOnce(p) ==
  /\ processor[p] = "test"
  /\ IF status = "Running"
     THEN head' = [head EXCEPT ![p] = 0] /\ Goto(p, "process")
     ELSE Goto(p, "exit") /\ UNCHANGED head
  /\ UNCHANGED <<buffer_status, tail, item, processor_return, sems,
                 callerVars, consVars, history>>

\* buffer_status[pid] != buffer_Waiting: break; else buffer.reset_head()
TestWaiting(p) ==
  /\ processor[p] = "test"
  /\ IF buffer_status[p] = "Waiting"
     THEN head' = [head EXCEPT ![p] = 0] /\ Goto(p, "process")
     ELSE Goto(p, "exit") /\ UNCHANGED head
  /\ UNCHANGED <<buffer_status, tail, item, processor_return, sems,
                 callerVars, consVars, history>>

\* one turn of the loop of process_one_buffer()
ProcessItem(p) ==
  /\ processor[p] = "process" /\ head[p] < tail[p]
  /\ \E r \in Results :
       /\ processor_return' = [processor_return EXCEPT ![p][head[p]] = r]
       /\ outcome' = [outcome EXCEPT ![item[p][head[p]]] = r]
  /\ head' = [head EXCEPT ![p] = @ + 1]
  /\ UNCHANGED <<buffer_status, tail, item, sems, callerVars, processor,
                 consVars, delivered>>

EndProcess(p) ==
  /\ processor[p] = "process" /\ head[p] >= tail[p]
  /\ buffer_status' = [buffer_status EXCEPT ![p] = "Ready"]
  /\ Goto(p, "post")
  /\ UNCHANGED <<head, tail, item, processor_return, sems, callerVars,
                 consVars, history>>

PostReady(p) ==
  /\ processor[p] = "post"
  /\ sem_ready' = [sem_ready EXCEPT ![p] = @ + 1]
  /\ Goto(p, "wait")
  /\ UNCHANGED <<buffers, sem_null, sem_waiting, callerVars, consVars,
                 history>>

\* a slip: the consumer is not woken at the end
ExitSilently(p) ==
  /\ processor[p] = "exit"
  /\ Goto(p, "done")
  /\ UNCHANGED <<buffers, sems, callerVars, consVars, history>>

\* one more post, to wake the consumer at the end
ExitPost(p) ==
  /\ processor[p] = "exit"
  /\ sem_ready' = [sem_ready EXCEPT ![p] = @ + 1]
  /\ Goto(p, "done")
  /\ UNCHANGED <<buffers, sem_null, sem_waiting, callerVars, consVars,
                 history>>

Processor(p) ==
  \/ WaitWaiting(p) \/ TestWaiting(p) \/ ProcessItem(p) \/ EndProcess(p)
  \/ PostReady(p) \/ ExitPost(p)

-----------------------------------------------------------------------------
(* thread_consumer *)

WaitReady ==
  /\ consumer = "wait" /\ sem_ready[cpos] > 0
  /\ sem_ready' = [sem_ready EXCEPT ![cpos] = @ - 1]
  /\ consumer' = "test"
  /\ UNCHANGED <<buffers, sem_null, sem_waiting, callerVars, processor, cpos,
                 history>>

\* a slip: the buffer is not rewound after its processor
NoRewind ==
  /\ consumer = "test"
  /\ consumer' = IF buffer_status[cpos] = "Ready" THEN "consume" ELSE "done"
  /\ UNCHANGED <<buffers, sems, callerVars, processor, cpos, history>>

\* buffer_status[buffer_pos] != buffer_Ready: break; else reset_head()
TestReady ==
  /\ consumer = "test"
  /\ IF buffer_status[cpos] = "Ready"
     THEN head' = [head EXCEPT ![cpos] = 0] /\ consumer' = "consume"
     ELSE consumer' = "done" /\ UNCHANGED head
  /\ UNCHANGED <<buffer_status, tail, item, processor_return, sems,
                 callerVars, processor, cpos, history>>

\* one turn of the loop of consume_one_buffer()
ConsumeItem ==
  /\ consumer = "consume" /\ head[cpos] < tail[cpos]
  /\ delivered' = Append(delivered, <<item[cpos][head[cpos]],
                                      processor_return[cpos][head[cpos]]>>)
  /\ head' = [head EXCEPT ![cpos] = @ + 1]
  /\ UNCHANGED <<buffer_status, tail, item, processor_return, sems,
                 callerVars, processor, consVars, outcome>>

EndConsume ==
  /\ consumer = "consume" /\ head[cpos] >= tail[cpos]
  /\ buffer_status' = [buffer_status EXCEPT ![cpos] = "Null"]
  /\ consumer' = "post"
  /\ UNCHANGED <<head, tail, item, processor_return, sems, callerVars,
                 processor, cpos, history>>

\* sem_post(sem_null_buffer + buffer_pos), then the next buffer
PostNull ==
  /\ consumer = "post"
  /\ sem_null' = [sem_null EXCEPT ![cpos] = @ + 1]
  /\ cpos' = Inc(cpos)
  /\ consumer' = "wait"
  /\ UNCHANGED <<buffers, sem_waiting, sem_ready, callerVars, processor,
                 history>>

Consumer == WaitReady \/ TestReady \/ ConsumeItem \/ EndConsume \/ PostNull

-----------------------------------------------------------------------------
Caller ==
  \/ Create \/ Run \/ WaitNull \/ GenerateItem \/ EndBuffer \/ PostWaiting
  \/ Wake \/ Join

\* nothing is left to call: the only state in which the system may stop
Terminated ==
  /\ caller = "idle" /\ runs = MaxRuns
  /\ UNCHANGED vars

Next == Caller \/ (\E p \in Procs : Processor(p)) \/ Consumer \/ Terminated

\* the scheduler runs every thread that is not blocked
Fairness ==
  /\ WF_vars(Caller /\ caller # "idle")
  /\ \A p \in Procs : WF_vars(Processor(p))
  /\ WF_vars(Consumer)

Spec == Init /\ [][Next]_vars

FairSpec == Spec /\ Fairness

-----------------------------------------------------------------------------
(* Properties *)

TypeOK ==
  /\ status \in {"Null", "Ready", "Running"}
  /\ buffer_status \in [Procs -> BufferStatus]
  /\ head \in [Procs -> 0 .. BufSize] /\ tail \in [Procs -> 0 .. BufSize]
  /\ item \in [Procs -> [Spots -> Nat]]
  /\ processor_return \in [Procs -> [Spots -> Results \cup {Pending}]]
  /\ sem_null \in [Procs -> Nat] /\ sem_waiting \in [Procs -> Nat]
  /\ sem_ready \in [Procs -> Nat]
  /\ caller \in {"idle", "null", "fill", "post", "wake", "join"}
  /\ buffer_pos \in Procs /\ gen_res \in {0, 1}
  /\ woken \in 0 .. NumProcessor
  /\ caller = "wake" => woken < NumProcessor
  /\ processor \in [Procs -> {"wait", "test", "process", "post", "exit",
                              "done"}]
  /\ consumer \in {"wait", "test", "consume", "post", "done"}
  /\ cpos \in Procs
  /\ runs \in Nat
  /\ outcome \in Seq(Results \cup {Pending})
  /\ delivered \in Seq(Nat \X (Results \cup {Pending}))

(***************************************************************************)
(* A buffer is in one thread's hands at a time: the generator filling it,  *)
(* its processor and the consumer are never inside the same queue_t.  The  *)
(* buffers have no lock: only the three semaphores keep the threads apart. *)
(***************************************************************************)
Filling(b) == caller \in {"fill", "post"} /\ buffer_pos = b
Processing(b) == processor[b] \in {"process", "post"}
Consuming(b) == consumer \in {"consume", "post"} /\ cpos = b

BufferExclusive ==
  \A b \in Procs :
    /\ ~(Filling(b) /\ Processing(b))
    /\ ~(Filling(b) /\ Consuming(b))
    /\ ~(Processing(b) /\ Consuming(b))

(***************************************************************************)
(* When run() has returned every buffer is free again, so that the         *)
(* framework can be run a second time although run() resets no buffer.     *)
(***************************************************************************)
CleanWhenIdle ==
  caller = "idle" => \A b \in Procs : buffer_status[b] = "Null"

(***************************************************************************)
(* Why the semaphores suffice.  Of the posts of one buffer, one travels    *)
(* round with the buffer, and its status says where it is; beside it there *)
(* are only the post that wakes the processor at the end and the post with *)
(* which the processor then wakes the consumer.                            *)
(***************************************************************************)
One(cond) == IF cond THEN 1 ELSE 0

Woken(b) == caller = "join" \/ (caller = "wake" /\ b < woken)
Left(b) == processor[b] \in {"exit", "done"}

\* posts of sem_waiting[b] not yet acted upon, and the last one among them
WaitingPosts(b) == sem_waiting[b] + One(processor[b] = "test")
WakePost(b) == One(Woken(b) /\ ~Left(b))

\* posts of sem_ready[b] not yet acted upon, and the last one among them
ReadyPosts(b) == sem_ready[b] + One(consumer \in {"test", "done"} /\ cpos = b)
FinalPost(b) == One(processor[b] = "done")

NullTurn(b) ==
  /\ buffer_status[b] = "Null"
  /\ sem_null[b] + One(caller = "fill" /\ buffer_pos = b)
                 + One(consumer = "post" /\ cpos = b) = 1
  /\ ~(caller = "post" /\ buffer_pos = b)
  /\ ~Processing(b)
  /\ ~(consumer = "consume" /\ cpos = b)
  /\ WaitingPosts(b) = WakePost(b)
  /\ ReadyPosts(b) = FinalPost(b)

WaitingTurn(b) ==
  /\ buffer_status[b] = "Waiting"
  /\ sem_null[b] = 0
  /\ ~(caller = "fill" /\ buffer_pos = b)
  /\ One(caller = "post" /\ buffer_pos = b) + One(processor[b] = "process")
       + WaitingPosts(b) = 1 + WakePost(b)
  /\ caller = "post" /\ buffer_pos = b => processor[b] # "process"
  /\ processor[b] # "post" /\ ~Left(b)
  /\ ~Consuming(b)
  /\ ReadyPosts(b) = FinalPost(b)

ReadyTurn(b) ==
  /\ buffer_status[b] = "Ready"
  /\ sem_null[b] = 0
  /\ ~Filling(b)
  /\ processor[b] # "process"
  /\ WaitingPosts(b) = WakePost(b)
  /\ ~(consumer = "post" /\ cpos = b)
  /\ One(processor[b] = "post") + One(consumer = "consume" /\ cpos = b)
       + ReadyPosts(b) = 1 + FinalPost(b)
  /\ consumer = "consume" /\ cpos = b => processor[b] # "post"

Turn(b) ==
  /\ NullTurn(b) \/ WaitingTurn(b) \/ ReadyTurn(b)
  /\ Left(b) => Woken(b)

(***************************************************************************)
(* The buffers in use are those from the consumer's to the generator's.    *)
(***************************************************************************)
GenPos == IF caller \in {"post", "wake", "join"} THEN Inc(buffer_pos)
          ELSE buffer_pos
ConsPos == IF consumer = "post" THEN Inc(cpos) ELSE cpos

InUse(b) == buffer_status[b] # "Null"

Round ==
  \/ /\ ConsPos < GenPos
     /\ \A b \in Procs : InUse(b) <=> ConsPos <= b /\ b < GenPos
  \/ /\ ConsPos > GenPos
     /\ \A b \in Procs : InUse(b) <=> ConsPos <= b \/ b < GenPos
  \/ /\ ConsPos = GenPos
     /\ (\A b \in Procs : InUse(b)) \/ (\A b \in Procs : ~InUse(b))

\* the inductive invariant: while run() is going on, and between its calls
Going ==
  /\ \A b \in Procs : Turn(b)
  /\ Round
  /\ consumer = "done" => ~InUse(cpos)

Still ==
  /\ \A b \in Procs : ~InUse(b) /\ processor[b] = "done"
  /\ consumer = "done"

IndInv == TypeOK /\ IF caller = "idle" THEN Still ELSE Going

(***************************************************************************)
(* Every call of run() returns, whatever the number of items and wherever  *)
(* in a buffer the generator stops.                                        *)
(***************************************************************************)
RunReturns == caller # "idle" ~> caller = "idle"

(***************************************************************************)
(* The framework implements the ordered pipeline; all the spots may be     *)
(* filled.                                                                 *)
(***************************************************************************)
Abstract == INSTANCE OrderedPipeline
              WITH running <- caller # "idle",
                   Capacity <- NumProcessor * BufSize

ImplementsPipeline == Abstract!AbsSpec
=============================================================================
