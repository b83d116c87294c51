------------------------ MODULE BufferPipelineProofs ------------------------
(***************************************************************************)
(* Proofs about BufferPipeline, for any number of processors, any buffer   *)
(* size and any number of items and runs.                                  *)
(***************************************************************************)
EXTENDS BufferPipeline, SequenceTheorems, TLAPS

\* The step to the next buffer stays among the buffers, and says where it goes.
LEMMA IncValue ==
  ASSUME NEW b \in Procs
  PROVE  Inc(b) = IF b + 1 = NumProcessor THEN 0 ELSE b + 1
<1>1. NumProcessor \in Nat \ {0} /\ b \in Int /\ 0 <= b /\ b < NumProcessor
  BY BufferAssumption DEF Procs
<1>2. CASE b + 1 = NumProcessor
  <2>1. (b + 1) % NumProcessor = 0
    BY <1>1, <1>2
  <2> QED BY <2>1, <1>2 DEF Inc
<1>3. CASE b + 1 # NumProcessor
  <2>1. (b + 1) % NumProcessor = b + 1
    BY <1>1, <1>3
  <2> QED BY <2>1, <1>3 DEF Inc
<1> QED BY <1>2, <1>3

LEMMA IncInProcs ==
  ASSUME NEW b \in Procs
  PROVE  Inc(b) \in Procs
BY IncValue, BufferAssumption DEF Procs

\* Setting one place of a sequence, inside its domain or not, leaves a sequence.
LEMMA PlaceSet ==
  ASSUME NEW S, NEW s \in Seq(S), NEW i, NEW x \in S
  PROVE  [s EXCEPT ![i] = x] \in Seq(S)
<1>1. PICK n \in Nat : s \in [1 .. n -> S]
  BY SeqDef
<1>2. [s EXCEPT ![i] = x] \in [1 .. n -> S]
  BY <1>1
<1> QED BY <1>2, SeqDef

\* A semaphore posted, and a semaphore above zero taken, stays a natural number.
LEMMA Posted ==
  ASSUME NEW S, NEW sem \in [S -> Nat], NEW x \in S
  PROVE  [sem EXCEPT ![x] = @ + 1] \in [S -> Nat]
OBVIOUS

LEMMA Taken ==
  ASSUME NEW S, NEW sem \in [S -> Nat], NEW x \in S, sem[x] > 0
  PROVE  [sem EXCEPT ![x] = @ - 1] \in [S -> Nat]
OBVIOUS

\* A position inside a queue_t: below its tail it is a spot, and may move on.
LEMMA Inside ==
  ASSUME TypeOK, NEW b \in Procs, head[b] < tail[b]
  PROVE  head[b] \in Spots /\ head[b] + 1 \in 0 .. BufSize
<1>1. head[b] \in 0 .. BufSize /\ tail[b] \in 0 .. BufSize
  BY DEF TypeOK
<1> QED BY <1>1, BufferAssumption DEF Spots

-----------------------------------------------------------------------------
(* Type correctness. *)

\* The initial state is typed.
LEMMA InitTyped == Init => TypeOK
BY BufferAssumption DEF Init, TypeOK, Procs, Spots, BufferStatus

\* The steps of the thread in run() keep the types.
LEMMA CallerTyped ==
  ASSUME TypeOK, Caller
  PROVE  TypeOK'
<1> USE BufferAssumption
<1>1. CASE Create
  BY <1>1 DEF TypeOK, Create, sems, consVars, history
<1>2. CASE Run
  BY <1>2 DEF TypeOK, Run, InitialNull, buffers, history, Procs
<1>3. CASE WaitNull
  <2>1. sem_null' \in [Procs -> Nat]
    BY <1>3, Taken DEF TypeOK, WaitNull
  <2>2. head' \in [Procs -> 0 .. BufSize] /\ tail' \in [Procs -> 0 .. BufSize]
    BY <1>3 DEF TypeOK, WaitNull
  <2> QED BY <1>3, <2>1, <2>2 DEF TypeOK, WaitNull, consVars, history
<1>4. CASE GenerateItem
  <2>1. outcome' \in Seq(Results \cup {Pending})
    BY <1>4 DEF TypeOK, GenerateItem
  <2>2. Len(outcome) + 1 \in Nat
    BY DEF TypeOK
  <2>5. buffer_pos \in Procs /\ tail \in [Procs -> 0 .. BufSize]
    BY DEF TypeOK
  <2>6. tail[buffer_pos] < BufSize
        /\ tail' = [tail EXCEPT ![buffer_pos] = tail[buffer_pos] + 1]
    BY <1>4 DEF GenerateItem
  <2>7. tail[buffer_pos] \in Spots /\ tail[buffer_pos] + 1 \in 0 .. BufSize
    BY <2>5, <2>6 DEF Spots
  <2>3. item' \in [Procs -> [Spots -> Nat]]
    BY <1>4, <2>2, <2>7 DEF TypeOK, GenerateItem
  <2>4. tail' \in [Procs -> 0 .. BufSize]
    BY <2>5, <2>6, <2>7
  <2> QED BY <1>4, <2>1, <2>3, <2>4
      DEF TypeOK, GenerateItem, sems, callerVars, consVars
<1>5. CASE EndBuffer
  BY <1>5 DEF TypeOK, EndBuffer, sems, consVars, history, BufferStatus
<1>6. CASE PostWaiting
  <2>1. Inc(buffer_pos) \in Procs
    BY IncInProcs DEF TypeOK
  <2>2. sem_waiting' \in [Procs -> Nat]
    BY <1>6, Posted DEF TypeOK, PostWaiting
  <2>3. woken' \in 0 .. NumProcessor /\ (caller' = "wake" => woken' < NumProcessor)
    BY <1>6 DEF TypeOK, PostWaiting
  <2> QED BY <1>6, <2>1, <2>2, <2>3
      DEF TypeOK, PostWaiting, buffers, consVars, history
<1>7. CASE Wake
  <2>1. woken \in Procs
    BY <1>7 DEF TypeOK, Wake, Procs
  <2>2. sem_waiting' \in [Procs -> Nat]
    BY <1>7, <2>1, Posted DEF TypeOK, Wake
  <2>3. woken' \in 0 .. NumProcessor /\ (caller' = "wake" => woken' < NumProcessor)
    BY <1>7, <2>1 DEF Wake, Procs
  <2> QED BY <1>7, <2>2, <2>3 DEF TypeOK, Wake, buffers, consVars, history
<1>8. CASE Join
  BY <1>8 DEF TypeOK, Join, buffers, sems, consVars, history
<1> QED
  BY <1>1, <1>2, <1>3, <1>4, <1>5, <1>6, <1>7, <1>8 DEF Caller

\* The steps of a processor thread keep the types.
LEMMA ProcessorTyped ==
  ASSUME TypeOK, NEW p \in Procs, Processor(p)
  PROVE  TypeOK'
<1> USE BufferAssumption DEF Goto, callerVars, consVars
<1>1. CASE WaitWaiting(p)
  <2>1. sem_waiting' \in [Procs -> Nat]
    BY <1>1, Taken DEF TypeOK, WaitWaiting
  <2> QED BY <1>1, <2>1 DEF TypeOK, WaitWaiting, buffers, history
<1>2. CASE TestWaiting(p)
  <2>1. head \in [Procs -> 0 .. BufSize]
    BY DEF TypeOK
  <2>2. head' = head \/ head' = [head EXCEPT ![p] = 0]
    BY <1>2 DEF TestWaiting
  <2>3. head' \in [Procs -> 0 .. BufSize]
    BY <2>1, <2>2
  <2> QED BY <1>2, <2>3 DEF TypeOK, TestWaiting, sems, history
<1>3. CASE ProcessItem(p)
  <2>1. PICK r \in Results :
          /\ processor_return' = [processor_return EXCEPT ![p][head[p]] = r]
          /\ outcome' = [outcome EXCEPT ![item[p][head[p]]] = r]
    BY <1>3 DEF ProcessItem
  <2>2. outcome' \in Seq(Results \cup {Pending})
    BY <2>1, PlaceSet DEF TypeOK
  <2>3. processor_return' \in [Procs -> [Spots -> Results \cup {Pending}]]
    BY <2>1 DEF TypeOK
  <2>5. head[p] + 1 \in 0 .. BufSize
    BY <1>3, Inside DEF ProcessItem
  <2>6. head \in [Procs -> 0 .. BufSize] /\ head' = [head EXCEPT ![p] = @ + 1]
    BY <1>3 DEF TypeOK, ProcessItem
  <2>4. head' \in [Procs -> 0 .. BufSize]
    BY <2>5, <2>6
  <2> QED BY <1>3, <2>2, <2>3, <2>4 DEF TypeOK, ProcessItem, sems
<1>4. CASE EndProcess(p)
  BY <1>4 DEF TypeOK, EndProcess, sems, history, BufferStatus
<1>5. CASE PostReady(p)
  <2>1. sem_ready' \in [Procs -> Nat]
    BY <1>5, Posted DEF TypeOK, PostReady
  <2> QED BY <1>5, <2>1 DEF TypeOK, PostReady, buffers, history
<1>6. CASE ExitPost(p)
  <2>1. sem_ready' \in [Procs -> Nat]
    BY <1>6, Posted DEF TypeOK, ExitPost
  <2> QED BY <1>6, <2>1 DEF TypeOK, ExitPost, buffers, history
<1> QED
  BY <1>1, <1>2, <1>3, <1>4, <1>5, <1>6 DEF Processor

\* The steps of the consumer thread keep the types.
LEMMA ConsumerTyped ==
  ASSUME TypeOK, Consumer
  PROVE  TypeOK'
<1> USE BufferAssumption DEF callerVars
<1>1. CASE WaitReady
  <2>1. sem_ready' \in [Procs -> Nat]
    BY <1>1, Taken DEF TypeOK, WaitReady
  <2> QED BY <1>1, <2>1 DEF TypeOK, WaitReady, buffers, history
<1>2. CASE TestReady
  <2>1. head \in [Procs -> 0 .. BufSize]
    BY DEF TypeOK
  <2>2. head' = head \/ head' = [head EXCEPT ![cpos] = 0]
    BY <1>2 DEF TestReady
  <2>3. head' \in [Procs -> 0 .. BufSize]
    BY <2>1, <2>2
  <2> QED BY <1>2, <2>3 DEF TypeOK, TestReady, sems, history
<1>3. CASE ConsumeItem
  <2>1. cpos \in Procs /\ head[cpos] \in Spots /\ head[cpos] + 1 \in 0 .. BufSize
    BY <1>3, Inside DEF TypeOK, ConsumeItem
  <2>2. <<item[cpos][head[cpos]], processor_return[cpos][head[cpos]]>>
          \in Nat \X (Results \cup {Pending})
    BY <2>1 DEF TypeOK
  <2>3. delivered' \in Seq(Nat \X (Results \cup {Pending}))
    BY <1>3, <2>2, AppendProperties DEF TypeOK, ConsumeItem
  <2>5. head \in [Procs -> 0 .. BufSize]
        /\ head' = [head EXCEPT ![cpos] = @ + 1]
    BY <1>3 DEF TypeOK, ConsumeItem
  <2>4. head' \in [Procs -> 0 .. BufSize]
    BY <2>1, <2>5
  <2> QED BY <1>3, <2>3, <2>4 DEF TypeOK, ConsumeItem, sems, consVars
<1>4. CASE EndConsume
  BY <1>4 DEF TypeOK, EndConsume, sems, history, BufferStatus
<1>5. CASE PostNull
  <2>1. Inc(cpos) \in Procs
    BY IncInProcs DEF TypeOK
  <2>2. sem_null' \in [Procs -> Nat]
    BY <1>5, Posted DEF TypeOK, PostNull
  <2> QED BY <1>5, <2>1, <2>2 DEF TypeOK, PostNull, buffers, history
<1> QED BY <1>1, <1>2, <1>3, <1>4, <1>5 DEF Consumer

\* Every step keeps the types.
LEMMA NextTyped == TypeOK /\ [Next]_vars => TypeOK'
<1> SUFFICES ASSUME TypeOK, [Next]_vars
             PROVE  TypeOK'
  OBVIOUS
<1>1. CASE UNCHANGED vars
  BY <1>1 DEF TypeOK, vars, buffers, sems, callerVars, consVars, history
<1>2. CASE Caller
  BY <1>2, CallerTyped
<1>3. ASSUME NEW p \in Procs, Processor(p) PROVE TypeOK'
  BY <1>3, ProcessorTyped
<1>4. CASE Consumer
  BY <1>4, ConsumerTyped
<1>5. CASE Terminated
  BY <1>1, <1>5 DEF Terminated
<1> QED BY <1>1, <1>2, <1>3, <1>4, <1>5 DEF Next

(***************************************************************************)
(* Every reachable state is typed, whatever create() left in the statuses: *)
(* no index leaves its array and no semaphore is taken below zero.         *)
(***************************************************************************)
THEOREM TypeCorrect == Spec => []TypeOK
BY InitTyped, NextTyped, PTL DEF Spec

-----------------------------------------------------------------------------
(* The inductive invariant.  A step keeps the turn of every buffer ... *)

\* The steps of the thread in run() keep the turns.
LEMMA CallerTurn ==
  ASSUME TypeOK, caller # "idle", NEW b \in Procs, Turn(b), Caller,
         caller' # "idle"
  PROVE  Turn(b)'
<1>1. /\ sem_null[b] \in Nat /\ sem_waiting[b] \in Nat /\ sem_ready[b] \in Nat
      /\ sem_null \in [Procs -> Nat] /\ sem_waiting \in [Procs -> Nat]
      /\ buffer_status \in [Procs -> BufferStatus]
      /\ buffer_pos \in Procs
  BY DEF TypeOK
<1>2. woken \in Nat /\ b \in Nat
  BY BufferAssumption DEF TypeOK, Procs
<1>3. ~Create /\ ~Run /\ ~Join
  BY DEF Create, Run, Join
<1> USE DEF Turn, NullTurn, WaitingTurn, ReadyTurn, One, Woken, Left,
            WaitingPosts, WakePost, ReadyPosts, FinalPost, Filling,
            Processing, Consuming, consVars, buffers, sems
<1>4. CASE WaitNull
  BY <1>1, <1>4 DEF WaitNull
<1>5. CASE GenerateItem
  BY <1>5 DEF GenerateItem, callerVars
<1>6. CASE EndBuffer
  BY <1>1, <1>6 DEF EndBuffer
<1>7. CASE PostWaiting
  <2>1. sem_waiting' = [sem_waiting EXCEPT ![buffer_pos] = @ + 1]
    BY <1>7 DEF PostWaiting
  <2>2. CASE b = buffer_pos
    BY <1>1, <1>2, <1>7, <2>1, <2>2 DEF PostWaiting
  <2>3. CASE b # buffer_pos
    BY <1>1, <1>2, <1>7, <2>1, <2>3 DEF PostWaiting
  <2> QED BY <2>2, <2>3
<1>8. CASE Wake
  <2>1. /\ caller = "wake" /\ woken' = woken + 1
        /\ sem_waiting' = [sem_waiting EXCEPT ![woken] = @ + 1]
        /\ caller' \in {"wake", "join"}
        /\ caller' = "join" <=> woken + 1 = NumProcessor
    BY <1>8 DEF Wake
  <2>2. b < NumProcessor /\ woken < NumProcessor
    BY <2>1, BufferAssumption DEF TypeOK, Procs
  <2>3. CASE b = woken
    BY <1>1, <1>2, <1>8, <2>1, <2>2, <2>3 DEF Wake
  <2>4. CASE b # woken
    <3>1. Woken(b)' <=> Woken(b)
      BY <1>2, <2>1, <2>2, <2>4
    <3>2. sem_waiting'[b] = sem_waiting[b]
      BY <1>1, <2>1, <2>4
    <3> QED BY <1>1, <1>8, <2>1, <3>1, <3>2 DEF Wake
  <2> QED BY <2>3, <2>4
<1> HIDE DEF Turn, NullTurn, WaitingTurn, ReadyTurn, One, Woken, Left,
             WaitingPosts, WakePost, ReadyPosts, FinalPost, Filling,
             Processing, Consuming, consVars, buffers, sems
<1> QED BY <1>3, <1>4, <1>5, <1>6, <1>7, <1>8 DEF Caller

\* The steps of a processor thread keep the turns.
LEMMA ProcessorTurn ==
  ASSUME TypeOK, NEW p \in Procs, NEW b \in Procs, Turn(b), Processor(p)
  PROVE  Turn(b)'
<1>1. /\ sem_null[b] \in Nat /\ sem_waiting[b] \in Nat /\ sem_ready[b] \in Nat
      /\ sem_waiting \in [Procs -> Nat] /\ sem_ready \in [Procs -> Nat]
      /\ buffer_status \in [Procs -> BufferStatus]
      /\ processor \in [Procs -> {"wait", "test", "process", "post", "exit",
                                  "done"}]
  BY DEF TypeOK
<1> USE DEF Turn, NullTurn, WaitingTurn, ReadyTurn, One, Woken, Left,
            WaitingPosts, WakePost, ReadyPosts, FinalPost, Filling,
            Processing, Consuming, Goto, callerVars, consVars, buffers, sems
<1>2. CASE WaitWaiting(p)
  BY <1>1, <1>2 DEF WaitWaiting
<1>3. CASE TestWaiting(p)
  BY <1>1, <1>3 DEF TestWaiting
<1>4. CASE ProcessItem(p)
  BY <1>4 DEF ProcessItem
<1>5. CASE EndProcess(p)
  BY <1>1, <1>5 DEF EndProcess
<1>6. CASE PostReady(p)
  BY <1>1, <1>6 DEF PostReady
<1>7. CASE ExitPost(p)
  BY <1>1, <1>7 DEF ExitPost
<1> HIDE DEF Turn, NullTurn, WaitingTurn, ReadyTurn, One, Woken, Left,
             WaitingPosts, WakePost, ReadyPosts, FinalPost, Filling,
             Processing, Consuming, Goto, callerVars, consVars, buffers, sems
<1> QED BY <1>2, <1>3, <1>4, <1>5, <1>6, <1>7 DEF Processor

\* The steps of the consumer thread keep the turns.
LEMMA ConsumerTurn ==
  ASSUME TypeOK, NEW b \in Procs, Turn(b), Consumer
  PROVE  Turn(b)'
<1>1. /\ sem_null[b] \in Nat /\ sem_waiting[b] \in Nat /\ sem_ready[b] \in Nat
      /\ sem_null \in [Procs -> Nat] /\ sem_ready \in [Procs -> Nat]
      /\ buffer_status \in [Procs -> BufferStatus] /\ cpos \in Procs
  BY DEF TypeOK
<1> USE DEF Turn, NullTurn, WaitingTurn, ReadyTurn, One, Woken, Left,
            WaitingPosts, WakePost, ReadyPosts, FinalPost, Filling,
            Processing, Consuming, callerVars, consVars, buffers, sems
<1>2. CASE WaitReady
  BY <1>1, <1>2 DEF WaitReady
<1>3. CASE TestReady
  BY <1>1, <1>3 DEF TestReady
<1>4. CASE ConsumeItem
  BY <1>4 DEF ConsumeItem
<1>5. CASE EndConsume
  BY <1>1, <1>5 DEF EndConsume
<1>6. CASE PostNull
  BY <1>1, <1>6 DEF PostNull
<1> HIDE DEF Turn, NullTurn, WaitingTurn, ReadyTurn, One, Woken, Left,
             WaitingPosts, WakePost, ReadyPosts, FinalPost, Filling,
             Processing, Consuming, callerVars, consVars, buffers, sems
<1> QED BY <1>2, <1>3, <1>4, <1>5, <1>6 DEF Consumer

\* ... and the round of the buffers in use.  A step that leaves the three of them alone keeps the round.
LEMMA RoundSame ==
  ASSUME Round, GenPos' = GenPos, ConsPos' = ConsPos,
         \A b \in Procs : InUse(b)' <=> InUse(b)
  PROVE  Round'
BY DEF Round

\* The steps of the thread in run() keep the round.
LEMMA CallerRound ==
  ASSUME TypeOK, Round, \A b \in Procs : Turn(b), caller # "idle",
         Caller, caller' # "idle"
  PROVE  Round'
<1>1. buffer_pos \in Procs /\ cpos \in Procs /\ buffer_status \in [Procs -> BufferStatus]
  BY DEF TypeOK
<1>2. GenPos \in Procs /\ ConsPos \in Procs /\ Inc(buffer_pos) \in Procs
  BY <1>1, IncInProcs DEF GenPos, ConsPos
<1>3. CASE EndBuffer
  <2>1. /\ GenPos = buffer_pos /\ GenPos' = Inc(buffer_pos)
        /\ ConsPos' = ConsPos
    BY <1>3 DEF EndBuffer, GenPos, ConsPos, consVars, Inc
  <2>2. ~InUse(buffer_pos)
    <3>1. Turn(buffer_pos)
      BY <1>1
    <3> QED BY <1>3, <3>1 DEF EndBuffer, Turn, NullTurn, WaitingTurn, ReadyTurn,
                              Filling, InUse
  <2>3. \A b \in Procs : InUse(b)' <=> InUse(b) \/ b = buffer_pos
    BY <1>1, <1>3 DEF EndBuffer, InUse
  <2>4. Inc(buffer_pos) = IF buffer_pos + 1 = NumProcessor THEN 0
                          ELSE buffer_pos + 1
    BY <1>1, IncValue
  <2> QED BY <1>1, <1>2, <2>1, <2>2, <2>3, <2>4, BufferAssumption
          DEF Round, Procs
<1>4. CASE PostWaiting
  <2>1. GenPos' = GenPos /\ ConsPos' = ConsPos
    BY <1>4 DEF PostWaiting, GenPos, ConsPos, consVars, Inc
  <2>2. \A b \in Procs : InUse(b)' <=> InUse(b)
    BY <1>4 DEF PostWaiting, InUse, buffers
  <2> QED BY <2>1, <2>2, RoundSame
<1>5. CASE WaitNull \/ GenerateItem \/ Wake
  <2>1. GenPos' = GenPos /\ ConsPos' = ConsPos
    BY <1>5 DEF WaitNull, GenerateItem, Wake, GenPos, ConsPos, callerVars,
                consVars, Inc
  <2>2. \A b \in Procs : InUse(b)' <=> InUse(b)
    BY <1>5 DEF WaitNull, GenerateItem, Wake, InUse, buffers
  <2> QED BY <2>1, <2>2, RoundSame
<1>6. ~Create /\ ~Run /\ ~Join
  BY DEF Create, Run, Join
<1> QED BY <1>3, <1>4, <1>5, <1>6 DEF Caller

\* The steps of a processor thread keep the round.
LEMMA ProcessorRound ==
  ASSUME TypeOK, Round, NEW p \in Procs, Turn(p), Processor(p)
  PROVE  Round'
<1>1. GenPos' = GenPos /\ ConsPos' = ConsPos
  BY DEF Processor, WaitWaiting, TestWaiting, ProcessItem, EndProcess,
         PostReady, ExitPost, GenPos, ConsPos, callerVars, consVars, Inc
<1>2. CASE EndProcess(p)
  <2>1. InUse(p)
    BY <1>2 DEF EndProcess, Turn, NullTurn, WaitingTurn, ReadyTurn,
                Processing, InUse
  <2>2. \A b \in Procs : InUse(b)' <=> InUse(b)
    BY <1>2, <2>1 DEF EndProcess, InUse, TypeOK
  <2> QED BY <1>1, <2>2, RoundSame
<1>3. CASE ~EndProcess(p)
  <2>1. \A b \in Procs : InUse(b)' <=> InUse(b)
    BY <1>3 DEF Processor, WaitWaiting, TestWaiting, ProcessItem, PostReady,
                ExitPost, InUse, buffers
  <2> QED BY <1>1, <2>1, RoundSame
<1> QED BY <1>2, <1>3

\* The steps of the consumer thread keep the round.
LEMMA ConsumerRound ==
  ASSUME TypeOK, Round, \A b \in Procs : Turn(b), Consumer
  PROVE  Round'
<1>1. buffer_pos \in Procs /\ cpos \in Procs /\ buffer_status \in [Procs -> BufferStatus]
  BY DEF TypeOK
<1>2. GenPos \in Procs /\ ConsPos \in Procs /\ Inc(cpos) \in Procs
  BY <1>1, IncInProcs DEF GenPos, ConsPos
<1>3. CASE EndConsume
  <2>1. /\ ConsPos = cpos /\ ConsPos' = Inc(cpos)
        /\ GenPos' = GenPos
    BY <1>3 DEF EndConsume, GenPos, ConsPos, callerVars, Inc
  <2>2. InUse(cpos)
    <3>1. Turn(cpos)
      BY <1>1
    <3> QED BY <1>3, <3>1 DEF EndConsume, Turn, NullTurn, WaitingTurn,
                              ReadyTurn, Consuming, InUse
  <2>3. \A b \in Procs : InUse(b)' <=> InUse(b) /\ b # cpos
    BY <1>1, <1>3 DEF EndConsume, InUse
  <2>4. Inc(cpos) = IF cpos + 1 = NumProcessor THEN 0 ELSE cpos + 1
    BY <1>1, IncValue
  <2> QED BY <1>1, <1>2, <2>1, <2>2, <2>3, <2>4, BufferAssumption
          DEF Round, Procs
<1>4. CASE ~EndConsume
  <2>1. GenPos' = GenPos /\ ConsPos' = ConsPos
    BY <1>4 DEF Consumer, WaitReady, TestReady, ConsumeItem, PostNull, GenPos,
                ConsPos, callerVars, consVars, Inc
  <2>2. \A b \in Procs : InUse(b)' <=> InUse(b)
    BY <1>4 DEF Consumer, WaitReady, TestReady, ConsumeItem, PostNull, InUse,
                buffers
  <2> QED BY <2>1, <2>2, RoundSame
<1> QED BY <1>3, <1>4

\* Where a consumer that has ended stands.
Ended == consumer = "done" => ~InUse(cpos)

\* The consumer ends only at a buffer that is free, and nobody fills it again.
LEMMA CallerEnded ==
  ASSUME TypeOK, \A b \in Procs : Turn(b), Ended, caller # "idle",
         Caller, caller' # "idle"
  PROVE  Ended'
<1>1. cpos \in Procs /\ buffer_status \in [Procs -> BufferStatus]
      /\ buffer_pos \in Procs /\ sem_ready \in [Procs -> Nat]
  BY DEF TypeOK
<1>2. ~Create /\ ~Run
  BY DEF Create, Run
<1>3. consumer' = consumer /\ cpos' = cpos
  BY <1>2 DEF Caller, WaitNull, GenerateItem, EndBuffer, PostWaiting, Wake,
              Join, consVars
<1>4. CASE EndBuffer /\ consumer = "done" /\ cpos = buffer_pos
  <2>1. NullTurn(cpos) /\ (Left(cpos) => Woken(cpos))
    BY <1>1, <1>4 DEF EndBuffer, Turn, WaitingTurn, ReadyTurn, Filling
  <2>2. FinalPost(cpos) = 1
    BY <1>1, <1>4, <2>1 DEF NullTurn, ReadyPosts, FinalPost, One
  <2>3. Woken(cpos)
    BY <2>1, <2>2 DEF FinalPost, One, Left
  <2> QED BY <1>4, <2>3 DEF EndBuffer, Woken
<1>5. CASE ~(EndBuffer /\ consumer = "done" /\ cpos = buffer_pos)
  <2>1. consumer = "done" => (InUse(cpos)' <=> InUse(cpos))
    BY <1>1, <1>2, <1>3, <1>5 DEF Caller, WaitNull, GenerateItem, EndBuffer,
         PostWaiting, Wake, Join, InUse, buffers
  <2> QED BY <1>3, <2>1 DEF Ended, InUse
<1> QED BY <1>4, <1>5

\* A processor does not take a free buffer into use.
LEMMA ProcessorEnded ==
  ASSUME TypeOK, Ended, NEW p \in Procs, Turn(p), Processor(p)
  PROVE  Ended'
<1>1. consumer' = consumer /\ cpos' = cpos
  BY DEF Processor, WaitWaiting, TestWaiting, ProcessItem, EndProcess,
         PostReady, ExitPost, consVars
<1>2. CASE EndProcess(p)
  <2>1. InUse(p)
    BY <1>2 DEF EndProcess, Turn, NullTurn, WaitingTurn, ReadyTurn,
                Processing, InUse
  <2> QED BY <1>1, <1>2, <2>1 DEF EndProcess, InUse, Ended, TypeOK
<1>3. CASE ~EndProcess(p)
  BY <1>1, <1>3 DEF Processor, WaitWaiting, TestWaiting, ProcessItem,
       PostReady, ExitPost, InUse, Ended, buffers
<1> QED BY <1>2, <1>3

\* The consumer ends at a buffer that is neither ready nor waiting.
LEMMA ConsumerEnded ==
  ASSUME TypeOK, \A b \in Procs : Turn(b), Consumer
  PROVE  Ended'
<1>1. cpos \in Procs /\ buffer_status \in [Procs -> BufferStatus]
      /\ sem_ready \in [Procs -> Nat]
  BY DEF TypeOK
<1>2. CASE TestReady /\ buffer_status[cpos] # "Ready"
  <2>1. NullTurn(cpos) \/ WaitingTurn(cpos)
    BY <1>1, <1>2 DEF Turn, ReadyTurn
  <2>2. ~WaitingTurn(cpos)
    BY <1>1, <1>2 DEF TestReady, WaitingTurn, Left, ReadyPosts, FinalPost, One
  <2> QED BY <1>2, <2>1, <2>2 DEF TestReady, NullTurn, InUse, Ended
<1>3. CASE ~(TestReady /\ buffer_status[cpos] # "Ready")
  BY <1>3 DEF Consumer, WaitReady, TestReady, ConsumeItem, EndConsume,
       PostNull, Ended, consVars
<1> QED BY <1>2, <1>3

\* The first step of run() finds the buffers free and sets everything going.
LEMMA RunGoing ==
  ASSUME TypeOK, Still, Run
  PROVE  Going'
<1>1. \A b \in Procs : NullTurn(b)' /\ ~Left(b)'
  BY DEF Run, Still, InUse, InitialNull, NullTurn, WaitingPosts, WakePost,
         ReadyPosts, FinalPost, One, Woken, Left, Processing, buffers, TypeOK
<1>2. Round'
  BY DEF Run, Still, Round, GenPos, ConsPos, InUse, buffers
<1>3. consumer' # "done"
  BY DEF Run
<1> QED BY <1>1, <1>2, <1>3 DEF Going, Turn

\* When run() returns the buffers are free.
LEMMA JoinStill ==
  ASSUME TypeOK, Going, Join
  PROVE  Still'
<1>1. consumer = "done" /\ ~InUse(cpos) /\ ConsPos = cpos /\ cpos \in Procs
  BY DEF Join, Going, ConsPos, TypeOK
<1>2. GenPos \in Procs
  BY IncInProcs DEF GenPos, TypeOK
<1>3. \A b \in Procs : ~InUse(b)
  BY <1>1, <1>2, BufferAssumption DEF Going, Round, Procs
<1> QED BY <1>1, <1>3 DEF Still, InUse, Join, buffers, consVars

\* The invariant holds at the beginning.
LEMMA InitInd == Init => IndInv
BY InitTyped DEF Init, IndInv, Still, InUse

\* Every step keeps the invariant, if create() leaves no garbage in the statuses.
LEMMA NextInd ==
  ASSUME FreshStatus = {"Null"}
  PROVE  IndInv /\ [Next]_vars => IndInv'
<1> SUFFICES ASSUME IndInv, [Next]_vars
             PROVE  IndInv'
  OBVIOUS
<1>1. TypeOK /\ TypeOK'
  BY NextTyped DEF IndInv
<1>2. CASE UNCHANGED vars
  <2>1. CASE caller = "idle"
    BY <1>1, <1>2, <2>1 DEF IndInv, Still, InUse, vars, buffers, callerVars,
                               consVars
  <2>2. CASE caller # "idle"
    <3>1. Going'
      BY <1>2, <2>2 DEF IndInv, Going, Turn, NullTurn, WaitingTurn, ReadyTurn,
           Woken, Left, WaitingPosts, WakePost, ReadyPosts, FinalPost, One,
           Filling, Processing, Consuming, Round, GenPos, ConsPos, InUse, Inc,
           vars, buffers, sems, callerVars, consVars
    <3> QED BY <1>1, <1>2, <2>2, <3>1 DEF IndInv, vars, callerVars
  <2> QED BY <2>1, <2>2
<1>3. CASE Caller
  <2>1. CASE caller = "idle"
    <3>1. Create \/ Run
      BY <1>3, <2>1 DEF Caller, WaitNull, GenerateItem, EndBuffer, PostWaiting,
                        Wake, Join
    <3>2. CASE Create
      BY <1>1, <2>1, <3>2 DEF Create, IndInv, Still, InUse, consVars
    <3>3. CASE Run
      <4>1. Going'
        BY <1>1, <2>1, <3>3, RunGoing DEF IndInv
      <4> QED BY <1>1, <3>3, <4>1 DEF Run, IndInv
    <3> QED BY <3>1, <3>2, <3>3
  <2>2. CASE caller # "idle" /\ caller' = "idle"
    <3>1. Join
      BY <1>3, <2>2 DEF Caller, Create, Run, WaitNull, GenerateItem, EndBuffer,
                        PostWaiting, Wake, callerVars
    <3> QED BY <1>1, <2>2, <3>1, JoinStill DEF IndInv
  <2>3. CASE caller # "idle" /\ caller' # "idle"
    <3>1. Going /\ Ended
      BY <2>3 DEF IndInv, Going, Ended
    <3>2. \A b \in Procs : Turn(b)'
      BY <1>1, <1>3, <2>3, <3>1, CallerTurn DEF Going
    <3>3. Round' /\ Ended'
      BY <1>1, <1>3, <2>3, <3>1, CallerRound, CallerEnded DEF Going
    <3> QED BY <1>1, <2>3, <3>2, <3>3 DEF IndInv, Going, Ended
  <2> QED BY <2>1, <2>2, <2>3
<1>4. ASSUME NEW p \in Procs, Processor(p)
      PROVE  IndInv'
  <2>1. caller' = caller
    BY <1>4 DEF Processor, WaitWaiting, TestWaiting, ProcessItem, EndProcess,
                PostReady, ExitPost, callerVars
  <2>2. CASE caller = "idle"
    <3>1. Still /\ processor[p] = "done"
      BY <2>2 DEF IndInv, Still
    <3> QED BY <1>4, <3>1 DEF Processor, WaitWaiting, TestWaiting, ProcessItem,
                EndProcess, PostReady, ExitPost
  <2>3. CASE caller # "idle"
    <3>1. Going /\ Ended /\ Turn(p)
      BY <2>3 DEF IndInv, Going, Ended
    <3>2. \A b \in Procs : Turn(b)'
      BY <1>1, <1>4, <3>1, ProcessorTurn DEF Going
    <3>3. Round' /\ Ended'
      BY <1>1, <1>4, <3>1, ProcessorRound, ProcessorEnded DEF Going
    <3> QED BY <1>1, <2>1, <2>3, <3>2, <3>3 DEF IndInv, Going, Ended
  <2> QED BY <2>2, <2>3
<1>5. CASE Consumer
  <2>1. caller' = caller
    BY <1>5 DEF Consumer, WaitReady, TestReady, ConsumeItem, EndConsume,
                PostNull, callerVars
  <2>2. CASE caller = "idle"
    <3>1. consumer = "done"
      BY <2>2 DEF IndInv, Still
    <3> QED BY <1>5, <3>1 DEF Consumer, WaitReady, TestReady, ConsumeItem,
                EndConsume, PostNull
  <2>3. CASE caller # "idle"
    <3>1. Going
      BY <2>3 DEF IndInv
    <3>2. \A b \in Procs : Turn(b)'
      BY <1>1, <1>5, <3>1, ConsumerTurn DEF Going
    <3>3. Round' /\ Ended'
      BY <1>1, <1>5, <3>1, ConsumerRound, ConsumerEnded DEF Going
    <3> QED BY <1>1, <2>1, <2>3, <3>2, <3>3 DEF IndInv, Going, Ended
  <2> QED BY <2>2, <2>3
<1>6. CASE Terminated
  BY <1>2, <1>6 DEF Terminated
<1> QED BY <1>2, <1>3, <1>4, <1>5, <1>6 DEF Next

\* What the invariant says of a reachable state.
LEMMA IndImplies == IndInv => BufferExclusive /\ CleanWhenIdle
<1> SUFFICES ASSUME IndInv
             PROVE  BufferExclusive /\ CleanWhenIdle
  OBVIOUS
<1>1. CASE caller = "idle"
  BY <1>1 DEF IndInv, Still, InUse, CleanWhenIdle, BufferExclusive, Filling,
              Processing, Consuming
<1>2. CASE caller # "idle"
  <2>1. ASSUME NEW b \in Procs
        PROVE  /\ ~(Filling(b) /\ Processing(b))
               /\ ~(Filling(b) /\ Consuming(b))
               /\ ~(Processing(b) /\ Consuming(b))
    <3>1. Turn(b) /\ sem_null[b] \in Nat
      BY <1>2 DEF IndInv, Going, TypeOK
    <3> QED BY <3>1 DEF Turn, NullTurn, WaitingTurn, ReadyTurn, Filling,
                        Processing, Consuming, One, ReadyPosts, FinalPost,
                        WaitingPosts, WakePost
  <2> QED BY <1>2, <2>1 DEF BufferExclusive, CleanWhenIdle
<1> QED BY <1>1, <1>2

(***************************************************************************)
(* The invariant holds in every reachable state: beside the posts that end *)
(* the threads, exactly one post goes round with each buffer, and the      *)
(* buffers in use lie between the consumer's and the generator's.          *)
(***************************************************************************)
THEOREM Inductive ==
  ASSUME FreshStatus = {"Null"}
  PROVE  Spec => []IndInv
<1>1. IndInv /\ [Next]_vars => IndInv'
  BY NextInd
<1> QED BY <1>1, InitInd, PTL DEF Spec

(***************************************************************************)
(* The three semaphores of a buffer keep the generator, its processor and  *)
(* the consumer out of one queue_t, for every number of processors, buffer *)
(* size, number of items and number of calls of run().                     *)
(***************************************************************************)
THEOREM Exclusive ==
  ASSUME FreshStatus = {"Null"}
  PROVE  Spec => []BufferExclusive
BY Inductive, IndImplies, PTL

(***************************************************************************)
(* run() leaves every buffer free, so that it may be called again.         *)
(***************************************************************************)
THEOREM Reusable ==
  ASSUME FreshStatus = {"Null"}
  PROVE  Spec => []CleanWhenIdle
BY Inductive, IndImplies, PTL

-----------------------------------------------------------------------------
(***************************************************************************)
(* The buffer framework implements the ordered pipeline, for any number of *)
(* processors, spots, items and runs, if fresh memory is cleared.          *)
(***************************************************************************)

\* The steps from buffer a to buffer b, going round.
Dist(a, b) == IF a <= b THEN b - a ELSE b - a + NumProcessor

\* The number of items in k full buffers.
Size(k) == k * BufSize

\* The buffers with items, and their spots with items.
Held(b) == InUse(b) \/ (caller = "fill" /\ b = buffer_pos)
Has(b, s) == Held(b) /\ s < tail[b]

\* The number of buffers in use.
Reach == IF \A b \in Procs : InUse(b) THEN NumProcessor ELSE Dist(ConsPos, GenPos)

\* The items whose buffers are free again, and those made before the ones of buffer b.
Done == Len(delivered) - (IF consumer = "consume" THEN head[cpos] ELSE 0)
Base(b) == Done + Size(Dist(ConsPos, b))

\* The spots of buffer b whose items have been processed.
Processed(b) == IF buffer_status[b] = "Ready" THEN tail[b]
                ELSE IF processor[b] = "process" THEN head[b] ELSE 0

\* What was made and not yet freed is in the buffers.
Counted ==
  /\ Done \in Nat
  /\ caller = "idle" => Len(outcome) = Len(delivered)
  /\ caller = "null" => Len(outcome) = Done + Size(Reach)
  /\ caller = "fill" => Len(outcome) = Base(buffer_pos) + tail[buffer_pos]
  /\ caller \in {"post", "wake", "join"} =>
       Len(outcome) = IF InUse(buffer_pos) THEN Base(buffer_pos) + tail[buffer_pos] ELSE Done

\* Only the last buffer of a run may have room left.
Full ==
  \A b \in Procs : InUse(b) =>
    \/ tail[b] = BufSize
    \/ /\ b = buffer_pos /\ caller \in {"post", "wake", "join"}
       /\ caller = "post" => gen_res # 0

\* The spots hold the items in the order they were made.
Numbered == \A b \in Procs, s \in Spots : Has(b, s) => item[b][s] = Base(b) + s + 1

\* The items of a buffer are processed from its first spot on, and keep their values.
Outcomes ==
  \A b \in Procs, s \in Spots : Has(b, s) =>
    IF s < Processed(b)
    THEN /\ outcome[item[b][s]] \in Results
         /\ processor_return[b][s] = outcome[item[b][s]]
    ELSE outcome[item[b][s]] = Pending

Consumed == consumer = "consume" => head[cpos] <= tail[cpos]

\* The inductive invariant, beside IndInv.
HistoryInv == Counted /\ Full /\ Numbered /\ Outcomes /\ Consumed

-----------------------------------------------------------------------------
(* Buffers and items. *)

\* The way from one buffer to another is shorter than the round, and names the other.
LEMMA DistValue ==
  ASSUME NEW a \in Procs, NEW b \in Procs
  PROVE  /\ Dist(a, b) \in Nat /\ Dist(a, b) < NumProcessor
         /\ Dist(a, b) = 0 <=> a = b
         /\ \A c \in Procs : Dist(a, b) = Dist(a, c) => b = c
BY BufferAssumption DEF Dist, Procs

\* One step further, one step more, unless the way was all the way round.
LEMMA DistFurther ==
  ASSUME NEW a \in Procs, NEW b \in Procs
  PROVE  IF Inc(b) = a THEN Dist(a, b) = NumProcessor - 1
         ELSE Dist(a, Inc(b)) = Dist(a, b) + 1
BY BufferAssumption, IncValue DEF Dist, Procs

\* One step ahead, one step less, and all the way round from behind.
LEMMA DistAhead ==
  ASSUME NEW a \in Procs, NEW b \in Procs
  PROVE  Dist(Inc(a), b) = IF a = b THEN NumProcessor - 1 ELSE Dist(a, b) - 1
BY BufferAssumption, IncValue DEF Dist, Procs

\* One more buffer holds BufSize more items.
LEMMA SizeNext ==
  ASSUME NEW k \in Nat
  PROVE  Size(k) \in Nat /\ Size(0) = 0 /\ Size(k + 1) = Size(k) + BufSize
<1>1. BufSize \in Nat
  BY BufferAssumption
<1>2. k * BufSize \in Nat /\ (k + 1) * BufSize = k * BufSize + BufSize
  BY <1>1
<1> QED BY <1>1, <1>2 DEF Size

\* And so do all the buffers between two of them.
LEMMA SizeOrder ==
  ASSUME NEW k \in Nat, NEW n \in Nat, k < n
  PROVE  Size(k) + BufSize <= Size(n)
<1>1. BufSize \in Nat
  BY BufferAssumption
<1>2. PICK d \in Nat : n = k + 1 + d
  <2>1. n - (k + 1) \in Nat /\ n = k + 1 + (n - (k + 1))
    OBVIOUS
  <2> QED BY <2>1
<1>3. n * BufSize = k * BufSize + BufSize + d * BufSize
  BY <1>1, <1>2
<1>4. d * BufSize \in Nat /\ k * BufSize \in Nat
  BY <1>1
<1> QED BY <1>1, <1>3, <1>4 DEF Size

\* The buffers in use are the first ones from the consumer's on, up to the generator's.
LEMMA Reached ==
  ASSUME TypeOK, Round
  PROVE  /\ Reach \in 0 .. NumProcessor /\ ConsPos \in Procs /\ GenPos \in Procs
         /\ \A b \in Procs : InUse(b) <=> Dist(ConsPos, b) < Reach
         /\ GenPos = buffer_pos /\ ~InUse(buffer_pos) => Reach = Dist(ConsPos, buffer_pos)
         /\ GenPos = Inc(buffer_pos) /\ InUse(buffer_pos) =>
              Reach = Dist(ConsPos, buffer_pos) + 1
         /\ GenPos = Inc(buffer_pos) /\ ~InUse(buffer_pos) => Reach = 0
<1>1. buffer_pos \in Procs /\ cpos \in Procs
  BY DEF TypeOK
<1>2. GenPos \in Procs /\ ConsPos \in Procs
  BY <1>1, IncInProcs DEF GenPos, ConsPos
<1>3. Dist(ConsPos, GenPos) \in Nat /\ Dist(ConsPos, GenPos) < NumProcessor
  BY <1>2, DistValue
<1>4. NumProcessor \in Nat \ {0}
  BY BufferAssumption
<1>5. \A b \in Procs : InUse(b) <=> Dist(ConsPos, b) < Reach
  <2>1. CASE ConsPos # GenPos
    <3>1. \A b \in Procs : InUse(b) <=> Dist(ConsPos, b) < Dist(ConsPos, GenPos)
      BY <1>2, <1>4, <2>1 DEF Round, Dist, Procs
    <3>2. ~InUse(GenPos)
      BY <1>2, <1>3, <3>1
    <3> QED BY <1>2, <3>1, <3>2 DEF Reach
  <2>2. CASE ConsPos = GenPos
    <3>1. (\A b \in Procs : InUse(b)) \/ (\A b \in Procs : ~InUse(b))
      BY <1>2, <2>2 DEF Round, Procs
    <3>2. Dist(ConsPos, GenPos) = 0 /\ \A b \in Procs : Dist(ConsPos, b) < NumProcessor
      BY <1>2, <2>2, DistValue
    <3>3. \A b \in Procs : Dist(ConsPos, b) \in Nat
      BY <1>2, DistValue
    <3> QED BY <1>2, <3>1, <3>2, <3>3 DEF Reach
  <2> QED BY <2>1, <2>2
<1>6. CASE GenPos = buffer_pos
  <2>1. buffer_pos = Inc(buffer_pos) => NumProcessor = 1
    BY <1>1, <1>4, IncValue DEF Procs
  <2>2. ~InUse(buffer_pos) => Reach = Dist(ConsPos, buffer_pos)
    BY <1>1, <1>6 DEF Reach
  <2>3. NumProcessor = 1 => Reach = IF InUse(buffer_pos) THEN 1 ELSE 0
    BY <1>1, <1>2, <1>6 DEF Reach, Procs, Dist
  <2>4. NumProcessor = 1 => Dist(ConsPos, buffer_pos) = 0
    BY <1>1, <1>2 DEF Procs, Dist
  <2> QED BY <1>2, <1>3, <1>4, <1>5, <1>6, <2>1, <2>2, <2>3, <2>4 DEF Reach
<1>7. CASE GenPos = Inc(buffer_pos) /\ GenPos # buffer_pos
  <2>1. Dist(ConsPos, buffer_pos) \in Nat
    BY <1>1, <1>2, DistValue
  <2>2. CASE ConsPos = GenPos
    <3>1. Dist(ConsPos, buffer_pos) = NumProcessor - 1
      BY <1>1, <1>2, <1>7, <2>2, DistFurther
    <3>2. (\A b \in Procs : InUse(b)) \/ (\A b \in Procs : ~InUse(b))
      BY <1>2, <2>2 DEF Round, Procs
    <3>3. Dist(ConsPos, GenPos) = 0
      BY <1>2, <2>2, DistValue
    <3> QED BY <1>1, <1>2, <1>4, <1>5, <1>7, <3>1, <3>2, <3>3 DEF Reach
  <2>3. CASE ConsPos # GenPos
    <3>1. Dist(ConsPos, GenPos) = Dist(ConsPos, buffer_pos) + 1
      BY <1>1, <1>2, <1>7, <2>3, DistFurther
    <3>2. ~InUse(GenPos)
      BY <1>2, <1>4, <2>3 DEF Round, Procs
    <3>3. Reach = Dist(ConsPos, GenPos)
      BY <1>2, <3>2 DEF Reach
    <3>4. InUse(buffer_pos)
      BY <1>1, <1>3, <1>5, <2>1, <3>1, <3>3
    <3> QED BY <1>1, <1>2, <1>3, <1>4, <1>5, <1>7, <3>1, <3>3, <3>4
  <2> QED BY <2>2, <2>3
<1>8. GenPos = buffer_pos \/ GenPos = Inc(buffer_pos)
  BY DEF GenPos
<1> QED BY <1>6, <1>7, <1>8

\* What every lemma below starts from.
LEMMA Facts ==
  ASSUME IndInv, HistoryInv
  PROVE  /\ buffer_pos \in Procs /\ cpos \in Procs /\ BufSize \in Nat \ {0}
         /\ head \in [Procs -> 0 .. BufSize] /\ tail \in [Procs -> 0 .. BufSize]
         /\ item \in [Procs -> [Spots -> Nat]]
         /\ processor_return \in [Procs -> [Spots -> Results \cup {Pending}]]
         /\ buffer_status \in [Procs -> BufferStatus]
         /\ processor \in [Procs -> {"wait", "test", "process", "post", "exit", "done"}]
         /\ outcome \in Seq(Results \cup {Pending}) /\ Len(outcome) \in Nat
         /\ delivered \in Seq(Nat \X (Results \cup {Pending})) /\ Len(delivered) \in Nat
         /\ ConsPos \in Procs /\ Done \in Nat
         /\ \A b \in Procs : /\ Dist(ConsPos, b) \in Nat /\ Size(Dist(ConsPos, b)) \in Nat
                             /\ Base(b) \in Nat
         /\ Counted /\ Full /\ Numbered /\ Outcomes /\ Consumed
<1>1. TypeOK /\ HistoryInv
  BY DEF IndInv
<1>2. ConsPos \in Procs /\ Done \in Nat
  BY <1>1, IncInProcs DEF TypeOK, ConsPos, HistoryInv, Counted
<1>3. ASSUME NEW b \in Procs
      PROVE  Dist(ConsPos, b) \in Nat /\ Size(Dist(ConsPos, b)) \in Nat /\ Base(b) \in Nat
  BY <1>2, DistValue, SizeNext DEF Base
<1>4. /\ Counted /\ Full /\ Numbered /\ Outcomes /\ Consumed
      /\ Len(outcome) \in Nat /\ Len(delivered) \in Nat
  BY <1>1 DEF TypeOK, HistoryInv
<1> QED BY <1>1, <1>2, <1>3, <1>4, BufferAssumption DEF TypeOK

\* The numbers among them.
LEMMA Numbers ==
  ASSUME IndInv, HistoryInv
  PROVE  /\ Done \in Nat /\ BufSize \in Nat /\ Len(outcome) \in Nat /\ Len(delivered) \in Nat
         /\ \A b \in Procs : /\ head[b] \in Nat /\ tail[b] \in Nat
                             /\ tail[b] <= BufSize /\ head[b] <= BufSize
                             /\ Dist(ConsPos, b) \in Nat /\ Size(Dist(ConsPos, b)) \in Nat
BY Facts

\* Where the generator stands.
LEMMA Standing ==
  ASSUME IndInv, caller # "idle"
  PROVE  /\ Reach \in 0 .. NumProcessor
         /\ \A b \in Procs : InUse(b) <=> Dist(ConsPos, b) < Reach
         /\ caller = "fill" => ~InUse(buffer_pos) /\ Reach = Dist(ConsPos, buffer_pos)
         /\ caller = "post" => InUse(buffer_pos)
         /\ caller \in {"post", "wake", "join"} =>
              Reach = IF InUse(buffer_pos) THEN Dist(ConsPos, buffer_pos) + 1 ELSE 0
<1>1. TypeOK /\ Round /\ Turn(buffer_pos)
  BY DEF IndInv, Going, TypeOK
<1>2. sem_null[buffer_pos] \in Nat
  BY <1>1 DEF TypeOK
<1>3. caller = "fill" => ~InUse(buffer_pos)
  BY <1>1 DEF Turn, WaitingTurn, ReadyTurn, NullTurn, InUse, Filling
<1>4. caller = "post" => InUse(buffer_pos)
  BY <1>1 DEF Turn, WaitingTurn, ReadyTurn, NullTurn, InUse
<1>5. /\ caller = "fill" => GenPos = buffer_pos
      /\ caller \in {"post", "wake", "join"} => GenPos = Inc(buffer_pos)
  BY DEF GenPos
<1> QED BY <1>1, <1>3, <1>4, <1>5, Reached

\* A buffer holds only items that have been made.
LEMMA Within ==
  ASSUME IndInv, HistoryInv, NEW b \in Procs, Held(b)
  PROVE  caller # "idle" /\ Base(b) + tail[b] <= Len(outcome)
<1>1. caller # "idle"
  BY DEF IndInv, Still, Held
<1>2. /\ Done \in Nat /\ tail[b] \in 0 .. BufSize /\ tail[buffer_pos] \in 0 .. BufSize
      /\ BufSize \in Nat /\ Len(outcome) \in Nat
      /\ Dist(ConsPos, b) \in Nat /\ Dist(ConsPos, buffer_pos) \in Nat /\ Reach \in Nat
      /\ Size(Dist(ConsPos, b)) \in Nat /\ Size(Dist(ConsPos, buffer_pos)) \in Nat
  BY <1>1, Facts, Standing
<1>3. \A n \in Nat : Dist(ConsPos, b) < n => Size(Dist(ConsPos, b)) + BufSize <= Size(n)
  BY <1>2, SizeOrder
<1>4. CASE caller = "null"
  <2>1. Len(outcome) = Done + Size(Reach) /\ Dist(ConsPos, b) < Reach
    BY <1>1, <1>4, Facts, Standing DEF Counted, Held
  <2>2. Size(Dist(ConsPos, b)) + BufSize <= Size(Reach) /\ Size(Reach) \in Nat
    BY <1>2, <1>3, <2>1, SizeNext
  <2> QED BY <1>1, <1>2, <2>1, <2>2 DEF Base
<1>5. CASE caller # "null" /\ b = buffer_pos
  <2>1. Len(outcome) = Base(b) + tail[b]
    BY <1>1, <1>5, Facts DEF Counted, Held, IndInv, TypeOK
  <2> QED BY <1>1, <1>2, <2>1 DEF Base
<1>6. CASE caller # "null" /\ b # buffer_pos
  <2>1. InUse(b) /\ Dist(ConsPos, b) < Reach
    BY <1>1, <1>6, Standing DEF Held
  <2>2. caller \in {"fill", "post", "wake", "join"}
    BY <1>1, <1>6 DEF IndInv, TypeOK
  <2>3. Dist(ConsPos, b) # Dist(ConsPos, buffer_pos)
    BY <1>6, DistValue, Facts
  <2>4. /\ Dist(ConsPos, b) < Dist(ConsPos, buffer_pos)
        /\ caller = "fill" \/ InUse(buffer_pos)
    <3>1. Reach = Dist(ConsPos, buffer_pos) \/ Reach = Dist(ConsPos, buffer_pos) + 1
          \/ Reach = 0
      BY <1>1, <2>2, Standing
    <3>2. Reach # 0
      BY <1>2, <2>1
    <3>3. caller = "fill" \/ InUse(buffer_pos)
      BY <1>1, <2>2, <3>2, Standing
    <3> QED BY <1>2, <2>1, <2>3, <3>1, <3>2, <3>3
  <2>5. Len(outcome) = Base(buffer_pos) + tail[buffer_pos]
    BY <1>1, <2>2, <2>4, Facts DEF Counted
  <2>6. Size(Dist(ConsPos, b)) + BufSize <= Size(Dist(ConsPos, buffer_pos))
    BY <1>2, <1>3, <2>4
  <2> QED BY <1>1, <1>2, <2>5, <2>6, SMTT(20) DEF Base
<1> QED BY <1>4, <1>5, <1>6

\* The spots hold different items, all of which have been made.
LEMMA Places ==
  ASSUME IndInv, HistoryInv
  PROVE  /\ \A b \in Procs, s \in Spots : Has(b, s) => item[b][s] \in 1 .. Len(outcome)
         /\ \A b, c \in Procs, s, t \in Spots :
              Has(b, s) /\ Has(c, t) /\ item[b][s] = item[c][t] => b = c /\ s = t
<1>1. ASSUME NEW b \in Procs, NEW s \in Spots, Has(b, s)
      PROVE  item[b][s] \in 1 .. Len(outcome)
  <2>1. item[b][s] = Base(b) + s + 1 /\ Base(b) + tail[b] <= Len(outcome) /\ s < tail[b]
    BY <1>1, Facts, Within DEF Numbered, Has
  <2>2. Base(b) \in Nat /\ s \in Nat /\ tail[b] \in Nat /\ Len(outcome) \in Nat
    BY Facts DEF Spots
  <2> QED BY <2>1, <2>2
<1>2. ASSUME NEW b \in Procs, NEW c \in Procs, NEW s \in Spots, NEW t \in Spots,
             Has(b, s), Has(c, t), Dist(ConsPos, b) < Dist(ConsPos, c)
      PROVE  item[b][s] # item[c][t]
  <2>1. Size(Dist(ConsPos, b)) + BufSize <= Size(Dist(ConsPos, c))
    BY <1>2, SizeOrder, Facts
  <2>2. item[b][s] = Base(b) + s + 1 /\ item[c][t] = Base(c) + t + 1
    BY <1>2, Facts DEF Numbered
  <2>3. /\ Done \in Nat /\ s \in 0 .. BufSize - 1 /\ t \in Nat /\ BufSize \in Nat
        /\ Size(Dist(ConsPos, b)) \in Nat /\ Size(Dist(ConsPos, c)) \in Nat
    BY Facts DEF Spots
  <2> QED BY <2>1, <2>2, <2>3 DEF Base
<1>3. ASSUME NEW b \in Procs, NEW c \in Procs, NEW s \in Spots, NEW t \in Spots,
             Has(b, s), Has(c, t), item[b][s] = item[c][t]
      PROVE  b = c /\ s = t
  <2>1. Dist(ConsPos, b) = Dist(ConsPos, c)
    <3>1. Dist(ConsPos, b) \in Nat /\ Dist(ConsPos, c) \in Nat
      BY Facts
    <3>2. ~(Dist(ConsPos, b) < Dist(ConsPos, c)) /\ ~(Dist(ConsPos, c) < Dist(ConsPos, b))
      BY <1>2, <1>3
    <3> QED BY <3>1, <3>2
  <2>2. b = c
    BY <2>1, DistValue, Facts
  <2>3. item[b][s] = Base(b) + s + 1 /\ item[b][t] = Base(b) + t + 1
    BY <1>3, <2>2, Facts DEF Numbered
  <2>4. Base(b) \in Nat /\ s \in Nat /\ t \in Nat
    BY Facts DEF Spots
  <2> QED BY <1>3, <2>2, <2>3, <2>4
<1> QED BY <1>1, <1>3

\* The spots of a buffer that is in use hold items that are processed from the first one
\* on; in the buffer being filled none is.
LEMMA Unprocessed ==
  ASSUME IndInv, caller # "idle", NEW b \in Procs
  PROVE  /\ buffer_status[b] = "Null" => Processed(b) = 0
         /\ processor[b] = "process" => buffer_status[b] = "Waiting"
         /\ buffer_status[b] = "Waiting" => /\ ~(consumer = "consume" /\ cpos = b)
                                            /\ ~(caller = "fill" /\ buffer_pos = b)
         /\ consumer = "consume" /\ cpos = b => buffer_status[b] = "Ready"
         /\ caller = "fill" /\ buffer_pos = b => buffer_status[b] = "Null"
         /\ caller = "null" /\ buffer_pos = b /\ sem_null[b] > 0 => buffer_status[b] = "Null"
         /\ InUse(b) <=> buffer_status[b] \in {"Waiting", "Ready"}
<1>1. Turn(b) /\ sem_null[b] \in Nat
  BY DEF IndInv, Going, TypeOK
<1> QED BY <1>1 DEF Turn, NullTurn, WaitingTurn, ReadyTurn, Processed, InUse, Processing,
                    Consuming, Filling

\* Steps that leave the buffers and the histories alone, and neither begin nor end the
\* filling, processing or consuming of one.
LEMMA Quiet ==
  ASSUME IndInv, HistoryInv, UNCHANGED <<buffers, history>>, ConsPos' = ConsPos,
         caller' = "fill" \/ caller = "fill" => UNCHANGED <<caller, buffer_pos>>,
         \A b \in Procs : processor'[b] = "process" <=> processor[b] = "process",
         consumer' = "consume" \/ consumer = "consume" => UNCHANGED <<consumer, cpos>>
  PROVE  /\ Numbered' /\ Outcomes' /\ Consumed'
         /\ Done' = Done /\ \A b : (InUse(b)' <=> InUse(b)) /\ Base(b)' = Base(b)
         /\ Len(outcome)' = Len(outcome) /\ Len(delivered)' = Len(delivered)
<1>1. /\ Done' = Done /\ \A b : (InUse(b)' <=> InUse(b)) /\ (Held(b)' <=> Held(b))
      /\ \A b \in Procs : Processed(b)' = Processed(b)
  BY DEF Done, Held, InUse, Processed, buffers, history
<1>2. /\ \A b : Base(b)' = Base(b) /\ \A s : Has(b, s)' <=> Has(b, s)
      /\ UNCHANGED <<item, processor_return, outcome, delivered>>
  BY <1>1 DEF Base, Has, buffers, history
<1>3. Numbered' /\ Outcomes'
  <2>1. Numbered'
    BY <1>2, Facts DEF Numbered
  <2>2. ASSUME NEW b \in Procs, NEW s \in Spots, Has(b, s)
        PROVE  IF s < Processed(b)'
               THEN /\ outcome'[item'[b][s]] \in Results
                    /\ processor_return'[b][s] = outcome'[item'[b][s]]
               ELSE outcome'[item'[b][s]] = Pending
    BY <1>1, <1>2, <2>2, Facts DEF Outcomes
  <2> QED BY <1>2, <2>1, <2>2 DEF Outcomes
<1>4. Consumed'
  BY Facts DEF Consumed, buffers
<1> QED BY <1>1, <1>2, <1>3, <1>4

-----------------------------------------------------------------------------
(* The thread in run(). *)

\* The initial state satisfies the invariant.
LEMMA InitHistory == Init => HistoryInv
<1> SUFFICES ASSUME Init PROVE HistoryInv
  OBVIOUS
<1>1. \A b \in Procs : ~InUse(b) /\ ~Held(b)
  BY DEF Init, InUse, Held
<1>2. Counted /\ Consumed
  BY DEF Init, Counted, Consumed, Done
<1>3. Full /\ Numbered /\ Outcomes
  BY <1>1 DEF Full, Numbered, Outcomes, Has
<1> QED BY <1>2, <1>3 DEF HistoryInv

\* create() and the beginning and the end of run() keep the invariant: the buffers are free.
LEMMA EndsHistory ==
  ASSUME FreshStatus = {"Null"}, IndInv, IndInv', HistoryInv, Create \/ Run \/ Join
  PROVE  HistoryInv'
<1>1. /\ UNCHANGED <<outcome, delivered>>
      /\ caller' \in {"idle", "null"}
      /\ caller' = "null" => buffer_pos' = 0 /\ cpos' = 0 /\ consumer' = "wait"
  BY DEF Create, Run, Join, history
<1>2. \A b \in Procs : ~InUse(b)'
  <2>1. CASE caller' = "idle"
    BY <2>1 DEF IndInv, Still
  <2>2. CASE Run
    <3>1. caller = "idle" /\ UNCHANGED buffers
      BY <2>2 DEF Run
    <3> QED BY <3>1 DEF IndInv, Still, InUse, buffers
  <2> QED BY <2>1, <2>2 DEF Create, Join
<1>3. consumer' # "consume"
  BY <1>1 DEF IndInv, Still
<1>4. Len(outcome) = Len(delivered)
  <2>1. CASE Create \/ Run
    BY <2>1, Facts DEF Create, Run, Counted
  <2>2. CASE Join
    <3>1. caller = "join" /\ consumer = "done" /\ UNCHANGED buffers
      BY <2>2 DEF Join
    <3>2. ~InUse(buffer_pos)
      BY <1>2, <3>1, Facts DEF InUse, buffers
    <3> QED BY <3>1, <3>2, Facts DEF Counted, Done
  <2> QED BY <2>1, <2>2
<1>5. Done' = Len(delivered) /\ Len(delivered) \in Nat
  BY <1>1, <1>3, Facts DEF Done
<1>6. caller' = "null" => Size(Reach)' = 0
  <2> SUFFICES ASSUME caller' = "null" PROVE Size(Reach') = 0
    BY DEF Size
  <2>1. ConsPos' = 0 /\ GenPos' = 0 /\ 0 \in Procs
    BY <1>1, BufferAssumption DEF ConsPos, GenPos, Procs
  <2>2. Reach' = Dist(0, 0)
    BY <1>2, <2>1 DEF Reach, Dist
  <2> QED BY <2>1, <2>2, DistValue, SizeNext
<1>7. Counted'
  BY <1>1, <1>4, <1>5, <1>6 DEF Counted
<1>8. \A b \in Procs : ~Held(b)'
  BY <1>1, <1>2 DEF Held
<1> QED BY <1>2, <1>3, <1>7, <1>8 DEF HistoryInv, Full, Numbered, Outcomes, Consumed, Has

\* Passing a buffer on, and waking the processors, keep the invariant.
LEMMA PassHistory ==
  ASSUME IndInv, HistoryInv, PostWaiting \/ Wake
  PROVE  HistoryInv'
<1>1. /\ UNCHANGED <<buffers, history, processor, consVars>> /\ ConsPos' = ConsPos
      /\ caller \in {"post", "wake"} /\ caller' \in {"null", "wake", "join"}
      /\ caller' = "null" => caller = "post" /\ gen_res = 0 /\ buffer_pos' = Inc(buffer_pos)
      /\ caller' # "null" => UNCHANGED buffer_pos /\ (caller = "post" => gen_res # 0)
  BY DEF PostWaiting, Wake, consVars, ConsPos, Inc
<1>2. /\ Numbered' /\ Outcomes' /\ Consumed' /\ Done' = Done
      /\ \A b : (InUse(b)' <=> InUse(b)) /\ Base(b)' = Base(b)
      /\ Len(outcome)' = Len(outcome)
  BY <1>1, Quiet DEF consVars
<1>3. tail' = tail
  BY <1>1 DEF buffers
<1>4. caller = "post" /\ gen_res = 0 => tail[buffer_pos] = BufSize
  BY Standing, Facts DEF Full
<1>5. Full'
  BY <1>1, <1>2, <1>3, <1>4, Facts DEF Full
<1>6. caller' = "null" => Len(outcome) = Done + Size(Reach')
  <2> SUFFICES ASSUME caller' = "null" PROVE Len(outcome) = Done + Size(Reach')
    OBVIOUS
  <2>1. Len(outcome) = Base(buffer_pos) + BufSize
    BY <1>1, <1>4, Standing, Facts DEF Counted
  <2>2. Reach' = Reach
    BY <1>1, <1>2 DEF Reach, GenPos
  <2>3. Reach = Dist(ConsPos, buffer_pos) + 1
    BY <1>1, Standing
  <2>4. Size(Reach) = Size(Dist(ConsPos, buffer_pos)) + BufSize
    BY <2>3, SizeNext, Facts
  <2>5. Size(Reach') = Size(Reach)
    BY <2>2
  <2>6. Done \in Nat /\ Size(Dist(ConsPos, buffer_pos)) \in Nat /\ BufSize \in Nat
    BY Facts
  <2> QED BY <2>1, <2>4, <2>5, <2>6 DEF Base
<1>7. caller' # "null" =>
        Len(outcome) = IF InUse(buffer_pos) THEN Base(buffer_pos) + tail[buffer_pos] ELSE Done
  BY <1>1, Facts DEF Counted
<1>8. Counted'
  BY <1>1, <1>2, <1>3, <1>6, <1>7, Facts DEF Counted, Size
<1> QED BY <1>2, <1>5, <1>8 DEF HistoryInv

\* Taking a free buffer keeps the invariant.
LEMMA WaitNullHistory ==
  ASSUME IndInv, HistoryInv, WaitNull
  PROVE  HistoryInv'
<1>1. /\ UNCHANGED <<buffer_status, item, processor_return, processor, outcome, delivered>>
      /\ UNCHANGED <<buffer_pos, consumer, cpos>> /\ caller = "null" /\ caller' = "fill"
      /\ head' = [head EXCEPT ![buffer_pos] = 0] /\ tail' = [tail EXCEPT ![buffer_pos] = 0]
      /\ sem_null[buffer_pos] > 0
  BY DEF WaitNull, consVars, history
<1>2. ~InUse(buffer_pos) /\ ~(consumer = "consume" /\ cpos = buffer_pos)
      /\ processor[buffer_pos] # "process"
  BY <1>1, Unprocessed, Facts DEF InUse
<1>3. \A b \in Procs : b # buffer_pos => head'[b] = head[b] /\ tail'[b] = tail[b]
  BY <1>1, Facts
<1>4. /\ tail'[buffer_pos] = 0 /\ \A b : InUse(b)' <=> InUse(b)
      /\ ConsPos' = ConsPos /\ Done' = Done
  BY <1>1, <1>2, <1>3, Facts DEF InUse, ConsPos, Done
<1>5. \A b \in Procs, s \in Spots : Has(b, s)' => b # buffer_pos /\ Has(b, s)
  BY <1>1, <1>3, <1>4 DEF Has, Held, Spots
<1>6. \A b \in Procs : /\ Base(b)' = Base(b)
                       /\ b # buffer_pos => Processed(b)' = Processed(b)
  BY <1>1, <1>3, <1>4 DEF Base, Processed
<1>7. Numbered'
  BY <1>1, <1>5, <1>6, Facts DEF Numbered
<1>8. Outcomes'
  BY <1>1, <1>5, <1>6, Facts DEF Outcomes
<1>9. Full' /\ Consumed'
  BY <1>1, <1>2, <1>3, <1>4, Facts DEF Full, Consumed
<1>10. Counted'
  <2>1. Reach = Dist(ConsPos, buffer_pos)
    BY <1>1, <1>2, Reached DEF IndInv, Going, GenPos
  <2>2. Len(outcome) = Base(buffer_pos)
    BY <1>1, <2>1, Facts DEF Counted, Base
  <2>3. Base(buffer_pos)' = Base(buffer_pos) /\ Base(buffer_pos) \in Nat
    BY <1>1, <1>6, Facts
  <2> QED BY <1>1, <1>4, <2>2, <2>3, Facts DEF Counted
<1> QED BY <1>7, <1>8, <1>9, <1>10 DEF HistoryInv

\* Making an item keeps the invariant.
LEMMA GenerateHistory ==
  ASSUME IndInv, HistoryInv, GenerateItem
  PROVE  HistoryInv'
<1>1. /\ UNCHANGED <<buffer_status, head, processor_return, processor, delivered>>
      /\ UNCHANGED <<caller, buffer_pos, gen_res, consumer, cpos>> /\ caller = "fill"
      /\ tail[buffer_pos] < BufSize
  BY DEF GenerateItem, callerVars, consVars
<1>2. /\ Len(outcome') = Len(outcome) + 1 /\ outcome'[Len(outcome) + 1] = Pending
      /\ \A i \in 1 .. Len(outcome) : outcome'[i] = outcome[i]
  BY Facts DEF GenerateItem
<1>3. tail[buffer_pos] \in Spots
  BY <1>1, Facts DEF Spots
<1>4. /\ tail'[buffer_pos] = tail[buffer_pos] + 1
      /\ \A b \in Procs : b # buffer_pos => tail'[b] = tail[b] /\ item'[b] = item[b]
      /\ item'[buffer_pos][tail[buffer_pos]] = Len(outcome) + 1
      /\ \A s \in Spots : s # tail[buffer_pos] => item'[buffer_pos][s] = item[buffer_pos][s]
  BY <1>3, Facts DEF GenerateItem
<1>5. /\ ~InUse(buffer_pos) /\ ~(consumer = "consume" /\ cpos = buffer_pos)
      /\ Processed(buffer_pos) = 0 /\ buffer_status[buffer_pos] = "Null"
  BY <1>1, Unprocessed, Facts DEF InUse
<1>6. /\ \A b : (InUse(b)' <=> InUse(b)) /\ (Held(b)' <=> Held(b)) /\ Base(b)' = Base(b)
      /\ \A b \in Procs : Processed(b)' = Processed(b)
      /\ Done' = Done
  BY <1>1, <1>4, <1>5 DEF InUse, Held, Base, ConsPos, Done, Processed
<1>7. \A b \in Procs, s \in Spots :
        Has(b, s)' <=> Has(b, s) \/ (b = buffer_pos /\ s = tail[buffer_pos])
  <2> SUFFICES ASSUME NEW b \in Procs, NEW s \in Spots
               PROVE  Has(b, s)' <=> Has(b, s) \/ (b = buffer_pos /\ s = tail[buffer_pos])
    OBVIOUS
  <2>1. Has(b, s)' <=> Held(b) /\ s < tail'[b]
    BY <1>6 DEF Has
  <2>2. CASE b = buffer_pos
    <3>1. tail[buffer_pos] \in Nat /\ s \in Nat
      BY <1>3 DEF Spots
    <3>2. Held(buffer_pos)
      BY <1>1 DEF Held
    <3>3. s < tail'[buffer_pos] <=> s < tail[buffer_pos] \/ s = tail[buffer_pos]
      BY <1>4, <3>1
    <3> QED BY <2>1, <2>2, <3>2, <3>3 DEF Has
  <2>3. CASE b # buffer_pos
    BY <1>4, <2>1, <2>3 DEF Has
  <2> QED BY <2>2, <2>3
<1>8. \A b \in Procs, s \in Spots : Has(b, s) => /\ item'[b][s] = item[b][s]
                                                 /\ outcome'[item[b][s]] = outcome[item[b][s]]
  <2>1. ASSUME NEW b \in Procs, NEW s \in Spots, Has(b, s)
        PROVE  item'[b][s] = item[b][s]
    <3>1. s < tail[b] /\ s \in Nat
      BY <2>1 DEF Has, Spots
    <3>2. b = buffer_pos => s # tail[buffer_pos]
      BY <1>3, <3>1 DEF Spots
    <3> QED BY <1>4, <3>2
  <2> QED BY <1>2, <2>1, Places
<1>9. Len(outcome) = Base(buffer_pos) + tail[buffer_pos]
  BY <1>1, Facts DEF Counted
<1>10. Numbered'
  <2>1. \A b \in Procs, s \in Spots : Has(b, s) => item'[b][s] = Base(b)' + s + 1
    BY <1>6, <1>8, Facts DEF Numbered
  <2>2. item'[buffer_pos][tail[buffer_pos]] = Base(buffer_pos) + tail[buffer_pos] + 1
    BY <1>4, <1>9
  <2>3. ASSUME NEW b \in Procs, NEW s \in Spots, Has(b, s)'
        PROVE  item'[b][s] = Base(b)' + s + 1
    BY <1>6, <1>7, <2>1, <2>2, <2>3
  <2> QED BY <2>3 DEF Numbered
<1>11. Outcomes'
  <2>1. ASSUME NEW b \in Procs, NEW s \in Spots, Has(b, s)
        PROVE  IF s < Processed(b)'
               THEN /\ outcome'[item'[b][s]] \in Results
                    /\ processor_return'[b][s] = outcome'[item'[b][s]]
               ELSE outcome'[item'[b][s]] = Pending
    <3>1. item'[b][s] = item[b][s] /\ outcome'[item'[b][s]] = outcome[item[b][s]]
      BY <1>8, <2>1
    <3>2. Processed(b)' = Processed(b) /\ processor_return' = processor_return
      BY <1>1, <1>6
    <3> QED BY <2>1, <3>1, <3>2, Facts DEF Outcomes
  <2>2. /\ ~(tail[buffer_pos] < Processed(buffer_pos))
        /\ outcome'[item'[buffer_pos][tail[buffer_pos]]] = Pending
    BY <1>2, <1>3, <1>4, <1>5 DEF Spots
  <2>3. ASSUME NEW b \in Procs, NEW s \in Spots, Has(b, s)'
        PROVE  IF s < Processed(b)'
               THEN /\ outcome'[item'[b][s]] \in Results
                    /\ processor_return'[b][s] = outcome'[item'[b][s]]
               ELSE outcome'[item'[b][s]] = Pending
    <3>1. CASE Has(b, s)
      BY <2>1, <3>1
    <3>2. CASE b = buffer_pos /\ s = tail[buffer_pos]
      BY <1>6, <2>2, <3>2
    <3> QED BY <1>7, <2>3, <3>1, <3>2
  <2> QED BY <2>3 DEF Outcomes
<1>12. Full' /\ Consumed'
  BY <1>1, <1>4, <1>5, <1>6, Facts DEF Full, Consumed
<1>13. Counted'
  <2>1. Len(outcome)' = Base(buffer_pos)' + tail[buffer_pos]'
    BY <1>1, <1>2, <1>4, <1>6, <1>9, Facts, SMTT(20)
  <2> QED BY <1>1, <1>6, <2>1, Facts DEF Counted
<1> QED BY <1>10, <1>11, <1>12, <1>13 DEF HistoryInv

\* Closing a buffer keeps the invariant.
LEMMA EndBufferHistory ==
  ASSUME IndInv, HistoryInv, EndBuffer
  PROVE  HistoryInv'
<1>1. /\ UNCHANGED <<head, tail, item, processor_return, processor, outcome, delivered>>
      /\ UNCHANGED <<buffer_pos, consumer, cpos>> /\ caller = "fill" /\ caller' = "post"
      /\ gen_res' = IF tail[buffer_pos] < BufSize THEN 1 ELSE 0
      /\ buffer_status' = [buffer_status EXCEPT ![buffer_pos] = "Waiting"]
  BY DEF EndBuffer, consVars, history
<1>2. /\ buffer_status'[buffer_pos] = "Waiting"
      /\ \A b \in Procs : b # buffer_pos => buffer_status'[b] = buffer_status[b]
  BY <1>1, Facts
<1>3. /\ buffer_status[buffer_pos] = "Null" /\ processor[buffer_pos] # "process"
  BY <1>1, Unprocessed, Facts
<1>4. \A b \in Procs : /\ InUse(b)' <=> InUse(b) \/ b = buffer_pos
                       /\ Held(b)' <=> Held(b)
                       /\ Processed(b)' = Processed(b)
                       /\ Base(b)' = Base(b)
  BY <1>1, <1>2, <1>3 DEF InUse, Held, Processed, Base, ConsPos, Done
<1>5. /\ \A b \in Procs, s \in Spots : Has(b, s)' <=> Has(b, s)
      /\ Done' = Done
  BY <1>1, <1>4 DEF Has, Done
<1>6. Numbered'
  BY <1>1, <1>4, <1>5, Facts DEF Numbered
<1>7. Outcomes'
  <2>1. ASSUME NEW b \in Procs, NEW s \in Spots, Has(b, s)
        PROVE  IF s < Processed(b)'
               THEN /\ outcome'[item'[b][s]] \in Results
                    /\ processor_return'[b][s] = outcome'[item'[b][s]]
               ELSE outcome'[item'[b][s]] = Pending
    BY <1>1, <1>4, <2>1, Facts DEF Outcomes
  <2> QED BY <1>5, <2>1 DEF Outcomes
<1>8. Full' /\ Consumed'
  BY <1>1, <1>4, Facts DEF Full, Consumed
<1>9. Counted'
  BY <1>1, <1>4, <1>5, Facts DEF Counted
<1> QED BY <1>6, <1>7, <1>8, <1>9 DEF HistoryInv

-----------------------------------------------------------------------------
(* The processors. *)

\* Setting one place of a sequence leaves the others.
LEMMA PlaceValue ==
  ASSUME NEW S, NEW s \in Seq(S), NEW i \in 1 .. Len(s), NEW x \in S
  PROVE  /\ Len([s EXCEPT ![i] = x]) = Len(s) /\ [s EXCEPT ![i] = x][i] = x
         /\ \A j \in 1 .. Len(s) : j # i => [s EXCEPT ![i] = x][j] = s[j]
OBVIOUS

\* Steps that move no item and no position but those of the processor's own buffer, and
\* leave the others in use, keep most of the invariant.
LEMMA Apart ==
  ASSUME IndInv, HistoryInv, caller # "idle", NEW p \in Procs,
         processor[p] = "process" \/ (buffer_status[p] = "Waiting" /\ processor[p] = "test"),
         UNCHANGED <<tail, item, delivered, caller, buffer_pos, gen_res, consumer, cpos>>,
         Len(outcome') = Len(outcome),
         buffer_status'[p] \in {"Waiting", "Ready"},
         \A b \in Procs : b # p => /\ buffer_status'[b] = buffer_status[b]
                                   /\ processor'[b] = processor[b]
                                   /\ head'[b] = head[b]
  PROVE  /\ Counted' /\ Full' /\ Numbered' /\ Consumed'
         /\ \A b \in Procs : /\ InUse(b)' <=> InUse(b)
                             /\ b # p => Processed(b)' = Processed(b)
         /\ \A b \in Procs, s \in Spots : Has(b, s)' <=> Has(b, s)
<1>1. buffer_status[p] = "Waiting" /\ ~(consumer = "consume" /\ cpos = p)
  BY Unprocessed
<1>2. \A b \in Procs : (InUse(b)' <=> InUse(b)) /\ (b # p => Processed(b)' = Processed(b))
  BY <1>1 DEF InUse, Processed
<1>3. ConsPos' = ConsPos /\ GenPos' = GenPos
  BY DEF ConsPos, GenPos
<1>4. Done' = Done /\ Reach' = Reach
  BY <1>1, <1>2, <1>3, Facts DEF Done, Reach
<1>5. \A b \in Procs : (Held(b)' <=> Held(b)) /\ Base(b)' = Base(b)
  BY <1>2, <1>3, <1>4 DEF Held, Base
<1>6. \A b \in Procs, s \in Spots : Has(b, s)' <=> Has(b, s)
  BY <1>5 DEF Has
<1>7. Numbered' /\ Full'
  <2>1. Numbered'
    BY <1>5, <1>6, Facts DEF Numbered
  <2>2. Full'
    BY <1>2, Facts DEF Full
  <2> QED BY <2>1, <2>2
<1>8. Consumed'
  BY <1>1, Facts DEF Consumed
<1>9. Counted'
  BY <1>2, <1>4, <1>5, Facts DEF Counted, Size
<1> QED BY <1>2, <1>6, <1>7, <1>8, <1>9

\* Beginning and ending a buffer, and the semaphores, keep the invariant.
LEMMA ProcessorHistory ==
  ASSUME IndInv, HistoryInv, NEW p \in Procs,
         WaitWaiting(p) \/ TestWaiting(p) \/ EndProcess(p) \/ PostReady(p) \/ ExitPost(p)
  PROVE  HistoryInv'
<1> USE DEF callerVars, consVars, history
<1>1. caller # "idle"
  BY DEF IndInv, Still, WaitWaiting, TestWaiting, EndProcess, PostReady, ExitPost
<1>2. CASE \/ WaitWaiting(p) \/ PostReady(p) \/ ExitPost(p)
           \/ TestWaiting(p) /\ buffer_status[p] # "Waiting"
  <2>1. /\ UNCHANGED <<buffers, callerVars, consVars, history>>
        /\ \A b \in Procs : processor'[b] = "process" <=> processor[b] = "process"
    BY <1>2, Facts DEF WaitWaiting, TestWaiting, PostReady, ExitPost, Goto, buffers
  <2>2. ConsPos' = ConsPos /\ GenPos' = GenPos
    BY <2>1 DEF ConsPos, GenPos
  <2>3. /\ Numbered' /\ Outcomes' /\ Consumed' /\ Done' = Done
        /\ \A b : (InUse(b)' <=> InUse(b)) /\ Base(b)' = Base(b)
    BY <2>1, <2>2, Quiet
  <2>4. Counted' /\ Full'
    BY <2>1, <2>2, <2>3, Facts DEF Counted, Full, Reach, Size, buffers
  <2> QED BY <2>3, <2>4 DEF HistoryInv
<1>3. CASE TestWaiting(p) /\ buffer_status[p] = "Waiting"
  <2>1. /\ UNCHANGED <<tail, item, processor_return, buffer_status, outcome>>
        /\ processor[p] = "test" /\ processor'[p] = "process" /\ head'[p] = 0
        /\ \A b \in Procs : b # p => processor'[b] = processor[b] /\ head'[b] = head[b]
    BY <1>3, Facts DEF TestWaiting, Goto
  <2>2. UNCHANGED <<delivered, caller, buffer_pos, gen_res, consumer, cpos>>
    BY <1>3 DEF TestWaiting
  <2>3. /\ Counted' /\ Full' /\ Numbered' /\ Consumed'
        /\ \A b \in Procs : b # p => Processed(b)' = Processed(b)
        /\ \A b \in Procs, s \in Spots : Has(b, s)' <=> Has(b, s)
    BY <1>1, <1>3, <2>1, <2>2, Apart
  <2>4. Processed(p) = 0 /\ Processed(p)' = 0
    BY <1>3, <2>1 DEF Processed
  <2>5. ASSUME NEW b \in Procs
        PROVE  Processed(b)' = Processed(b)
    BY <2>3, <2>4
  <2>6. Outcomes'
    BY <2>1, <2>3, <2>5, Facts DEF Outcomes
  <2> QED BY <2>3, <2>6 DEF HistoryInv
<1>4. CASE EndProcess(p)
  <2>1. /\ UNCHANGED <<head, tail, item, processor_return, outcome>>
        /\ processor[p] = "process" /\ head[p] >= tail[p] /\ buffer_status'[p] = "Ready"
        /\ \A b \in Procs : b # p => /\ processor'[b] = processor[b]
                                     /\ buffer_status'[b] = buffer_status[b]
    BY <1>4, Facts DEF EndProcess, Goto
  <2>2. UNCHANGED <<delivered, caller, buffer_pos, gen_res, consumer, cpos>>
    BY <1>4 DEF EndProcess
  <2>3. /\ Counted' /\ Full' /\ Numbered' /\ Consumed'
        /\ \A b \in Procs : b # p => Processed(b)' = Processed(b)
        /\ \A b \in Procs, s \in Spots : Has(b, s)' <=> Has(b, s)
    BY <1>1, <2>1, <2>2, Apart
  <2>4. Processed(p) = head[p] /\ Processed(p)' = tail[p]
    BY <1>1, <2>1, Unprocessed DEF Processed
  <2>5. ASSUME NEW b \in Procs, NEW s \in Spots, Has(b, s)
        PROVE  s < Processed(b)' <=> s < Processed(b)
    <3>1. CASE b = p
      <4>1. s < tail[p] /\ s \in Nat /\ tail[p] \in Nat /\ head[p] \in Nat
        BY <2>5, <3>1, Facts DEF Has, Spots
      <4> QED BY <2>1, <2>4, <3>1, <4>1
    <3> QED BY <2>3, <3>1
  <2>6. Outcomes'
    BY <2>1, <2>3, <2>5, Facts DEF Outcomes
  <2> QED BY <2>3, <2>6 DEF HistoryInv
<1> QED BY <1>2, <1>3, <1>4

\* Processing an item keeps the invariant.
LEMMA ProcessHistory ==
  ASSUME IndInv, HistoryInv, NEW p \in Procs, ProcessItem(p)
  PROVE  /\ HistoryInv' /\ caller # "idle"
         /\ item[p][head[p]] \in 1 .. Len(outcome) /\ outcome[item[p][head[p]]] = Pending
<1>1. caller # "idle"
  BY DEF IndInv, Still, ProcessItem
<1>2. /\ UNCHANGED <<buffer_status, tail, item, processor, delivered>>
      /\ UNCHANGED <<caller, buffer_pos, gen_res, consumer, cpos>>
      /\ processor[p] = "process" /\ head[p] < tail[p]
      /\ head'[p] = head[p] + 1 /\ \A b \in Procs : b # p => head'[b] = head[b]
  BY Facts DEF ProcessItem, callerVars, consVars
<1>3. buffer_status[p] = "Waiting"
  BY <1>1, <1>2, Unprocessed
<1>4. head[p] \in Spots /\ Processed(p) = head[p] /\ Processed(p)' = head[p] + 1
  <2>1. head[p] \in 0 .. BufSize /\ tail[p] \in 0 .. BufSize /\ BufSize \in Nat
    BY Facts
  <2> QED BY <1>2, <1>3, <2>1 DEF Spots, Processed
<1>5. Has(p, head[p])
  BY <1>2, <1>3 DEF Has, Held, InUse
<1>6. item[p][head[p]] \in 1 .. Len(outcome)
  BY <1>4, <1>5, Places
<1>7. outcome[item[p][head[p]]] = Pending
  <2>1. ~(head[p] < Processed(p))
    BY <1>4 DEF Spots
  <2> QED BY <1>4, <1>5, <2>1, Facts DEF Outcomes
<1>8. PICK r \in Results :
        /\ processor_return' = [processor_return EXCEPT ![p][head[p]] = r]
        /\ outcome' = [outcome EXCEPT ![item[p][head[p]]] = r]
  BY DEF ProcessItem
<1>9. /\ Len(outcome') = Len(outcome)
      /\ outcome'[item[p][head[p]]] = r
      /\ \A i \in 1 .. Len(outcome) : i # item[p][head[p]] => outcome'[i] = outcome[i]
  <2>1. outcome \in Seq(Results \cup {Pending}) /\ r \in Results \cup {Pending}
    BY Facts
  <2>2. DEFINE new == [outcome EXCEPT ![item[p][head[p]]] = r]
  <2>3. /\ Len(new) = Len(outcome) /\ new[item[p][head[p]]] = r
        /\ \A i \in 1 .. Len(outcome) : i # item[p][head[p]] => new[i] = outcome[i]
    BY <1>6, <2>1, PlaceValue
  <2> QED BY <1>8, <2>3
<1>10. /\ processor_return'[p][head[p]] = r
       /\ \A b \in Procs, s \in Spots :
            b # p \/ s # head[p] => processor_return'[b][s] = processor_return[b][s]
  BY <1>4, <1>8, Facts
<1>11. /\ Counted' /\ Full' /\ Numbered' /\ Consumed'
       /\ \A b \in Procs : b # p => Processed(b)' = Processed(b)
       /\ \A b \in Procs, s \in Spots : Has(b, s)' <=> Has(b, s)
  BY <1>1, <1>2, <1>3, <1>9, Apart
<1>12. ASSUME NEW b \in Procs, NEW s \in Spots, Has(b, s)
       PROVE  IF s < Processed(b)'
              THEN /\ outcome'[item'[b][s]] \in Results
                   /\ processor_return'[b][s] = outcome'[item'[b][s]]
              ELSE outcome'[item'[b][s]] = Pending
  <2>1. CASE b = p /\ s = head[p]
    BY <1>2, <1>4, <1>9, <1>10, <2>1 DEF Spots
  <2>2. CASE b # p \/ s # head[p]
    <3>1. item[b][s] \in 1 .. Len(outcome) /\ item[b][s] # item[p][head[p]]
      BY <1>4, <1>5, <1>12, <2>2, Places
    <3>2. /\ outcome'[item[b][s]] = outcome[item[b][s]] /\ item' = item
          /\ processor_return'[b][s] = processor_return[b][s]
      BY <1>2, <1>9, <1>10, <2>2, <3>1
    <3>3. s < Processed(b)' <=> s < Processed(b)
      BY <1>4, <1>11, <2>2 DEF Spots
    <3> QED BY <1>12, <3>2, <3>3, Facts DEF Outcomes
  <2> QED BY <2>1, <2>2
<1>13. Outcomes'
  BY <1>11, <1>12 DEF Outcomes
<1> QED BY <1>1, <1>6, <1>7, <1>11, <1>13 DEF HistoryInv

-----------------------------------------------------------------------------
(* The consumer. *)

\* The semaphores, beginning a buffer, and consuming an item keep the invariant.
LEMMA ConsumerHistory ==
  ASSUME IndInv, HistoryInv, WaitReady \/ TestReady \/ ConsumeItem \/ PostNull
  PROVE  HistoryInv'
<1> USE DEF callerVars
<1>1. caller # "idle" /\ cpos \in Procs
  BY Facts DEF IndInv, Still, WaitReady, TestReady, ConsumeItem, PostNull
<1>2. CASE WaitReady \/ PostNull \/ (TestReady /\ buffer_status[cpos] # "Ready")
  <2>1. /\ UNCHANGED <<buffers, callerVars, processor, history>>
        /\ consumer # "consume" /\ consumer' # "consume" /\ ConsPos' = ConsPos
    BY <1>2 DEF WaitReady, TestReady, PostNull, ConsPos, Inc, buffers
  <2>2. GenPos' = GenPos
    BY <2>1 DEF GenPos
  <2>3. /\ Numbered' /\ Outcomes' /\ Consumed' /\ Done' = Done
        /\ \A b : (InUse(b)' <=> InUse(b)) /\ Base(b)' = Base(b)
    BY <2>1, Quiet
  <2>4. Full'
    BY <2>1, <2>3, Facts DEF Full, buffers
  <2>5. Reach' = Reach /\ tail' = tail
    BY <2>1, <2>2, <2>3 DEF Reach, buffers
  <2>6. Counted'
    BY <2>1, <2>3, <2>5, Facts DEF Counted, Size, history
  <2> QED BY <2>3, <2>4, <2>6 DEF HistoryInv
<1>3. CASE ConsumeItem \/ (TestReady /\ buffer_status[cpos] = "Ready")
  <2>1. /\ UNCHANGED <<buffer_status, tail, item, processor_return, processor, outcome>>
        /\ UNCHANGED callerVars
        /\ cpos' = cpos /\ consumer' = "consume" /\ consumer \in {"test", "consume"}
        /\ \A b \in Procs : b # cpos => head'[b] = head[b]
    <3>1. CASE ConsumeItem
      BY <3>1, Facts DEF ConsumeItem, consVars
    <3>2. CASE TestReady /\ buffer_status[cpos] = "Ready"
      BY <3>2, Facts DEF TestReady, history
    <3> QED BY <1>3, <3>1, <3>2
  <2>2. buffer_status[cpos] = "Ready"
    BY <1>1, <1>3, Unprocessed DEF ConsumeItem
  <2>3. head'[cpos] \in Nat /\ head'[cpos] <= tail[cpos] /\ Done' = Done
    <3>1. CASE ConsumeItem
      <4>1. /\ Len(delivered') = Len(delivered) + 1 /\ head'[cpos] = head[cpos] + 1
            /\ head[cpos] < tail[cpos] /\ consumer = "consume"
        BY <3>1, <1>1, Facts DEF ConsumeItem
      <4> QED BY <1>1, <2>1, <4>1, Numbers DEF Done
    <3>2. CASE TestReady /\ buffer_status[cpos] = "Ready"
      <4>1. delivered' = delivered /\ head'[cpos] = 0 /\ consumer = "test"
        BY <1>1, <3>2, Facts DEF TestReady, history
      <4> QED BY <1>1, <2>1, <4>1, Numbers DEF Done
    <3> QED BY <1>3, <3>1, <3>2
  <2>4. ConsPos' = ConsPos /\ GenPos' = GenPos
    BY <2>1 DEF ConsPos, GenPos
  <2>5. \A b : (InUse(b)' <=> InUse(b)) /\ (Held(b)' <=> Held(b)) /\ Base(b)' = Base(b)
    BY <2>1, <2>3, <2>4 DEF InUse, Held, Base
  <2>6. \A b \in Procs : Processed(b)' = Processed(b)
    BY <2>1, <2>2 DEF Processed
  <2>7. \A b, s : Has(b, s)' <=> Has(b, s)
    BY <2>1, <2>5 DEF Has
  <2>8. Numbered' /\ Full' /\ Consumed'
    BY <2>1, <2>3, <2>5, <2>7, Facts DEF Numbered, Full, Consumed
  <2>9. Outcomes'
    BY <2>1, <2>6, <2>7, Facts DEF Outcomes
  <2>10. Counted'
    BY <1>1, <2>1, <2>3, <2>4, <2>5, Facts DEF Counted, Reach, Size
  <2> QED BY <2>8, <2>9, <2>10 DEF HistoryInv
<1> QED BY <1>2, <1>3

\* Giving a buffer back keeps the invariant.
LEMMA EndConsumeHistory ==
  ASSUME IndInv, HistoryInv, IndInv', EndConsume
  PROVE  HistoryInv'
<1>1. /\ UNCHANGED <<head, tail, item, processor_return, processor, outcome, delivered>>
      /\ UNCHANGED <<status, caller, buffer_pos, gen_res, cpos>>
      /\ consumer = "consume" /\ consumer' = "post" /\ head[cpos] >= tail[cpos]
      /\ buffer_status' = [buffer_status EXCEPT ![cpos] = "Null"] /\ caller # "idle"
  BY DEF EndConsume, callerVars, history, IndInv, Still
<1>2. /\ buffer_status'[cpos] = "Null" /\ cpos \in Procs /\ buffer_status[cpos] = "Ready"
      /\ \A b \in Procs : b # cpos => buffer_status'[b] = buffer_status[b]
  BY <1>1, Unprocessed, Facts
<1>3. /\ ConsPos = cpos /\ ConsPos' = Inc(cpos) /\ GenPos' = GenPos
      /\ ~(caller = "fill" /\ buffer_pos = cpos)
  BY <1>1, <1>2, Unprocessed DEF ConsPos, GenPos, Inc
<1>4. \A b \in Procs : /\ InUse(b)' <=> InUse(b) /\ b # cpos
                       /\ Held(b)' <=> Held(b) /\ b # cpos
                       /\ b # cpos => Processed(b)' = Processed(b)
                       /\ b # cpos => Dist(ConsPos', b) = Dist(ConsPos, b) - 1
  <2>1. \A b \in Procs : InUse(b)' <=> InUse(b) /\ b # cpos
    BY <1>2 DEF InUse
  <2>2. \A b \in Procs : Held(b)' <=> Held(b) /\ b # cpos
    BY <1>1, <1>3, <2>1 DEF Held
  <2>3. \A b \in Procs : b # cpos => Processed(b)' = Processed(b)
    BY <1>1, <1>2 DEF Processed
  <2>4. \A b \in Procs : b # cpos => Dist(ConsPos', b) = Dist(ConsPos, b) - 1
    BY <1>2, <1>3, DistAhead
  <2> QED BY <2>1, <2>2, <2>3, <2>4
<1>5. Done' = Done + tail[cpos] /\ Base(cpos) = Done /\ Done' \in Nat
  <2>1. head[cpos] = tail[cpos]
    <3>1. head[cpos] <= tail[cpos]
      BY <1>1, Facts DEF Consumed
    <3> QED BY <1>1, <1>2, <3>1, Numbers
  <2>2. Done' = Len(delivered) /\ Done = Len(delivered) - head[cpos]
    BY <1>1 DEF Done
  <2>3. Dist(ConsPos, cpos) = 0
    BY <1>2, <1>3, DistValue
  <2>4. Base(cpos) = Done
    BY <2>3, SizeNext, Facts DEF Base
  <2> QED BY <1>2, <2>1, <2>2, <2>4, Numbers
<1>6. InUse(cpos) /\ Reach >= 1 /\ Reach \in Nat /\ Dist(ConsPos, cpos) = 0
  BY <1>1, <1>2, <1>3, DistValue, Standing DEF InUse
<1>7. tail[cpos] = BufSize \/ \A b \in Procs : Held(b) => b = cpos
  <2> SUFFICES ASSUME tail[cpos] # BufSize, NEW b \in Procs, Held(b) PROVE b = cpos
    OBVIOUS
  <2>1. cpos = buffer_pos /\ caller \in {"post", "wake", "join"}
    BY <1>2, <1>6, Facts DEF Full
  <2>2. Reach = 1
    BY <1>1, <1>6, <2>1, Standing
  <2>3. InUse(b)
    BY <2>1 DEF Held
  <2>4. Dist(ConsPos, b) = 0
    BY <1>1, <2>2, <2>3, Standing, Numbers
  <2> QED BY <1>2, <1>3, <2>4, DistValue
<1>8. \A b \in Procs : Held(b)' => Base(b)' = Base(b)
  <2> SUFFICES ASSUME NEW b \in Procs, Held(b)' PROVE Base(b)' = Base(b)
    OBVIOUS
  <2>1. b # cpos /\ tail[cpos] = BufSize
    BY <1>4, <1>7
  <2>2. Dist(ConsPos, b) \in Nat \ {0} /\ Dist(ConsPos', b) = Dist(ConsPos, b) - 1
    BY <1>2, <1>3, <1>4, <2>1, DistValue, Facts
  <2>3. Size(Dist(ConsPos, b)) = Size(Dist(ConsPos, b) - 1) + BufSize
    BY <2>2, SizeNext
  <2>4. Size(Dist(ConsPos, b) - 1) \in Nat /\ Done \in Nat /\ BufSize \in Nat
    <3>1. Dist(ConsPos, b) - 1 \in Nat
      BY <2>2
    <3> QED BY <3>1, SizeNext, Numbers
  <2>5. Base(b)' = Done' + Size(Dist(ConsPos', b))
    BY DEF Base, Size
  <2> QED BY <1>5, <2>1, <2>2, <2>3, <2>4, <2>5 DEF Base
<1>9. \A b \in Procs, s \in Spots : Has(b, s)' <=> Has(b, s) /\ b # cpos
  BY <1>1, <1>4 DEF Has
<1>10. Numbered'
  <2>1. \A b \in Procs, s \in Spots : Has(b, s)' => item[b][s] = Base(b)' + s + 1
    BY <1>8, <1>9, Facts DEF Numbered, Has
  <2> QED BY <1>1, <2>1 DEF Numbered
<1>11. Outcomes'
  BY <1>1, <1>4, <1>9, Facts DEF Outcomes
<1>12. Full' /\ Consumed'
  BY <1>1, <1>4, Facts DEF Full, Consumed
<1>13. Counted'
  <2>1. caller = "null" => Len(outcome) = Done' + Size(Reach')
    <3> SUFFICES ASSUME caller = "null" PROVE Len(outcome) = Done' + Size(Reach')
      OBVIOUS
    <3>1. tail[cpos] = BufSize /\ Len(outcome) = Done + Size(Reach)
      BY <1>2, <1>6, Facts DEF Full, Counted
    <3>2. Reach' = Reach - 1
      <4>1. ~(\A b \in Procs : InUse(b)')
        BY <1>2, <1>4
      <4>2. Reach' = Dist(Inc(cpos), buffer_pos) /\ GenPos = buffer_pos
        BY <1>1, <1>3, <4>1 DEF Reach, Dist, GenPos
      <4>3. CASE \A b \in Procs : InUse(b)
        <5>1. Reach = NumProcessor
          BY <4>3 DEF Reach
        <5>2. cpos = buffer_pos
          BY <1>2, <1>3, <4>2, <4>3, <5>1, Facts DEF IndInv, Going, Round, Procs
        <5> QED BY <1>2, <4>2, <5>1, <5>2, DistAhead
      <4>4. CASE ~(\A b \in Procs : InUse(b))
        <5>1. Reach = Dist(cpos, buffer_pos)
          BY <1>3, <4>2, <4>4 DEF Reach
        <5>2. cpos # buffer_pos
          BY <1>2, <1>6, <5>1, DistValue
        <5> QED BY <1>2, <4>2, <5>1, <5>2, DistAhead, Facts
      <4> QED BY <4>3, <4>4
    <3>3. Size(Reach) = Size(Reach - 1) + BufSize /\ Size(Reach - 1) \in Nat
      BY <1>6, SizeNext
    <3>4. Size(Reach') = Size(Reach - 1) /\ Done \in Nat /\ BufSize \in Nat
      BY <3>2, Facts
    <3> QED BY <1>5, <3>1, <3>3, <3>4
  <2>2. caller = "fill" => Len(outcome) = Base(buffer_pos)' + tail[buffer_pos]
    <3>1. caller = "fill" => Held(buffer_pos)'
      BY <1>1 DEF Held
    <3> QED BY <1>1, <1>8, <3>1, Facts DEF Counted
  <2>3. caller \in {"post", "wake", "join"} =>
          Len(outcome) = IF InUse(buffer_pos)'
                         THEN Base(buffer_pos)' + tail[buffer_pos] ELSE Done'
    <3> SUFFICES ASSUME caller \in {"post", "wake", "join"}
                 PROVE  Len(outcome) = IF InUse(buffer_pos)'
                                       THEN Base(buffer_pos)' + tail[buffer_pos] ELSE Done'
      OBVIOUS
    <3>1. InUse(buffer_pos) /\ Len(outcome) = Base(buffer_pos) + tail[buffer_pos]
      BY <1>1, <1>6, Standing, Facts DEF Counted
    <3>2. CASE cpos = buffer_pos
      BY <1>1, <1>4, <1>5, <3>1, <3>2, Facts
    <3>3. CASE cpos # buffer_pos
      <4>1. InUse(buffer_pos)' /\ Held(buffer_pos)'
        BY <1>1, <1>4, <3>1, <3>3, Facts DEF Held
      <4> QED BY <1>1, <1>8, <3>1, <4>1, Facts
    <3> QED BY <3>2, <3>3
  <2> QED BY <1>1, <1>5, <2>1, <2>2, <2>3, Facts DEF Counted, Size
<1> QED BY <1>10, <1>11, <1>12, <1>13 DEF HistoryInv

\* Every step keeps the invariant.
LEMMA NextHistory ==
  ASSUME FreshStatus = {"Null"}, IndInv, IndInv', HistoryInv, [Next]_vars
  PROVE  HistoryInv'
<1>1. CASE Caller
  BY <1>1, EndsHistory, PassHistory, WaitNullHistory, GenerateHistory, EndBufferHistory
     DEF Caller
<1>2. ASSUME NEW p \in Procs, Processor(p) PROVE HistoryInv'
  BY <1>2, ProcessorHistory, ProcessHistory DEF Processor
<1>3. CASE Consumer
  BY <1>3, ConsumerHistory, EndConsumeHistory DEF Consumer
<1>4. CASE UNCHANGED vars
  <2>1. /\ UNCHANGED <<buffers, history, processor>>
        /\ UNCHANGED <<caller, buffer_pos, gen_res, consumer, cpos>>
        /\ ConsPos' = ConsPos /\ GenPos' = GenPos
    BY <1>4 DEF vars, callerVars, consVars, ConsPos, GenPos
  <2>2. /\ Numbered' /\ Outcomes' /\ Consumed' /\ Done' = Done
        /\ \A b : (InUse(b)' <=> InUse(b)) /\ Base(b)' = Base(b)
    BY <2>1, Quiet
  <2>3. Reach' = Reach /\ tail' = tail
    BY <2>1, <2>2 DEF Reach, buffers
  <2>4. Full' /\ Counted'
    BY <2>1, <2>2, <2>3, Facts DEF Full, Counted, Size, history
  <2> QED BY <2>2, <2>4 DEF HistoryInv
<1> QED BY <1>1, <1>2, <1>3, <1>4 DEF Next, Terminated

-----------------------------------------------------------------------------
(* Refinement. *)

\* A step of the thread in run() starts the pipeline, makes an item, finishes, or is
\* not seen.
LEMMA CallerStep ==
  ASSUME IndInv, HistoryInv, Caller
  PROVE  [Abstract!AbsNext]_(Abstract!absVars)
<1> USE DEF history
<1>1. CASE Run
  BY <1>1 DEF Run, Abstract!AbsNext, Abstract!Start
<1>2. CASE GenerateItem
  <2>1. caller = "fill" /\ tail[buffer_pos] < BufSize
    BY <1>2 DEF GenerateItem
  <2>2. /\ Dist(ConsPos, buffer_pos) < NumProcessor /\ NumProcessor \in Nat
        /\ Dist(ConsPos, buffer_pos) \in Nat
    BY DistValue, Facts, BufferAssumption
  <2>3. Size(Dist(ConsPos, buffer_pos)) + BufSize <= Size(NumProcessor)
    BY <2>2, SizeOrder
  <2>4. Len(outcome) = Base(buffer_pos) + tail[buffer_pos]
    BY <2>1, Facts DEF Counted
  <2>5. Done <= Len(delivered)
    <3>1. cpos \in Procs
      BY Facts
    <3> QED BY <3>1, Numbers DEF Done
  <2>6. /\ Size(NumProcessor) \in Nat /\ Size(Dist(ConsPos, buffer_pos)) \in Nat
        /\ tail[buffer_pos] \in Nat /\ buffer_pos \in Procs
    BY <2>2, SizeNext, Facts, Numbers
  <2>7. Len(outcome) - Len(delivered) < Size(NumProcessor)
    BY <2>1, <2>3, <2>4, <2>5, <2>6, Numbers DEF Base
  <2>8. Abstract!Make
    BY <1>2, <2>1, <2>7 DEF GenerateItem, callerVars, Abstract!Make, Size
  <2> QED BY <2>8 DEF Abstract!AbsNext
<1>3. CASE Join
  <2>1. caller = "join" /\ consumer = "done" /\ UNCHANGED history /\ caller' = "idle"
    BY <1>3 DEF Join
  <2>2. ~InUse(buffer_pos)
    <3>1. Still'
      BY <1>3, <2>1, JoinStill DEF IndInv
    <3> QED BY <1>3, <3>1, Facts DEF Still, InUse, Join, buffers
  <2>3. Len(outcome) = Len(delivered)
    BY <2>1, <2>2, Facts DEF Counted, Done
  <2>4. Abstract!Finish
    BY <2>1, <2>3 DEF Abstract!Finish
  <2> QED BY <2>4 DEF Abstract!AbsNext
<1>4. CASE Create \/ WaitNull \/ EndBuffer \/ PostWaiting \/ Wake
  <2>1. (caller' = "idle" <=> caller = "idle") /\ UNCHANGED history
    BY <1>4 DEF Create, WaitNull, EndBuffer, PostWaiting, Wake
  <2> QED BY <2>1 DEF Abstract!absVars
<1> QED BY <1>1, <1>2, <1>3, <1>4 DEF Caller

\* A step of a processor works on an item not worked on, or is not seen.
LEMMA ProcessorStep ==
  ASSUME IndInv, HistoryInv, NEW p \in Procs, Processor(p)
  PROVE  [Abstract!AbsNext]_(Abstract!absVars)
<1> USE DEF callerVars, history
<1>1. CASE ProcessItem(p)
  <2>1. /\ caller # "idle" /\ item[p][head[p]] \in 1 .. Len(outcome)
        /\ outcome[item[p][head[p]]] = Pending
    BY <1>1, ProcessHistory
  <2>2. PICK r \in Results : outcome' = [outcome EXCEPT ![item[p][head[p]]] = r]
    BY <1>1 DEF ProcessItem
  <2>3. UNCHANGED <<caller, delivered>>
    BY <1>1 DEF ProcessItem
  <2>4. Abstract!Work
    BY <2>1, <2>2, <2>3 DEF Abstract!Work
  <2> QED BY <2>4 DEF Abstract!AbsNext
<1>2. CASE WaitWaiting(p) \/ TestWaiting(p) \/ EndProcess(p) \/ PostReady(p) \/ ExitPost(p)
  <2>1. UNCHANGED <<caller, outcome, delivered>>
    BY <1>2 DEF WaitWaiting, TestWaiting, EndProcess, PostReady, ExitPost
  <2> QED BY <2>1 DEF Abstract!absVars
<1> QED BY <1>1, <1>2 DEF Processor

\* A step of the consumer delivers the next item with its outcome, or is not seen.
LEMMA ConsumerStep ==
  ASSUME IndInv, HistoryInv, Consumer
  PROVE  [Abstract!AbsNext]_(Abstract!absVars)
<1> USE DEF callerVars, history
<1>1. CASE ConsumeItem
  <2>1. /\ consumer = "consume" /\ caller # "idle" /\ cpos \in Procs
        /\ head[cpos] < tail[cpos]
    BY <1>1, Facts DEF ConsumeItem, IndInv, Still
  <2>2. buffer_status[cpos] = "Ready"
    BY <2>1, Unprocessed
  <2>3. /\ head[cpos] \in Spots /\ Has(cpos, head[cpos])
        /\ head[cpos] < Processed(cpos)
    BY <2>1, <2>2, Numbers DEF Spots, Has, Held, InUse, Processed
  <2>4. /\ item[cpos][head[cpos]] = Base(cpos) + head[cpos] + 1
        /\ item[cpos][head[cpos]] \in 1 .. Len(outcome)
    BY <2>1, <2>3, Places, Facts DEF Numbered
  <2>5. Base(cpos) = Done /\ Done = Len(delivered) - head[cpos]
    <3>1. ConsPos = cpos
      BY <2>1 DEF ConsPos
    <3>2. Size(Dist(ConsPos, cpos)) = 0
      BY <2>1, <3>1, DistValue, SizeNext
    <3> QED BY <2>1, <3>2, Numbers DEF Base, Done
  <2>6. item[cpos][head[cpos]] = Len(delivered) + 1
    BY <2>1, <2>4, <2>5, Numbers
  <2>7. /\ outcome[Len(delivered) + 1] \in Results
        /\ processor_return[cpos][head[cpos]] = outcome[Len(delivered) + 1]
    BY <2>1, <2>3, <2>6, Facts DEF Outcomes
  <2>8. /\ delivered' = Append(delivered, <<Len(delivered) + 1, outcome[Len(delivered) + 1]>>)
        /\ UNCHANGED <<caller, outcome>>
    BY <1>1, <2>6, <2>7 DEF ConsumeItem
  <2>9. Abstract!Deliver
    BY <2>1, <2>4, <2>6, <2>7, <2>8, BufferAssumption DEF Abstract!Deliver
  <2> QED BY <2>9 DEF Abstract!AbsNext
<1>2. CASE WaitReady \/ TestReady \/ EndConsume \/ PostNull
  <2>1. UNCHANGED <<caller, outcome, delivered>>
    BY <1>2 DEF WaitReady, TestReady, EndConsume, PostNull
  <2> QED BY <2>1 DEF Abstract!absVars
<1> QED BY <1>1, <1>2 DEF Consumer

\* parallel_framework_buffer.h, run() with its threads, called any number of times: every
\* item is processed once and consumed in the order of generation with the value its
\* processor returned, wherever in a buffer the generator stops, and run() returns when
\* none is left.
THEOREM Implements ==
  ASSUME FreshStatus = {"Null"}
  PROVE  Spec => ImplementsPipeline
<1>1. Init => IndInv /\ HistoryInv
  BY InitInd, InitHistory
<1>2. IndInv /\ HistoryInv /\ [Next]_vars => (IndInv /\ HistoryInv)'
  BY NextInd, NextHistory
<1>3. Init => Abstract!AbsInit
  BY DEF Init, Abstract!AbsInit
<1>4. IndInv /\ HistoryInv /\ [Next]_vars => [Abstract!AbsNext]_(Abstract!absVars)
  <2>1. UNCHANGED vars => UNCHANGED Abstract!absVars
    BY DEF vars, callerVars, history, Abstract!absVars
  <2> QED BY <2>1, CallerStep, ProcessorStep, ConsumerStep DEF Next, Terminated
<1> QED BY <1>1, <1>2, <1>3, <1>4, PTL DEF Spec, ImplementsPipeline, Abstract!AbsSpec
=============================================================================
