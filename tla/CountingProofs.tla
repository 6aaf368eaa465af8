--------------------------- MODULE CountingProofs ---------------------------
(***************************************************************************)
(* Proofs, for every value of the constants, of the invariants and action  *)
(* properties of module Counting, that the pipeline implements the         *)
(* abstract PassageCounter, and that the ring buffer of module EventRing   *)
(* keeps the sequence of events that module Counting has in its place.     *)
(***************************************************************************)
EXTENDS Counting, EventRing, SequenceTheorems, TLAPS

-----------------------------------------------------------------------------
(* Facts about the operators of the pipeline *)

\* Taking the oldest event away leaves a buffer of barrier events that is one
\* event shorter, or empty (RemoveOldest).
LEMMA TailShortens ==
  ASSUME NEW s \in Seq(Barriers), s # <<>>
  PROVE  /\ Tail(s) \in Seq(Barriers)
         /\ Head(s) \in Barriers
         /\ Len(Tail(s)) = Len(s) - 1
         /\ Len(s) > 0
OBVIOUS

\* Sending an event makes the queue one event longer (xQueueSendFromISR).
LEMMA AppendGrows ==
  ASSUME NEW s \in Seq(Barriers), NEW b \in Barriers
  PROVE  /\ Append(s, b) \in Seq(Barriers)
         /\ Len(Append(s, b)) = Len(s) + 1
OBVIOUS

\* A step of the passage machine moves it by one, whatever caused the event,
\* and never from inside -3..3 beyond 4 (analyzer's state machine).
LEMMA TurnMovesByOne ==
  ASSUME NEW s \in -3..3, NEW b
  PROVE  Turn(s, b) \in {s - 1, s, s + 1}
BY DEF Turn

\* Counting a decrement of a tick leaves a natural number that is no larger.
LEMMA DecrementShrinks ==
  ASSUME NEW t \in Nat
  PROVE  Decrement(t) \in Nat /\ Decrement(t) <= t
BY DEF Decrement

-----------------------------------------------------------------------------
(* The inductive invariant *)

\* A ring at the threshold is never grown: pushInBuffer sleeps for longer than
\* analyzer needs to take an event out, also when analyzer first has to count
\* down the last element of a batch, a round without an event.
Pace ==
  /\ fillSize <= THRESHOLD_ANALIZER
  /\ fillSize = THRESHOLD_ANALIZER /\ analyzer = "loop" =>
       /\ pusher = "loop"
       /\ pusherTimer > analyzerTimer + (IF valid = 1 THEN ANALYZER_DELAY ELSE 0)

IInv == TypeOK /\ MutualExclusion /\ PassageInRange /\ BatchBacked /\ Pace

LEMMA InitInv == Init => IInv
<1> SUFFICES ASSUME Init PROVE IInv
    OBVIOUS
<1> USE SizesAssumption, DelaysAssumption, CountAssumption DEF Init
<1>1. TypeOK
    BY DEF TypeOK, Byte, fillSize
<1>2. MutualExclusion
    BY DEF MutualExclusion
<1>3. PassageInRange
    BY DEF PassageInRange
<1>4. BatchBacked /\ Pace
    BY DEF BatchBacked, Pace, fillSize, valid
<1>5. QED
    BY <1>1, <1>2, <1>3, <1>4 DEF IInv

LEMMA RestartInv == IInv /\ Restart => IInv'
<1> SUFFICES ASSUME IInv, Restart PROVE IInv'
    OBVIOUS
<1> USE SizesAssumption, DelaysAssumption, CountAssumption DEF Restart
<1>1. TypeOK'
    BY DEF IInv, TypeOK, Byte, fillSize
<1>2. MutualExclusion'
    BY DEF MutualExclusion
<1>3. PassageInRange'
    BY DEF PassageInRange
<1>4. BatchBacked' /\ Pace'
    BY DEF BatchBacked, Pace, fillSize, valid
<1>5. QED
    BY <1>1, <1>2, <1>3, <1>4 DEF IInv

LEMMA BarrierEdgeInv ==
  ASSUME IInv, NEW b \in Barriers, BarrierEdge(b)
  PROVE  IInv'
<1> USE DEF BarrierEdge, machine, counters, locks, anTask, puTask
<1>1. TypeOK'
    BY SizesAssumption, AppendGrows DEF IInv, TypeOK, fillSize
<1>2. MutualExclusion' /\ PassageInRange' /\ BatchBacked' /\ Pace'
    BY DEF IInv, MutualExclusion, PassageInRange, BatchBacked, Pace, fillSize, valid
<1>3. QED
    BY <1>1, <1>2 DEF IInv

LEMMA AgeInv == IInv /\ Age => IInv'
BY DEF Age, IInv, TypeOK, MutualExclusion, PassageInRange, BatchBacked, Pace,
       fillSize, valid, machine, counters, locks, anTask, puTask

LEMMA TickInv == IInv /\ Tick => IInv'
<1> SUFFICES ASSUME IInv, Tick PROVE IInv'
    OBVIOUS
<1> USE DEF Tick, events, machine, counters, locks
<1>1. TypeOK'
    BY DelaysAssumption DEF IInv, TypeOK, fillSize, Decrement
<1>2. MutualExclusion' /\ PassageInRange' /\ BatchBacked'
    BY DEF IInv, MutualExclusion, PassageInRange, BatchBacked, fillSize, valid
<1>3. Pace'
  <2>1. fillSize' = fillSize /\ valid' = valid /\ fillSize <= THRESHOLD_ANALIZER
    BY DEF fillSize, valid, IInv, Pace
  <2>2. ASSUME fillSize = THRESHOLD_ANALIZER, analyzer = "loop"
        PROVE  /\ pusher = "loop"
               /\ pusherTimer' > analyzerTimer' + (IF valid = 1 THEN ANALYZER_DELAY ELSE 0)
    <3>1. pusher = "loop" /\ xAccessBuffer
      BY <2>2 DEF IInv, Pace, MutualExclusion
    <3>2. analyzerTimer \in Nat /\ analyzerTimer # 0 /\ pusherTimer \in Nat
      BY <2>2, <3>1, DelaysAssumption DEF IInv, TypeOK, Runnable, AnalyzerReady
    <3>3. pusherTimer > analyzerTimer + (IF valid = 1 THEN ANALYZER_DELAY ELSE 0)
      BY <2>2 DEF IInv, Pace
    <3>4. QED
      BY <3>1, <3>2, <3>3, DelaysAssumption DEF Decrement
  <2>3. QED
    BY <2>1, <2>2 DEF Pace
<1>4. QED
    BY <1>1, <1>2, <1>3 DEF IInv

LEMMA PusherTakeInv == IInv /\ PusherTake => IInv'
<1> SUFFICES ASSUME IInv, PusherTake PROVE IInv'
    OBVIOUS
<1> USE DEF PusherTake, PusherReady, events, machine, counters, anTask
<1>1. TypeOK'
    BY DelaysAssumption DEF IInv, TypeOK, fillSize
<1>2. MutualExclusion' /\ PassageInRange' /\ BatchBacked'
    BY DEF IInv, MutualExclusion, PassageInRange, BatchBacked, fillSize, valid
<1>3. Pace'
    BY SizesAssumption, DelaysAssumption DEF IInv, TypeOK, MutualExclusion, Pace, fillSize, valid
<1>4. QED
    BY <1>1, <1>2, <1>3 DEF IInv

LEMMA PusherSkipInv == IInv /\ PusherSkip => IInv'
<1> SUFFICES ASSUME IInv, PusherSkip PROVE IInv'
    OBVIOUS
<1> USE DEF PusherSkip, PusherReady, PusherSleeps, events, machine, counters, locks, anTask
<1>1. TypeOK'
    BY DelaysAssumption DEF IInv, TypeOK, fillSize
<1>2. MutualExclusion' /\ PassageInRange' /\ BatchBacked'
    BY DEF IInv, MutualExclusion, PassageInRange, BatchBacked, fillSize, valid
<1>3. Pace'
    BY DelaysAssumption DEF IInv, TypeOK, MutualExclusion, Pace, fillSize, valid
<1>4. QED
    BY <1>1, <1>2, <1>3 DEF IInv

\* The only step that lets the buffer grow.
LEMMA PusherReceiveInv == IInv /\ PusherReceive => IInv'
<1> SUFFICES ASSUME IInv, PusherReceive PROVE IInv'
    OBVIOUS
<1> USE DEF PusherReceive, PusherSleeps, machine, counters, anTask
<1>1. /\ buffer' \in Seq(Barriers) /\ fillSize' = fillSize + 1
      /\ queue' \in Seq(Barriers) /\ Len(queue') = Len(queue) - 1
      /\ fillSize \in Nat /\ Len(queue) \in Nat
    BY TailShortens, AppendGrows DEF IInv, TypeOK, fillSize
<1>2. TypeOK'
    BY <1>1, SizesAssumption, DelaysAssumption DEF IInv, TypeOK
<1>3. MutualExclusion' /\ PassageInRange'
    BY DEF IInv, MutualExclusion, PassageInRange
<1>4. BatchBacked'
    BY <1>1, SizesAssumption DEF IInv, TypeOK, BatchBacked, valid
<1>5. Pace'
  <2>1. analyzer = "loop" /\ fillSize < THRESHOLD_ANALIZER
    BY <1>1, SizesAssumption DEF IInv, MutualExclusion, Pace
  <2>2. PUSH_DELAY > analyzerTimer + ANALYZER_DELAY /\ analyzerTimer \in Nat
    BY DelaysAssumption, PaceAssumption DEF IInv, TypeOK
  <2>3. QED
    BY <1>1, <2>1, <2>2, SizesAssumption, DelaysAssumption DEF Pace, valid
<1>6. QED
    BY <1>2, <1>3, <1>4, <1>5 DEF IInv

LEMMA PusherTimeoutInv == IInv /\ PusherTimeout => IInv'
<1> SUFFICES ASSUME IInv, PusherTimeout PROVE IInv'
    OBVIOUS
<1> USE DEF PusherTimeout, PusherSleeps, events, machine, counters, anTask
<1>1. TypeOK'
    BY DelaysAssumption DEF IInv, TypeOK, fillSize
<1>2. MutualExclusion' /\ PassageInRange' /\ BatchBacked'
    BY DEF IInv, MutualExclusion, PassageInRange, BatchBacked, fillSize, valid
<1>3. Pace'
    BY DelaysAssumption, PaceAssumption DEF IInv, TypeOK, MutualExclusion, Pace, fillSize, valid
<1>4. QED
    BY <1>1, <1>2, <1>3 DEF IInv

\* Whenever checkBuffer lets a round analyse an event there is one, and what it
\* leaves of the batch is covered by the buffer.
LEMMA CheckBufferBacked ==
  ASSUME IInv, AnalyzerReady, CheckBuffer
  PROVE  /\ fillSize \in Nat /\ fillSize > 0
         /\ valid' \in 0..BATCH /\ valid' <= fillSize
         /\ reseted_buffer' \in {0, 1}
<1> USE SizesAssumption DEF IInv, TypeOK, BatchBacked, AnalyzerReady, fillSize, valid
<1>1. CASE StartBatch
  BY <1>1 DEF StartBatch
<1>2. CASE ContinueBatch
  BY <1>2 DEF ContinueBatch
<1>3. CASE DrainStale
  BY <1>3 DEF DrainStale, BufferStale
<1>4. QED
  BY <1>1, <1>2, <1>3 DEF CheckBuffer

\* The end of a round takes one event out of a non-empty buffer.
LEMMA RemoveOldestShrinks ==
  ASSUME IInv, fillSize > 0, RemoveOldest
  PROVE  /\ buffer' \in Seq(Barriers)
         /\ fillSize' = fillSize - 1 /\ fillSize' \in Nat
         /\ queue' = queue
         /\ nStale' \in 0..fillSize' + Len(queue')
<1>1. buffer \in Seq(Barriers) /\ buffer # <<>> /\ Len(queue) \in Nat
      /\ nStale \in 0..fillSize + Len(queue)
  BY DEF IInv, TypeOK, fillSize
<1>2. buffer' = Tail(buffer) /\ queue' = queue /\ nStale' = Decrement(nStale)
  BY <1>1 DEF RemoveOldest
<1>3. buffer' \in Seq(Barriers) /\ fillSize' = fillSize - 1 /\ fillSize' \in Nat
  BY <1>1, <1>2, TailShortens DEF fillSize
<1>4. nStale' \in 0..fillSize' + Len(queue')
  BY <1>1, <1>2, <1>3 DEF Decrement, fillSize
<1>5. QED
  BY <1>2, <1>3, <1>4

LEMMA AnalyzerIdleInv == IInv /\ AnalyzerIdle => IInv'
<1> SUFFICES ASSUME IInv, AnalyzerIdle PROVE IInv'
    OBVIOUS
<1> USE DEF AnalyzerIdle, AnalyzerReady, AnalyzerSleeps, events, counters, locks, puTask
<1>0. state_counter \in -3..3 /\ fillSize \in Nat /\ fillSize' = fillSize
    BY DEF IInv, TypeOK, PassageInRange, fillSize
<1>1. /\ state_counter' \in -3..3
      /\ reseted_buffer' \in {0, 1}
      /\ valid' \in 0..BATCH /\ valid' <= fillSize + 1
      /\ fillSize >= THRESHOLD_ANALIZER => valid = 1 /\ valid' = 0
  <2>1. CASE EndBatch
    BY <2>1, <1>0, SizesAssumption DEF EndBatch, IInv, TypeOK, valid
  <2>2. CASE ResetState
    BY <2>2, <1>0, SizesAssumption DEF ResetState, IInv, TypeOK, BatchBacked, valid
  <2>3. CASE AwaitEvents
    BY <2>3, <1>0, SizesAssumption DEF AwaitEvents, machine, IInv, TypeOK, BatchBacked, valid
  <2>4. QED
    BY <2>1, <2>2, <2>3
<1>2. TypeOK'
    BY <1>0, <1>1, DelaysAssumption DEF IInv, TypeOK, valid, fillSize
<1>3. MutualExclusion' /\ PassageInRange' /\ BatchBacked'
    BY <1>0, <1>1 DEF IInv, MutualExclusion, PassageInRange, BatchBacked
<1>4. Pace'
    BY <1>0, <1>1, SizesAssumption, DelaysAssumption DEF IInv, TypeOK, Pace
<1>5. QED
    BY <1>2, <1>3, <1>4 DEF IInv

LEMMA AnalyzeEventInv == IInv /\ AnalyzeEvent => IInv'
<1> SUFFICES ASSUME IInv, AnalyzeEvent PROVE IInv'
    OBVIOUS
<1> USE DEF AnalyzeEvent, AnalyzerSleeps, counters, locks, puTask
<1>1. /\ fillSize \in Nat /\ fillSize > 0
      /\ valid' \in 0..BATCH /\ valid' <= fillSize
      /\ reseted_buffer' \in {0, 1}
    BY CheckBufferBacked
<1>2. /\ buffer' \in Seq(Barriers)
      /\ fillSize' = fillSize - 1 /\ fillSize' \in Nat
      /\ queue' = queue
      /\ nStale' \in 0..fillSize' + Len(queue')
    BY <1>1, RemoveOldestShrinks
<1>3. state_counter' \in -3..3
  <2>1. state_counter \in -3..3
    BY DEF IInv, PassageInRange, AnalyzerReady
  <2>2. state_counter' \in {state_counter - 1, state_counter, state_counter + 1}
    BY <2>1, TurnMovesByOne
  <2>3. QED
    BY <2>1, <2>2 DEF PASSED
<1>4. TypeOK'
    BY <1>1, <1>2, <1>3, DelaysAssumption DEF IInv, TypeOK, valid
<1>5. MutualExclusion' /\ PassageInRange'
    BY <1>3 DEF IInv, MutualExclusion, PassageInRange, AnalyzerReady
<1>6. BatchBacked'
    BY <1>1, <1>2, SizesAssumption DEF BatchBacked
<1>7. Pace'
    BY <1>1, <1>2, SizesAssumption DEF IInv, Pace
<1>8. QED
    BY <1>4, <1>5, <1>6, <1>7 DEF IInv

LEMMA AnalyzerPassageInv == IInv /\ AnalyzerPassage => IInv'
<1> SUFFICES ASSUME IInv, AnalyzerPassage PROVE IInv'
    OBVIOUS
<1> USE DEF AnalyzerPassage, AnalyzerReady, events, counters, puTask
<1>1. /\ fillSize \in Nat /\ fillSize > 0
      /\ valid' \in 0..BATCH /\ valid' <= fillSize
      /\ reseted_buffer' \in {0, 1}
    BY CheckBufferBacked
<1>2. fillSize' = fillSize /\ state_counter' \in -4..4
    BY DEF fillSize, PASSED
<1>3. TypeOK'
    BY <1>1, <1>2 DEF IInv, TypeOK, valid, fillSize
<1>4. MutualExclusion' /\ PassageInRange'
    BY DEF IInv, MutualExclusion, PassageInRange
<1>5. BatchBacked' /\ Pace'
    BY <1>1, <1>2 DEF IInv, BatchBacked, Pace
<1>6. QED
    BY <1>3, <1>4, <1>5 DEF IInv

\* The end of a round that found a passage, counted or not.
LEMMA FinishRoundInv ==
  ASSUME IInv, analyzer # "loop", FinishRound,
         UNCHANGED <<buffer_count_valid_elements, reseted_buffer, puTask, sender>>,
         count' \in Byte, backup' \in Byte,
         xAccessCount' \in BOOLEAN,
         xAccessCount' = (sender \notin {"backup", "send"})
  PROVE  IInv'
<1> USE DEF FinishRound, AnalyzerSleeps, puTask
<1>1. fillSize > 0 /\ fillSize \in Nat /\ valid <= fillSize /\ valid' = valid
    BY DEF IInv, BatchBacked, TypeOK, fillSize, valid
<1>2. /\ buffer' \in Seq(Barriers)
      /\ fillSize' = fillSize - 1 /\ fillSize' \in Nat
      /\ queue' = queue
      /\ nStale' \in 0..fillSize' + Len(queue')
    BY <1>1, RemoveOldestShrinks
<1>3. TypeOK'
    BY <1>2, DelaysAssumption DEF IInv, TypeOK
<1>4. MutualExclusion' /\ PassageInRange'
  <2>1. pusher' = "loop" /\ analyzer' = "loop" /\ xAccessBuffer' /\ sender' = sender
    BY DEF IInv, TypeOK, MutualExclusion
  <2>2. xAccessCount' = (sender' \notin {"backup", "send"})
    BY <2>1
  <2>3. state_counter' \in -3..3
    BY DEF FinishRound
  <2>4. PassageInRange'
    BY <2>1, <2>3 DEF PassageInRange
  <2>5. MutualExclusion'
    BY ONLY <1>3, <2>1, <2>2 DEF MutualExclusion, TypeOK
  <2>6. QED
    BY <2>4, <2>5
<1>5. BatchBacked'
    BY <1>1, <1>2, SizesAssumption DEF IInv, TypeOK, BatchBacked, valid
<1>6. Pace'
    BY <1>1, <1>2, SizesAssumption DEF IInv, Pace
<1>7. QED
    BY <1>3, <1>4, <1>5, <1>6 DEF IInv

LEMMA IgnorePassageInv == IInv /\ IgnorePassage => IInv'
BY FinishRoundInv
DEF IgnorePassage, counters, puTask, IInv, TypeOK, MutualExclusion

LEMMA CountPassageInv == IInv /\ CountPassage => IInv'
<1> SUFFICES ASSUME IInv, CountPassage PROVE IInv'
    OBVIOUS
<1> USE DEF CountPassage, events, machine, puTask
<1>1. count' \in Byte
    BY DEF IInv, TypeOK, Byte
<1>2. TypeOK'
    BY <1>1 DEF IInv, TypeOK, fillSize
<1>3. MutualExclusion' /\ PassageInRange'
    BY DEF IInv, MutualExclusion, PassageInRange
<1>4. BatchBacked' /\ Pace'
    BY DEF IInv, BatchBacked, Pace, fillSize, valid
<1>5. QED
    BY <1>2, <1>3, <1>4 DEF IInv

LEMMA SavePassageInv == IInv /\ SavePassage => IInv'
BY FinishRoundInv
DEF SavePassage, puTask, IInv, TypeOK, MutualExclusion

\* sendFromNVS touches the count's semaphore and the platform's value only.
LEMMA SenderInv ==
  ASSUME IInv, SenderTake \/ SenderBackup \/ SenderSend \/ SenderSleep \/ SenderReset
  PROVE  IInv'
<1> USE DEF SenderTake, SenderBackup, SenderSend, SenderSleep, SenderReset,
            events, machine, counters, locks, anTask, puTask
<1>1. TypeOK'
  <2>1. /\ UNCHANGED <<queue, buffer, nStale, buffer_count_valid_elements, reseted_buffer,
                      state_counter, count, xAccessBuffer, analyzer, analyzerTimer,
                      pusher, pusherTimer>>
        /\ xAccessCount' \in BOOLEAN
        /\ backup' \in {backup, count, 0}
        /\ sender' \in {"sleep", "backup", "send", "clock", "restart"}
    BY DEF IInv, TypeOK
  <2>2. QED
    BY <2>1 DEF IInv, TypeOK, fillSize, Byte
<1>2. MutualExclusion'
    BY DEF IInv, TypeOK, MutualExclusion
<1>3. PassageInRange' /\ BatchBacked' /\ Pace'
    BY DEF IInv, PassageInRange, BatchBacked, Pace, fillSize, valid
<1>4. QED
    BY <1>1, <1>2, <1>3 DEF IInv

LEMMA NextInv == IInv /\ [Next]_vars => IInv'
<1> SUFFICES ASSUME IInv, [Next]_vars PROVE IInv'
    OBVIOUS
<1>1. CASE \E b \in Barriers : BarrierEdge(b)
    BY <1>1, BarrierEdgeInv
<1>2. CASE Age
    BY <1>2, AgeInv
<1>3. CASE Tick
    BY <1>3, TickInv
<1>4. CASE Pusher
    BY <1>4, PusherTakeInv, PusherSkipInv, PusherReceiveInv, PusherTimeoutInv DEF Pusher
<1>5. CASE Analyzer
    BY <1>5, AnalyzerIdleInv, AnalyzeEventInv, AnalyzerPassageInv, IgnorePassageInv,
       CountPassageInv, SavePassageInv DEF Analyzer
<1>6. CASE Sender
    BY <1>6, SenderInv, RestartInv DEF Sender, SenderRestart
<1>7. CASE OtaRestart
    BY <1>7, RestartInv DEF OtaRestart
<1>8. CASE UNCHANGED vars
    BY <1>8 DEF IInv, TypeOK, MutualExclusion, PassageInRange, BatchBacked, Pace, fillSize,
                valid, vars, events, machine, counters, locks, anTask, puTask
<1>9. QED
    BY <1>1, <1>2, <1>3, <1>4, <1>5, <1>6, <1>7, <1>8 DEF Next

\* Every reachable state satisfies the inductive invariant.
THEOREM Invariance == Spec => []IInv
BY InitInv, NextInv, PTL DEF Spec

\* The state of the pipeline has the types of the C declarations.
THEOREM TypeCorrect == Spec => []TypeOK
BY Invariance, PTL DEF IInv

\* xAccessBuffer and xAccessCount are each held by at most one task.
THEOREM SemaphoresExclude == Spec => []MutualExclusion
BY Invariance, PTL DEF IInv

\* analyzer never reads a slot of the ring that holds no event, and fillSize
\* never drops below zero.
THEOREM NeverAnalysesEmpty == Spec => []BatchBacked
BY Invariance, PTL DEF IInv

\* The passage machine stays in -3..3 between two rounds of analyzer.
THEOREM MachineInRange == Spec => []PassageInRange
BY Invariance, PTL DEF IInv

\* The unguarded fillSize++ of pushInBuffer never overflows the ring, because
\* of the two delays of PaceAssumption.
THEOREM RingNeverOverflows == Spec => []NoBufferOverflow
<1>1. IInv => NoBufferOverflow
    BY SizesAssumption, PaceAssumption DEF IInv, TypeOK, Pace, NoBufferOverflow, fillSize
<1>2. QED
    BY <1>1, Invariance, PTL

-----------------------------------------------------------------------------
(* Action properties *)

\* Only a counted passage and a restart change the count.
LEMMA CountChanges ==
  ASSUME [Next]_vars
  PROVE  count' = count \/ CountPassage \/ Restart
<1>1. CASE \E b \in Barriers : BarrierEdge(b)
    BY <1>1 DEF BarrierEdge, counters
<1>2. CASE Age \/ Tick \/ Pusher
    BY <1>2 DEF Age, Tick, Pusher, PusherTake, PusherSkip, PusherReceive, PusherTimeout, counters
<1>3. CASE Analyzer
    BY <1>3 DEF Analyzer, AnalyzerIdle, AnalyzeEvent, AnalyzerPassage, IgnorePassage,
                SavePassage, counters
<1>4. CASE Sender
    BY <1>4 DEF Sender, SenderTake, SenderBackup, SenderSend, SenderSleep, SenderReset,
                SenderRestart, counters
<1>5. CASE OtaRestart
    BY <1>5 DEF OtaRestart
<1>6. CASE UNCHANGED vars
    BY <1>6 DEF vars, counters
<1>7. QED
    BY <1>1, <1>2, <1>3, <1>4, <1>5, <1>6 DEF Next

\* The byte that holds the count never wraps around.
THEOREM CountNeverWraps == Spec => CountMovesByOne
<1>1. IInv /\ [Next]_vars => [count' - count \in {-1, 0, 1} \/ Restart]_vars
  <2>1. ASSUME IInv, CountPassage
        PROVE  count' - count \in {-1, 1}
    <3>1. count \in 0..255 /\ state_counter \in {-4, 4}
      BY <2>1 DEF IInv, TypeOK, Byte, PassageInRange, CountPassage, PASSED
    <3>2. CASE state_counter = 4
      BY <2>1, <3>1, <3>2, CountAssumption DEF CountPassage, Saturated
    <3>3. CASE state_counter = -4
      BY <2>1, <3>1, <3>3 DEF CountPassage, Saturated
    <3>4. QED
      BY <3>1, <3>2, <3>3
  <2>2. ASSUME IInv, count' = count
        PROVE  count' - count = 0
    BY <2>2 DEF IInv, TypeOK, Byte
  <2>3. QED
    BY <2>1, <2>2, CountChanges
<1>2. QED
    BY <1>1, Invariance, PTL DEF Spec, CountMovesByOne

\* While one task reports the count, no other task changes it.
THEOREM ReportsAreConsistent == Spec => CountStableWhileReported
<1>1. IInv /\ [Next]_vars =>
        [(sender \in {"backup", "send"} \/ analyzer = "saving") => (count' = count \/ Restart)]_vars
  <2>1. ASSUME IInv, CountPassage
        PROVE  sender \notin {"backup", "send"} /\ analyzer # "saving"
    BY <2>1 DEF IInv, MutualExclusion, CountPassage
  <2>2. QED
    BY <2>1, CountChanges
<1>2. QED
    BY <1>1, Invariance, PTL DEF Spec, CountStableWhileReported

-----------------------------------------------------------------------------
(* Facts about a buffer b followed by a queue q *)

\* Sending to the queue appends to the pending events.
LEMMA SendAppends ==
  ASSUME NEW b \in Seq(Barriers), NEW q \in Seq(Barriers), NEW e \in Barriers
  PROVE  b \o Append(q, e) = Append(b \o q, e)
<1>1. /\ Append(q, e) \in Seq(Barriers) /\ Len(Append(q, e)) = Len(q) + 1
      /\ \A i \in 1..Len(q) : Append(q, e)[i] = q[i]
      /\ Append(q, e)[Len(q) + 1] = e
  BY AppendProperties
<1>2. /\ b \o q \in Seq(Barriers) /\ Len(b \o q) = Len(b) + Len(q)
      /\ \A i \in 1..Len(b) + Len(q) :
            (b \o q)[i] = IF i <= Len(b) THEN b[i] ELSE q[i - Len(b)]
  BY ConcatProperties
<1>3. /\ b \o Append(q, e) \in Seq(Barriers)
      /\ Len(b \o Append(q, e)) = Len(b) + Len(q) + 1
      /\ \A i \in 1..Len(b) + Len(q) + 1 :
            (b \o Append(q, e))[i] = IF i <= Len(b) THEN b[i] ELSE Append(q, e)[i - Len(b)]
  BY <1>1, ConcatProperties, SMTT(30)
<1>4. /\ Append(b \o q, e) \in Seq(Barriers)
      /\ Len(Append(b \o q, e)) = Len(b) + Len(q) + 1
      /\ \A i \in 1..Len(b) + Len(q) : Append(b \o q, e)[i] = (b \o q)[i]
      /\ Append(b \o q, e)[Len(b) + Len(q) + 1] = e
  BY <1>2, AppendProperties
<1>5. Len(b) \in Nat /\ Len(q) \in Nat
  BY LenProperties
<1>6. \A i \in 1..Len(b) + Len(q) + 1 : (b \o Append(q, e))[i] = Append(b \o q, e)[i]
  <2>1. TAKE i \in 1..Len(b) + Len(q) + 1
  <2>2. CASE i <= Len(b)
    BY <1>2, <1>3, <1>4, <1>5, <2>2
  <2>3. CASE i > Len(b) /\ i <= Len(b) + Len(q)
    BY <1>1, <1>2, <1>3, <1>4, <1>5, <2>3
  <2>4. CASE i = Len(b) + Len(q) + 1
    BY <1>1, <1>3, <1>4, <1>5, <2>4
  <2>5. QED
    BY <1>5, <2>2, <2>3, <2>4
<1>7. QED
  BY <1>3, <1>4, <1>6, SeqEqual

\* Moving the oldest queued event into the buffer leaves the pending events.
LEMMA ReceiveMoves ==
  ASSUME NEW b \in Seq(Barriers), NEW q \in Seq(Barriers), q # <<>>
  PROVE  Append(b, Head(q)) \o Tail(q) = b \o q
<1>1. /\ Head(q) \in Barriers /\ Head(q) = q[1]
      /\ Tail(q) \in Seq(Barriers) /\ Len(Tail(q)) = Len(q) - 1
      /\ \A i \in 1..Len(Tail(q)) : Tail(q)[i] = q[i + 1]
  BY HeadTailProperties
<1>2. /\ Append(b, Head(q)) \in Seq(Barriers) /\ Len(Append(b, Head(q))) = Len(b) + 1
      /\ \A i \in 1..Len(b) : Append(b, Head(q))[i] = b[i]
      /\ Append(b, Head(q))[Len(b) + 1] = q[1]
  BY <1>1, AppendProperties
<1>3. Len(b) \in Nat /\ Len(q) \in Nat \ {0}
  BY LenProperties, EmptySeq
<1>4. /\ b \o q \in Seq(Barriers) /\ Len(b \o q) = Len(b) + Len(q)
      /\ \A i \in 1..Len(b) + Len(q) :
            (b \o q)[i] = IF i <= Len(b) THEN b[i] ELSE q[i - Len(b)]
  BY ConcatProperties
<1> DEFINE s == Append(b, Head(q)) \o Tail(q)
<1>5. /\ s \in Seq(Barriers) /\ Len(s) = Len(b) + Len(q)
      /\ \A i \in 1..Len(b) + Len(q) :
            s[i] = IF i <= Len(b) + 1 THEN Append(b, Head(q))[i] ELSE Tail(q)[i - (Len(b) + 1)]
  BY <1>1, <1>2, <1>3, ConcatProperties
<1>6. \A i \in 1..Len(s) : s[i] = (b \o q)[i]
  <2>1. TAKE i \in 1..Len(s)
  <2>2. CASE i <= Len(b)
    BY <1>2, <1>3, <1>4, <1>5, <2>2
  <2>3. CASE i = Len(b) + 1
    BY <1>2, <1>3, <1>4, <1>5, <2>3
  <2>4. CASE i > Len(b) + 1
    BY <1>1, <1>3, <1>4, <1>5, <2>4
  <2>5. QED
    BY <1>3, <1>5, <2>2, <2>3, <2>4
<1>7. QED
  BY <1>4, <1>5, <1>6, SeqEqual

\* Taking the oldest event out of the buffer takes the oldest pending event.
LEMMA RemoveTakesOldest ==
  ASSUME NEW b \in Seq(Barriers), NEW q \in Seq(Barriers), b # <<>>
  PROVE  /\ b \o q # <<>>
         /\ Head(b \o q) = Head(b)
         /\ Tail(b) \o q = Tail(b \o q)
<1>1. /\ Tail(b) \in Seq(Barriers) /\ Len(Tail(b)) = Len(b) - 1
      /\ \A i \in 1..Len(Tail(b)) : Tail(b)[i] = b[i + 1]
  BY HeadTailProperties
<1>2. Len(b) \in Nat \ {0} /\ Len(q) \in Nat
  BY LenProperties, EmptySeq
<1>3. /\ b \o q \in Seq(Barriers) /\ Len(b \o q) = Len(b) + Len(q)
      /\ \A i \in 1..Len(b) + Len(q) :
            (b \o q)[i] = IF i <= Len(b) THEN b[i] ELSE q[i - Len(b)]
  BY ConcatProperties
<1>4. b \o q # <<>>
  BY <1>2, <1>3
<1>5. Head(b \o q) = Head(b)
  BY <1>2, <1>3
<1>6. /\ Tail(b \o q) \in Seq(Barriers) /\ Len(Tail(b \o q)) = Len(b) + Len(q) - 1
      /\ \A i \in 1..Len(b) + Len(q) - 1 : Tail(b \o q)[i] = (b \o q)[i + 1]
  BY <1>3, <1>4, HeadTailProperties
<1>7. /\ Tail(b) \o q \in Seq(Barriers) /\ Len(Tail(b) \o q) = Len(b) + Len(q) - 1
      /\ \A i \in 1..Len(b) + Len(q) - 1 :
            (Tail(b) \o q)[i] = IF i <= Len(b) - 1 THEN Tail(b)[i] ELSE q[i - (Len(b) - 1)]
  BY <1>1, <1>2, ConcatProperties
<1>8. \A i \in 1..Len(b) + Len(q) - 1 : (Tail(b) \o q)[i] = Tail(b \o q)[i]
  <2>1. TAKE i \in 1..Len(b) + Len(q) - 1
  <2>2. CASE i <= Len(b) - 1
    BY <1>1, <1>2, <1>3, <1>6, <1>7, <2>2
  <2>3. CASE i > Len(b) - 1
    BY <1>2, <1>3, <1>6, <1>7, <2>3
  <2>4. QED
    BY <1>2, <2>2, <2>3
<1>9. Tail(b) \o q = Tail(b \o q)
  BY <1>6, <1>7, <1>8, SeqEqual
<1>10. QED
  BY <1>4, <1>5, <1>9

-----------------------------------------------------------------------------
(* The event that completes a passage stays the oldest one *)

\* While analyzer waits for xAccessCount, the oldest event is the one that took
\* the machine from 3 to 4 or from -3 to -4; it is still in the buffer.
PassageEvent ==
  analyzer = "wantCount" =>
    /\ buffer # <<>>
    /\ Head(buffer) = IF state_counter = 4 THEN "INDOOR" ELSE "OUTDOOR"

\* The machine reaches 4 from 3 with an indoor event and -4 from -3 with an
\* outdoor one, and in no other way.
LEMMA TurnToPassage ==
  ASSUME NEW s \in -3..3, NEW b \in Barriers, Turn(s, b) \in PASSED
  PROVE  \/ Turn(s, b) = 4 /\ s = 3 /\ b = "INDOOR"
         \/ Turn(s, b) = -4 /\ s = -3 /\ b = "OUTDOOR"
BY DEF Turn, PASSED, Barriers

\* A round that reaches a passage starts at 3 or -3 with an event in the buffer.
LEMMA PassageStart ==
  ASSUME IInv, AnalyzerPassage
  PROVE  /\ buffer \in Seq(Barriers) /\ buffer # <<>>
         /\ \/ state_counter' = 4 /\ state_counter = 3 /\ Head(buffer) = "INDOOR"
            \/ state_counter' = -4 /\ state_counter = -3 /\ Head(buffer) = "OUTDOOR"
<1>1. fillSize > 0
  BY CheckBufferBacked DEF AnalyzerPassage
<1>2. buffer \in Seq(Barriers) /\ buffer # <<>>
  BY <1>1 DEF IInv, TypeOK, fillSize
<1>3. Oldest = Head(buffer) /\ Head(buffer) \in Barriers
  BY <1>2, TailShortens DEF Oldest
<1>4. state_counter \in -3..3
  BY DEF IInv, PassageInRange, AnalyzerPassage, AnalyzerReady
<1>5. QED
  BY <1>2, <1>3, <1>4, TurnToPassage DEF AnalyzerPassage

LEMMA PassageEventInv == IInv /\ PassageEvent /\ [Next]_vars => PassageEvent'
<1> SUFFICES ASSUME IInv, PassageEvent, [Next]_vars PROVE PassageEvent'
    OBVIOUS
<1> USE DEF PassageEvent
<1>1. CASE \E b \in Barriers : BarrierEdge(b)
    BY <1>1 DEF BarrierEdge, machine, anTask
<1>2. CASE Age \/ Tick
    BY <1>2 DEF Age, Tick, events, machine, anTask
<1>3. CASE Pusher
  <2>1. CASE PusherReceive
      BY <2>1 DEF PusherReceive, anTask, IInv, MutualExclusion
  <2>2. CASE PusherTake \/ PusherSkip \/ PusherTimeout
      BY <2>2 DEF PusherTake, PusherSkip, PusherTimeout, events, machine, anTask
  <2>3. QED
      BY <1>3, <2>1, <2>2 DEF Pusher
<1>4. CASE AnalyzerPassage
  <2>1. buffer' = buffer
      BY <1>4 DEF AnalyzerPassage, events
  <2>2. /\ buffer # <<>>
        /\ \/ state_counter' = 4 /\ Head(buffer) = "INDOOR"
           \/ state_counter' = -4 /\ Head(buffer) = "OUTDOOR"
      BY <1>4, PassageStart
  <2>3. QED
      BY <2>1, <2>2
<1>5. CASE Analyzer /\ ~AnalyzerPassage
    BY <1>5 DEF Analyzer, AnalyzerIdle, AnalyzeEvent, IgnorePassage, CountPassage,
                SavePassage, FinishRound, AnalyzerSleeps
<1>6. CASE Sender \/ OtaRestart
    BY <1>6 DEF Sender, SenderTake, SenderBackup, SenderSend, SenderSleep, SenderReset,
                SenderRestart, OtaRestart, Restart, events, machine, anTask
<1>7. CASE UNCHANGED vars
    BY <1>7 DEF vars, events, machine, anTask
<1>8. QED
    BY <1>1, <1>2, <1>3, <1>4, <1>5, <1>6, <1>7 DEF Next

\* analyzer's passage waits with the event that completed it.
THEOREM PassageKept == Spec => []PassageEvent
<1>1. Init => PassageEvent
    BY DEF Init, PassageEvent
<1>2. QED
    BY <1>1, PassageEventInv, Invariance, PTL DEF Spec

-----------------------------------------------------------------------------
(* Every step of the pipeline is a step of PassageCounter or stutters *)

\* The state of PassageCounter that the pipeline is in (the substitution of
\* Abstract, named).
absPending == IF analyzer = "saving" THEN Tail(Pending) ELSE Pending
absState   == CASE analyzer = "loop"      -> state_counter
                [] analyzer = "wantCount" -> IF state_counter = 4 THEN 3 ELSE -3
                [] analyzer = "saving"    -> 0

absVars    == <<absPending, absState, count, backup>>

\* The buffer holds the oldest pending event whenever analyzer uses one.
LEMMA OldestPending ==
  ASSUME IInv, buffer # <<>>
  PROVE  /\ Pending \in Seq(Barriers) /\ Pending # <<>>
         /\ Head(Pending) = Head(buffer)
         /\ Tail(buffer) \o queue = Tail(Pending)
BY RemoveTakesOldest, ConcatProperties DEF IInv, TypeOK, Pending

\* An interrupt that sends an event is an Accept.
LEMMA AbsAccept ==
  ASSUME IInv, NEW b \in Barriers, BarrierEdge(b)
  PROVE  Abstract!Accept
<1>1. /\ queue \in Seq(Barriers) /\ buffer \in Seq(Barriers)
      /\ queue' = Append(queue, b) /\ buffer' = buffer
      /\ UNCHANGED <<analyzer, state_counter, count, backup>>
  BY DEF BarrierEdge, IInv, TypeOK, machine, counters, anTask
<1>2. Pending' = Append(Pending, b) /\ Pending \in Seq(Barriers)
  BY <1>1, SendAppends, ConcatProperties DEF Pending
<1>3. absPending' = Append(absPending, b)
  <2>1. CASE analyzer = "saving"
    <3>1. buffer # <<>>
      BY <2>1 DEF IInv, BatchBacked, fillSize
    <3>2. Pending # <<>>
      BY <3>1, OldestPending
    <3>3. QED
      BY <1>1, <1>2, <2>1, <3>2, HeadTailAppend DEF absPending
  <2>2. CASE analyzer # "saving"
    BY <1>1, <1>2, <2>2 DEF absPending
  <2>3. QED
    BY <2>1, <2>2
<1>4. absState' = absState
  BY <1>1 DEF absState
<1>5. QED
  BY <1>1, <1>3, <1>4 DEF Abstract!Accept, Abstract!Barriers, Barriers, absPending, absState

\* pushInBuffer only moves events.
LEMMA AbsPusher ==
  ASSUME IInv, Pusher
  PROVE  UNCHANGED absVars
<1>1. UNCHANGED <<analyzer, state_counter, count, backup>>
  BY DEF Pusher, PusherTake, PusherSkip, PusherReceive, PusherTimeout, machine, counters, anTask
<1>2. Pending' = Pending
  <2>1. CASE PusherReceive
    BY <2>1, ReceiveMoves DEF PusherReceive, IInv, TypeOK, Pending
  <2>2. CASE PusherTake \/ PusherSkip \/ PusherTimeout
    BY <2>2 DEF PusherTake, PusherSkip, PusherTimeout, events, Pending
  <2>3. QED
    BY <2>1, <2>2 DEF Pusher
<1>3. QED
  BY <1>1, <1>2 DEF absVars, absPending, absState

\* Time alone changes nothing, nor do the semaphores of sendFromNVS.
LEMMA AbsTime ==
  ASSUME Age \/ Tick \/ SenderTake \/ SenderSend \/ SenderSleep \/ UNCHANGED vars
  PROVE  UNCHANGED absVars
<1>1. UNCHANGED <<queue, buffer, analyzer, state_counter, count, backup>>
  BY DEF Age, Tick, SenderTake, SenderSend, SenderSleep, vars, events, machine, counters, anTask
<1>2. QED
  BY <1>1 DEF absVars, absPending, absState, Pending

\* A round without an event either changes nothing or forgets the passage.
LEMMA AbsIdle ==
  ASSUME IInv, AnalyzerIdle
  PROVE  Abstract!Forget \/ UNCHANGED absVars
<1>1. /\ UNCHANGED <<queue, buffer, count, backup>>
      /\ analyzer = "loop" /\ analyzer' = "loop"
      /\ state_counter' \in {state_counter, 0}
  BY DEF AnalyzerIdle, AnalyzerReady, AnalyzerSleeps, EndBatch, ResetState, AwaitEvents,
         events, machine, counters
<1>2. absPending' = absPending /\ absState = state_counter /\ absState' = state_counter'
  BY <1>1 DEF absPending, absState, Pending
<1>3. QED
  BY <1>1, <1>2 DEF absVars, absPending, absState, Abstract!Forget

\* Turn and Toward are the same step of the passage machine.
LEMMA TurnIsToward ==
  ASSUME NEW s \in Int, NEW b \in Barriers
  PROVE  Turn(s, b) = Abstract!Toward(s, b)
<1>1. s % 2 = 0 \/ s % 2 = 1
  OBVIOUS
<1>2. b = "OUTDOOR" \/ b = "INDOOR"
  BY DEF Barriers
<1>3. QED
  BY <1>1, <1>2 DEF Turn, Barriers, Abstract!Toward

\* An event that completes no passage.
LEMMA AbsAnalyse ==
  ASSUME IInv, AnalyzeEvent
  PROVE  Abstract!Analyse
<1>1. fillSize > 0
  BY CheckBufferBacked DEF AnalyzeEvent
<1>2. buffer \in Seq(Barriers) /\ buffer # <<>>
  BY <1>1 DEF IInv, TypeOK, fillSize
<1>3. /\ Oldest = Head(buffer) /\ Head(buffer) \in Barriers
      /\ buffer' = Tail(buffer) /\ queue' = queue
  BY <1>2, TailShortens DEF Oldest, AnalyzeEvent, RemoveOldest
<1>4. /\ analyzer = "loop" /\ analyzer' = "loop"
      /\ UNCHANGED <<count, backup>>
      /\ state_counter \in Int
      /\ state_counter' = Turn(state_counter, Head(buffer))
      /\ state_counter' # 4 /\ state_counter' # -4
  BY <1>3 DEF AnalyzeEvent, AnalyzerReady, AnalyzerSleeps, counters, PASSED, IInv, TypeOK
<1>5. state_counter' = Abstract!Toward(state_counter, Head(buffer))
  BY <1>3, <1>4, TurnIsToward
<1>6. /\ absPending # <<>> /\ Head(absPending) = Head(buffer)
      /\ absPending' = Tail(absPending)
      /\ absState = state_counter /\ absState' = state_counter'
  BY <1>2, <1>3, <1>4, OldestPending DEF absPending, absState, Pending
<1>7. QED
  BY <1>4, <1>5, <1>6 DEF Abstract!Analyse, absPending, absState

\* The event that completes a passage stays, until the count is available.
LEMMA AbsPassage ==
  ASSUME IInv, AnalyzerPassage
  PROVE  UNCHANGED absVars
<1>1. /\ UNCHANGED <<queue, buffer, count, backup>>
      /\ analyzer = "loop" /\ analyzer' = "wantCount"
  BY DEF AnalyzerPassage, AnalyzerReady, events, counters
<1>2. absPending' = absPending
  BY <1>1 DEF absPending, Pending
<1>3. absState = state_counter /\ absState' = IF state_counter' = 4 THEN 3 ELSE -3
  BY <1>1 DEF absState
<1>4. QED
  BY <1>1, <1>2, <1>3, PassageStart DEF absVars

\* Toward the count: the waiting event completes the passage.
LEMMA WaitingCompletes ==
  ASSUME IInv, PassageEvent, analyzer = "wantCount"
  PROVE  /\ absPending # <<>> /\ Tail(absPending) = Tail(buffer) \o queue
         /\ Tail(absPending) = Tail(Pending)
         /\ Abstract!Toward(absState, Head(absPending)) = state_counter
         /\ state_counter \in {-4, 4}
<1>1. state_counter \in {-4, 4} /\ buffer # <<>>
      /\ Head(buffer) = IF state_counter = 4 THEN "INDOOR" ELSE "OUTDOOR"
  BY DEF PassageEvent, IInv, PassageInRange, PASSED
<1>2. /\ absPending = Pending /\ absPending # <<>> /\ Head(absPending) = Head(buffer)
      /\ Tail(absPending) = Tail(buffer) \o queue
  BY <1>1, OldestPending DEF absPending
<1>3. absState = IF state_counter = 4 THEN 3 ELSE -3
  BY DEF absState
<1>4. Abstract!Toward(3, "INDOOR") = 4 /\ Abstract!Toward(-3, "OUTDOOR") = -4
  BY TurnIsToward DEF Turn, Barriers
<1>5. QED
  BY <1>1, <1>2, <1>3, <1>4

LEMMA AbsCount ==
  ASSUME IInv, PassageEvent, CountPassage
  PROVE  Abstract!Analyse
<1>1. /\ UNCHANGED <<queue, buffer, backup>>
      /\ analyzer = "wantCount" /\ analyzer' = "saving"
      /\ count \in 0..255
  BY DEF CountPassage, events, IInv, TypeOK, Byte
<1>2. /\ absPending # <<>>
      /\ Abstract!Toward(absState, Head(absPending)) = state_counter
      /\ state_counter \in {-4, 4}
  BY <1>1, WaitingCompletes
<1>3. absPending' = Tail(absPending)
  BY <1>1, WaitingCompletes DEF absPending, Pending
<1>4. absState' = 0
  BY <1>1 DEF absState
<1>5. \/ state_counter = 4 /\ count <= COUNT_LIMIT /\ count' = count + 1
      \/ state_counter = -4 /\ count > 0 /\ count' = count - 1
  BY <1>1, <1>2, CountAssumption DEF CountPassage, Saturated
<1>6. CASE state_counter = 4
  <2>1. ~(count > COUNT_LIMIT) /\ count' = count + 1
    BY <1>1, <1>5, <1>6, CountAssumption
  <2>2. Abstract!Toward(absState, Head(absPending)) = 4
    BY <1>2, <1>6
  <2>3. QED
    BY <1>1, <1>2, <1>3, <1>4, <2>1, <2>2 DEF Abstract!Analyse, absPending, absState
<1>7. CASE state_counter = -4
  BY <1>1, <1>2, <1>3, <1>4, <1>5, <1>7, CountAssumption
  DEF Abstract!Analyse, absPending, absState
<1>8. QED
  BY <1>2, <1>6, <1>7

LEMMA AbsIgnore ==
  ASSUME IInv, PassageEvent, IgnorePassage
  PROVE  Abstract!Analyse
<1>1. /\ UNCHANGED <<queue, count, backup>>
      /\ analyzer = "wantCount" /\ analyzer' = "loop" /\ state_counter' = 0
      /\ count \in 0..255
  BY DEF IgnorePassage, FinishRound, AnalyzerSleeps, RemoveOldest, counters, IInv, TypeOK, Byte
<1>2. /\ absPending # <<>>
      /\ Abstract!Toward(absState, Head(absPending)) = state_counter
      /\ state_counter \in {-4, 4}
      /\ Tail(absPending) = Tail(buffer) \o queue
  BY <1>1, WaitingCompletes
<1>3. buffer' = Tail(buffer)
  BY <1>1 DEF IgnorePassage, FinishRound, RemoveOldest, PassageEvent
<1>4. absPending' = Tail(absPending) /\ absState' = 0
  BY <1>1, <1>2, <1>3 DEF absPending, absState, Pending
<1>5. \/ state_counter = 4 /\ count > COUNT_LIMIT
      \/ state_counter = -4 /\ count = 0
  BY <1>1, <1>2 DEF IgnorePassage, Saturated
<1>6. QED
  BY <1>1, <1>2, <1>4, <1>5, CountAssumption DEF Abstract!Analyse, absPending, absState

\* After the count: the event leaves the buffer, the count may reach the platform.
LEMMA AbsSave ==
  ASSUME IInv, SavePassage
  PROVE  Abstract!Save \/ UNCHANGED absVars
<1>1. /\ UNCHANGED <<queue, count>> /\ backup' \in {count, backup}
      /\ analyzer = "saving" /\ analyzer' = "loop" /\ state_counter' = 0
      /\ buffer # <<>> /\ buffer' = Tail(buffer)
  BY DEF SavePassage, FinishRound, AnalyzerSleeps, RemoveOldest, IInv, BatchBacked, fillSize
<1>2. absPending' = absPending /\ absState' = absState
  BY <1>1, OldestPending DEF absPending, absState, Pending
<1>3. QED
  BY <1>1, <1>2 DEF absVars, absPending, absState, Abstract!Save

LEMMA AbsBackup ==
  ASSUME SenderBackup \/ SenderReset
  PROVE  Abstract!Save \/ UNCHANGED absVars
<1>1. /\ UNCHANGED <<queue, buffer, analyzer, state_counter, count>>
      /\ backup' \in {count, 0, backup}
  BY DEF SenderBackup, SenderReset, events, machine, anTask
<1>2. absPending' = absPending /\ absState' = absState
  BY <1>1 DEF absPending, absState, Pending
<1>3. QED
  BY <1>1, <1>2 DEF absVars, absPending, absState, Abstract!Save

LEMMA AbsRestart ==
  ASSUME Restart
  PROVE  Abstract!Restart
<1>1. /\ queue' = <<>> /\ buffer' = <<>> /\ analyzer' = "loop" /\ state_counter' = 0
      /\ count' \in {backup} \cup BadFetch /\ backup' = backup
  BY DEF Restart
<1>2. absPending' = <<>> /\ absState' = 0
  BY <1>1 DEF absPending, absState, Pending
<1>3. QED
  BY <1>1, <1>2 DEF absPending, absState, Abstract!Restart

LEMMA AbsInit == Init => Abstract!Init
<1>1. Init => absPending = <<>> /\ absState = 0
  BY DEF Init, absPending, absState, Pending
<1>2. QED
  BY <1>1 DEF Init, absPending, absState, Abstract!Init

LEMMA AbsNext ==
  ASSUME IInv, PassageEvent, [Next]_vars
  PROVE  [Abstract!Next]_(Abstract!vars)
<1>1. Abstract!Next \/ UNCHANGED absVars
  <2>1. CASE \E b \in Barriers : BarrierEdge(b)
    BY <2>1, AbsAccept DEF Abstract!Next
  <2>2. CASE Age \/ Tick \/ UNCHANGED vars
    BY <2>2, AbsTime
  <2>3. CASE Pusher
    BY <2>3, AbsPusher
  <2>4. CASE Analyzer
    BY <2>4, AbsIdle, AbsAnalyse, AbsPassage, AbsIgnore, AbsCount, AbsSave
    DEF Analyzer, Abstract!Next
  <2>5. CASE Sender
    BY <2>5, AbsTime, AbsBackup, AbsRestart DEF Sender, SenderRestart, Abstract!Next
  <2>6. CASE OtaRestart
    BY <2>6, AbsRestart DEF OtaRestart, Abstract!Next
  <2>7. QED
    BY <2>1, <2>2, <2>3, <2>4, <2>5, <2>6 DEF Next
<1>2. UNCHANGED absVars => UNCHANGED Abstract!vars
  BY DEF absVars, absPending, absState, Abstract!vars
<1>3. QED
  BY <1>1, <1>2

\* Queue, ring buffer, tasks and semaphores of countingAlgo.c together do what
\* PassageCounter promises: events are counted in the order of their arrival,
\* none is lost, repeated or reordered after the interrupt has sent it.
THEOREM PipelineImplementsPassageCounter == Spec => ImplementsPassageCounter
<1>1. QED
  BY AbsInit, AbsNext, Invariance, PassageKept, PTL
  DEF Spec, ImplementsPassageCounter, Abstract!Spec

-----------------------------------------------------------------------------
(* The ring buffer behind the sequence of buffered events (EventRing) *)

\* Positions that are less than a lap apart are different slots.
LEMMA SlotsDiffer ==
  ASSUME NEW size \in Nat \ {0}, NEW head \in 0..size - 1,
         NEW i \in 0..size, NEW j \in 0..size, i < j, j - i < size
  PROVE  (head + i) % size # (head + j) % size
<1> DEFINE S(k) == IF head + k < size THEN head + k
                   ELSE IF head + k < 2 * size THEN head + k - size
                   ELSE head + k - 2 * size
<1>1. ASSUME NEW k \in 0..size PROVE (head + k) % size = S(k)
  <2>1. CASE head + k < size BY <1>1, <2>1
  <2>2. CASE head + k >= size /\ head + k < 2 * size BY <1>1, <2>2
  <2>3. QED BY <1>1, <2>1, <2>2
<1>2. S(i) # S(j) OBVIOUS
<1> QED BY <1>1, <1>2

\* A slot of the ring is a slot.
LEMMA SlotInRange ==
  ASSUME NEW size \in Nat \ {0}, NEW n \in Nat
  PROVE  n % size \in 0..size - 1
OBVIOUS

\* The window of a ring is a sequence as long as the fill level.
LEMMA WindowIsSeq ==
  ASSUME NEW size \in Nat \ {0}, NEW head \in 0..size - 1, NEW fill \in Nat,
         NEW T, NEW ring \in [0..size - 1 -> T]
  PROVE  /\ Window(ring, size, head, fill) \in Seq(T)
         /\ Len(Window(ring, size, head, fill)) = fill
<1>1. \A i \in 1..fill : (head + i - 1) % size \in 0..size - 1
  BY SlotInRange
<1> QED BY <1>1 DEF Window

\* pushInBuffer's write is an Append as long as the ring is not full.
THEOREM ReceiveAppends ==
  ASSUME NEW size \in Nat \ {0}, NEW head \in 0..size - 1,
         NEW fill \in 0..size - 1, NEW T, NEW event \in T,
         NEW ring \in [0..size - 1 -> T]
  PROVE  Window(Received(ring, size, head, fill, event), size, head, fill + 1)
           = Append(Window(ring, size, head, fill), event)
<1> DEFINE r == Received(ring, size, head, fill, event)
           w == Window(ring, size, head, fill)
<1>1. (head + fill) % size \in 0..size - 1 BY SlotInRange
<1>2. r[(head + fill) % size] = event BY <1>1 DEF Received
<1>3. ASSUME NEW i \in 1..fill
      PROVE  r[(head + i - 1) % size] = ring[(head + i - 1) % size]
  <2>0. i - 1 \in 0..size /\ fill \in 0..size /\ i - 1 < fill /\ fill - (i - 1) < size
    OBVIOUS
  <2>1. (head + (i - 1)) % size # (head + fill) % size BY <2>0, SlotsDiffer
  <2>2. head + (i - 1) = head + i - 1 OBVIOUS
  <2>3. (head + i - 1) % size \in 0..size - 1 BY SlotInRange
  <2> QED BY <2>1, <2>2, <2>3, <1>1 DEF Received
<1>4. r \in [0..size - 1 -> T] BY <1>1 DEF Received
<1>5. /\ w \in Seq(T) /\ Len(w) = fill
      /\ Window(r, size, head, fill + 1) \in Seq(T)
      /\ Len(Window(r, size, head, fill + 1)) = fill + 1
  BY <1>4, WindowIsSeq
<1>6. \A i \in 1..fill + 1 : Window(r, size, head, fill + 1)[i]
                               = IF i = fill + 1 THEN event ELSE w[i]
  <2> TAKE i \in 1..fill + 1
  <2>1. CASE i = fill + 1
    <3>1. head + (fill + 1) - 1 = head + fill OBVIOUS
    <3> QED BY <1>2, <2>1, <3>1 DEF Window
  <2>2. CASE i # fill + 1
    <3>1. i \in 1..fill BY <2>2
    <3> QED BY <1>3, <2>2, <3>1 DEF Window
  <2> QED BY <2>1, <2>2
<1>7. \A i \in 1..fill + 1 : Append(w, event)[i] = IF i = fill + 1 THEN event ELSE w[i]
  BY <1>5, AppendProperties
<1>8. Append(w, event) \in Seq(T) /\ Len(Append(w, event)) = fill + 1
  BY <1>5, AppendProperties
<1> QED BY <1>5, <1>6, <1>7, <1>8, SeqEqual

\* analyzer's step over the oldest event is a Tail.
THEOREM RemoveIsTail ==
  ASSUME NEW size \in Nat \ {0}, NEW head \in 0..size - 1,
         NEW fill \in 1..size, NEW T,
         NEW ring \in [0..size - 1 -> T]
  PROVE  Window(ring, size, NextHead(size, head), fill - 1)
           = Tail(Window(ring, size, head, fill))
<1> DEFINE w == Window(ring, size, head, fill)
           v == Window(ring, size, NextHead(size, head), fill - 1)
<1>1. NextHead(size, head) \in 0..size - 1 BY SlotInRange DEF NextHead
<1>2. /\ w \in Seq(T) /\ Len(w) = fill
      /\ v \in Seq(T) /\ Len(v) = fill - 1
  BY <1>1, WindowIsSeq
<1>3. /\ Tail(w) \in Seq(T) /\ Len(Tail(w)) = fill - 1
      /\ \A i \in 1..fill - 1 : Tail(w)[i] = w[i + 1]
  BY <1>2, HeadTailProperties
<1>4. ASSUME NEW i \in 1..fill - 1
      PROVE  (NextHead(size, head) + i - 1) % size = (head + (i + 1) - 1) % size
  <2>1. NextHead(size, head) = IF head + 1 = size THEN 0 ELSE head + 1
    BY DEF NextHead
  <2>2. CASE head + 1 = size
    <3>1. (i - 1) % size = i - 1 OBVIOUS
    <3>2. (size + (i - 1)) % size = i - 1 OBVIOUS
    <3> QED BY <2>1, <2>2, <3>1, <3>2
  <2>3. CASE head + 1 # size BY <2>1, <2>3
  <2> QED BY <2>2, <2>3
<1>5. \A i \in 1..fill - 1 : v[i] = w[i + 1]
  BY <1>4 DEF Window
<1> QED BY <1>2, <1>3, <1>5, SeqEqual

\* One event too many overwrites the oldest: the unguarded fillSize++ of
\* pushInBuffer would make analyzer read the newest event first.
THEOREM OverflowForgets ==
  ASSUME NEW size \in Nat \ {0}, NEW head \in 0..size - 1, NEW T, NEW event \in T,
         NEW ring \in [0..size - 1 -> T]
  PROVE  Window(Received(ring, size, head, size, event), size, head, size + 1)[1] = event
<1>1. (head + size) % size = head /\ (head + 1 - 1) % size = head OBVIOUS
<1>2. Window(Received(ring, size, head, size, event), size, head, size + 1)[1]
        = Received(ring, size, head, size, event)[(head + 1 - 1) % size]
  BY DEF Window
<1>3. Received(ring, size, head, size, event)[head] = event
  BY <1>1 DEF Received
<1> QED BY <1>1, <1>2, <1>3

=============================================================================
