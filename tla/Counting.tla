------------------------------ MODULE Counting ------------------------------
(***************************************************************************)
(* The counting pipeline of test_sensor_lab/main/countingAlgo.c.           *)
(*                                                                         *)
(*   light barriers --ISR--> queue --pushInBuffer--> buffer --analyzer-->  *)
(*   state_counter --> count --analyzer, sendFromNVS--> backup (platform)  *)
(*                                                                         *)
(* Tasks run on two cores.  A task that is ready runs before the next tick *)
(* of the FreeRTOS clock (10 ms) unless it waits for the network, which    *)
(* may take any number of ticks.  Only the two short delays of the         *)
(* pipeline are counted in ticks; the five minutes of sendFromNVS are an   *)
(* arbitrary delay.                                                        *)
(*                                                                         *)
(* Data abstracted: an event is the barrier that caused it; `nStale' says  *)
(* how many of the oldest pending events lie more than                     *)
(* TIME_TO_EMPTY_BUFFER seconds in the past; `buffer' holds the live slots *)
(* of the ring from `head' on, so that fillSize is its length; module      *)
(* EventRing proves that this is exact while the ring does not overflow.   *)
(***************************************************************************)
EXTENDS Integers, Sequences

CONSTANTS
  SIZE_QUEUE,          \* capacity of the FreeRTOS queue
  SIZE_BUFFER,         \* slots of the ring buffer
  THRESHOLD_ANALIZER,  \* events needed to start a batch
  BATCH,               \* events of a batch, the literal 4 of checkBuffer
  PUSH_DELAY,          \* ticks between two rounds of pushInBuffer
  QUEUE_WAIT,          \* ticks pushInBuffer waits for an event
  ANALYZER_DELAY,      \* ticks between two rounds of analyzer
  COUNT_LIMIT,         \* above this count nobody is counted in (250)
  BadFetch             \* what a failed getCount_backup may return

ASSUME SizesAssumption ==
  /\ SIZE_QUEUE \in Nat \ {0}
  /\ SIZE_BUFFER \in Nat \ {0}
  /\ THRESHOLD_ANALIZER \in Nat \ {0}
  /\ BATCH \in 1..THRESHOLD_ANALIZER

ASSUME DelaysAssumption ==
  /\ PUSH_DELAY \in Nat \ {0}
  /\ QUEUE_WAIT \in Nat
  /\ ANALYZER_DELAY \in Nat \ {0}

\* The two facts that keep the ring from overflowing: it is not smaller than
\* a batch, and two rounds of analyzer fit between two of pushInBuffer.
ASSUME PaceAssumption ==
  /\ THRESHOLD_ANALIZER <= SIZE_BUFFER
  /\ 2 * ANALYZER_DELAY < PUSH_DELAY

ASSUME CountAssumption ==
  /\ COUNT_LIMIT \in 0..254
  /\ BadFetch \subseteq 0..255

VARIABLES
  queue,                       \* events sent by the interrupt routines
  buffer,                      \* events received by pushInBuffer
  nStale,                      \* oldest pending events that are stale
  buffer_count_valid_elements, \* rest of the batch being analysed, plus one
  reseted_buffer,              \* a stale buffer is being, or was, drained
  state_counter,               \* state of the passage machine
  count,                       \* people in the room
  backup,                      \* the count stored on the IoT platform
  xAccessBuffer,               \* binary semaphore, TRUE when available
  xAccessCount,                \* binary semaphore, TRUE when available
  analyzer, analyzerTimer,     \* control of task analyzer
  pusher, pusherTimer,         \* control of task pushInBuffer
  sender                       \* control of task sendFromNVS

events   == <<queue, buffer, nStale>>
machine  == <<buffer_count_valid_elements, reseted_buffer, state_counter>>
counters == <<count, backup>>
locks    == <<xAccessBuffer, xAccessCount>>
anTask   == <<analyzer, analyzerTimer>>
puTask   == <<pusher, pusherTimer>>
vars == <<events, machine, counters, locks, anTask, puTask, sender>>

Barriers == {"OUTDOOR", "INDOOR"}
fillSize == Len(buffer)
Pending  == buffer \o queue

(***************************************************************************)
(* Start of the device: my_setup is over, start_counting_algo restores the *)
(* count from the platform and creates queue, semaphores and tasks.        *)
(***************************************************************************)
Init ==
  /\ queue = <<>> /\ buffer = <<>> /\ nStale = 0
  /\ buffer_count_valid_elements = 0
  /\ reseted_buffer = 0
  /\ state_counter = 0
  /\ backup \in 0..COUNT_LIMIT + 1
  /\ count \in {backup} \cup BadFetch
  /\ xAccessBuffer = TRUE /\ xAccessCount = TRUE
  /\ analyzer = "loop" /\ analyzerTimer = 0
  /\ pusher = "loop" /\ pusherTimer = 0
  /\ sender = "sleep"

\* esp_restart: everything but the platform's value is lost
Restart ==
  /\ queue' = <<>> /\ buffer' = <<>> /\ nStale' = 0
  /\ buffer_count_valid_elements' = 0
  /\ reseted_buffer' = 0
  /\ state_counter' = 0
  /\ count' \in {backup} \cup BadFetch
  /\ xAccessBuffer' = TRUE /\ xAccessCount' = TRUE
  /\ analyzer' = "loop" /\ analyzerTimer' = 0
  /\ pusher' = "loop" /\ pusherTimer' = 0
  /\ sender' = "sleep"
  /\ UNCHANGED backup

-----------------------------------------------------------------------------
(* Environment: barriers, clock *)

\* Mutant: the capacity of the queue is not respected.
BarrierEdgeUnlimited(b) ==
  /\ queue' = Append(queue, b)
  /\ UNCHANGED <<buffer, nStale, machine, counters, locks, anTask, puTask, sender>>

\* A debounced edge.  xQueueSendFromISR does not block: the event is lost
\* when the queue is full.
BarrierEdge(b) ==
  /\ Len(queue) < SIZE_QUEUE
  /\ queue' = Append(queue, b)
  /\ UNCHANGED <<buffer, nStale, machine, counters, locks, anTask, puTask, sender>>

\* The oldest fresh event becomes more than TIME_TO_EMPTY_BUFFER seconds old.
Age ==
  /\ nStale < fillSize + Len(queue)
  /\ nStale' = nStale + 1
  /\ UNCHANGED <<queue, buffer, machine, counters, locks, anTask, puTask, sender>>

AnalyzerReady == analyzer = "loop" /\ analyzerTimer = 0 /\ xAccessBuffer
PusherReady   == pusher = "loop" /\ pusherTimer = 0

Runnable ==
  \/ AnalyzerReady
  \/ analyzer = "wantCount" /\ xAccessCount
  \/ PusherReady
  \/ pusher = "receive" /\ (queue # <<>> \/ pusherTimer = 0)

Decrement(t) == IF t > 0 THEN t - 1 ELSE 0

\* Ten milliseconds pass; every task that could run has run.
Tick ==
  /\ ~Runnable
  /\ analyzerTimer' = Decrement(analyzerTimer)
  /\ pusherTimer' = Decrement(pusherTimer)
  /\ UNCHANGED <<events, machine, counters, locks, analyzer, pusher, sender>>

-----------------------------------------------------------------------------
(* Task pushInBuffer *)

\* Mutant: the round ends without vTaskDelay.
PusherDoesNotSleep == pusher' = "loop" /\ pusherTimer' = 0

PusherSleeps == pusher' = "loop" /\ pusherTimer' = PUSH_DELAY

\* xSemaphoreTake with block time 0 succeeds: wait for the queue.
PusherTake ==
  /\ PusherReady
  /\ xAccessBuffer
  /\ xAccessBuffer' = FALSE
  /\ pusher' = "receive" /\ pusherTimer' = QUEUE_WAIT
  /\ UNCHANGED <<events, machine, counters, xAccessCount, anTask, sender>>

\* The semaphore is not available: the round is skipped.
PusherSkip ==
  /\ PusherReady
  /\ ~xAccessBuffer
  /\ PusherSleeps
  /\ UNCHANGED <<events, machine, counters, locks, anTask, sender>>

\* An event arrives in time.  Nothing but a log line guards a full buffer.
PusherReceive ==
  /\ pusher = "receive"
  /\ queue # <<>>
  /\ buffer' = Append(buffer, Head(queue))
  /\ queue' = Tail(queue)
  /\ xAccessBuffer' = TRUE
  /\ PusherSleeps
  /\ UNCHANGED <<nStale, machine, counters, xAccessCount, anTask, sender>>

PusherTimeout ==
  /\ pusher = "receive"
  /\ queue = <<>> /\ pusherTimer = 0
  /\ xAccessBuffer' = TRUE
  /\ PusherSleeps
  /\ UNCHANGED <<events, machine, counters, xAccessCount, anTask, sender>>

-----------------------------------------------------------------------------
(* Task analyzer: checkBuffer decides whether the oldest event is analysed *)

valid == buffer_count_valid_elements

\* Mutant: a batch starts one event too early.
StartBatchEarly ==
  /\ valid = 0 /\ fillSize >= THRESHOLD_ANALIZER - 1
  /\ buffer_count_valid_elements' = BATCH
  /\ UNCHANGED reseted_buffer

StartBatch ==
  /\ valid = 0 /\ fillSize >= THRESHOLD_ANALIZER
  /\ buffer_count_valid_elements' = BATCH
  /\ UNCHANGED reseted_buffer

ContinueBatch ==
  /\ valid > 1
  /\ buffer_count_valid_elements' = valid - 1
  /\ UNCHANGED reseted_buffer

\* The newest buffered event is stale, hence all of them are.
BufferStale == fillSize > 0 /\ nStale >= fillSize

\* Mutant: the last stale event is not drained.
DrainAllButOne ==
  /\ valid = 0 /\ fillSize \in 2..THRESHOLD_ANALIZER - 1 /\ BufferStale
  /\ reseted_buffer' = 1
  /\ UNCHANGED buffer_count_valid_elements

DrainStale ==
  /\ valid = 0 /\ fillSize < THRESHOLD_ANALIZER /\ BufferStale
  /\ reseted_buffer' = 1
  /\ UNCHANGED buffer_count_valid_elements

CheckBuffer == StartBatch \/ ContinueBatch \/ DrainStale

\* checkBuffer returns 0: the last element of a batch is counted down, a
\* drained buffer resets the machine, or there is nothing to do yet.
EndBatch ==
  /\ valid = 1
  /\ buffer_count_valid_elements' = 0
  /\ UNCHANGED <<reseted_buffer, state_counter>>

ResetState ==
  /\ valid = 0 /\ fillSize = 0 /\ reseted_buffer = 1
  /\ reseted_buffer' = 0
  /\ state_counter' = 0
  /\ UNCHANGED buffer_count_valid_elements

AwaitEvents ==
  /\ valid = 0 /\ fillSize < THRESHOLD_ANALIZER /\ ~BufferStale
  /\ fillSize = 0 => reseted_buffer = 0
  /\ UNCHANGED machine

\* One step of the passage machine; an unknown barrier is only logged.
Turn(s, b) == IF b \notin Barriers THEN s
              ELSE IF (s % 2 = 0) = (b = "OUTDOOR") THEN s + 1 ELSE s - 1

PASSED == {-4, 4}

\* The analysed event leaves the buffer; a slot never written holds no barrier.
Oldest == IF buffer = <<>> THEN "none" ELSE Head(buffer)

\* Mutant: head stays, so that the newest slot is given up.
RemoveNewest ==
  /\ buffer' = SubSeq(buffer, 1, Len(buffer) - 1)
  /\ nStale' = Decrement(nStale)
  /\ UNCHANGED queue

RemoveOldest ==
  /\ buffer' = IF buffer = <<>> THEN <<>> ELSE Tail(buffer)
  /\ nStale' = Decrement(nStale)
  /\ UNCHANGED queue

AnalyzerSleeps == analyzer' = "loop" /\ analyzerTimer' = ANALYZER_DELAY

\* A round without an event.
AnalyzerIdle ==
  /\ AnalyzerReady
  /\ EndBatch \/ ResetState \/ AwaitEvents
  /\ AnalyzerSleeps
  /\ UNCHANGED <<events, counters, locks, puTask, sender>>

\* A round whose event does not complete a passage.
AnalyzeEvent ==
  /\ AnalyzerReady
  /\ CheckBuffer
  /\ state_counter' = Turn(state_counter, Oldest)
  /\ state_counter' \notin PASSED
  /\ RemoveOldest
  /\ AnalyzerSleeps
  /\ UNCHANGED <<counters, locks, puTask, sender>>

\* The event completes a passage: wait for xAccessCount holding xAccessBuffer.
AnalyzerPassage ==
  /\ AnalyzerReady
  /\ CheckBuffer
  /\ state_counter' = Turn(state_counter, Oldest)
  /\ state_counter' \in PASSED
  /\ xAccessBuffer' = FALSE
  /\ analyzer' = "wantCount"
  /\ UNCHANGED <<events, counters, xAccessCount, analyzerTimer, puTask, sender>>

\* Mutant: the machine is not reset after a passage.
FinishRoundNoReset ==
  /\ UNCHANGED state_counter
  /\ RemoveOldest
  /\ xAccessBuffer' = TRUE
  /\ AnalyzerSleeps

FinishRound ==
  /\ state_counter' = 0
  /\ RemoveOldest
  /\ xAccessBuffer' = TRUE
  /\ AnalyzerSleeps

\* Mutant: the lower bound of an unsigned count is tested with < 0.
SaturatedBelowZero == IF state_counter = 4 THEN count > COUNT_LIMIT ELSE count < 0

Saturated == IF state_counter = 4 THEN count > COUNT_LIMIT ELSE count <= 0

\* The passage does not change a saturated count.
IgnorePassage ==
  /\ analyzer = "wantCount"
  /\ xAccessCount
  /\ Saturated
  /\ FinishRound
  /\ UNCHANGED <<buffer_count_valid_elements, reseted_buffer, counters,
                 xAccessCount, puTask, sender>>

\* Mutant: the count is updated without xAccessCount.
CountPassageUnlocked ==
  /\ analyzer = "wantCount"
  /\ ~Saturated
  /\ count' = (IF state_counter = 4 THEN count + 1 ELSE count - 1) % 256
  /\ xAccessCount' = FALSE
  /\ analyzer' = "saving"
  /\ UNCHANGED <<events, machine, backup, xAccessBuffer, analyzerTimer,
                 puTask, sender>>

\* The passage is counted; writeToNVM and setCount_backup follow.
CountPassage ==
  /\ analyzer = "wantCount"
  /\ xAccessCount
  /\ ~Saturated
  /\ count' = (IF state_counter = 4 THEN count + 1 ELSE count - 1) % 256
  /\ xAccessCount' = FALSE
  /\ analyzer' = "saving"
  /\ UNCHANGED <<events, machine, backup, xAccessBuffer, analyzerTimer,
                 puTask, sender>>

\* setCount_backup returns, its request may have failed.
SavePassage ==
  /\ analyzer = "saving"
  /\ backup' \in {count, backup}
  /\ xAccessCount' = TRUE
  /\ FinishRound
  /\ UNCHANGED <<buffer_count_valid_elements, reseted_buffer, count, puTask, sender>>

-----------------------------------------------------------------------------
(* Task sendFromNVS *)

\* Mutant: sendFromNVS looks at xAccessCount but does not take it.
SenderPeeks ==
  /\ sender = "sleep"
  /\ xAccessCount
  /\ sender' = "backup"
  /\ UNCHANGED <<events, machine, counters, locks, anTask, puTask>>

SenderTake ==
  /\ sender = "sleep"
  /\ xAccessCount
  /\ xAccessCount' = FALSE
  /\ sender' = "backup"
  /\ UNCHANGED <<events, machine, counters, xAccessBuffer, anTask, puTask>>

SenderBackup ==
  /\ sender = "backup"
  /\ backup' \in {count, backup}
  /\ sender' = "send"
  /\ UNCHANGED <<events, machine, count, locks, anTask, puTask>>

\* Mutant: xAccessCount is not given back.
SenderKeepsCount ==
  /\ sender = "send"
  /\ sender' = "clock"
  /\ UNCHANGED <<events, machine, counters, locks, anTask, puTask>>

\* writeToNVM and sendDataFromJSON_toDB (module NvsStore), then the release
SenderSend ==
  /\ sender = "send"
  /\ xAccessCount' = TRUE
  /\ sender' = "clock"
  /\ UNCHANGED <<events, machine, counters, xAccessBuffer, anTask, puTask>>

\* Outside the reset hours: back to sleep (the prediction is module SendClock's).
SenderSleep ==
  /\ sender = "clock"
  /\ sender' = "sleep"
  /\ UNCHANGED <<events, machine, counters, locks, anTask, puTask>>

\* In a reset hour: setCount_backup(0) without xAccessCount, then the restart.
SenderReset ==
  /\ sender = "clock"
  /\ backup' \in {0, backup}
  /\ sender' = "restart"
  /\ UNCHANGED <<events, machine, count, locks, anTask, puTask>>

SenderRestart == sender = "restart" /\ Restart

-----------------------------------------------------------------------------
\* Task updateOTA restarts the device after an update, at a remote request or
\* when the heap is short, whatever the other tasks do.
OtaRestart == Restart

Pusher   == PusherTake \/ PusherSkip \/ PusherReceive \/ PusherTimeout
Analyzer == \/ AnalyzerIdle \/ AnalyzeEvent \/ AnalyzerPassage
            \/ IgnorePassage \/ CountPassage \/ SavePassage
Sender   == \/ SenderTake \/ SenderBackup \/ SenderSend \/ SenderSleep
            \/ SenderReset \/ SenderRestart

Next ==
  \/ \E b \in Barriers : BarrierEdge(b)
  \/ Age
  \/ Tick
  \/ Pusher
  \/ Analyzer
  \/ Sender
  \/ OtaRestart

Spec == Init /\ [][Next]_vars

(***************************************************************************)
(* Fairness.  Ready tasks run and the clock ticks; requests to the network *)
(* return, with an error if need be, because the HTTP client times out;    *)
(* events grow old.  The analyzer is the task of highest priority and      *)
(* blocks on its semaphores with portMAX_DELAY, so that it gets them even  *)
(* when they are free only now and then (strong fairness).  Nothing is     *)
(* assumed of the barriers, of sendFromNVS waking up, or of restarts.      *)
(***************************************************************************)
Fairness ==
  /\ WF_vars(Tick) /\ WF_vars(Age)
  /\ WF_vars(Pusher)
  /\ SF_vars(AnalyzerIdle \/ AnalyzeEvent \/ AnalyzerPassage)
  /\ SF_vars(IgnorePassage \/ CountPassage)
  /\ WF_vars(SavePassage)
  /\ WF_vars(SenderBackup \/ SenderSend \/ SenderSleep \/ SenderReset \/ SenderRestart)

FairSpec == Spec /\ Fairness

-----------------------------------------------------------------------------
(* Properties *)

Byte == 0..255

TypeOK ==
  /\ queue \in Seq(Barriers) /\ Len(queue) <= SIZE_QUEUE
  /\ buffer \in Seq(Barriers)
  /\ nStale \in 0..fillSize + Len(queue)
  /\ buffer_count_valid_elements \in 0..BATCH
  /\ reseted_buffer \in {0, 1}
  /\ state_counter \in -4..4
  /\ count \in Byte /\ backup \in Byte
  /\ xAccessBuffer \in BOOLEAN /\ xAccessCount \in BOOLEAN
  /\ analyzer \in {"loop", "wantCount", "saving"}
  /\ analyzerTimer \in 0..ANALYZER_DELAY
  /\ pusher \in {"loop", "receive"}
  /\ pusherTimer \in Nat
  /\ sender \in {"sleep", "backup", "send", "clock", "restart"}

\* Each semaphore is out exactly while one task is between its take and its
\* give, and never two tasks: pushInBuffer and analyzer for the buffer,
\* analyzer and sendFromNVS for the count.
MutualExclusion ==
  /\ ~(pusher = "receive" /\ analyzer # "loop")
  /\ ~(analyzer = "saving" /\ sender \in {"backup", "send"})
  /\ xAccessBuffer = (pusher = "loop" /\ analyzer = "loop")
  /\ xAccessCount = (analyzer # "saving" /\ sender \notin {"backup", "send"})

\* What is left of a batch is in the buffer: analyzer never reads a slot that
\* pushInBuffer did not fill, and fillSize never drops below zero.
BatchBacked ==
  IF analyzer = "loop" THEN valid <= fillSize + 1
                       ELSE fillSize > 0 /\ valid <= fillSize

\* The ring of SIZE_BUFFER slots never holds more events than it has slots.
NoBufferOverflow == fillSize <= SIZE_BUFFER

\* Between two rounds of the analyzer the machine is never in a state outside
\* -3..3; a round that waits for the count is exactly at 4 or -4.  Hence the
\* branch that reports an invalid state is never taken.
PassageInRange ==
  IF analyzer = "loop" THEN state_counter \in -3..3 ELSE state_counter \in PASSED

\* While sendFromNVS backs up and publishes, and while analyzer saves a
\* passage, no other task changes the count: both report one value.
CountStableWhileReported ==
  [][ (sender \in {"backup", "send"} \/ analyzer = "saving")
        => count' = count \/ Restart ]_vars

\* The count never wraps around a byte: a step moves it by at most one person,
\* except for the value restored after a restart.
CountMovesByOne ==
  [][ count' - count \in {-1, 0, 1} \/ Restart ]_vars

\* The pipeline implements PassageCounter: no accepted event is lost,
\* repeated or reordered between the interrupt and the count.  A passage is
\* counted when analyzer takes xAccessCount, before its event leaves the buffer.
Abstract == INSTANCE PassageCounter WITH
  pending <- IF analyzer = "saving" THEN Tail(Pending) ELSE Pending,
  state   <- CASE analyzer = "loop"      -> state_counter
               [] analyzer = "wantCount" -> IF state_counter = 4 THEN 3 ELSE -3
               [] analyzer = "saving"    -> 0

ImplementsPassageCounter == Abstract!Spec

\* Every buffered event is analysed in the end: either the buffer is empty again
\* and again, or events leave it forever (and they leave it in order).
NoEventStranded ==
  []<>(buffer = <<>>) \/ []<><<buffer # <<>> /\ buffer' = Tail(buffer)>>_vars

\* The nested take of xAccessCount under xAccessBuffer always ends.
PassageFinished == (analyzer # "loop") ~> (analyzer = "loop")

\* The report says that checkBuffer resets the machine "if there are no new
\* events after TIME_TO_EMPTY_BUFFER seconds": an unfinished passage without
\* further events does not last forever.
SilenceResetsMachine ==
  (state_counter # 0 /\ Pending = <<>>) ~> (state_counter = 0 \/ Pending # <<>>)

=============================================================================
