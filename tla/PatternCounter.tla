---------------------------- MODULE PatternCounter ----------------------------
(***************************************************************************)
(* The first counter, lcd_and_counter/main/lcd_and_counter.c: the edges of *)
(* two light barriers go through a queue and a ring to analyzer, which     *)
(* compares the four oldest events with the patterns of a way in and a way *)
(* out; showRoomState draws the count (over the old one: that a digit of   *)
(* a longer number stays beside it is left out).                           *)
(*                                                                         *)
(* One person at a time walks through the doorway and may turn round at    *)
(* any point.  position is his place: 0 clear of the barriers, 1 in        *)
(* barrier 1, 2 in both, 3 in barrier 2; inwards is +1, and behind 3 comes *)
(* 0 again, with the next person on either side.                           *)
(*                                                                         *)
(* Tasks run on two cores.  A round of pushInBuffer is followed by a delay *)
(* of 100 ms, one of analyzer by 10 ms: what is kept of the two delays is  *)
(* that analyzer, unless it is blocked, looks at the ring at least once    *)
(* between two rounds of pushInBuffer.  Drawing takes any time.  Rounds    *)
(* that find nothing to do and change nothing are left out.                *)
(*                                                                         *)
(* buffer holds the live slots of the ring, which is exact while it does   *)
(* not overflow (EventRing).  An event has no time stamp here:             *)
(* the interrupt routines stamp and queue one after the other, so that the *)
(* stamps are in the order of the ring and analyzer's comparison of them   *)
(* always holds.                                                           *)
(***************************************************************************)
EXTENDS Integers, Sequences

CONSTANTS
  SIZE_QUEUE,          \* capacity of the FreeRTOS queue (20)
  SIZE_BUFFER,         \* slots of the ring (10)
  THRESHOLD_ANALIZER,  \* events needed to look at the ring (4)
  COUNT_LIMIT          \* above this count nobody is counted in (250)

PATTERN == 4

ASSUME PatternAssumption ==
  /\ SIZE_QUEUE \in Nat \ {0}
  /\ THRESHOLD_ANALIZER \in Nat /\ THRESHOLD_ANALIZER >= PATTERN
  /\ SIZE_BUFFER \in Nat /\ THRESHOLD_ANALIZER < SIZE_BUFFER
  /\ COUNT_LIMIT \in 0..254

VARIABLES
  position,                \* the person in the doorway
  way,                     \* 1 or -1 while he never turned round, else 0
  passages,                \* history: the count of straight passages
  lost,                    \* history: an edge got lost, passages is not kept
  lastState,               \* lastState1, lastState2
  queue,                   \* events sent by the interrupt routines
  buffer,                  \* events received by pushInBuffer
  count,                   \* people in the room
  shown,                   \* oldCount, the number drawn last
  xAccessBuffer,           \* binary semaphore, TRUE when available
  xAccessCount,            \* binary semaphore, TRUE when available
  pusher,                  \* control of task pushInBuffer
  analyzer,                \* control of task analyzer
  looked,                  \* analyzer had a round since the last push
  display                  \* control of task showRoomState

doorway == <<position, way, passages, lost, lastState>>
events  == <<queue, buffer>>
counts  == <<count, shown>>
locks   == <<xAccessBuffer, xAccessCount>>
tasks   == <<pusher, analyzer, looked, display>>
vars == <<doorway, events, counts, locks, tasks>>

Ids == {1, 2}
Event == [id : Ids, state : BOOLEAN]
fillSize == Len(buffer)

\* app_main: nobody is in the doorway when the tasks start.
Init ==
  /\ position = 0 /\ way = 0 /\ passages = 0 /\ lost = FALSE
  /\ lastState = [id \in Ids |-> FALSE]
  /\ queue = <<>> /\ buffer = <<>>
  /\ count = 0 /\ shown = 0
  /\ xAccessBuffer = TRUE /\ xAccessCount = TRUE
  /\ pusher = "loop" /\ analyzer = "loop" /\ looked = FALSE /\ display = "loop"

-----------------------------------------------------------------------------
(* Doorway and interrupt routines *)

\* Mutant: a way out is counted in an empty room.
ChangedBelowZero(n, d) == IF d = 1 /\ n > COUNT_LIMIT THEN n ELSE (n + d) % 256

\* The count after a passage in direction d, unless it is at its limit.
Changed(n, d) == IF (d = 1 /\ n > COUNT_LIMIT) \/ (d = -1 /\ n <= 0) THEN n ELSE n + d

\* isr_barrier1 and isr_barrier2.  An edge within THRESHOLD_DEBOUCE of the
\* last one is ignored; with a full queue the event is lost.
isr_barrier(id, level, soon) ==
  IF lastState[id] # level /\ ~soon
  THEN /\ lastState' = [lastState EXCEPT ![id] = level]
       /\ IF Len(queue) < SIZE_QUEUE
          THEN queue' = Append(queue, [id |-> id, state |-> level]) /\ UNCHANGED lost
          ELSE lost' = TRUE /\ UNCHANGED queue
  ELSE lost' = TRUE /\ UNCHANGED <<lastState, queue>>

\* The barrier between place p and the next one, and whether place q covers it.
Between(p) == IF p % 2 = 0 THEN 1 ELSE 2
Covered(id, q) == q \in {id, id + 1}

\* The person takes a step in direction d.
Walk(d, soon) ==
  LET q == (position + d) % 4
      id == Between(IF d = 1 THEN position ELSE q)
      straight == IF position = 0 \/ way = d THEN d ELSE 0
  IN /\ position' = q
     /\ isr_barrier(id, Covered(id, q), soon)
     /\ way' = IF lost' \/ q = 0 THEN 0 ELSE straight
     /\ passages' = CASE lost' -> 0
                      [] ~lost' /\ q = 0 -> Changed(passages, straight)
                      [] OTHER -> passages
     /\ UNCHANGED <<buffer, counts, locks, tasks>>

Walking == \E d \in {1, -1}, soon \in BOOLEAN : Walk(d, soon)

-----------------------------------------------------------------------------
(* Task pushInBuffer *)

\* Mutant: the round ends without vTaskDelay.
PusherDoesNotSleep == pusher' = "loop" /\ UNCHANGED looked

PusherSleeps == pusher' = "loop" /\ looked' = FALSE

\* After the delay the semaphore is taken if it is there; otherwise the round
\* is skipped.
PusherTake ==
  /\ pusher = "loop" /\ looked
  /\ xAccessBuffer
  /\ xAccessBuffer' = FALSE
  /\ pusher' = "receive"
  /\ UNCHANGED <<doorway, events, counts, xAccessCount, analyzer, looked, display>>

\* The event is received even when the ring is full; that is only logged.
PusherReceive ==
  /\ pusher = "receive" /\ queue # <<>>
  /\ buffer' = Append(buffer, Head(queue))
  /\ queue' = Tail(queue)
  /\ xAccessBuffer' = TRUE
  /\ PusherSleeps
  /\ UNCHANGED <<doorway, counts, xAccessCount, analyzer, display>>

PusherTimeout ==
  /\ pusher = "receive" /\ queue = <<>>
  /\ xAccessBuffer' = TRUE
  /\ PusherSleeps
  /\ UNCHANGED <<doorway, events, counts, xAccessCount, analyzer, display>>

-----------------------------------------------------------------------------
(* Task analyzer *)

GoingIn(b) ==
  /\ b[1] = [id |-> 1, state |-> TRUE]  /\ b[2] = [id |-> 2, state |-> TRUE]
  /\ b[3] = [id |-> 1, state |-> FALSE] /\ b[4] = [id |-> 2, state |-> FALSE]

GoingOut(b) ==
  /\ b[1] = [id |-> 2, state |-> TRUE]  /\ b[2] = [id |-> 1, state |-> TRUE]
  /\ b[3] = [id |-> 2, state |-> FALSE] /\ b[4] = [id |-> 1, state |-> FALSE]

\* A round begins once the semaphore is there.
AnalyzerReady == analyzer = "loop" /\ xAccessBuffer

TooFewEvents ==
  /\ AnalyzerReady
  /\ fillSize < THRESHOLD_ANALIZER
  /\ looked' = TRUE
  /\ UNCHANGED <<doorway, events, counts, locks, pusher, analyzer, display>>

\* Mutant: without a passage all events are deleted.
DeleteAll == buffer' = <<>>

DeleteOldest == buffer' = Tail(buffer)

\* No passage: only the oldest event is deleted, and the search starts again.
NoPassage ==
  /\ AnalyzerReady
  /\ fillSize >= THRESHOLD_ANALIZER
  /\ ~GoingIn(buffer) /\ ~GoingOut(buffer)
  /\ DeleteOldest
  /\ looked' = TRUE
  /\ UNCHANGED <<doorway, queue, counts, locks, pusher, analyzer, display>>

\* A passage: wait for xAccessCount holding xAccessBuffer.
FoundPassage ==
  /\ AnalyzerReady
  /\ fillSize >= THRESHOLD_ANALIZER
  /\ GoingIn(buffer) \/ GoingOut(buffer)
  /\ xAccessBuffer' = FALSE
  /\ analyzer' = "wantCount"
  /\ UNCHANGED <<doorway, events, counts, xAccessCount, pusher, looked, display>>

\* The count is changed unless it is at its limit, the pattern is deleted.
CountPassage ==
  /\ analyzer = "wantCount" /\ xAccessCount
  /\ count' = Changed(count, IF GoingIn(buffer) THEN 1 ELSE -1)
  /\ buffer' = SubSeq(buffer, PATTERN + 1, fillSize)
  /\ xAccessBuffer' = TRUE
  /\ analyzer' = "loop" /\ looked' = TRUE
  /\ UNCHANGED <<doorway, queue, shown, xAccessCount, pusher, display>>

-----------------------------------------------------------------------------
(* Task showRoomState *)

\* A new count is drawn while the task holds xAccessCount.
DisplayDraws ==
  /\ display = "loop" /\ xAccessCount
  /\ shown # count
  /\ xAccessCount' = FALSE
  /\ display' = "draw"
  /\ UNCHANGED <<doorway, events, counts, xAccessBuffer, pusher, analyzer, looked>>

\* Mutant: the semaphore is given back only when nothing was drawn.
DisplayKeepsCount ==
  /\ display = "draw"
  /\ shown' = count
  /\ display' = "loop"
  /\ UNCHANGED <<doorway, events, count, locks, pusher, analyzer, looked>>

DisplayDrawn ==
  /\ display = "draw"
  /\ shown' = count
  /\ xAccessCount' = TRUE
  /\ display' = "loop"
  /\ UNCHANGED <<doorway, events, count, xAccessBuffer, pusher, analyzer, looked>>

-----------------------------------------------------------------------------
Pusher   == PusherTake \/ PusherReceive \/ PusherTimeout
Analyzer == TooFewEvents \/ NoPassage \/ FoundPassage \/ CountPassage
Display  == DisplayDraws \/ DisplayDrawn

Next == Walking \/ Pusher \/ Analyzer \/ Display

Spec == Init /\ [][Next]_vars

(***************************************************************************)
(* Fairness: ready tasks run and drawing ends.  analyzer waits for its     *)
(* semaphores with portMAX_DELAY and is woken by each give, so that it     *)
(* gets them even when they are free only now and then.                    *)
(***************************************************************************)
FairSpec ==
  /\ Spec
  /\ WF_vars(Pusher) /\ WF_vars(Display)
  /\ SF_vars(TooFewEvents \/ NoPassage \/ FoundPassage) /\ SF_vars(CountPassage)

-----------------------------------------------------------------------------
(* Properties *)

TypeOK ==
  /\ position \in 0..3 /\ way \in {-1, 0, 1}
  /\ passages \in 0..COUNT_LIMIT + 1 /\ lost \in BOOLEAN
  /\ lastState \in [Ids -> BOOLEAN]
  /\ queue \in Seq(Event) /\ Len(queue) <= SIZE_QUEUE
  /\ buffer \in Seq(Event)
  /\ count \in 0..COUNT_LIMIT + 1 /\ shown \in 0..COUNT_LIMIT + 1
  /\ xAccessBuffer \in BOOLEAN /\ xAccessCount \in BOOLEAN
  /\ pusher \in {"loop", "receive"}
  /\ analyzer \in {"loop", "wantCount"} /\ looked \in BOOLEAN
  /\ display \in {"loop", "draw"}

\* pushInBuffer logs "Buffer overflow" and stores the event all the same.  It
\* never has to: analyzer, though it may wait for a slow display while it holds
\* the ring, looks at the ring between two events.
RingHasRoom == fillSize < SIZE_BUFFER

\* The display keeps analyzer from the count, analyzer keeps pushInBuffer from
\* the ring: each semaphore is out exactly while its one holder needs it.
OneHolder ==
  /\ xAccessBuffer = (pusher = "loop" /\ analyzer = "loop")
  /\ ~(pusher = "receive" /\ analyzer = "wantCount")
  /\ xAccessCount = (display = "loop")

\* As long as no edge is lost, the patterns find every passage and nothing but
\* passages, however often somebody turns round on the way: once fewer events
\* than a pattern has are left, the count is that of the straight passages.
CountsPassages ==
  \/ lost
  \/ queue # <<>> \/ fillSize >= PATTERN
  \/ count = passages

\* showRoomState draws it in the end, unless people keep walking: the chain of
\* tasks that wait for each other never stops.
ShowsPassages == []<>(lost \/ shown = passages) \/ []<><<Walking>>_vars

=============================================================================
