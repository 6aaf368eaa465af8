------------------------- MODULE PatternCounterProofs -------------------------
(***************************************************************************)
(* Proofs about PatternCounter, for every size of queue and ring and every *)
(* limit of the count: the variables keep their types, each semaphore has  *)
(* one holder, the ring always has room for one more event, and the        *)
(* patterns find every straight passage and nothing else.                  *)
(***************************************************************************)
EXTENDS PatternCounter, SequenceTheorems, TLAPS

\* analyzer looks at the ring between two events, so that the ring never holds
\* more than analyzer needs, and holds less once analyzer has looked.
Pace ==
  /\ fillSize <= THRESHOLD_ANALIZER
  /\ looked => fillSize < THRESHOLD_ANALIZER
  /\ pusher = "receive" => looked
  /\ analyzer = "wantCount" => fillSize >= PATTERN

Inv == TypeOK /\ OneHolder /\ Pace

-----------------------------------------------------------------------------

\* A passage keeps the count within its limits.
LEMMA ChangedInRange ==
  ASSUME NEW n \in 0..COUNT_LIMIT + 1, NEW d \in {-1, 0, 1}
  PROVE  Changed(n, d) \in 0..COUNT_LIMIT + 1
BY PatternAssumption DEF Changed

\* Removing the pattern leaves the rest of the ring.
LEMMA RestOfRing ==
  ASSUME NEW S, NEW b \in Seq(S), Len(b) >= PATTERN
  PROVE  /\ SubSeq(b, PATTERN + 1, Len(b)) \in Seq(S)
         /\ Len(SubSeq(b, PATTERN + 1, Len(b))) = Len(b) - PATTERN
<1>1. /\ Len(b) \in Nat /\ Len(b) >= 4
      /\ \A i \in 5..Len(b) : b[i] \in S
  BY DEF PATTERN
<1>2. SubSeq(b, 5, Len(b)) \in Seq(S)
  BY <1>1, SubSeqProperties
<1>3. Len(SubSeq(b, 5, Len(b))) = IF 5 <= Len(b) THEN Len(b) - 5 + 1 ELSE 0
  BY <1>1, SubSeqProperties
<1>4. Len(SubSeq(b, 5, Len(b))) = Len(b) - 4
  <2> DEFINE n == Len(b)  m == Len(SubSeq(b, 5, n))
  <2>1. n \in Nat /\ n >= 4 /\ m = IF 5 <= n THEN n - 5 + 1 ELSE 0
    BY <1>1, <1>3
  <2> HIDE DEF n, m
  <2>2. 5 <= n => m = n - 4
    BY <2>1
  <2>3. n = 4 => m = n - 4
    BY <2>1
  <2>4. m = n - 4
    BY <2>1, <2>2, <2>3
  <2> QED
    BY <2>4 DEF n, m
<1>5. 4 + 1 = 5
  OBVIOUS
<1> QED
  BY <1>2, <1>4, <1>5 DEF PATTERN

\* The parts of TypeOK.
DoorwayType ==
  /\ position \in 0..3 /\ way \in {-1, 0, 1} /\ passages \in 0..COUNT_LIMIT + 1
  /\ lastState \in [Ids -> BOOLEAN]
EventsType ==
  /\ queue \in Seq(Event) /\ Len(queue) <= SIZE_QUEUE
  /\ buffer \in Seq(Event)
CountsType == count \in 0..COUNT_LIMIT + 1 /\ shown \in 0..COUNT_LIMIT + 1
FlagsType ==
  /\ lost \in BOOLEAN /\ looked \in BOOLEAN
  /\ xAccessBuffer \in BOOLEAN /\ xAccessCount \in BOOLEAN
ControlType ==
  /\ pusher \in {"loop", "receive"}
  /\ analyzer \in {"loop", "wantCount"}
  /\ display \in {"loop", "draw"}

LEMMA TypeParts ==
  TypeOK <=> DoorwayType /\ EventsType /\ CountsType /\ FlagsType /\ ControlType
BY Zenon DEF TypeOK, DoorwayType, EventsType, CountsType, FlagsType, ControlType

LEMMA InitInv == Init => Inv
<1> SUFFICES ASSUME Init PROVE Inv
  OBVIOUS
<1>1. DoorwayType
  <2>1. lastState \in [Ids -> BOOLEAN]
    BY Zenon DEF Init
  <2> QED
    BY <2>1, PatternAssumption DEF Init, DoorwayType
<1>2. EventsType
  BY PatternAssumption DEF Init, EventsType
<1>3. CountsType
  BY PatternAssumption DEF Init, CountsType
<1>4. FlagsType
  BY Zenon DEF Init, FlagsType
<1>5. ControlType
  BY DEF Init, ControlType
<1>6. OneHolder
  BY DEF Init, OneHolder
<1>7. Pace
  BY PatternAssumption DEF Init, Pace, fillSize, PATTERN
<1> QED
  BY <1>1, <1>2, <1>3, <1>4, <1>5, <1>6, <1>7, TypeParts DEF Inv

\* The steps of the person and the interrupt routines: they leave the tasks
\* alone, and append to the queue only when it has room.
LEMMA WalkingInv == ASSUME Inv, Walking PROVE Inv'
<1> PICK d \in {1, -1}, soon \in BOOLEAN : Walk(d, soon)
  BY DEF Walking
<1> DEFINE q == (position + d) % 4
           id == Between(IF d = 1 THEN position ELSE q)
           level == Covered(id, q)
<1>t. DoorwayType /\ EventsType /\ CountsType /\ FlagsType /\ ControlType
  BY TypeParts DEF Inv
<1>u. UNCHANGED <<buffer, count, shown, xAccessBuffer, xAccessCount, pusher, analyzer,
                  looked, display>>
  BY DEF Walk, counts, locks, tasks
<1>i. id \in Ids /\ level \in BOOLEAN /\ isr_barrier(id, level, soon)
  BY DEF Walk, Ids, Between, Covered
<1>1. EventsType'
  <2>1. CASE queue' = Append(queue, [id |-> id, state |-> level])
             /\ Len(queue) < SIZE_QUEUE
    <3>1. [id |-> id, state |-> level] \in Event
      BY <1>i DEF Event
    <3> QED
      BY <2>1, <3>1, <1>t, <1>u, PatternAssumption DEF EventsType
  <2>2. CASE queue' = queue
    BY <2>2, <1>t, <1>u DEF EventsType
  <2> QED
    BY <1>i, <2>1, <2>2 DEF isr_barrier
<1>2. lastState' \in [Ids -> BOOLEAN]
  <2>1. lastState' = [lastState EXCEPT ![id] = level] \/ lastState' = lastState
    BY <1>i DEF isr_barrier
  <2> HIDE DEF q, id, level
  <2> QED
    BY <2>1, <1>i, <1>t, Zenon DEF DoorwayType
<1>3. lost' \in BOOLEAN
  <2>1. lost' = TRUE \/ lost' = lost
    BY <1>i DEF isr_barrier
  <2> QED
    BY <2>1, <1>t, Zenon DEF FlagsType
<1>4. DoorwayType'
  <2>1. position' \in 0..3
    BY <1>t DEF Walk, DoorwayType
  <2>2. way' \in {-1, 0, 1}
    BY <1>t DEF Walk, DoorwayType
  <2>3. passages' \in 0..COUNT_LIMIT + 1
    <3> DEFINE straight == IF position = 0 \/ way = d THEN d ELSE 0
    <3>1. straight \in {-1, 0, 1} /\ Changed(passages, straight) \in 0..COUNT_LIMIT + 1
      BY <1>t, ChangedInRange DEF DoorwayType
    <3>2. passages' \in {0, passages, Changed(passages, straight)}
      BY DEF Walk
    <3> QED
      BY <3>1, <3>2, <1>t, PatternAssumption DEF DoorwayType
  <2> QED
    BY <2>1, <2>2, <2>3, <1>2 DEF DoorwayType
<1>5. CountsType' /\ ControlType'
  BY <1>t, <1>u DEF CountsType, ControlType
<1>6. FlagsType'
  BY <1>3, <1>t, <1>u, Zenon DEF FlagsType
<1>7. OneHolder' /\ Pace'
  BY <1>u DEF Inv, OneHolder, Pace, fillSize
<1>8. TypeOK'
  BY <1>1, <1>4, <1>5, <1>6, Zenon
  DEF TypeOK, DoorwayType, EventsType, CountsType, FlagsType, ControlType
<1> QED
  BY <1>7, <1>8 DEF Inv


\* pushInBuffer adds an event only after analyzer has looked at the ring.
LEMMA PusherInv == ASSUME Inv, Pusher PROVE Inv'
<1>t. DoorwayType /\ EventsType /\ CountsType /\ FlagsType /\ ControlType
  BY TypeParts DEF Inv
<1>1. CASE PusherTake
  <2>1. DoorwayType' /\ EventsType' /\ CountsType' /\ ControlType'
    BY <1>1, <1>t DEF PusherTake, doorway, events, counts, DoorwayType, EventsType,
                      CountsType, ControlType
  <2>2. FlagsType'
    BY <1>1, <1>t, Zenon DEF PusherTake, doorway, FlagsType
  <2>3. OneHolder'
    BY <1>1 DEF PusherTake, Inv, OneHolder
  <2>4. Pace'
    BY <1>1 DEF PusherTake, events, Inv, Pace, fillSize
  <2>5. TypeOK'
    BY <2>1, <2>2, Zenon
    DEF TypeOK, DoorwayType, EventsType, CountsType, FlagsType, ControlType
  <2> QED
    BY <2>3, <2>4, <2>5 DEF Inv
<1>2. CASE PusherReceive
  <2>1. DoorwayType' /\ CountsType' /\ ControlType'
    BY <1>2, <1>t DEF PusherReceive, PusherSleeps, doorway, counts, DoorwayType,
                      CountsType, ControlType
  <2>2. EventsType' /\ fillSize' = fillSize + 1
    <3>1. queue \in Seq(Event) /\ queue # <<>> /\ Len(queue) <= SIZE_QUEUE
      BY <1>2, <1>t DEF PusherReceive, EventsType
    <3>2. Head(queue) \in Event
      BY <3>1
    <3>3. Tail(queue) \in Seq(Event) /\ Len(Tail(queue)) = Len(queue) - 1
      BY <3>1
    <3>4. buffer \in Seq(Event) /\ buffer' = Append(buffer, Head(queue)) /\ queue' = Tail(queue)
      BY <1>2, <1>t DEF PusherReceive, EventsType
    <3>5. buffer' \in Seq(Event) /\ Len(buffer') = Len(buffer) + 1
      BY <3>2, <3>4
    <3>6. Len(queue) \in Nat /\ SIZE_QUEUE \in Nat
      BY <3>1, PatternAssumption
    <3>7. Len(Tail(queue)) <= SIZE_QUEUE
      BY <3>1, <3>3, <3>6
    <3> QED
      BY <3>3, <3>4, <3>5, <3>7 DEF EventsType, fillSize
  <2>3. FlagsType'
    BY <1>2, <1>t, Zenon DEF PusherReceive, PusherSleeps, doorway, FlagsType
  <2>4. OneHolder'
    <3>1. analyzer = "loop"
      BY <1>2, <1>t DEF PusherReceive, Inv, OneHolder, ControlType
    <3> QED
      BY <1>2, <3>1 DEF PusherReceive, PusherSleeps, Inv, OneHolder
  <2>5. Pace'
    <3>1. fillSize < THRESHOLD_ANALIZER /\ analyzer' = "loop"
      BY <1>2, <1>t DEF PusherReceive, Inv, OneHolder, Pace, ControlType
    <3>2. fillSize \in Nat
      BY <1>t DEF EventsType, fillSize
    <3>3. fillSize' <= THRESHOLD_ANALIZER
      BY <2>2, <3>1, <3>2, PatternAssumption
    <3> QED
      BY <1>2, <3>1, <3>3 DEF PusherReceive, PusherSleeps, Pace
  <2>6. TypeOK'
    BY <2>1, <2>2, <2>3, Zenon
    DEF TypeOK, DoorwayType, EventsType, CountsType, FlagsType, ControlType
  <2> QED
    BY <2>4, <2>5, <2>6 DEF Inv
<1>3. CASE PusherTimeout
  <2>1. DoorwayType' /\ EventsType' /\ CountsType' /\ ControlType'
    BY <1>3, <1>t DEF PusherTimeout, PusherSleeps, doorway, events, counts, DoorwayType,
                      EventsType, CountsType, ControlType
  <2>2. FlagsType'
    BY <1>3, <1>t, Zenon DEF PusherTimeout, PusherSleeps, doorway, FlagsType
  <2>3. OneHolder'
    <3>1. analyzer = "loop"
      BY <1>3, <1>t DEF PusherTimeout, Inv, OneHolder, ControlType
    <3> QED
      BY <1>3, <3>1 DEF PusherTimeout, PusherSleeps, Inv, OneHolder
  <2>4. Pace'
    BY <1>3 DEF PusherTimeout, PusherSleeps, events, Inv, Pace, fillSize
  <2>5. TypeOK'
    BY <2>1, <2>2, Zenon
    DEF TypeOK, DoorwayType, EventsType, CountsType, FlagsType, ControlType
  <2> QED
    BY <2>3, <2>4, <2>5 DEF Inv
<1> QED
  BY <1>1, <1>2, <1>3 DEF Pusher

\* analyzer removes an event, or finds fewer than it needs.
LEMMA AnalyzerInv == ASSUME Inv, Analyzer PROVE Inv'
<1>t. DoorwayType /\ EventsType /\ CountsType /\ FlagsType /\ ControlType
  BY TypeParts DEF Inv
<1>n. fillSize \in Nat /\ fillSize <= THRESHOLD_ANALIZER /\ THRESHOLD_ANALIZER \in Nat
  BY <1>t, PatternAssumption DEF EventsType, fillSize, Inv, Pace
<1>c. DoorwayType'
  BY <1>t DEF Analyzer, TooFewEvents, NoPassage, FoundPassage, CountPassage, doorway,
              DoorwayType
<1>1. CASE TooFewEvents
  <2>1. EventsType' /\ CountsType' /\ ControlType'
    BY <1>1, <1>t DEF TooFewEvents, events, counts, EventsType, CountsType, ControlType
  <2>2. FlagsType'
    BY <1>1, <1>t, Zenon DEF TooFewEvents, doorway, locks, FlagsType
  <2>3. OneHolder'
    BY <1>1 DEF TooFewEvents, locks, Inv, OneHolder
  <2>4. Pace'
    BY <1>1 DEF TooFewEvents, events, Inv, Pace, fillSize
  <2>5. TypeOK'
    BY <1>c, <2>1, <2>2, Zenon
    DEF TypeOK, DoorwayType, EventsType, CountsType, FlagsType, ControlType
  <2> QED
    BY <2>3, <2>4, <2>5 DEF Inv
<1>2. CASE NoPassage
  <2>1. CountsType' /\ ControlType'
    BY <1>2, <1>t DEF NoPassage, counts, CountsType, ControlType
  <2>2. EventsType' /\ fillSize' = fillSize - 1
    <3>1. buffer # <<>> /\ buffer' = Tail(buffer) /\ queue' = queue
      BY <1>2, <1>n, PatternAssumption
      DEF NoPassage, DeleteOldest, fillSize, PATTERN
    <3> QED
      BY <3>1, <1>t DEF EventsType, fillSize
  <2>3. FlagsType'
    BY <1>2, <1>t, Zenon DEF NoPassage, doorway, locks, FlagsType
  <2>4. OneHolder' /\ analyzer' = "loop"
    BY <1>2 DEF NoPassage, AnalyzerReady, locks, Inv, OneHolder
  <2>5. fillSize' < THRESHOLD_ANALIZER
    BY <2>2, <1>n
  <2>6. Pace'
    BY <1>2, <1>n, <2>2, <2>4, <2>5 DEF NoPassage, Pace
  <2>7. TypeOK'
    BY <1>c, <2>1, <2>2, <2>3, Zenon
    DEF TypeOK, DoorwayType, EventsType, CountsType, FlagsType, ControlType
  <2> QED
    BY <2>4, <2>6, <2>7 DEF Inv
<1>3. CASE FoundPassage
  <2>1. EventsType' /\ CountsType' /\ ControlType'
    BY <1>3, <1>t DEF FoundPassage, events, counts, EventsType, CountsType, ControlType
  <2>2. FlagsType'
    BY <1>3, <1>t, Zenon DEF FoundPassage, doorway, FlagsType
  <2>3. OneHolder'
    BY <1>3, <1>t DEF FoundPassage, AnalyzerReady, Inv, OneHolder, ControlType
  <2>4. Pace'
    BY <1>3, <1>n, PatternAssumption
    DEF FoundPassage, events, Inv, Pace, fillSize, PATTERN
  <2>5. TypeOK'
    BY <1>c, <2>1, <2>2, Zenon
    DEF TypeOK, DoorwayType, EventsType, CountsType, FlagsType, ControlType
  <2> QED
    BY <2>3, <2>4, <2>5 DEF Inv
<1>4. CASE CountPassage
  <2>1. CountsType' /\ ControlType'
    <3>1. count' \in 0..COUNT_LIMIT + 1
      BY <1>4, <1>t, ChangedInRange DEF CountPassage, CountsType
    <3> QED
      BY <1>4, <1>t, <3>1 DEF CountPassage, CountsType, ControlType
  <2>2. EventsType' /\ fillSize' = fillSize - PATTERN
    <3>1. buffer' = SubSeq(buffer, PATTERN + 1, Len(buffer)) /\ Len(buffer) >= PATTERN
          /\ queue' = queue
      BY <1>4 DEF CountPassage, fillSize, Inv, Pace
    <3>2. buffer' \in Seq(Event) /\ Len(buffer') = Len(buffer) - PATTERN
      BY <3>1, <1>t, RestOfRing DEF EventsType
    <3> QED
      BY <3>1, <3>2, <1>t DEF EventsType, fillSize
  <2>3. FlagsType'
    BY <1>4, <1>t, Zenon DEF CountPassage, doorway, FlagsType
  <2>4. OneHolder' /\ analyzer' = "loop"
    BY <1>4, <1>t DEF CountPassage, Inv, OneHolder, ControlType
  <2>5. fillSize' < THRESHOLD_ANALIZER
    BY <2>2, <1>n DEF PATTERN
  <2>6. Pace'
    BY <1>4, <1>n, <2>4, <2>5, <2>2 DEF CountPassage, Pace, PATTERN
  <2>7. TypeOK'
    BY <1>c, <2>1, <2>2, <2>3, Zenon
    DEF TypeOK, DoorwayType, EventsType, CountsType, FlagsType, ControlType
  <2> QED
    BY <2>4, <2>6, <2>7 DEF Inv
<1> QED
  BY <1>1, <1>2, <1>3, <1>4 DEF Analyzer

\* showRoomState leaves the ring alone.
LEMMA DisplayInv == ASSUME Inv, Display PROVE Inv'
<1>t. DoorwayType /\ EventsType /\ CountsType /\ FlagsType /\ ControlType
  BY TypeParts DEF Inv
<1>1. DoorwayType' /\ EventsType' /\ ControlType'
  BY <1>t DEF Display, DisplayDraws, DisplayDrawn, doorway, events, DoorwayType,
              EventsType, ControlType
<1>2. CountsType'
  BY <1>t DEF Display, DisplayDraws, DisplayDrawn, counts, CountsType
<1>3. FlagsType'
  BY <1>t, Zenon DEF Display, DisplayDraws, DisplayDrawn, doorway, FlagsType
<1>4. OneHolder'
  BY DEF Display, DisplayDraws, DisplayDrawn, Inv, OneHolder
<1>5. Pace'
  BY DEF Display, DisplayDraws, DisplayDrawn, events, Inv, Pace, fillSize
<1>6. TypeOK'
  BY <1>1, <1>2, <1>3, Zenon
  DEF TypeOK, DoorwayType, EventsType, CountsType, FlagsType, ControlType
<1> QED
  BY <1>4, <1>5, <1>6 DEF Inv

LEMMA StutterInv == ASSUME Inv, UNCHANGED vars PROVE Inv'
<1>1. TypeOK'
  BY Zenon DEF vars, doorway, events, counts, locks, tasks, Inv, TypeOK
<1>2. OneHolder' /\ Pace'
  BY DEF vars, doorway, events, counts, locks, tasks, Inv, OneHolder, Pace, fillSize
<1> QED
  BY <1>1, <1>2 DEF Inv

THEOREM Invariance == Spec => []Inv
<1>1. Inv /\ [Next]_vars => Inv'
  BY WalkingInv, PusherInv, AnalyzerInv, DisplayInv, StutterInv DEF Next
<1> QED
  BY InitInv, <1>1, PTL DEF Spec

-----------------------------------------------------------------------------

\* The variables keep their types; the count stays a byte within its limit.
THEOREM TypeCorrect == Spec => []TypeOK
<1>1. Inv => TypeOK
  BY DEF Inv
<1> QED
  BY <1>1, Invariance, PTL

\* Each semaphore is out exactly while its one holder needs it.
THEOREM SemaphoresHeldOnce == Spec => []OneHolder
<1>1. Inv => OneHolder
  BY DEF Inv
<1> QED
  BY <1>1, Invariance, PTL

\* pushInBuffer never stores an event in a full ring, although analyzer may
\* wait for the display while it holds the ring.
THEOREM RingNeverFull == Spec => []RingHasRoom
<1>1. Inv => RingHasRoom
  BY PatternAssumption DEF Inv, TypeOK, Pace, RingHasRoom, fillSize
<1> QED
  BY <1>1, Invariance, PTL

-----------------------------------------------------------------------------
(* What the events that are left tell about the doorway *)

On(id)  == [id |-> id, state |-> TRUE]
Off(id) == [id |-> id, state |-> FALSE]

\* The edge of a step in direction d from place p.
EdgeOf(p, d) ==
  IF d = 1
  THEN CASE p = 0 -> On(1) [] p = 1 -> On(2) [] p = 2 -> Off(1) [] p = 3 -> Off(2)
  ELSE CASE p = 0 -> On(2) [] p = 3 -> On(1) [] p = 2 -> Off(2) [] p = 1 -> Off(1)

\* The last four of the first n events of s are a passage that meets barrier a
\* before barrier b; and its direction.
Passes(s, n, a, b) ==
  /\ n >= 4
  /\ s[n - 3] = On(a) /\ s[n - 2] = On(b) /\ s[n - 1] = Off(a) /\ s[n] = Off(b)
Direction(s, n) ==
  IF Passes(s, n, 1, 2) THEN 1 ELSE IF Passes(s, n, 2, 1) THEN -1 ELSE 0

\* The last k events of s are the first k of such a passage.
Begins(s, k, a, b) ==
  LET n == Len(s)
  IN \/ k = 1 /\ n >= 1 /\ s[n] = On(a)
     \/ k = 2 /\ n >= 2 /\ s[n - 1] = On(a) /\ s[n] = On(b)
     \/ k = 3 /\ n >= 3 /\ s[n - 2] = On(a) /\ s[n - 1] = On(b) /\ s[n] = Off(a)

\* The edges that lead to place p.
EdgesTo(p) ==
  CASE p = 0 -> {Off(1), Off(2)} [] p = 1 -> {On(1), Off(2)}
    [] p = 2 -> {On(1), On(2)}   [] p = 3 -> {On(2), Off(1)}

\* The events s end where the person is, and tell whether he never turned round.
Tells(s, p, w) ==
  /\ s # <<>> => s[Len(s)] \in EdgesTo(p)
  /\ w = 1 <=> Begins(s, p, 1, 2)
  /\ w = -1 <=> Begins(s, 4 - p, 2, 1)

\* Counting the passages among the events s from count m on results in n.
Results(s, m, n) ==
  \E c \in [0..Len(s) -> 0..COUNT_LIMIT + 1] :
    /\ c[0] = m /\ c[Len(s)] = n
    /\ \A i \in 1..Len(s) : c[i] = Changed(c[i - 1], Direction(s, i))

LEMMA EventsDiffer ==
  /\ On(1) # On(2) /\ Off(1) # Off(2)
  /\ On(1) # Off(1) /\ On(1) # Off(2) /\ On(2) # Off(1) /\ On(2) # Off(2)
BY DEF On, Off

LEMMA EventIs ==
  ASSUME NEW i, NEW b \in BOOLEAN
  PROVE  [id |-> i, state |-> b] = IF b THEN On(i) ELSE Off(i)
<1>1. b = TRUE \/ b = FALSE BY Zenon
<1>2. b = TRUE => [id |-> i, state |-> b] = On(i) BY Zenon DEF On
<1>3. b = FALSE => [id |-> i, state |-> b] = Off(i) BY Zenon DEF Off
<1> QED BY <1>1, <1>2, <1>3, Zenon

\* What isr_barrier queues.
LEMMA EdgeIs ==
  ASSUME NEW p \in 0..3, NEW d \in {1, -1}
  PROVE  LET q  == (p + d) % 4
             id == Between(IF d = 1 THEN p ELSE q)
         IN  [id |-> id, state |-> Covered(id, q)] = EdgeOf(p, d)
<1> DEFINE q  == (p + d) % 4
           id == Between(IF d = 1 THEN p ELSE q)
<1>1. Covered(id, q) \in BOOLEAN BY DEF Covered
<1>2. /\ p = 0 /\ d = 1 => id = 1 /\ Covered(id, q)
      /\ p = 1 /\ d = 1 => id = 2 /\ Covered(id, q)
      /\ p = 2 /\ d = 1 => id = 1 /\ ~Covered(id, q)
      /\ p = 3 /\ d = 1 => id = 2 /\ ~Covered(id, q)
  BY DEF Between, Covered
<1>3. /\ p = 0 /\ d = -1 => id = 2 /\ Covered(id, q)
      /\ p = 3 /\ d = -1 => id = 1 /\ Covered(id, q)
      /\ p = 2 /\ d = -1 => id = 2 /\ ~Covered(id, q)
      /\ p = 1 /\ d = -1 => id = 1 /\ ~Covered(id, q)
  BY DEF Between, Covered
<1> HIDE DEF q, id
<1>4. [id |-> id, state |-> Covered(id, q)] = IF Covered(id, q) THEN On(id) ELSE Off(id)
  BY <1>1, EventIs
<1>5. (IF Covered(id, q) THEN On(id) ELSE Off(id)) = EdgeOf(p, d)
  BY <1>2, <1>3 DEF EdgeOf
<1> QED BY <1>4, <1>5 DEF q, id

\* One more event at the end of s.
Longer(s, t, e) ==
  /\ Len(t) = Len(s) + 1 /\ t[Len(s) + 1] = e
  /\ \A i \in 1..Len(s) : t[i] = s[i]

\* Where a step in direction d leads, and its way if it is straight so far.
NextPlace(p, d) == (p + d) % 4
Straight(p, w, d) == IF p = 0 \/ w = d THEN d ELSE 0

\* A step with its edge: the events still tell the place and the way, and end
\* with a passage exactly when the person went straight through.
LEMMA StepTells ==
  ASSUME NEW s \in Seq(Event), NEW t \in Seq(Event), NEW p \in 0..3, NEW w \in {-1, 0, 1},
         NEW d \in {1, -1}, Tells(s, p, w), Longer(s, t, EdgeOf(p, d))
  PROVE  /\ Tells(t, NextPlace(p, d), IF NextPlace(p, d) = 0 THEN 0 ELSE Straight(p, w, d))
         /\ Direction(t, Len(t)) = IF NextPlace(p, d) = 0 THEN Straight(p, w, d) ELSE 0
<1> DEFINE n == Len(s)
           e == EdgeOf(p, d)
           q == (p + d) % 4
           straight == IF p = 0 \/ w = d THEN d ELSE 0
           v == IF q = 0 THEN 0 ELSE straight
<1>1. /\ n \in Nat /\ Len(t) = n + 1 /\ t[n + 1] = e /\ t # <<>>
      /\ n >= 1 => t[n] = s[n]
      /\ n >= 2 => t[n - 1] = s[n - 1]
      /\ n >= 3 => t[n - 2] = s[n - 2]
  BY SMTT(30) DEF Longer
<1>2. /\ n >= 1 => s[n] \in EdgesTo(p)
      /\ w = 1 <=> Begins(s, p, 1, 2)
      /\ w = -1 <=> Begins(s, 4 - p, 2, 1)
  BY DEF Tells
<1> HIDE DEF n, e
<1>3. /\ Begins(s, 0, 1, 2) = FALSE /\ Begins(s, 4, 2, 1) = FALSE
      /\ Begins(s, 1, 1, 2) <=> n >= 1 /\ s[n] = On(1)
      /\ Begins(s, 2, 1, 2) <=> n >= 2 /\ s[n - 1] = On(1) /\ s[n] = On(2)
      /\ Begins(s, 3, 1, 2) <=> n >= 3 /\ s[n - 2] = On(1) /\ s[n - 1] = On(2) /\ s[n] = Off(1)
      /\ Begins(s, 1, 2, 1) <=> n >= 1 /\ s[n] = On(2)
      /\ Begins(s, 2, 2, 1) <=> n >= 2 /\ s[n - 1] = On(2) /\ s[n] = On(1)
      /\ Begins(s, 3, 2, 1) <=> n >= 3 /\ s[n - 2] = On(2) /\ s[n - 1] = On(1) /\ s[n] = Off(2)
  BY DEF Begins, n
<1>4. /\ Begins(t, 0, 1, 2) = FALSE /\ Begins(t, 4, 2, 1) = FALSE
      /\ Begins(t, 1, 1, 2) <=> e = On(1)
      /\ Begins(t, 2, 1, 2) <=> n >= 1 /\ s[n] = On(1) /\ e = On(2)
      /\ Begins(t, 3, 1, 2) <=> n >= 2 /\ s[n - 1] = On(1) /\ s[n] = On(2) /\ e = Off(1)
      /\ Begins(t, 1, 2, 1) <=> e = On(2)
      /\ Begins(t, 2, 2, 1) <=> n >= 1 /\ s[n] = On(2) /\ e = On(1)
      /\ Begins(t, 3, 2, 1) <=> n >= 2 /\ s[n - 1] = On(2) /\ s[n] = On(1) /\ e = Off(2)
  <2>1. (n + 1) - 1 = n /\ (n + 1) - 2 = n - 1 BY <1>1
  <2> QED BY <1>1, <2>1 DEF Begins
<1>5. /\ Passes(t, n + 1, 1, 2) <=> Begins(s, 3, 1, 2) /\ e = Off(2)
      /\ Passes(t, n + 1, 2, 1) <=> Begins(s, 3, 2, 1) /\ e = Off(1)
  <2>1. (n + 1) - 1 = n /\ (n + 1) - 2 = n - 1 /\ (n + 1) - 3 = n - 2 BY <1>1
  <2> QED BY <1>1, <1>3, <2>1, SMTT(30) DEF Passes
<1>6. Tells(t, q, v) <=> /\ e \in EdgesTo(q)
                         /\ v = 1 <=> Begins(t, q, 1, 2)
                         /\ v = -1 <=> Begins(t, 4 - q, 2, 1)
  BY <1>1 DEF Tells
<1>7. CASE p = 0
  <2>1. (d = 1 => q = 1 /\ e = On(1)) /\ (d = -1 => q = 3 /\ e = On(2))
    BY <1>7 DEF EdgeOf, e
  <2>2. v = d BY <1>7, <2>1
  <2>3. Tells(t, q, v)
    BY <1>4, <1>6, <2>1, <2>2, EventsDiffer DEF EdgesTo
  <2>4. Direction(t, n + 1) = 0
    BY <1>5, <2>1, EventsDiffer DEF Direction
  <2> QED BY <1>1, <2>1, <2>3, <2>4 DEF NextPlace, Straight
<1>8. CASE p = 1
  <2>1. (d = 1 => q = 2 /\ e = On(2)) /\ (d = -1 => q = 0 /\ e = Off(1))
    BY <1>8 DEF EdgeOf, e
  <2>2. (w = 1 <=> n >= 1 /\ s[n] = On(1)) /\ (w = -1 <=> Begins(s, 3, 2, 1))
        /\ (n >= 1 => s[n] \in {On(1), Off(2)})
    BY <1>2, <1>3, <1>8 DEF EdgesTo
  <2>3. d = 1 => v = (IF w = 1 THEN 1 ELSE 0) BY <1>8, <2>1
  <2>4. d = -1 => v = 0 /\ straight = IF w = -1 THEN -1 ELSE 0 BY <1>8, <2>1
  <2>5. Tells(t, q, v)
    BY <1>4, <1>6, <2>1, <2>2, <2>3, <2>4, EventsDiffer DEF EdgesTo
  <2>6. ~Begins(s, 3, 1, 2) BY <1>1, <1>3, <2>2, EventsDiffer
  <2>7. Direction(t, n + 1) = IF q = 0 THEN straight ELSE 0
    BY <1>5, <2>1, <2>2, <2>4, <2>6, EventsDiffer DEF Direction
  <2> QED BY <1>1, <2>5, <2>7 DEF NextPlace, Straight
<1>9. CASE p = 2
  <2>1. (d = 1 => q = 3 /\ e = Off(1)) /\ (d = -1 => q = 1 /\ e = Off(2))
    BY <1>9 DEF EdgeOf, e
  <2>2. (w = 1 <=> Begins(s, 2, 1, 2)) /\ (w = -1 <=> Begins(s, 2, 2, 1))
        /\ (n >= 1 => s[n] \in {On(1), On(2)})
    BY <1>2, <1>9 DEF EdgesTo
  <2>3. v = IF w = d THEN d ELSE 0 BY <1>9, <2>1
  <2>4. Tells(t, q, v)
    BY <1>3, <1>4, <1>6, <2>1, <2>2, <2>3, EventsDiffer DEF EdgesTo
  <2>5. ~Begins(s, 3, 1, 2) /\ ~Begins(s, 3, 2, 1) BY <1>1, <1>3, <2>2, EventsDiffer
  <2>6. Direction(t, n + 1) = 0 BY <1>5, <2>5 DEF Direction
  <2> QED BY <1>1, <2>1, <2>4, <2>6 DEF NextPlace, Straight
<1>10. CASE p = 3
  <2>1. (d = 1 => q = 0 /\ e = Off(2)) /\ (d = -1 => q = 2 /\ e = On(1))
    BY <1>10 DEF EdgeOf, e
  <2>2. (w = 1 <=> Begins(s, 3, 1, 2)) /\ (w = -1 <=> n >= 1 /\ s[n] = On(2))
        /\ (n >= 1 => s[n] \in {On(2), Off(1)})
    BY <1>2, <1>3, <1>10 DEF EdgesTo
  <2>3. d = -1 => v = (IF w = -1 THEN -1 ELSE 0) BY <1>10, <2>1
  <2>4. d = 1 => v = 0 /\ straight = IF w = 1 THEN 1 ELSE 0 BY <1>10, <2>1
  <2>5. Tells(t, q, v)
    BY <1>4, <1>6, <2>1, <2>2, <2>3, <2>4, EventsDiffer DEF EdgesTo
  <2>6. ~Begins(s, 3, 2, 1) BY <1>1, <1>3, <2>2, EventsDiffer
  <2>7. Direction(t, n + 1) = IF q = 0 THEN straight ELSE 0
    BY <1>5, <2>1, <2>2, <2>4, <2>6, EventsDiffer DEF Direction
  <2> QED BY <1>1, <2>5, <2>7 DEF NextPlace, Straight
<1> QED BY <1>7, <1>8, <1>9, <1>10

\* The oldest k events of s are gone.
Shorter(s, t, k) ==
  /\ Len(t) = Len(s) - k
  /\ \A i \in 1..Len(t) : t[i] = s[i + k]

\* What analyzer deletes: the oldest event, unless the oldest four are a
\* passage, or that passage.
Deletes(s, k) ==
  /\ Len(s) >= 4
  /\ k = IF Direction(s, 4) = 0 THEN 1 ELSE 4

LEMMA DirectionIs ==
  ASSUME NEW s, NEW n \in Nat
  PROVE  /\ n < 4 => Direction(s, n) = 0
         /\ Direction(s, n) = 0 <=> ~Passes(s, n, 1, 2) /\ ~Passes(s, n, 2, 1)
         /\ Direction(s, n) \in {-1, 0, 1}
BY DEF Direction, Passes

\* The events behind the deleted ones tell no less: where a person is on a
\* straight way in or out, the events of that way are still there.
LEMMA DeletedTells ==
  ASSUME NEW s \in Seq(Event), NEW t \in Seq(Event), NEW k, Deletes(s, k), Shorter(s, t, k),
         NEW p \in 0..3, NEW w \in {-1, 0, 1}, Tells(s, p, w)
  PROVE  Tells(t, p, w)
<1> DEFINE n == Len(s)
           m == Len(t)
<1>1. /\ n \in Nat /\ n >= 4 /\ m \in Nat /\ k \in {1, 4} /\ m = n - k
      /\ m >= 1 => t[m] = s[n]
      /\ m >= 2 => t[m - 1] = s[n - 1]
      /\ m >= 3 => t[m - 2] = s[n - 2]
  <2>1. n \in Nat /\ n >= 4 /\ m \in Nat /\ k \in {1, 4} /\ m = n - k
    BY DEF Deletes, Shorter
  <2>2. \A i \in 1..m : t[i] = s[i + k] BY DEF Shorter
  <2> HIDE DEF n, m
  <2>3. m + k = n /\ (m - 1) + k = n - 1 /\ (m - 2) + k = n - 2 BY <2>1
  <2>4. (m >= 1 => m \in 1..m) /\ (m >= 2 => m - 1 \in 1..m) /\ (m >= 3 => m - 2 \in 1..m)
    BY <2>1
  <2> QED BY <2>1, <2>2, <2>3, <2>4
<1>2. /\ s # <<>>
      /\ t # <<>> <=> m >= 1
  BY <1>1
<1>3. ASSUME NEW a, NEW b, NEW j \in 0..4, Begins(t, j, a, b)
      PROVE  Begins(s, j, a, b)
  <2> HIDE DEF n, m
  <2>1. \/ j = 1 /\ m >= 1 /\ t[m] = On(a)
        \/ j = 2 /\ m >= 2 /\ t[m - 1] = On(a) /\ t[m] = On(b)
        \/ j = 3 /\ m >= 3 /\ t[m - 2] = On(a) /\ t[m - 1] = On(b) /\ t[m] = Off(a)
    BY <1>3 DEF Begins, m
  <2>2. \/ j = 1 /\ n >= 1 /\ s[n] = On(a)
        \/ j = 2 /\ n >= 2 /\ s[n - 1] = On(a) /\ s[n] = On(b)
        \/ j = 3 /\ n >= 3 /\ s[n - 2] = On(a) /\ s[n - 1] = On(b) /\ s[n] = Off(a)
    BY <1>1, <2>1, SMTT(30)
  <2> QED BY <2>2 DEF Begins, n
<1>4. ASSUME NEW a, NEW b, NEW j \in 0..4, Begins(s, j, a, b), m >= 3 \/ m >= j
      PROVE  Begins(t, j, a, b)
  <2> HIDE DEF n, m
  <2>1. \/ j = 1 /\ n >= 1 /\ s[n] = On(a)
        \/ j = 2 /\ n >= 2 /\ s[n - 1] = On(a) /\ s[n] = On(b)
        \/ j = 3 /\ n >= 3 /\ s[n - 2] = On(a) /\ s[n - 1] = On(b) /\ s[n] = Off(a)
    BY <1>4 DEF Begins, n
  <2>2. \/ j = 1 /\ m >= 1 /\ t[m] = On(a)
        \/ j = 2 /\ m >= 2 /\ t[m - 1] = On(a) /\ t[m] = On(b)
        \/ j = 3 /\ m >= 3 /\ t[m - 2] = On(a) /\ t[m - 1] = On(b) /\ t[m] = Off(a)
    BY <1>1, <1>4, <2>1, SMTT(30)
  <2> QED BY <2>2 DEF Begins, m
<1>5. ASSUME NEW a, NEW b, NEW j \in 0..4, Begins(s, j, a, b),
             (a = 1 /\ b = 2) \/ (a = 2 /\ b = 1)
      PROVE  m >= 3 \/ m >= j
  <2>1. CASE k = 1 BY <1>1, <2>1
  <2>2. CASE k = 4
    <3>1. Passes(s, 4, 1, 2) \/ Passes(s, 4, 2, 1)
      BY <2>2, DirectionIs DEF Deletes
    <3>2. \/ s[1] = On(1) /\ s[2] = On(2) /\ s[3] = Off(1) /\ s[4] = Off(2)
          \/ s[1] = On(2) /\ s[2] = On(1) /\ s[3] = Off(2) /\ s[4] = Off(1)
      BY <3>1 DEF Passes
    <3> HIDE DEF n, m
    <3>3. \/ j = 1 /\ s[n] = On(a)
          \/ j = 2 /\ s[n - 1] = On(a) /\ s[n] = On(b)
          \/ j = 3 /\ s[n - 2] = On(a) /\ s[n - 1] = On(b) /\ s[n] = Off(a)
      BY <1>5 DEF Begins, n
    <3>4. (a = 1 /\ b = 2) \/ (a = 2 /\ b = 1) BY <1>5
    <3>5. CASE n = 4
      <4>1. n - 1 = 3 /\ n - 2 = 2 BY <3>5
      <4> QED BY <3>2, <3>3, <3>4, <3>5, <4>1, EventsDiffer
    <3>6. CASE n = 5
      <4>1. n - 1 = 4 /\ n - 2 = 3 /\ m = 1 BY <1>1, <2>2, <3>6
      <4> QED BY <3>2, <3>3, <3>4, <4>1, EventsDiffer
    <3>7. CASE n = 6
      <4>1. n - 2 = 4 /\ m = 2 BY <1>1, <2>2, <3>7
      <4> QED BY <3>2, <3>3, <3>4, <4>1, EventsDiffer
    <3>8. CASE n >= 7 BY <1>1, <2>2, <3>8
    <3> QED BY <1>1, <3>5, <3>6, <3>7, <3>8
  <2> QED BY <1>1, <2>1, <2>2
<1>6. Begins(s, p, 1, 2) <=> Begins(t, p, 1, 2)
  <2>1. p \in 0..4 OBVIOUS
  <2>2. Begins(t, p, 1, 2) => Begins(s, p, 1, 2) BY <1>3, <2>1
  <2>3. Begins(s, p, 1, 2) => m >= 3 \/ m >= p BY <1>5, <2>1
  <2>4. Begins(s, p, 1, 2) => Begins(t, p, 1, 2) BY <1>4, <2>1, <2>3
  <2> QED BY <2>2, <2>4
<1>7. Begins(s, 4 - p, 2, 1) <=> Begins(t, 4 - p, 2, 1)
  <2>1. 4 - p \in 0..4 OBVIOUS
  <2>2. Begins(t, 4 - p, 2, 1) => Begins(s, 4 - p, 2, 1) BY <1>3, <2>1
  <2>3. Begins(s, 4 - p, 2, 1) => m >= 3 \/ m >= 4 - p BY <1>5, <2>1
  <2>4. Begins(s, 4 - p, 2, 1) => Begins(t, 4 - p, 2, 1) BY <1>4, <2>1, <2>3
  <2> QED BY <2>2, <2>4
<1> QED BY <1>1, <1>2, <1>6, <1>7 DEF Tells

\* No passage begins among the events that are deleted, but the deleted one.
LEMMA DeletedDirection ==
  ASSUME NEW s \in Seq(Event), NEW t \in Seq(Event), NEW k, Deletes(s, k), Shorter(s, t, k),
         NEW i \in 1..Len(t)
  PROVE  Direction(t, i) = Direction(s, i + k)
<1>1. /\ Len(t) \in Nat /\ k \in {1, 4} /\ i \in Nat
      /\ \A j \in 1..Len(t) : t[j] = s[j + k]
  BY DEF Deletes, Shorter
<1>2. CASE i >= 4
  <2>1. /\ t[i] = s[i + k] /\ t[i - 1] = s[(i - 1) + k]
        /\ t[i - 2] = s[(i - 2) + k] /\ t[i - 3] = s[(i - 3) + k]
    BY <1>1, <1>2
  <2>2. /\ (i - 1) + k = (i + k) - 1 /\ (i - 2) + k = (i + k) - 2
        /\ (i - 3) + k = (i + k) - 3 /\ i + k >= 4
    BY <1>1, <1>2
  <2> QED BY <1>2, <2>1, <2>2 DEF Direction, Passes
<1>3. CASE i < 4 /\ k = 1
  <2>1. Direction(s, 4) = 0 BY <1>3 DEF Deletes
  <2>2. i + 1 < 4 \/ i + 1 = 4 BY <1>1, <1>3
  <2> QED BY <1>1, <1>3, <2>1, <2>2, DirectionIs
<1>4. CASE i < 4 /\ k = 4
  <2>1. Passes(s, 4, 1, 2) \/ Passes(s, 4, 2, 1)
    BY <1>4, DirectionIs DEF Deletes
  <2>2. \/ s[1] = On(1) /\ s[2] = On(2) /\ s[3] = Off(1) /\ s[4] = Off(2)
        \/ s[1] = On(2) /\ s[2] = On(1) /\ s[3] = Off(2) /\ s[4] = Off(1)
    BY <2>1 DEF Passes
  <2>3. i = 1 \/ i = 2 \/ i = 3 BY <1>1, <1>4
  <2>4. ~Passes(s, i + k, 1, 2) /\ ~Passes(s, i + k, 2, 1)
    BY <1>4, <2>2, <2>3, EventsDiffer DEF Passes
  <2>5. Direction(s, i + k) = 0 BY <2>4 DEF Direction
  <2>6. Direction(t, i) = 0 BY <1>1, <1>4, DirectionIs
  <2> QED BY <2>5, <2>6
<1> QED BY <1>1, <1>2, <1>3, <1>4

LEMMA UnchangedByNobody ==
  ASSUME NEW n \in 0..COUNT_LIMIT + 1
  PROVE  Changed(n, 0) = n
BY PatternAssumption DEF Changed

\* A further event changes the result by its passage, if it ends one.
LEMMA LongerResults ==
  ASSUME NEW s \in Seq(Event), NEW t \in Seq(Event), NEW e, Longer(s, t, e),
         NEW m, NEW n, Results(s, m, n)
  PROVE  Results(t, m, Changed(n, Direction(t, Len(t))))
<1> DEFINE l == Len(s)
<1>1. /\ l \in Nat /\ Len(t) = l + 1
      /\ \A i \in 1..l : t[i] = s[i]
  BY DEF Longer
<1>2. PICK c \in [0..l -> 0..COUNT_LIMIT + 1] :
        /\ c[0] = m /\ c[l] = n
        /\ \A i \in 1..l : c[i] = Changed(c[i - 1], Direction(s, i))
  BY DEF Results
<1> HIDE DEF l
<1>3. \A i \in 1..l : Direction(t, i) = Direction(s, i)
  <2> SUFFICES ASSUME NEW i \in 1..l PROVE Direction(t, i) = Direction(s, i)
    OBVIOUS
  <2>1. i >= 4 => i - 3 \in 1..l /\ i - 2 \in 1..l /\ i - 1 \in 1..l BY <1>1
  <2> QED BY <1>1, <2>1 DEF Direction, Passes
<1> DEFINE r == Changed(n, Direction(t, l + 1))
           f == [i \in 0..l + 1 |-> IF i = l + 1 THEN r ELSE c[i]]
<1>4. r \in 0..COUNT_LIMIT + 1
  <2>1. n \in 0..COUNT_LIMIT + 1 BY <1>1, <1>2
  <2>2. Direction(t, l + 1) \in {-1, 0, 1} BY <1>1, DirectionIs
  <2> QED BY <2>1, <2>2, ChangedInRange
<1> HIDE DEF r
<1>5. f \in [0..l + 1 -> 0..COUNT_LIMIT + 1]
  <2>1. \A i \in 0..l + 1 : i # l + 1 => i \in 0..l BY <1>1
  <2>2. \A i \in 0..l + 1 : (IF i = l + 1 THEN r ELSE c[i]) \in 0..COUNT_LIMIT + 1
    BY <1>2, <1>4, <2>1
  <2> QED BY <2>2
<1>6. f[l + 1] = r /\ \A i \in 0..l : f[i] = c[i] BY <1>1
<1> HIDE DEF f
<1>7. f[0] = m /\ f[Len(t)] = r BY <1>1, <1>2, <1>6
<1>8. \A i \in 1..Len(t) : f[i] = Changed(f[i - 1], Direction(t, i))
  <2> SUFFICES ASSUME NEW i \in 1..Len(t) PROVE f[i] = Changed(f[i - 1], Direction(t, i))
    OBVIOUS
  <2>1. CASE i = l + 1
    <3>1. i - 1 = l /\ l \in 0..l BY <1>1, <2>1
    <3>2. f[i - 1] = n BY <1>2, <1>6, <3>1
    <3> QED BY <1>6, <2>1, <3>2 DEF r
  <2>2. CASE i # l + 1
    <3>1. i \in 1..l /\ i \in 0..l /\ i - 1 \in 0..l BY <1>1, <2>2
    <3> QED BY <1>2, <1>3, <1>6, <3>1
  <2> QED BY <2>1, <2>2
<1>9. \E x \in [0..Len(t) -> 0..COUNT_LIMIT + 1] :
        /\ x[0] = m /\ x[Len(t)] = r
        /\ \A i \in 1..Len(t) : x[i] = Changed(x[i - 1], Direction(t, i))
  BY <1>1, <1>5, <1>7, <1>8
<1> QED BY <1>1, <1>9 DEF Results, r

\* Deleting the oldest events leaves the result, once their passage is counted.
LEMMA DeletedResults ==
  ASSUME NEW s \in Seq(Event), NEW t \in Seq(Event), NEW k, Deletes(s, k), Shorter(s, t, k),
         NEW m, NEW n, Results(s, m, n)
  PROVE  Results(t, Changed(m, Direction(s, 4)), n)
<1> DEFINE l == Len(s)
           h == Len(t)
<1>1. l \in Nat /\ l >= 4 /\ h \in Nat /\ k \in {1, 4} /\ h = l - k
  BY DEF Deletes, Shorter
<1>2. PICK c \in [0..l -> 0..COUNT_LIMIT + 1] :
        /\ c[0] = m /\ c[l] = n
        /\ \A i \in 1..l : c[i] = Changed(c[i - 1], Direction(s, i))
  BY DEF Results
<1>3. \A i \in 1..h : Direction(t, i) = Direction(s, i + k) BY DeletedDirection
<1> HIDE DEF l, h
<1>4. c[k] = Changed(m, Direction(s, 4))
  <2>1. /\ 0 \in 0..l /\ 1 \in 0..l /\ 2 \in 0..l /\ 3 \in 0..l
        /\ 1 \in 1..l /\ 2 \in 1..l /\ 3 \in 1..l /\ 4 \in 1..l
        /\ 1 - 1 = 0 /\ 2 - 1 = 1 /\ 3 - 1 = 2 /\ 4 - 1 = 3
    BY <1>1
  <2>2. Direction(s, 1) = 0 /\ Direction(s, 2) = 0 /\ Direction(s, 3) = 0
    BY DirectionIs
  <2>3. m \in 0..COUNT_LIMIT + 1 BY <1>2, <2>1
  <2>4. c[1] = m BY <1>2, <2>1, <2>2, <2>3, UnchangedByNobody
  <2>5. c[2] = m BY <1>2, <2>1, <2>2, <2>3, <2>4, UnchangedByNobody
  <2>6. c[3] = m BY <1>2, <2>1, <2>2, <2>3, <2>5, UnchangedByNobody
  <2>7. c[4] = Changed(m, Direction(s, 4)) BY <1>2, <2>1, <2>6
  <2>8. k = 1 => Direction(s, 4) = 0 BY DEF Deletes
  <2> QED BY <1>1, <2>3, <2>4, <2>7, <2>8, UnchangedByNobody
<1> DEFINE f == [i \in 0..h |-> c[i + k]]
<1>5. f \in [0..h -> 0..COUNT_LIMIT + 1]
  <2>1. \A i \in 0..h : i + k \in 0..l BY <1>1
  <2> QED BY <1>2, <2>1
<1>6. \A i \in 0..h : f[i] = c[i + k] OBVIOUS
<1> HIDE DEF f
<1>7. f[0] = Changed(m, Direction(s, 4)) /\ f[h] = n
  <2>1. 0 \in 0..h /\ h \in 0..h /\ 0 + k = k /\ h + k = l BY <1>1
  <2> QED BY <1>2, <1>4, <1>6, <2>1
<1>8. \A i \in 1..h : f[i] = Changed(f[i - 1], Direction(t, i))
  <2> SUFFICES ASSUME NEW i \in 1..h PROVE f[i] = Changed(f[i - 1], Direction(t, i))
    OBVIOUS
  <2>1. i \in 0..h /\ i - 1 \in 0..h /\ i + k \in 1..l /\ (i - 1) + k = (i + k) - 1
    BY <1>1
  <2> QED BY <1>2, <1>3, <1>6, <2>1
<1>9. \E x \in [0..h -> 0..COUNT_LIMIT + 1] :
        /\ x[0] = Changed(m, Direction(s, 4)) /\ x[h] = n
        /\ \A i \in 1..h : x[i] = Changed(x[i - 1], Direction(t, i))
  BY <1>5, <1>7, <1>8
<1> QED BY <1>9 DEF Results, h

\* Fewer events than a pattern has change nothing any more.
LEMMA NothingLeft ==
  ASSUME NEW s \in Seq(Event), Len(s) < 4, NEW m, NEW n, Results(s, m, n)
  PROVE  n = m
<1> DEFINE l == Len(s)
<1>1. l \in Nat /\ l < 4 OBVIOUS
<1>2. PICK c \in [0..l -> 0..COUNT_LIMIT + 1] :
        /\ c[0] = m /\ c[l] = n
        /\ \A i \in 1..l : c[i] = Changed(c[i - 1], Direction(s, i))
  BY DEF Results
<1> HIDE DEF l
<1>3. \A i \in 1..l : c[i] = c[i - 1]
  <2> SUFFICES ASSUME NEW i \in 1..l PROVE c[i] = c[i - 1]
    OBVIOUS
  <2>1. i \in Nat /\ i < 4 /\ i - 1 \in 0..l BY <1>1
  <2>2. Direction(s, i) = 0 BY <2>1, DirectionIs
  <2> QED BY <1>2, <2>1, <2>2, UnchangedByNobody
<1>4. /\ l >= 1 => 1 \in 1..l /\ 1 - 1 = 0
      /\ l >= 2 => 2 \in 1..l /\ 2 - 1 = 1
      /\ l >= 3 => 3 \in 1..l /\ 3 - 1 = 2
  BY <1>1
<1>5. /\ l >= 1 => c[1] = c[0]
      /\ l >= 2 => c[2] = c[1]
      /\ l >= 3 => c[3] = c[2]
  BY <1>3, <1>4
<1>6. l = 0 \/ l = 1 \/ l = 2 \/ l = 3 BY <1>1
<1> QED BY <1>2, <1>5, <1>6

-----------------------------------------------------------------------------
(* The count of the passages *)

\* The events that are not analysed yet, from the ring into the queue.
Pending == buffer \o queue

\* A passage was found and waits for the count.
PassageWaits == analyzer = "wantCount" => GoingIn(buffer) \/ GoingOut(buffer)

\* As long as no edge is lost, the pending events tell where the person is and
\* whether he turned round, and counting their passages from the count on results
\* in the count of the straight passages.
Recognition ==
  lost \/ (Tells(Pending, position, way) /\ Results(Pending, count, passages))

IInv == Inv /\ PassageWaits /\ Recognition

LEMMA ConcatIs ==
  ASSUME NEW b \in Seq(Event), NEW s \in Seq(Event)
  PROVE  /\ b \o s \in Seq(Event) /\ Len(b \o s) = Len(b) + Len(s)
         /\ Len(b) \in Nat /\ Len(s) \in Nat
         /\ \A i \in 1..Len(b) : (b \o s)[i] = b[i]
         /\ \A i \in 1..Len(s) : (b \o s)[Len(b) + i] = s[i]
BY ConcatProperties, LenProperties

LEMMA PendingIs ==
  ASSUME EventsType
  PROVE  /\ Pending \in Seq(Event) /\ Len(Pending) = Len(buffer) + Len(queue)
         /\ Len(buffer) \in Nat /\ Len(queue) \in Nat
         /\ \A i \in 1..Len(buffer) : Pending[i] = buffer[i]
         /\ \A i \in 1..Len(queue) : Pending[Len(buffer) + i] = queue[i]
<1>1. buffer \in Seq(Event) /\ queue \in Seq(Event) BY DEF EventsType
<1> QED BY <1>1, ConcatIs DEF Pending

LEMMA RecognitionNext ==
  ASSUME lost' \/ (/\ Tells(Pending', position', way')
                   /\ Results(Pending', count', passages'))
  PROVE  Recognition'
BY DEF Recognition, Tells, Begins, EdgesTo, Results, Direction, Passes

\* The oldest events of the ring are the oldest pending ones.
LEMMA FrontIs ==
  ASSUME EventsType, fillSize >= PATTERN
  PROVE  /\ Len(Pending) >= 4
         /\ Passes(Pending, 4, 1, 2) <=> GoingIn(buffer)
         /\ Passes(Pending, 4, 2, 1) <=> GoingOut(buffer)
<1>1. /\ Len(Pending) \in Nat /\ Len(Pending) >= 4
      /\ Pending[1] = buffer[1] /\ Pending[2] = buffer[2]
      /\ Pending[3] = buffer[3] /\ Pending[4] = buffer[4]
  BY PendingIs DEF fillSize, PATTERN
<1> QED BY <1>1 DEF Passes, GoingIn, GoingOut, On, Off

LEMMA PassageDirection ==
  ASSUME EventsType, fillSize >= PATTERN
  PROVE  Direction(Pending, 4) =
           IF GoingIn(buffer) THEN 1 ELSE IF GoingOut(buffer) THEN -1 ELSE 0
BY FrontIs DEF Direction

LEMMA WalkingRecognition ==
  ASSUME Inv, Recognition, Walking, EventsType'
  PROVE  Recognition'
<1> PICK d \in {1, -1}, soon \in BOOLEAN : Walk(d, soon)
  BY DEF Walking
<1> DEFINE q == NextPlace(position, d)
           id == Between(IF d = 1 THEN position ELSE q)
           level == Covered(id, q)
           straight == Straight(position, way, d)
<1>1. DoorwayType /\ EventsType BY TypeParts DEF Inv
<1>2. SUFFICES ASSUME ~lost'
               PROVE  Tells(Pending', position', way') /\ Results(Pending', count', passages')
  BY RecognitionNext
<1>3. ~lost /\ queue' = Append(queue, [id |-> id, state |-> level])
  BY <1>2 DEF Walk, isr_barrier, NextPlace
<1>4. /\ position' = q /\ way' = (IF q = 0 THEN 0 ELSE straight)
      /\ passages' = IF q = 0 THEN Changed(passages, straight) ELSE passages
      /\ buffer' = buffer /\ count' = count
  BY <1>2 DEF Walk, counts, NextPlace, Straight
<1>5. [id |-> id, state |-> level] = EdgeOf(position, d)
  BY <1>1, EdgeIs DEF DoorwayType, NextPlace
<1> HIDE DEF id, level
<1>6. Pending \in Seq(Event) /\ Pending' \in Seq(Event) /\ Longer(Pending, Pending', EdgeOf(position, d))
  <2> DEFINE b == Len(buffer)
             n == Len(queue)
             e == EdgeOf(position, d)
  <2>1. /\ Pending \in Seq(Event) /\ Len(Pending) = b + n /\ b \in Nat /\ n \in Nat
        /\ \A i \in 1..b : Pending[i] = buffer[i]
        /\ \A i \in 1..n : Pending[b + i] = queue[i]
    BY <1>1, PendingIs
  <2>2. /\ Pending' \in Seq(Event) /\ Len(Pending') = Len(buffer') + Len(queue')
        /\ \A i \in 1..Len(buffer') : Pending'[i] = buffer'[i]
        /\ \A i \in 1..Len(queue') : Pending'[Len(buffer') + i] = queue'[i]
    <3>1. buffer' \in Seq(Event) /\ queue' \in Seq(Event) BY DEF EventsType
    <3> QED BY <3>1, ConcatIs DEF Pending
  <2>3. /\ Len(queue') = n + 1 /\ queue'[n + 1] = e
        /\ \A i \in 1..n : queue'[i] = queue[i]
    BY <1>1, <1>3, <1>5, <2>1 DEF EventsType
  <2>4. /\ Pending' \in Seq(Event) /\ Len(Pending') = b + (n + 1)
        /\ \A i \in 1..b : Pending'[i] = buffer[i]
        /\ \A i \in 1..n + 1 : Pending'[b + i] = queue'[i]
    BY <1>4, <2>2, <2>3
  <2> HIDE DEF b, n, e
  <2>5. Pending'[(b + n) + 1] = e
    <3>1. n + 1 \in 1..n + 1 /\ b + (n + 1) = (b + n) + 1 BY <2>1
    <3> QED BY <2>3, <2>4, <3>1
  <2>6. ASSUME NEW i \in 1..b + n PROVE Pending'[i] = Pending[i]
    <3>1. CASE i \in 1..b BY <2>1, <2>4, <3>1
    <3>2. CASE i \notin 1..b
      <4>1. i - b \in 1..n /\ i - b \in 1..n + 1 /\ b + (i - b) = i BY <2>1, <3>2
      <4> QED BY <2>1, <2>3, <2>4, <4>1
    <3> QED BY <3>1, <3>2
  <2> QED BY <2>1, <2>4, <2>5, <2>6 DEF Longer, e
<1>7. Tells(Pending, position, way) /\ Results(Pending, count, passages)
  BY <1>3 DEF Recognition
<1>8. /\ Tells(Pending', q, IF q = 0 THEN 0 ELSE straight)
      /\ Direction(Pending', Len(Pending')) = IF q = 0 THEN straight ELSE 0
  <2>1. position \in 0..3 /\ way \in {-1, 0, 1} BY <1>1 DEF DoorwayType
  <2> QED BY <1>6, <1>7, <2>1, StepTells
<1>9. Results(Pending', count, Changed(passages, Direction(Pending', Len(Pending'))))
  BY <1>6, <1>7, LongerResults
<1> HIDE DEF q, straight
<1>10. passages' = Changed(passages, IF q = 0 THEN straight ELSE 0)
  BY <1>1, <1>4, UnchangedByNobody DEF DoorwayType
<1> QED BY <1>4, <1>8, <1>9, <1>10

LEMMA PusherRecognition ==
  ASSUME Inv, Recognition, Pusher
  PROVE  Recognition'
<1>1. UNCHANGED <<position, way, passages, lost, count>>
  BY DEF Pusher, PusherTake, PusherReceive, PusherTimeout, doorway, counts
<1>2. Pending' = Pending
  <2>1. CASE PusherTake \/ PusherTimeout
    BY <2>1 DEF PusherTake, PusherTimeout, events, Pending
  <2>2. CASE PusherReceive
    <3>1. /\ buffer \in Seq(Event) /\ queue \in Seq(Event) /\ queue # <<>>
          /\ buffer' = Append(buffer, Head(queue)) /\ queue' = Tail(queue)
      BY <2>2, TypeParts DEF PusherReceive, Inv, EventsType
    <3> DEFINE e == Head(queue)
               r == Tail(queue)
               b == Len(buffer)
    <3>2. /\ e \in Event /\ r \in Seq(Event) /\ Len(queue) = Len(r) + 1
          /\ queue[1] = e /\ \A i \in 1..Len(r) : queue[i + 1] = r[i]
      BY <3>1
    <3>3. /\ Append(buffer, e) \in Seq(Event) /\ Len(Append(buffer, e)) = b + 1
          /\ Append(buffer, e)[b + 1] = e
          /\ \A i \in 1..b : Append(buffer, e)[i] = buffer[i]
      BY <3>1, <3>2, AppendProperties
    <3> HIDE DEF e, r
    <3> DEFINE s == buffer \o queue
               t == Append(buffer, e) \o r
    <3>4. /\ s \in Seq(Event) /\ Len(s) = b + (Len(r) + 1) /\ b \in Nat /\ Len(r) \in Nat
          /\ \A i \in 1..b : s[i] = buffer[i]
          /\ \A i \in 1..Len(r) + 1 : s[b + i] = queue[i]
      <4>1. /\ s \in Seq(Event) /\ Len(s) = b + Len(queue) /\ b \in Nat
            /\ \A i \in 1..b : s[i] = buffer[i]
            /\ \A i \in 1..Len(queue) : s[b + i] = queue[i]
        BY <3>1, ConcatIs
      <4>2. Len(r) \in Nat BY <3>2, LenProperties
      <4> QED BY <3>2, <4>1, <4>2
    <3>5. /\ t \in Seq(Event) /\ Len(t) = (b + 1) + Len(r)
          /\ \A i \in 1..b + 1 : t[i] = Append(buffer, e)[i]
          /\ \A i \in 1..Len(r) : t[(b + 1) + i] = r[i]
      BY <3>2, <3>3, ConcatIs
    <3> HIDE DEF s, t, b
    <3>6. ASSUME NEW i \in 1..Len(s) PROVE s[i] = t[i]
      <4>1. CASE i \in 1..b BY <3>3, <3>4, <3>5, <4>1
      <4>2. CASE i = b + 1
        <5>1. 1 \in 1..Len(r) + 1 /\ b + 1 \in 1..b + 1 BY <3>4
        <5> QED BY <3>2, <3>3, <3>4, <3>5, <4>2, <5>1
      <4>3. CASE i > b + 1
        <5>1. /\ i - (b + 1) \in 1..Len(r) /\ (b + 1) + (i - (b + 1)) = i
              /\ (i - (b + 1)) + 1 \in 1..Len(r) + 1 /\ b + ((i - (b + 1)) + 1) = i
          BY <3>4, <4>3
        <5>2. t[i] = r[i - (b + 1)] BY <3>5, <5>1
        <5>3. s[i] = queue[(i - (b + 1)) + 1] BY <3>4, <5>1
        <5> QED BY <3>2, <5>1, <5>2, <5>3
      <4> QED BY <3>4, <4>1, <4>2, <4>3
    <3>7. Len(s) = Len(t) BY <3>4, <3>5
    <3>8. s = t BY <3>4, <3>5, <3>6, <3>7, SeqEqual
    <3> QED BY <3>1, <3>8 DEF s, t, e, r, Pending
  <2> QED BY <2>1, <2>2 DEF Pusher
<1> QED BY <1>1, <1>2, RecognitionNext DEF Recognition

\* What analyzer deletes of the ring it deletes of the pending events.
LEMMA Deleted ==
  ASSUME EventsType, EventsType', NEW k \in 1..4, fillSize >= PATTERN,
         queue' = queue, Len(buffer') = Len(buffer) - k,
         \A i \in 1..Len(buffer') : buffer'[i] = buffer[i + k]
  PROVE  /\ Pending \in Seq(Event) /\ Pending' \in Seq(Event)
         /\ Shorter(Pending, Pending', k)
<1> DEFINE b == Len(buffer)
           n == Len(queue)
           h == Len(buffer')
<1>1. /\ Pending \in Seq(Event) /\ Len(Pending) = b + n /\ b \in Nat /\ n \in Nat
      /\ \A i \in 1..b : Pending[i] = buffer[i]
      /\ \A i \in 1..n : Pending[b + i] = queue[i]
  BY PendingIs
<1>2. /\ Pending' \in Seq(Event) /\ Len(Pending') = h + n /\ h \in Nat
      /\ \A i \in 1..h : Pending'[i] = buffer'[i]
      /\ \A i \in 1..n : Pending'[h + i] = queue[i]
  <2>1. buffer' \in Seq(Event) /\ queue' \in Seq(Event) BY DEF EventsType
  <2>2. Pending' = buffer' \o queue /\ Len(queue') = n BY DEF Pending
  <2>3. queue \in Seq(Event) BY <2>1
  <2> HIDE DEF h, n
  <2>4. /\ buffer' \o queue \in Seq(Event) /\ Len(buffer' \o queue) = h + n
        /\ h \in Nat /\ n \in Nat
        /\ \A i \in 1..h : (buffer' \o queue)[i] = buffer'[i]
        /\ \A i \in 1..n : (buffer' \o queue)[h + i] = queue[i]
    BY <2>1, <2>3, ConcatIs DEF h, n
  <2> QED BY <2>2, <2>4
<1>3. h = b - k /\ b >= 4 BY DEF fillSize, PATTERN
<1>4. \A i \in 1..h : buffer'[i] = buffer[i + k] OBVIOUS
<1> HIDE DEF b, n, h
<1>5. Len(Pending') = Len(Pending) - k BY <1>1, <1>2, <1>3
<1>6. ASSUME NEW i \in 1..h + n PROVE Pending'[i] = Pending[i + k]
  <2>1. CASE i \in 1..h
    <3>1. i + k \in 1..b BY <1>1, <1>2, <1>3, <2>1
    <3> QED BY <1>1, <1>2, <1>4, <2>1, <3>1
  <2>2. CASE i \notin 1..h
    <3>1. i - h \in 1..n /\ h + (i - h) = i /\ b + (i - h) = i + k
      BY <1>1, <1>2, <1>3, <2>2
    <3>2. Pending'[h + (i - h)] = queue[i - h] BY <1>2, <3>1
    <3>3. Pending[b + (i - h)] = queue[i - h] BY <1>1, <3>1
    <3>4. Pending'[i] = queue[i - h] /\ Pending[i + k] = queue[i - h] BY <3>1, <3>2, <3>3
    <3> QED BY <3>4
  <2> QED BY <2>1, <2>2
<1> QED BY <1>1, <1>2, <1>5, <1>6 DEF Shorter

LEMMA AnalyzerRecognition ==
  ASSUME Inv, PassageWaits, Recognition, Analyzer, EventsType'
  PROVE  Recognition'
<1>1. DoorwayType /\ EventsType BY TypeParts DEF Inv
<1>2. UNCHANGED <<position, way, passages, lost>>
  BY DEF Analyzer, TooFewEvents, NoPassage, FoundPassage, CountPassage, doorway
<1>3. CASE TooFewEvents \/ FoundPassage
  <2>1. Pending' = Pending /\ count' = count
    BY <1>3 DEF TooFewEvents, FoundPassage, events, counts, Pending
  <2> QED BY <1>2, <2>1, RecognitionNext DEF Recognition
<1>4. ASSUME ~lost, NEW k \in 1..4, Deletes(Pending, k), fillSize >= PATTERN,
             queue' = queue, Len(buffer') = Len(buffer) - k,
             \A i \in 1..Len(buffer') : buffer'[i] = buffer[i + k],
             count' = Changed(count, Direction(Pending, 4))
      PROVE  Recognition'
  <2>1. /\ Pending \in Seq(Event) /\ Pending' \in Seq(Event)
        /\ Shorter(Pending, Pending', k)
    BY <1>1, <1>4, Deleted
  <2>2. Tells(Pending, position, way) /\ Results(Pending, count, passages)
    BY <1>4 DEF Recognition
  <2>3. position \in 0..3 /\ way \in {-1, 0, 1} BY <1>1 DEF DoorwayType
  <2>4. Tells(Pending', position, way) BY <1>4, <2>1, <2>2, <2>3, DeletedTells
  <2>5. Results(Pending', Changed(count, Direction(Pending, 4)), passages)
    BY <1>4, <2>1, <2>2, DeletedResults
  <2> QED BY <1>2, <1>4, <2>4, <2>5, RecognitionNext
<1>5. CASE NoPassage
  <2>1. /\ fillSize >= PATTERN /\ ~GoingIn(buffer) /\ ~GoingOut(buffer)
        /\ buffer' = Tail(buffer) /\ queue' = queue /\ count' = count
    <3>1. fillSize \in Nat /\ PATTERN \in Nat BY <1>1 DEF EventsType, fillSize, PATTERN
    <3> QED BY <1>5, <3>1, PatternAssumption DEF NoPassage, DeleteOldest, counts
  <2>2. /\ Len(buffer') = Len(buffer) - 1
        /\ \A i \in 1..Len(buffer') : buffer'[i] = buffer[i + 1]
    <3>1. buffer \in Seq(Event) /\ buffer # <<>>
      BY <1>1, <2>1 DEF EventsType, fillSize, PATTERN
    <3> QED BY <2>1, <3>1
  <2>3. Direction(Pending, 4) = 0 BY <1>1, <2>1, PassageDirection
  <2>4. Deletes(Pending, 1) BY <1>1, <2>1, <2>3, FrontIs DEF Deletes
  <2>5. count' = Changed(count, Direction(Pending, 4))
    BY <1>1, <2>1, <2>3, TypeParts, UnchangedByNobody DEF Inv, CountsType
  <2>6. CASE lost BY <1>2, <2>6 DEF Recognition
  <2>7. CASE ~lost BY <1>4, <2>1, <2>2, <2>4, <2>5, <2>7
  <2> QED BY <2>6, <2>7
<1>6. CASE CountPassage
  <2>1. /\ GoingIn(buffer) \/ GoingOut(buffer)
        /\ fillSize >= PATTERN /\ queue' = queue
        /\ count' = Changed(count, IF GoingIn(buffer) THEN 1 ELSE -1)
        /\ buffer' = SubSeq(buffer, PATTERN + 1, Len(buffer))
    BY <1>6 DEF CountPassage, PassageWaits, Inv, Pace, fillSize
  <2>2. /\ Len(buffer') = Len(buffer) - 4
        /\ \A i \in 1..Len(buffer') : buffer'[i] = buffer[i + 4]
    <3>1. buffer \in Seq(Event) /\ Len(buffer) \in Nat /\ Len(buffer) >= 4
      BY <1>1, <2>1 DEF EventsType, fillSize, PATTERN
    <3>2. buffer' = SubSeq(buffer, 5, Len(buffer)) /\ Len(buffer') = Len(buffer) - 4
      BY <2>1, <3>1, RestOfRing DEF PATTERN
    <3>3. \A i \in 1..Len(buffer) - 4 : 5 + i - 1 = i + 4 OBVIOUS
    <3> QED BY <3>1, <3>2, <3>3, SubSeqProperties
  <2>3. Direction(Pending, 4) = IF GoingIn(buffer) THEN 1 ELSE -1
    BY <1>1, <2>1, PassageDirection
  <2>4. Deletes(Pending, 4) BY <1>1, <2>1, <2>3, FrontIs DEF Deletes
  <2>5. count' = Changed(count, Direction(Pending, 4)) BY <2>1, <2>3
  <2>6. CASE lost BY <1>2, <2>6 DEF Recognition
  <2>7. CASE ~lost
    <3>1. 4 \in 1..4 OBVIOUS
    <3> QED BY <1>4, <2>1, <2>2, <2>4, <2>5, <2>7, <3>1
  <2> QED BY <2>6, <2>7
<1> QED BY <1>3, <1>5, <1>6 DEF Analyzer

LEMMA DisplayRecognition ==
  ASSUME Recognition, Display \/ UNCHANGED vars
  PROVE  Recognition'
<1>1. UNCHANGED <<position, way, passages, lost, buffer, queue, count>>
  BY DEF Display, DisplayDraws, DisplayDrawn, vars, doorway, events, counts
<1>2. Pending' = Pending BY <1>1 DEF Pending
<1> QED BY <1>1, <1>2, RecognitionNext DEF Recognition

\* A passage that was found stays at the front of the ring.
LEMMA PassageWaitsNext ==
  ASSUME Inv, PassageWaits, [Next]_vars
  PROVE  PassageWaits'
<1>1. CASE Walking
  BY <1>1 DEF Walking, Walk, tasks, PassageWaits, GoingIn, GoingOut
<1>2. CASE PusherTake \/ PusherTimeout
  BY <1>2 DEF PusherTake, PusherTimeout, events, PassageWaits, GoingIn, GoingOut
<1>3. CASE PusherReceive
  BY <1>3 DEF PusherReceive, Inv, OneHolder, PassageWaits
<1>4. CASE TooFewEvents
  BY <1>4 DEF TooFewEvents, AnalyzerReady, PassageWaits
<1>5. CASE NoPassage
  BY <1>5 DEF NoPassage, AnalyzerReady, PassageWaits
<1>6. CASE FoundPassage
  BY <1>6 DEF FoundPassage, events, PassageWaits, GoingIn, GoingOut
<1>7. CASE CountPassage
  BY <1>7 DEF CountPassage, PassageWaits
<1>8. CASE Display \/ UNCHANGED vars
  BY <1>8 DEF Display, DisplayDraws, DisplayDrawn, vars, tasks, events, PassageWaits, GoingIn,
              GoingOut
<1> QED
  BY <1>1, <1>2, <1>3, <1>4, <1>5, <1>6, <1>7, <1>8 DEF Next, Pusher, Analyzer

LEMMA InitRecognition == Init => PassageWaits /\ Recognition
<1> SUFFICES ASSUME Init PROVE PassageWaits /\ Recognition
  OBVIOUS
<1>1. PassageWaits BY DEF Init, PassageWaits
<1>2. /\ buffer = <<>> /\ queue = <<>> /\ position = 0 /\ way = 0
      /\ count = 0 /\ passages = 0
  BY DEF Init
<1>3. Pending = <<>> BY <1>2 DEF Pending
<1>4. Tells(<<>>, 0, 0)
  <2>1. ~Begins(<<>>, 0, 1, 2) /\ ~Begins(<<>>, 4, 2, 1) BY DEF Begins
  <2>2. 4 - 0 = 4 OBVIOUS
  <2> QED BY <2>1, <2>2 DEF Tells
<1>5. Results(<<>>, 0, 0)
  <2> DEFINE c == [i \in 0..0 |-> 0]
  <2>1. 0 \in 0..COUNT_LIMIT + 1 BY PatternAssumption
  <2>2. c \in [0..0 -> 0..COUNT_LIMIT + 1] /\ c[0] = 0 BY <2>1
  <2> HIDE DEF c
  <2>3. \A i \in 1..0 : c[i] = Changed(c[i - 1], Direction(<<>>, i)) OBVIOUS
  <2>4. Len(<<>>) = 0 OBVIOUS
  <2> QED BY <2>2, <2>3, <2>4 DEF Results
<1>6. Recognition BY <1>2, <1>3, <1>4, <1>5 DEF Recognition
<1> QED BY <1>1, <1>6

\* The pending events and the count together always make up the passages.
THEOREM EventsTellPassages == Spec => []IInv
<1>1. Init => IInv BY InitInv, InitRecognition DEF IInv
<1>2. ASSUME IInv, [Next]_vars PROVE IInv'
  <2>1. Inv' BY <1>2, WalkingInv, PusherInv, AnalyzerInv, DisplayInv, StutterInv DEF IInv, Next
  <2>2. EventsType' BY <2>1 DEF Inv, TypeOK, EventsType
  <2>3. PassageWaits' BY <1>2, PassageWaitsNext DEF IInv
  <2>4. Recognition'
    BY <1>2, <2>2, WalkingRecognition, PusherRecognition, AnalyzerRecognition,
       DisplayRecognition DEF IInv, Next
  <2> QED BY <2>1, <2>3, <2>4 DEF IInv
<1>3. IInv /\ [Next]_vars => IInv' BY <1>2
<1> QED BY <1>1, <1>3, PTL DEF Spec

\* As long as no edge is lost, the count is that of the straight passages once
\* fewer events than a pattern has are left, however often people turned round
\* and wherever the other tasks were meanwhile.
THEOREM PassagesCounted == Spec => []CountsPassages
<1>1. IInv => CountsPassages
  <2> SUFFICES ASSUME IInv, ~lost, queue = <<>>, ~(fillSize >= PATTERN)
               PROVE  count = passages
    BY DEF CountsPassages
  <2>1. EventsType BY TypeParts DEF IInv, Inv
  <2>2. /\ Pending \in Seq(Event) /\ Len(Pending) = Len(buffer) + Len(queue)
        /\ Len(buffer) \in Nat
    BY <2>1, PendingIs
  <2>3. Len(Pending) < 4 BY <2>2 DEF fillSize, PATTERN
  <2>4. Results(Pending, count, passages) BY DEF IInv, Recognition
  <2> QED BY <2>2, <2>3, <2>4, NothingLeft
<1> QED BY <1>1, EventsTellPassages, PTL

=============================================================================
