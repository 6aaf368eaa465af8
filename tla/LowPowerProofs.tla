----------------------------- MODULE LowPowerProofs -----------------------------
(***************************************************************************)
(* Proofs about LowPower, for every size of ring and queue, every width of *)
(* the integers, every layout of the RTC memory and every build: the types *)
(* and bounds of the ring, and that sleeping, waking up and the races for  *)
(* the ring lose no more than they are said to lose.                       *)
(***************************************************************************)
EXTENDS LowPower, TLAPS

(* The parts of TypeOK *)

ClockType == rtc \in 0..MaxTime /\ timeOffset \in Nat /\ alarm \in Nat
Stamped(ids) == [id : ids, late : Int]
RingType ==
  /\ buffer \in [Slots -> Stamped(Barriers \cup {"none"})]
  /\ head \in 0..UINT8 - 1 /\ slot \in Slots
QueueType == queue \in Seq(Stamped(Barriers)) /\ Len(queue) <= SIZE_QUEUE
FlagsType ==
  /\ synced \in BOOLEAN /\ woken \in BOOLEAN
  /\ online \in BOOLEAN /\ xInternetActive \in BOOLEAN
ControlType ==
  /\ main \in {"setup", "asleep", "test", "testFill", "restore", "analyse", "report"}
  /\ net \in {"off", "wifi", "sntp", "mqtt"}
  /\ pusher \in {"off", "poll", "receive", "received", "stop"}
PeopleType ==
  state_counter \in -3..3 /\ count \in 0..UINT8 - 1 /\ backup \in 0..UINT8 - 1

\* The tasks exist only while the device is awake, and the test data come in
\* fours.
Boots ==
  /\ main \in {"asleep", "setup"} => pusher = "off" /\ net = "off"
  /\ written \in Nat /\ \E n \in 0..TEST_CALLS : written = 4 * n

\* A barrier that is not stored wakes the device.
Wakes == missed \in 0..1 /\ (main = "asleep" => missed = 0)

\* xInternetActive is there from the restored count on, or pushInBuffer is about
\* to give it back and end.
Signals ==
  /\ main \in {"test", "testFill"} => xInternetActive \/ net # "off" \/ pusher = "stop"
  /\ main \in {"analyse", "report"} => xInternetActive \/ pusher = "stop"

\* Only the stub's write behind the buffer takes the ring out of its bounds.
\* pushInBuffer found a free slot before it waits for an event; the analyzer
\* leaves an empty ring, to which at most that event is added.
Fills ==
  /\ fillSize \in 0..UINT8 - 1 /\ overrun \in {0, 1}
  /\ overrun = 0 => head \in Slots /\ fillSize <= SIZE_BUFFER
  /\ pusher \in {"receive", "received"} => fillSize < SIZE_BUFFER
  /\ main = "report" =>
       fillSize <= 1 /\ (pusher \in {"receive", "received"} => fillSize = 0)

Types == ClockType /\ RingType /\ QueueType /\ FlagsType /\ ControlType /\ PeopleType

IInv == Types /\ Boots /\ Wakes /\ Signals /\ Fills

-----------------------------------------------------------------------------
(* Events and slots *)

LEMMA SlotsExist ==
  /\ SIZE_BUFFER \in Nat \ {0} /\ UINT8 \in Nat /\ SIZE_BUFFER + 1 < UINT8
  /\ 0 \in Slots /\ \A i \in Slots : i \in 0..UINT8 - 1
BY LowPowerAssumption DEF Slots

\* An index taken modulo the size of the ring is a slot.
LEMMA SlotModulo == ASSUME NEW n \in Nat PROVE n % SIZE_BUFFER \in Slots
BY SlotsExist DEF Slots

\* An event is stamped with a distance, whatever the clock shows.
LEMMA EventType ==
  ASSUME ClockType, NEW ids, NEW b \in ids, NEW t \in Nat
  PROVE  Event(b, t) \in Stamped(ids)
<1>1. t - (EPOCH + rtc) \in Int /\ UNSET \in Int
  BY LowPowerAssumption DEF ClockType, UNSET
<1> QED
  BY <1>1 DEF Event, Stamped

LEMMA TimestampType == ClockType => get_timestamp \in Nat
BY LowPowerAssumption DEF ClockType, get_timestamp

\* The alarm is a time, although its distance from now is one of 32 bits.
LEMMA AlarmType ==
  ASSUME ClockType, NEW seconds \in Nat
  PROVE  MICROS * rtc + Microseconds(seconds) \in Nat
<1>1. \A a, b \in Nat : a * b \in Nat
  OBVIOUS
<1>2. MICROS \in Nat /\ rtc \in Nat /\ UINT32 \in Nat \ {0}
  BY LowPowerAssumption DEF ClockType
<1>3. MICROS * rtc \in Nat /\ MICROS * seconds \in Nat
  BY <1>1, <1>2
<1>4. \A a \in Nat : a % UINT32 \in Nat
  BY <1>2
<1>5. Microseconds(seconds) \in Nat
  BY <1>3, <1>4 DEF Microseconds
<1> QED
  BY <1>3, <1>5

LEMMA NoEventType == NoEvent \in Stamped(Barriers \cup {"none"})
BY DEF NoEvent, Stamped

\* A wake stores two events at most, each of a barrier.
LEMMA StubType ==
  ASSUME NEW pins
  PROVE  /\ Len(StubRecords(pins)) \in 0..2
         /\ \A k \in 1..Len(StubRecords(pins)) : StubRecords(pins)[k] \in Barriers
<1>1. CASE fillSize >= SIZE_BUFFER
  BY <1>1 DEF StubRecords
<1>2. CASE ~(fillSize >= SIZE_BUFFER)
  <2> DEFINE r == One(INDOOR, pins)  s == One(OUTDOOR, pins)
  <2>1. ASSUME NEW b \in Barriers
        PROVE  One(b, pins) \in Seq(Barriers) /\ Len(One(b, pins)) \in 0..1
    BY DEF One
  <2>2. /\ r \in Seq(Barriers) /\ Len(r) \in 0..1
        /\ s \in Seq(Barriers) /\ Len(s) \in 0..1
    BY <2>1 DEF Barriers
  <2>3. StubRecords(pins) = r \o s
    BY <1>2 DEF StubRecords
  <2> HIDE DEF r, s
  <2>4. r \o s \in Seq(Barriers) /\ Len(r \o s) = Len(r) + Len(s)
    BY <2>2
  <2> QED
    BY <2>2, <2>3, <2>4
<1> QED
  BY <1>1, <1>2

-----------------------------------------------------------------------------

LEMMA InitInv == Init => IInv
<1> SUFFICES ASSUME Init PROVE IInv
  OBVIOUS
<1>1. ClockType /\ QueueType /\ ControlType
  BY LowPowerAssumption DEF Init, ClockType, QueueType, ControlType
<1>2. RingType
  BY NoEventType, SlotsExist DEF Init, RingType
<1>3. FlagsType
  BY Zenon DEF Init, FlagsType
<1>4. PeopleType
  BY LowPowerAssumption DEF Init, PeopleType
<1>5. Boots
  <2>1. written = 4 * 0 /\ 0 \in 0..TEST_CALLS
    BY LowPowerAssumption DEF Init
  <2> QED
    BY <2>1 DEF Init, Boots
<1>6. Wakes /\ Signals
  BY DEF Init, Wakes, Signals
<1>7. Fills
  BY SlotsExist DEF Init, Fills
<1> QED
  BY <1>1, <1>2, <1>3, <1>4, <1>5, <1>6, <1>7 DEF IInv, Types

\* Going to sleep: the ring is empty and the tasks are gone.
LEMMA SleepInv ==
  ASSUME IInv, NEW seconds \in Nat, deep_sleep_routine(seconds), backup' \in 0..UINT8 - 1
  PROVE  IInv'
<1> USE DEF deep_sleep_routine, MemoryLost
<1>1. ClockType' /\ QueueType' /\ ControlType'
  <2>1. alarm' \in Nat
    BY AlarmType DEF IInv, Types
  <2> QED
    BY <2>1, LowPowerAssumption, TimestampType
    DEF IInv, Types, ClockType, QueueType, ControlType
<1>2. RingType'
  BY NoEventType, SlotsExist DEF RingType
<1>3. FlagsType'
  BY Zenon DEF IInv, Types, FlagsType
<1>4. PeopleType'
  BY SlotsExist DEF PeopleType
<1>5. Boots'
  <2>1. written' = 4 * 0 /\ 0 \in 0..TEST_CALLS
    BY LowPowerAssumption
  <2> QED
    BY <2>1 DEF Boots
<1>6. Wakes' /\ Signals'
  BY DEF Wakes, Signals
<1>7. Fills'
  BY SlotsExist DEF Fills
<1> QED
  BY <1>1, <1>2, <1>3, <1>4, <1>5, <1>6, <1>7 DEF IInv, Types

\* The stub: the second of two events may be one too many, and a barrier that
\* found no room boots the device.
LEMMA WakeInv == ASSUME IInv, NEW pins, wakeup_routine(pins) PROVE IInv'
<1> DEFINE recorded == StubRecords(pins)
<1>u. UNCHANGED <<rtc, synced, alarm, written, net, online, pusher, slot,
                  queue, xInternetActive, state_counter, count, backup>>
  BY DEF wakeup_routine, nTask, puTask, people
<1>m. /\ main = "asleep" /\ main' \in {"asleep", "setup"}
      /\ woken' = woken \/ woken' = TRUE
      /\ IF recorded # <<>> /\ fillSize + Len(recorded) > SIZE_BUFFER
         THEN WritesBehind(recorded) ELSE WritesInside(recorded)
  BY DEF wakeup_routine
<1>n. /\ fillSize \in 0..UINT8 - 1 /\ overrun \in {0, 1} /\ Len(recorded) \in 0..2
      /\ Overwritten \subseteq Nat /\ head \in 0..UINT8 - 1 /\ timeOffset \in Nat
  BY StubType, LowPowerAssumption DEF IInv, Types, RingType, ClockType, Fills
<1>b. /\ timeOffset' \in Nat /\ head' \in 0..UINT8 - 1 /\ fillSize' \in 0..UINT8 - 1
      /\ overrun' \in {0, 1}
      /\ overrun' = 0 => head' \in Slots /\ fillSize' <= SIZE_BUFFER
  <2>1. CASE recorded # <<>> /\ fillSize + Len(recorded) > SIZE_BUFFER
    <3>0. WritesBehind(recorded) BY <1>m, <2>1
    <3>1. fillSize < SIZE_BUFFER BY <2>1, <1>n, SlotsExist DEF StubRecords
    <3>2. overrun' = 1
      <4> HIDE DEF recorded
      <4>1. \A f, z \in Nat, l \in 0..2 : f < z /\ f + l > z => f + l = z + 1
        OBVIOUS
      <4>2. fillSize \in Nat /\ Len(recorded) \in 0..2 /\ SIZE_BUFFER \in Nat
        BY <1>n, SlotsExist
      <4>3. fillSize + Len(recorded) = SIZE_BUFFER + 1
        BY <2>1, <3>1, <4>1, <4>2
      <4>4. overrun' = fillSize + Len(recorded) - SIZE_BUFFER
        BY <3>0 DEF WritesBehind
      <4> QED
        BY <4>2, <4>3, <4>4
    <3>3. \A x \in Nat : x % UINT8 \in 0..UINT8 - 1 BY LowPowerAssumption
    <3>4. \A variable : Damage(variable) \subseteq Nat BY <1>n DEF Damage
    <3>5. head' \in 0..UINT8 - 1 BY <1>n, <3>0, <3>3, <3>4 DEF WritesBehind
    <3>6. fillSize' \in 0..UINT8 - 1
      <4>1. PICK v \in {SIZE_BUFFER} \cup Damage("fillSize") : fillSize' = (v + 1) % UINT8
        BY <3>0 DEF WritesBehind
      <4>2. v + 1 \in Nat BY <3>4, SlotsExist
      <4> QED BY <3>3, <4>1, <4>2
    <3>7. timeOffset' \in Nat BY <1>n, <3>0, <3>4 DEF WritesBehind
    <3> QED BY <3>2, <3>5, <3>6, <3>7
  <2>2. CASE ~(recorded # <<>> /\ fillSize + Len(recorded) > SIZE_BUFFER)
    <3>1. /\ fillSize' = fillSize + Len(recorded)
          /\ UNCHANGED <<head, timeOffset, overrun>>
      BY <1>m, <2>2 DEF WritesInside
    <3>2. fillSize' \in 0..UINT8 - 1 /\ (fillSize <= SIZE_BUFFER => fillSize' <= SIZE_BUFFER)
      <4>1. CASE recorded = <<>>
        <5>1. Len(recorded) = 0 BY <4>1
        <5> QED BY <1>n, <3>1, <5>1, SlotsExist
      <4>2. CASE recorded # <<>>
        <5>1. fillSize + Len(recorded) <= SIZE_BUFFER BY <1>n, <2>2, <4>2, SlotsExist
        <5> QED BY <1>n, <3>1, <5>1, SlotsExist
      <4> QED BY <4>1, <4>2
    <3> QED BY <1>n, <3>1, <3>2 DEF IInv, Fills
  <2> QED BY <2>1, <2>2
<1>1. ClockType' /\ QueueType' /\ ControlType' /\ PeopleType'
  BY <1>u, <1>m, <1>b DEF IInv, Types, ClockType, QueueType, ControlType, PeopleType
<1>2. RingType'
  <2> DEFINE Stored(k) == k - fillSize \in 0..Len(recorded) - 1
             New(k) == IF Stored(k) THEN Event(recorded[k - fillSize + 1], rtc + timeOffset)
                                    ELSE buffer[k]
  <2>1. buffer' = [k \in Slots |-> New(k)]
    BY DEF wakeup_routine
  <2>2. ASSUME NEW k \in Slots PROVE New(k) \in Stamped(Barriers \cup {"none"})
    <3>1. CASE Stored(k)
      <4>1. k \in Int /\ fillSize \in Int
        BY SlotsExist DEF Slots, IInv, Fills
      <4>2. k - fillSize + 1 \in 1..Len(recorded)
        BY <3>1, <4>1, StubType
      <4>3. recorded[k - fillSize + 1] \in Barriers \cup {"none"}
        BY <4>2, StubType
      <4>4. rtc + timeOffset \in Nat
        BY LowPowerAssumption DEF IInv, Types, ClockType
      <4> HIDE DEF recorded
      <4> QED
        BY <3>1, <4>3, <4>4, EventType DEF IInv, Types
    <3>2. CASE ~Stored(k)
      BY <3>2 DEF IInv, Types, RingType
    <3> QED
      BY <3>1, <3>2
  <2> HIDE DEF New
  <2> QED
    BY <2>1, <2>2, <1>u, <1>b DEF IInv, Types, RingType
<1>3. FlagsType'
  BY <1>u, <1>m, Zenon DEF IInv, Types, FlagsType
<1>4. Boots' /\ Signals'
  BY <1>u, <1>m DEF IInv, Boots, Signals
<1>5. Wakes'
  <2>1. missed = 0 /\ missed' \in {0, 1}
    BY <1>m DEF wakeup_routine, IInv, Wakes
  <2>2. ASSUME missed' = 1 PROVE main' = "setup"
    <3>1. pins \cap Barriers # {} /\ recorded = <<>>
      BY <2>1, <2>2 DEF wakeup_routine
    <3>2. fillSize >= SIZE_BUFFER
      BY <3>1 DEF StubRecords, One, Barriers
    <3>3. ~StubSleeps(pins)
      BY <3>1, <3>2, SlotsExist DEF StubSleeps, IInv, Fills
    <3> QED
      BY <3>3 DEF wakeup_routine
  <2> QED
    BY <2>1, <2>2 DEF Wakes
<1>6. Fills'
  <2>2. pusher' = "off"
    BY <1>u, <1>m DEF IInv, Boots
  <2> QED
    BY <2>2, <1>b, <1>m DEF Fills
<1> QED
  BY <1>1, <1>2, <1>3, <1>4, <1>5, <1>6 DEF IInv, Types


\* Until it sleeps or the interrupt comes, app_main sets up.
LEMMA SetupInv == ASSUME IInv, SetupTasks PROVE IInv'
<1> USE DEF SetupTasks, clocks, ring, wakes, people
<1>1. ClockType' /\ QueueType' /\ ControlType' /\ PeopleType' /\ RingType'
  BY DEF IInv, Types, ClockType, QueueType, ControlType, PeopleType, RingType
<1>2. FlagsType'
  <2>1. xInternetActive' \in BOOLEAN
    BY Zenon
  <2> QED
    BY <2>1, Zenon DEF IInv, Types, FlagsType
<1>3. Boots' /\ Wakes' /\ Fills'
  BY DEF IInv, Boots, Wakes, Fills
<1>4. Signals'
  BY LowPowerAssumption DEF Signals
<1> QED
  BY <1>1, <1>2, <1>3, <1>4 DEF IInv, Types

\* Steps that leave the ring, the tasks and the semaphore alone: the clock, a
\* lost connection, a panic in the setup, an interrupt.
LEMMA OutsideInv ==
  ASSUME IInv,
         \/ Tick \/ EdgeBeforeQueue \/ ConnectionLost
         \/ \E b \in Barriers : BarrierEdge(b)
  PROVE  IInv'
<1>1. ClockType' /\ RingType' /\ ControlType' /\ PeopleType'
  <2>1. UNCHANGED <<timeOffset, alarm, buffer, head, slot, main, net, pusher, people>>
    BY DEF Tick, EdgeBeforeQueue, ConnectionLost, BarrierEdge, clocks, ring, wakes, control, nTask,
           puTask, people
  <2>2. rtc' = rtc \/ (rtc < MaxTime /\ rtc' = rtc + 1)
    BY DEF Tick, EdgeBeforeQueue, ConnectionLost, BarrierEdge, clocks
  <2>3. rtc' \in 0..MaxTime
    BY <2>2, LowPowerAssumption DEF IInv, Types, ClockType
  <2> QED
    BY <2>1, <2>3 DEF people, IInv, Types, ClockType, RingType, ControlType, PeopleType
<1>2. FlagsType'
  BY Zenon DEF Tick, EdgeBeforeQueue, ConnectionLost, BarrierEdge, clocks, ring, control,
               nTask, puTask, people, IInv, Types, FlagsType
<1>3. Boots' /\ Wakes' /\ Signals' /\ Fills'
  <2>1. UNCHANGED <<fillSize, main, written, net, pusher, missed, overrun, head, xInternetActive>>
    BY DEF Tick, EdgeBeforeQueue, ConnectionLost, BarrierEdge, ring, wakes, control, nTask, puTask
  <2> QED
    BY <2>1 DEF IInv, Boots, Wakes, Signals, Fills
<1>4. QueueType'
  <2>1. CASE queue' = queue
    BY <2>1 DEF IInv, Types, QueueType
  <2>2. ASSUME NEW b \in Barriers, BarrierEdge(b) PROVE QueueType'
    <3>1. Event(b, get_timestamp) \in Stamped(Barriers)
      BY EventType, TimestampType DEF IInv, Types
    <3>2. queue' = Append(queue, Event(b, get_timestamp)) /\ Len(queue) < SIZE_QUEUE
      BY <2>2 DEF BarrierEdge
    <3> HIDE DEF Stamped
    <3> QED
      BY <3>1, <3>2, LowPowerAssumption DEF IInv, Types, QueueType
  <2> QED
    BY <2>1, <2>2 DEF Tick, EdgeBeforeQueue, ConnectionLost
<1> QED
  BY <1>1, <1>2, <1>3, <1>4 DEF IInv, Types

\* initInternet gives the semaphore as its last step.
LEMMA InternetInv == ASSUME IInv, Internet PROVE IInv'
<1> USE DEF Internet, GotIP, ClockSet, BrokerConnected
<1>1. ClockType' /\ RingType' /\ QueueType' /\ ControlType' /\ PeopleType'
  <2>1. UNCHANGED <<rtc, timeOffset, alarm, buffer, head, slot, queue, main, pusher, people>>
    BY DEF clocks, ring, wakes, control, puTask, people
  <2>2. net' \in {"off", "wifi", "sntp", "mqtt"}
    OBVIOUS
  <2> QED
    BY <2>1, <2>2 DEF people, IInv, Types, ClockType, RingType, QueueType, ControlType,
                      PeopleType
<1>2. FlagsType'
  <2>1. synced' = synced \/ synced' = TRUE
    BY DEF clocks
  <2> QED
    BY <2>1, Zenon DEF control, IInv, Types, FlagsType
<1>3. Boots' /\ Wakes' /\ Fills'
  <2>1. UNCHANGED <<fillSize, head, main, written, pusher, missed, overrun>> /\ net # "off"
    BY DEF ring, wakes, control, puTask
  <2> QED
    BY <2>1 DEF IInv, Boots, Wakes, Fills
<1>4. Signals'
  <2>1. UNCHANGED <<main, pusher>>
    BY DEF control, puTask
  <2>2. xInternetActive' = TRUE \/ (xInternetActive' = xInternetActive /\ net' # "off")
    OBVIOUS
  <2> QED
    BY <2>1, <2>2 DEF IInv, Signals
<1> QED
  BY <1>1, <1>2, <1>3, <1>4 DEF IInv, Types

\* pushInBuffer: the analyzer runs only once the internet is active, and then
\* pushInBuffer does not look for a free slot again.
LEMMA PusherInv == ASSUME IInv, Pusher PROVE IInv'
<1> USE DEF Pusher, PusherTake, PusherStop, PusherAims, PusherReceive, PusherTimeout,
            PusherIncrement
<1>n. fillSize \in 0..UINT8 - 1 /\ SIZE_BUFFER \in Nat \ {0} /\ SIZE_BUFFER + 1 < UINT8
  BY SlotsExist DEF IInv, Fills
<1>1. ClockType' /\ ControlType' /\ PeopleType'
  <2>1. UNCHANGED <<rtc, timeOffset, alarm, main, net, people>>
    BY DEF clocks, control, nTask, people
  <2>2. pusher' \in {"off", "poll", "receive", "received", "stop"}
    OBVIOUS
  <2> QED
    BY <2>1, <2>2 DEF people, IInv, Types, ClockType, ControlType, PeopleType
<1>2. FlagsType'
  BY Zenon DEF clocks, control, nTask, IInv, Types, FlagsType
<1>3. Boots' /\ Wakes' /\ Signals'
  <2>1. UNCHANGED <<main, written, net, missed>> /\ pusher # "off"
    BY DEF control, nTask, wakes
  <2>2. \/ xInternetActive' = xInternetActive /\ pusher # "stop"
        \/ xInternetActive' = TRUE
        \/ pusher' = "stop"
    OBVIOUS
  <2> QED
    BY <2>1, <2>2 DEF IInv, Boots, Wakes, Signals
<1>4. RingType'
  <2>1. slot' \in Slots
    <3>1. CASE PusherAims
      <4>1. head + fillSize \in Nat
        BY <1>n DEF IInv, Types, RingType
      <4> QED
        BY <3>1, <4>1, SlotModulo
    <3>2. CASE slot' = slot \/ slot' = 0
      BY <3>2, SlotsExist DEF IInv, Types, RingType
    <3> QED
      BY <3>1, <3>2 DEF puTask
  <2>2. buffer' \in [Slots -> Stamped(Barriers \cup {"none"})]
    <3>1. CASE PusherReceive
      <4>1. Head(queue) \in Stamped(Barriers)
        BY <3>1 DEF IInv, Types, QueueType
      <4>2. Head(queue) \in Stamped(Barriers \cup {"none"})
        BY <4>1 DEF Stamped
      <4> QED
        BY <3>1, <4>2 DEF IInv, Types, RingType
    <3>2. CASE buffer' = buffer
      BY <3>2 DEF IInv, Types, RingType
    <3> QED
      BY <3>1, <3>2 DEF ring
  <2>3. head' = head
    BY DEF ring
  <2> QED
    BY <2>1, <2>2, <2>3 DEF IInv, Types, RingType
<1>5. QueueType'
  <2>1. queue' = queue \/ (queue # <<>> /\ queue' = Tail(queue))
    OBVIOUS
  <2> HIDE DEF Stamped
  <2> QED
    BY <2>1, LowPowerAssumption DEF IInv, Types, QueueType
<1>6. Fills'
  <2>1. CASE PusherIncrement
    <3>1. /\ fillSize < SIZE_BUFFER /\ fillSize' = fillSize + 1 /\ pusher' = "poll"
          /\ UNCHANGED <<head, overrun>>
      BY <2>1, <1>n DEF IInv, Fills, wakes
    <3>2. main = "report" => fillSize' = 1
      BY <2>1 DEF IInv, Fills
    <3>3. fillSize' \in 0..UINT8 - 1 /\ fillSize' <= SIZE_BUFFER
      BY <3>1, <1>n, SlotsExist
    <3>4. main' = main
      BY <2>1 DEF control
    <3> QED
      BY <3>1, <3>2, <3>3, <3>4 DEF IInv, Fills
  <2>2. CASE PusherAims
    <3>1. main # "report"
      BY <2>2 DEF IInv, Signals
    <3> QED
      BY <2>2, <3>1 DEF ring, wakes, control, IInv, Fills
  <2>3. CASE PusherTake \/ PusherStop \/ PusherReceive \/ PusherTimeout
    BY <2>3 DEF ring, wakes, control, IInv, Fills
  <2> QED
    BY <2>1, <2>2, <2>3
<1> QED
  BY <1>1, <1>2, <1>3, <1>4, <1>5, <1>6 DEF IInv, Types


\* app_main sets the fill level, alone or racing with pushInBuffer.
LEMMA SetsFillSizeOutcome ==
  ASSUME IInv, NEW n, SetsFillSize(n)
  PROVE  /\ fillSize' = n \/ (fillSize' = fillSize + 1 /\ fillSize < SIZE_BUFFER)
         /\ UNCHANGED puTask \/ (pusher = "received" /\ pusher' = "poll" /\ slot' = 0)
         /\ pusher' \in {"receive", "received"} => fillSize' = n /\ pusher' = pusher
BY DEF SetsFillSize, puTask, IInv, Fills

\* The test data fit into the ring.
LEMMA TestInv == ASSUME IInv, TestWrite \/ TestFill PROVE IInv'
<1>p. UNCHANGED puTask \/ (pusher = "received" /\ pusher' = "poll" /\ slot' = 0)
  BY SetsFillSizeOutcome DEF TestWrite, TestFill
<1>1. ClockType' /\ QueueType' /\ ControlType' /\ PeopleType'
  <2>1. UNCHANGED <<rtc, timeOffset, alarm, queue, net, people>>
    BY DEF TestWrite, TestFill, clocks, nTask, people
  <2>3. pusher' \in {"off", "poll", "receive", "received", "stop"}
    BY <1>p DEF puTask, IInv, Types, ControlType
  <2>2. main' \in {"test", "testFill"}
    BY DEF TestWrite, TestFill
  <2> QED
    BY <2>1, <2>2, <2>3 DEF people, IInv, Types, ClockType, QueueType, ControlType, PeopleType
<1>2. FlagsType'
  BY Zenon DEF TestWrite, TestFill, clocks, nTask, IInv, Types, FlagsType
<1>3. RingType'
  <2>1. CASE TestWrite
    <3> DEFINE New(k) == IF k \in written..written + 3
                         THEN Event(TestBarrier(k), get_timestamp) ELSE buffer[k]
    <3>1. buffer' = [k \in Slots |-> New(k)]
      BY <2>1 DEF TestWrite
    <3>2. ASSUME NEW k \in Slots PROVE New(k) \in Stamped(Barriers \cup {"none"})
      <4>1. TestBarrier(k) \in Barriers \cup {"none"}
        BY DEF TestBarrier, Barriers
      <4>2. Event(TestBarrier(k), get_timestamp) \in Stamped(Barriers \cup {"none"})
        BY <4>1, EventType, TimestampType DEF IInv, Types
      <4> QED
        BY <4>2 DEF IInv, Types, RingType
    <3> HIDE DEF New
    <3> QED
      <4>1. buffer' \in [Slots -> Stamped(Barriers \cup {"none"})]
        BY <3>1, <3>2
      <4>2. UNCHANGED <<head, slot>>
        BY <2>1 DEF TestWrite, puTask
      <4> QED
        BY <4>1, <4>2 DEF IInv, Types, RingType
  <2>2. CASE TestFill
    <3>1. slot' \in Slots
      BY <1>p, SlotsExist DEF puTask, IInv, Types, RingType
    <3> QED
      BY <2>2, <3>1 DEF TestFill, IInv, Types, RingType
  <2> QED
    BY <2>1, <2>2
<1>4. Boots'
  <2> PICK n \in 0..TEST_CALLS : written = 4 * n
    BY DEF IInv, Boots
  <2>1. CASE TestWrite
    <3>1. n + 1 \in 0..TEST_CALLS /\ written' = 4 * (n + 1)
      BY <2>1, LowPowerAssumption DEF TestWrite
    <3> QED
      BY <2>1, <3>1 DEF TestWrite, Boots
  <2>2. CASE TestFill
    BY <2>2 DEF TestFill, IInv, Boots
  <2> QED
    BY <2>1, <2>2
<1>5. Wakes' /\ Signals'
  BY <1>p DEF TestWrite, TestFill, nTask, puTask, wakes, IInv, Wakes, Signals
<1>6. Fills'
  <2>1. written < SIZE_BUFFER /\ written \in Nat
    BY LowPowerAssumption DEF IInv, Boots
  <2>2. CASE TestWrite
    BY <2>2 DEF TestWrite, puTask, wakes, IInv, Fills
  <2>3. CASE TestFill
    <3>1. UNCHANGED <<head, overrun>> /\ main' = "test" BY <2>3 DEF TestFill, wakes
    <3>2. /\ fillSize' = written \/ (fillSize' = fillSize + 1 /\ fillSize < SIZE_BUFFER)
          /\ pusher' \in {"receive", "received"} => fillSize' = written
      BY <2>3, SetsFillSizeOutcome DEF TestFill
    <3>3. fillSize' \in 0..UINT8 - 1 /\ fillSize' <= SIZE_BUFFER
      BY <2>1, <3>2, SlotsExist DEF IInv, Fills
    <3> QED
      BY <2>1, <3>1, <3>2, <3>3 DEF IInv, Fills
  <2> QED
    BY <2>2, <2>3
<1> QED
  BY <1>1, <1>2, <1>3, <1>4, <1>5, <1>6 DEF IInv, Types

\* The semaphore is taken for the restored count and given back.
LEMMA RestoreInv == ASSUME IInv, AwaitInternet \/ RestoreCount PROVE IInv'
<1> USE DEF AwaitInternet, RestoreCount
<1>1. ClockType' /\ RingType' /\ QueueType' /\ ControlType'
  BY DEF clocks, ring, wakes, nTask, puTask, people, IInv, Types, ClockType, RingType, QueueType,
         ControlType
<1>2. FlagsType'
  BY Zenon DEF clocks, nTask, IInv, Types, FlagsType
<1>3. Boots' /\ Wakes' /\ Signals' /\ Fills'
  BY DEF clocks, ring, wakes, nTask, puTask, IInv, Boots, Wakes, Signals, Fills
<1>4. PeopleType'
  <2>1. state_counter' = state_counter /\ backup' = backup
    BY DEF people
  <2>2. Fetched \subseteq 0..UINT8 - 1
    BY LowPowerAssumption DEF Fetched, IInv, Types, PeopleType
  <2>3. count' = count \/ count' \in Fetched
    BY DEF people
  <2> QED
    BY <2>1, <2>2, <2>3 DEF IInv, Types, PeopleType
<1> QED
  BY <1>1, <1>2, <1>3, <1>4 DEF IInv, Types

\* The machine is back at 0 after 4 or -4 and the count stays a byte.
LEMMA PassedInRange ==
  ASSUME PeopleType, NEW b, Passed(Turn(state_counter, b))
  PROVE  state_counter' \in -3..3 /\ count' \in 0..UINT8 - 1
<1>1. Turn(state_counter, b) \in -4..4
  BY DEF PeopleType, Turn
<1> QED
  BY <1>1, LowPowerAssumption DEF Passed, PeopleType

LEMMA AnalyseInv == ASSUME IInv, Analyse PROVE IInv'
<1> USE DEF Analyse
<1>n. fillSize \in 1..UINT8 - 1 /\ SIZE_BUFFER \in Nat \ {0} /\ SIZE_BUFFER + 1 < UINT8
  BY SlotsExist DEF IInv, Fills
<1>p. /\ fillSize' = fillSize - 1 \/ (fillSize' = fillSize + 1 /\ fillSize < SIZE_BUFFER)
      /\ UNCHANGED puTask \/ (pusher = "received" /\ pusher' = "poll" /\ slot' = 0)
      /\ pusher' \in {"receive", "received"} => fillSize' = fillSize - 1 /\ pusher' = pusher
  BY SetsFillSizeOutcome
<1>1. ClockType' /\ QueueType' /\ ControlType'
  <2>1. pusher' \in {"off", "poll", "receive", "received", "stop"}
    BY <1>p DEF puTask, IInv, Types, ControlType
  <2> QED
    BY <2>1 DEF clocks, control, nTask, IInv, Types, ClockType, QueueType, ControlType
<1>2. FlagsType'
  BY Zenon DEF clocks, control, nTask, IInv, Types, FlagsType
<1>3. PeopleType'
  <2>1. PICK b : Passed(Turn(state_counter, b))
    OBVIOUS
  <2> QED
    BY <2>1, PassedInRange DEF IInv, Types, PeopleType
<1>h. head' \in Slots
  <2>1. head + 1 \in Nat
    BY DEF IInv, Types, RingType
  <2> QED
    BY <2>1, SlotModulo
<1>4. RingType'
  <2>1. buffer' \in [Slots -> Stamped(Barriers \cup {"none"})]
    BY NoEventType DEF IInv, Types, RingType
  <2>2. slot' \in Slots
    BY <1>p, SlotsExist DEF puTask, IInv, Types, RingType
  <2> QED
    BY <1>h, <2>1, <2>2, SlotsExist DEF RingType
<1>5. Boots' /\ Wakes' /\ Signals'
  BY <1>p DEF control, nTask, puTask, wakes, IInv, Boots, Wakes, Signals
<1>6. Fills'
  <2>1. UNCHANGED overrun /\ main' = "analyse" BY DEF wakes, control
  <2>2. fillSize' \in 0..UINT8 - 1 /\ (fillSize <= SIZE_BUFFER => fillSize' <= SIZE_BUFFER)
    <3>1. CASE fillSize' = fillSize - 1
      BY <1>n, <3>1, SlotsExist
    <3>2. CASE fillSize' = fillSize + 1 /\ fillSize < SIZE_BUFFER
      BY <1>n, <3>2, SlotsExist
    <3> QED
      BY <1>p, <3>1, <3>2
  <2>3. pusher' \in {"receive", "received"} => fillSize' < SIZE_BUFFER
    BY <1>n, <1>p DEF IInv, Fills
  <2> QED
    BY <1>h, <2>1, <2>2, <2>3 DEF IInv, Fills
<1> QED
  BY <1>1, <1>2, <1>3, <1>4, <1>5, <1>6 DEF IInv, Types

\* A restart in the middle of a fetch leaves the RTC memory as it is.
LEMMA PanicInv == ASSUME IInv, FetchPanics PROVE IInv'
<1> USE DEF FetchPanics, MemoryLost
<1>1. ClockType' /\ QueueType' /\ ControlType'
  BY LowPowerAssumption DEF clocks, IInv, Types, ClockType, QueueType, ControlType
<1>2. RingType' BY SlotsExist DEF ring, IInv, Types, RingType
<1>3. FlagsType' BY Zenon DEF clocks, IInv, Types, FlagsType
<1>4. PeopleType' BY LowPowerAssumption DEF IInv, Types, PeopleType
<1>5. Boots'
  <2>1. written' = 4 * 0 /\ 0 \in 0..TEST_CALLS
    BY LowPowerAssumption
  <2> QED
    BY <2>1 DEF Boots
<1>6. Wakes' /\ Signals' BY DEF wakes, IInv, Wakes, Signals
<1>7. Fills' BY DEF ring, wakes, IInv, Fills
<1> QED
  BY <1>1, <1>2, <1>3, <1>4, <1>5, <1>6, <1>7 DEF IInv, Types

LEMMA ReportInv == ASSUME IInv, Report PROVE IInv'
<1> USE DEF Report
<1>1. ClockType' /\ RingType' /\ QueueType' /\ ControlType'
  BY DEF clocks, ring, wakes, nTask, puTask, IInv, Types, ClockType, RingType, QueueType, ControlType
<1>2. FlagsType'
  BY Zenon DEF clocks, nTask, IInv, Types, FlagsType
<1>3. PeopleType'
  BY DEF Saved, IInv, Types, PeopleType
<1>4. Boots' /\ Wakes' /\ Signals' /\ Fills'
  BY SlotsExist DEF ring, wakes, nTask, puTask, IInv, Boots, Wakes, Signals, Fills
<1> QED
  BY <1>1, <1>2, <1>3, <1>4 DEF IInv, Types

LEMMA ToSleepInv ==
  ASSUME IInv, SetupToSleep \/ SleepAgain \/ NightReset
  PROVE  IInv'
<1>1. backup' \in 0..UINT8 - 1
  BY SlotsExist DEF SetupToSleep, SleepAgain, NightReset, Saved, IInv, Types, PeopleType
<1>2. PICK seconds \in Nat : deep_sleep_routine(seconds)
  BY LowPowerAssumption DEF SetupToSleep, SleepAgain, NightReset
<1> QED
  BY <1>1, <1>2, SleepInv

LEMMA StutterInv == ASSUME IInv, UNCHANGED vars PROVE IInv'
<1> USE DEF vars, clocks, ring, wakes, control, nTask, puTask, people
<1>1. ClockType' /\ RingType' /\ QueueType' /\ ControlType' /\ PeopleType'
  BY DEF IInv, Types, ClockType, RingType, QueueType, ControlType, PeopleType
<1>2. FlagsType'
  BY Zenon DEF IInv, Types, FlagsType
<1>3. Boots' /\ Wakes' /\ Signals' /\ Fills'
  BY DEF IInv, Boots, Wakes, Signals, Fills
<1> QED
  BY <1>1, <1>2, <1>3 DEF IInv, Types

THEOREM Invariance == Spec => []IInv
<1>1. IInv /\ [Next]_vars => IInv'
  <2> SUFFICES ASSUME IInv, [Next]_vars PROVE IInv'
    OBVIOUS
  <2>1. CASE MainTask
    BY <2>1, SetupInv, TestInv, RestoreInv, AnalyseInv, ReportInv, ToSleepInv DEF MainTask
  <2>2. CASE \E pins \in SUBSET {INDOOR, OUTDOOR, BUTTON} : wakeup_routine(pins)
    BY <2>2, WakeInv
  <2>3. CASE \/ Tick \/ EdgeBeforeQueue \/ ConnectionLost
             \/ \E b \in Barriers : BarrierEdge(b)
    BY <2>3, OutsideInv
  <2> QED
    BY <2>1, <2>2, <2>3, PanicInv, InternetInv, PusherInv, StutterInv DEF Next
<1> QED
  BY InitInv, <1>1, PTL DEF Spec

-----------------------------------------------------------------------------

\* The variables keep their types, also after the stub has written behind the
\* buffer on whatever variables the linker has put there.
THEOREM TypeCorrect == Spec => []TypeOK
<1>1. IInv => TypeOK
  <2> SUFFICES ASSUME IInv PROVE TypeOK
    OBVIOUS
  <2>1. written \in 0..4 * TEST_CALLS
    BY LowPowerAssumption DEF IInv, Boots
  <2>2. fillSize \in 0..UINT8 - 1 /\ missed \in Nat /\ overrun \in Nat
    BY DEF IInv, Fills, Wakes
  <2> QED
    BY <2>1, <2>2, Zenon
    DEF IInv, Types, ClockType, RingType, QueueType, FlagsType, ControlType, PeopleType,
        Stamped, TypeOK
<1> QED
  BY <1>1, Invariance, PTL

\* The stub writes one event behind the buffer at most, and without that write
\* the ring stays in its bounds, whatever the tasks do to it without a lock.
THEOREM RingStaysInBounds == Spec => []RingInBounds
<1>1. IInv => RingInBounds
  BY DEF IInv, Fills, RingInBounds
<1> QED
  BY <1>1, Invariance, PTL

\* In a sleep the barriers of one wake of the stub at most find the buffer full.
THEOREM WakesLoseOne == Spec => []OneWakeLost
<1>1. IInv => OneWakeLost
  BY DEF IInv, Wakes, OneWakeLost
<1> QED
  BY <1>1, Invariance, PTL

\* When the device goes to sleep, at most the one event is forgotten that
\* pushInBuffer was waiting for when the internet became active.
THEOREM SleepDropsOne == Spec => []OneEventDropped
<1>1. IInv => OneEventDropped
  BY DEF IInv, Fills, OneEventDropped
<1> QED
  BY <1>1, Invariance, PTL

\* app_main never waits for a semaphore that nobody is going to give.
THEOREM SemaphoreComes == Spec => []InternetComes
<1>1. IInv => InternetComes
  BY DEF IInv, Signals, InternetComes
<1> QED
  BY <1>1, Invariance, PTL

=============================================================================
