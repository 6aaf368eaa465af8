------------------------------- MODULE LowPower -------------------------------
(***************************************************************************)
(* The duty cycle of zthe_low_power: the device sleeps; each light barrier *)
(* wakes a stub (wakeup.c) that stores the event in memory that survives   *)
(* the sleep and sleeps on.  The timer, the button or a full buffer boot   *)
(* the device, which connects, analyses the buffer and sleeps again.       *)
(*                                                                         *)
(* After a boot three tasks run on two cores: initInternet, pushInBuffer   *)
(* and app_main, which becomes the analyzer.  The last two share the ring  *)
(* without a lock.  The build is a constant: USE_WIFI stands for the       *)
(* macros USE_WIFI, BACKUP_COUNT and SEND_DATA, all off in include/main.h. *)
(*                                                                         *)
(* Time is `rtc', the slow clock since power-on, in some coarse unit; a    *)
(* stamp is kept as its distance from the time of its event, or UNSET when *)
(* it predates the year 1970 plus VALID, the code's test for a clock that  *)
(* was not set.  A slot out of the ring's window holds NoEvent: what it    *)
(* really holds is some old event or what the memory held at power-on, and *)
(* reading it yields any barrier or none.                                  *)
(*                                                                         *)
(* The load and the store of `fillSize++' and of `fillSize -= 1' are a few *)
(* cycles apart, and the tasks pause 10 ms and more between two of them:   *)
(* of two tasks that update fillSize at the same time either update may be *)
(* lost, and no third update falls in between.                             *)
(***************************************************************************)
EXTENDS Integers, Sequences, FiniteSets

CONSTANTS
  UINT8, UINT32,  \* number of values of these types (256 and 2^32)
  MICROS,         \* microseconds of a unit of time (1000000)
  SIZE_BUFFER,    \* slots of the ring in RTC memory (200)
  SIZE_QUEUE,     \* capacity of the FreeRTOS queue (5)
  TEST_CALLS,     \* calls of testData_ingoing/outgoing in app_main (5)
  WAKEUP_AFTER,   \* length of a sleep
  NIGHT,          \* length of the sleep after the reset of the count
  USE_WIFI,       \* the build
  EPOCH,          \* time of day at power-on, once the clock is set
  VALID,          \* stamps below are replaced (16890228)
  COUNT_LIMIT,    \* above this count nobody is counted in (250)
  BadFetch,       \* what a failed getCount_backup may return
  Behind,         \* variables of the RTC memory that the linker puts behind buffer
  Overwritten,    \* what a write behind the buffer may leave in them
  MaxTime         \* bound of the model: rtc stops here

ASSUME LowPowerAssumption ==
  /\ UINT8 \in Nat \ {0} /\ UINT32 \in Nat \ {0} /\ MICROS \in Nat \ {0}
  /\ SIZE_BUFFER \in Nat /\ SIZE_BUFFER + 1 < UINT8 /\ SIZE_QUEUE \in Nat \ {0}
  /\ TEST_CALLS \in Nat \ {0} /\ 4 * TEST_CALLS < SIZE_BUFFER
  /\ WAKEUP_AFTER \in Nat \ {0} /\ NIGHT \in Nat \ {0}
  /\ USE_WIFI \in BOOLEAN
  /\ MaxTime \in Nat /\ EPOCH \in Nat /\ VALID \in Nat
  /\ EPOCH >= VALID /\ VALID > 2 * MaxTime
  /\ COUNT_LIMIT \in 0..UINT8 - 2 /\ BadFetch \subseteq 0..UINT8 - 1
  /\ Behind \subseteq {"head", "fillSize", "timeOffset"} /\ Overwritten \subseteq Nat

VARIABLES
  rtc,                     \* time since power-on
  synced,                  \* SNTP has set the clock
  timeOffset,              \* get_timestamp() at the last sleep entry
  alarm,                   \* when the sleep timer fires, in microseconds
  buffer, head, fillSize,  \* the ring, in RTC memory
  missed,                  \* history: barrier wakes of this sleep not stored
  overrun,                 \* history: slots behind the buffer that the stub wrote
  woken,                   \* rtc_get_reset_reason(0) = DEEPSLEEP_RESET
  main,                    \* control of app_main: setup, analyzer, sleep
  written,                 \* test events written so far
  net, online,             \* control of task initInternet, its connection
  pusher, slot,            \* control of task pushInBuffer, its pointer
  queue,                   \* events sent by isr_barrier
  xInternetActive,         \* binary semaphore, TRUE when available
  state_counter, count,    \* the passage machine and the people count
  backup                   \* the count stored on the IoT platform

clocks  == <<rtc, synced, timeOffset, alarm>>
ring    == <<buffer, head, fillSize>>
wakes   == <<missed, overrun>>
control == <<woken, main, written>>
nTask   == <<net, online>>
puTask  == <<pusher, slot>>
people  == <<state_counter, count, backup>>
vars == <<clocks, ring, wakes, control, nTask, puTask, queue, xInternetActive, people>>

INDOOR == "INDOOR_BARRIER"
OUTDOOR == "OUTDOOR_BARRIER"
Barriers == {INDOOR, OUTDOOR}
BUTTON == "WAKE_UP_BUTTON"
Slots == 0..SIZE_BUFFER - 1

NoEvent == [id |-> "none", late |-> 0]
UNSET == -1

get_timestamp == IF ~USE_WIFI THEN 0 ELSE IF synced THEN EPOCH + rtc ELSE rtc

\* An event with time stamp t of what happens now.
Event(id, t) == [id |-> id, late |-> IF t < VALID THEN UNSET ELSE t - (EPOCH + rtc)]

-----------------------------------------------------------------------------
(* Power-on, sleep and boot *)

\* Power-on.  What the RTC memory holds is overwritten before it is read.
Init ==
  /\ rtc = 0 /\ synced = FALSE /\ timeOffset = 0 /\ alarm = 0
  /\ buffer = [i \in Slots |-> NoEvent] /\ head = 0 /\ fillSize = 0
  /\ missed = 0 /\ overrun = 0
  /\ woken = FALSE /\ main = "setup" /\ written = 0
  /\ net = "off" /\ online = FALSE /\ pusher = "off" /\ slot = 0
  /\ queue = <<>> /\ xInternetActive = FALSE
  /\ state_counter = 0 /\ count = 0
  /\ backup \in 0..COUNT_LIMIT + 1

Tick ==
  /\ rtc < MaxTime
  /\ rtc' = rtc + 1
  /\ UNCHANGED <<synced, timeOffset, alarm, ring, wakes, control, nTask, puTask,
                 queue, xInternetActive, people>>

\* What is not in RTC memory is lost.
MemoryLost ==
  /\ net' = "off" /\ online' = FALSE /\ pusher' = "off" /\ slot' = 0 /\ written' = 0
  /\ queue' = <<>> /\ xInternetActive' = FALSE
  /\ state_counter' = 0 /\ count' = 0

\* The product of the seconds and a million is a uint32_t: the seven hours of the
\* night come out as 62 minutes.
Microseconds(seconds) == (MICROS * seconds) % UINT32

deep_sleep_routine(seconds) ==
  /\ head' = 0 /\ fillSize' = 0
  /\ buffer' = [i \in Slots |-> NoEvent]
  /\ timeOffset' = get_timestamp
  /\ alarm' = MICROS * rtc + Microseconds(seconds)
  /\ missed' = 0 /\ overrun' = 0
  /\ main' = "asleep"
  /\ MemoryLost
  /\ UNCHANGED <<rtc, synced, woken>>

One(b, pins) == IF b \in pins THEN <<b>> ELSE <<>>

\* Mutant: a full buffer is noticed one event too late.
StubRecordsOneMore(pins) ==
  IF fillSize > SIZE_BUFFER THEN <<>> ELSE One(INDOOR, pins) \o One(OUTDOOR, pins)

\* The stub stores the events of a wake, the inner barrier first.  It looks at
\* the fill level once: the second of two events may land behind the buffer,
StubRecords(pins) ==
  IF fillSize >= SIZE_BUFFER THEN <<>> ELSE One(INDOOR, pins) \o One(OUTDOOR, pins)

\* on the variables that the linker has put there.  (fillSize is incremented after
\* the write, or from a copy of before.)
Damage(variable) == IF variable \in Behind THEN Overwritten ELSE {}

WritesBehind(recorded) ==
  /\ head' \in {head} \cup {v % UINT8 : v \in Damage("head")}
  /\ fillSize' \in {(v + 1) % UINT8 : v \in {SIZE_BUFFER} \cup Damage("fillSize")}
  /\ timeOffset' \in {timeOffset} \cup Damage("timeOffset")
  /\ overrun' = fillSize + Len(recorded) - SIZE_BUFFER

WritesInside(recorded) ==
  /\ fillSize' = fillSize + Len(recorded)
  /\ UNCHANGED <<head, timeOffset, overrun>>

\* Mutant: the stub sleeps after every barrier, stored or not.
StubSleepsOnBarrier(pins) ==
  \/ pins \cap Barriers # {}
  \/ BUTTON \notin pins /\ rtc < WAKEUP_AFTER /\ fillSize < SIZE_BUFFER

StubSleeps(pins) ==
  \/ StubRecords(pins) # <<>>
  \/ BUTTON \notin pins /\ rtc < WAKEUP_AFTER /\ fillSize < SIZE_BUFFER

\* wakeup_routine: woken by some pins, or by the timer and no pin.
wakeup_routine(pins) ==
  LET recorded == StubRecords(pins)
      Stored(i) == i - fillSize \in 0..Len(recorded) - 1
  IN /\ main = "asleep"
     /\ pins # {} \/ MICROS * rtc >= alarm
     /\ buffer' = [i \in Slots |-> IF Stored(i)
                     THEN Event(recorded[i - fillSize + 1], rtc + timeOffset)
                     ELSE buffer[i]]
     /\ IF recorded # <<>> /\ fillSize + Len(recorded) > SIZE_BUFFER
        THEN WritesBehind(recorded) ELSE WritesInside(recorded)
     /\ missed' = IF pins \cap Barriers # {} /\ recorded = <<>> THEN missed + 1 ELSE missed
     /\ IF StubSleeps(pins) THEN UNCHANGED <<main, woken>>
                            ELSE main' = "setup" /\ woken' = TRUE
     /\ UNCHANGED <<rtc, synced, alarm, written, nTask, puTask, queue, xInternetActive, people>>

\* initPins installs isr_barrier long before my_setup creates the queue: an
\* edge in between fails FreeRTOS's assertion on the queue, and the panic
\* handler reboots, which is no DEEPSLEEP_RESET.
EdgeBeforeQueue ==
  /\ main = "setup"
  /\ woken' = FALSE
  /\ UNCHANGED <<clocks, ring, wakes, main, written, nTask, puTask, queue,
                 xInternetActive, people>>

\* fetchNumber makes a number of what a failed request left: of a pointer that
\* was never set, if it brought no text.  That may be no memory at all.
FetchPanics ==
  /\ USE_WIFI /\ main \in {"restore", "report"}
  /\ main' = "setup" /\ woken' = FALSE
  /\ MemoryLost
  /\ UNCHANGED <<clocks, ring, wakes, backup>>

\* my_setup, not after a sleep: go to sleep.
SetupToSleep ==
  /\ main = "setup" /\ ~woken
  /\ deep_sleep_routine(WAKEUP_AFTER)
  /\ UNCHANGED backup

\* my_setup, after a sleep: create queue, semaphore and tasks.
SetupTasks ==
  /\ main = "setup" /\ woken
  /\ main' = "test"
  /\ xInternetActive' = ~USE_WIFI
  /\ net' = IF USE_WIFI THEN "wifi" ELSE "off"
  /\ pusher' = "poll"
  /\ UNCHANGED <<clocks, ring, wakes, woken, written, online, slot, queue, people>>

-----------------------------------------------------------------------------
(* Interrupt and tasks *)

Awake == main \notin {"setup", "asleep"}

\* isr_barrier: the event is lost when the queue is full.
BarrierEdge(b) ==
  /\ Awake
  /\ Len(queue) < SIZE_QUEUE
  /\ queue' = Append(queue, Event(b, get_timestamp))
  /\ UNCHANGED <<clocks, ring, wakes, control, nTask, puTask, xInternetActive, people>>

(* Task initInternet *)

\* initWifi: the handler tries again after every failure; with the address the
\* wait ends, and the handlers are removed.
GotIP ==
  /\ net = "wifi"
  /\ net' = "sntp" /\ online' = TRUE
  /\ UNCHANGED <<clocks, ring, wakes, control, puTask, queue, xInternetActive, people>>

\* From then on nobody makes a lost connection again.
ConnectionLost ==
  /\ online
  /\ online' = FALSE
  /\ UNCHANGED <<clocks, ring, wakes, control, net, puTask, queue, xInternetActive, people>>

\* Mutant: initSNTP waits until the clock is set.
ClockAwaited ==
  /\ net = "sntp" /\ online
  /\ synced' = TRUE
  /\ net' = "mqtt"
  /\ UNCHANGED <<rtc, timeOffset, alarm, ring, wakes, control, online, puTask,
                 queue, xInternetActive, people>>

\* initSNTP gives up silently after ten tries.
ClockSet ==
  /\ net = "sntp"
  /\ synced' \in IF online THEN {synced, TRUE} ELSE {synced}
  /\ net' = "mqtt"
  /\ UNCHANGED <<rtc, timeOffset, alarm, ring, wakes, control, online, puTask,
                 queue, xInternetActive, people>>

\* initMQTT waits for the broker without a time-out, then the task ends.
BrokerConnected ==
  /\ net = "mqtt" /\ online
  /\ xInternetActive' = TRUE
  /\ net' = "off" /\ online' = FALSE
  /\ UNCHANGED <<clocks, ring, wakes, control, puTask, queue, people>>

-----------------------------------------------------------------------------
\* pushInBuffer ends when the internet is active ...
PusherTake ==
  /\ pusher = "poll" /\ xInternetActive
  /\ xInternetActive' = FALSE
  /\ pusher' = "stop"
  /\ UNCHANGED <<clocks, ring, wakes, control, nTask, slot, queue, people>>

PusherStop ==
  /\ pusher = "stop"
  /\ xInternetActive' = TRUE
  /\ pusher' = "off"
  /\ UNCHANGED <<clocks, ring, wakes, control, nTask, slot, queue, people>>

\* Mutant: pushInBuffer goes on when the internet is active.
PusherAimsAnyway ==
  /\ pusher = "poll"
  /\ fillSize < SIZE_BUFFER
  /\ slot' = (head + fillSize) % SIZE_BUFFER
  /\ pusher' = "receive"
  /\ UNCHANGED <<clocks, ring, wakes, control, nTask, queue, xInternetActive, people>>

\* ... and until then waits for an event, having computed where to put it.
PusherAims ==
  /\ pusher = "poll" /\ ~xInternetActive
  /\ fillSize < SIZE_BUFFER
  /\ slot' = (head + fillSize) % SIZE_BUFFER
  /\ pusher' = "receive"
  /\ UNCHANGED <<clocks, ring, wakes, control, nTask, queue, xInternetActive, people>>

PusherReceive ==
  /\ pusher = "receive" /\ queue # <<>>
  /\ buffer' = [buffer EXCEPT ![slot] = Head(queue)]
  /\ queue' = Tail(queue)
  /\ pusher' = "received"
  /\ UNCHANGED <<clocks, head, fillSize, wakes, control, nTask, slot, xInternetActive, people>>

PusherTimeout ==
  /\ pusher = "receive" /\ queue = <<>>
  /\ pusher' = "poll" /\ slot' = 0
  /\ UNCHANGED <<clocks, ring, wakes, control, nTask, queue, xInternetActive, people>>

\* fillSize++, after the write: its outcome when app_main on the other core
\* updates fillSize at the same time is in the steps of app_main.
PusherIncrement ==
  /\ pusher = "received"
  /\ fillSize' = fillSize + 1
  /\ pusher' = "poll" /\ slot' = 0
  /\ UNCHANGED <<clocks, buffer, head, wakes, control, nTask, queue,
                 xInternetActive, people>>

\* app_main sets fillSize to n: alone, or racing with pushInBuffer's increment,
\* when one of the two updates is lost.
SetsFillSize(n) ==
  \/ fillSize' = n /\ UNCHANGED puTask
  \/ /\ pusher = "received"
     /\ fillSize' \in {n, fillSize + 1}
     /\ pusher' = "poll" /\ slot' = 0

\* The barriers of the test passages: in, in, out, out, in.
TestBarrier(i) == IF ((i \div 4) \in {0, 1, 4}) = (i % 2 = 0) THEN OUTDOOR ELSE INDOOR

\* testData_ingoing, testData_outgoing: four slots are overwritten, whatever
\* was stored there during the sleep ...
TestWrite ==
  /\ main = "test" /\ written < 4 * TEST_CALLS
  /\ buffer' = [i \in Slots |-> IF i \in written..written + 3
                  THEN Event(TestBarrier(i), get_timestamp) ELSE buffer[i]]
  /\ main' = IF written + 4 >= fillSize THEN "testFill" ELSE "test"
  /\ written' = written + 4
  /\ UNCHANGED <<clocks, head, fillSize, wakes, woken, nTask, puTask, queue,
                 xInternetActive, people>>

\* ... and the ring is made long enough for them.
TestFill ==
  /\ main = "testFill"
  /\ SetsFillSize(written)
  /\ main' = "test"
  /\ UNCHANGED <<clocks, buffer, head, wakes, woken, written, nTask, queue,
                 xInternetActive, people>>

\* The platform: getCount_backup and setCount_backup with requests that may fail.
Fetched  == IF USE_WIFI THEN {backup} \cup BadFetch ELSE {count}
Saved(n) == IF USE_WIFI THEN {n, backup} ELSE {backup}

\* start_counting_algo waits for the internet and restores the count.
AwaitInternet ==
  /\ main = "test" /\ written = 4 * TEST_CALLS
  /\ xInternetActive
  /\ xInternetActive' = FALSE
  /\ main' = "restore"
  /\ UNCHANGED <<clocks, ring, wakes, woken, written, nTask, puTask, queue, people>>

RestoreCount ==
  /\ main = "restore"
  /\ count' \in Fetched
  /\ xInternetActive' = TRUE
  /\ main' = "analyse"
  /\ UNCHANGED <<clocks, ring, wakes, woken, written, nTask, puTask, queue,
                 state_counter, backup>>

Turn(s, b) ==
  IF b \notin Barriers THEN s ELSE IF (s % 2 = 0) = (b = OUTDOOR) THEN s + 1 ELSE s - 1

\* Mutant: nobody looks whether the room is empty.
PassedAnyway(s) ==
  /\ state_counter' = IF s \in {-4, 4} THEN 0 ELSE s
  /\ count' = CASE s = 4 /\ count <= COUNT_LIMIT -> count + 1
                [] s = -4                       -> count - 1
                [] OTHER                        -> count

\* A completed passage changes the count unless it is at its limit.
Passed(s) ==
  /\ state_counter' = IF s \in {-4, 4} THEN 0 ELSE s
  /\ count' = CASE s = 4 /\ count <= COUNT_LIMIT -> count + 1
                [] s = -4 /\ count > 0           -> count - 1
                [] OTHER                         -> count

\* The barrier that the analyzer reads, out of the ring's window or memory any.
Read == IF head \notin Slots THEN Barriers \cup {"none"}
        ELSE IF buffer[head] = NoEvent THEN Barriers \cup {"none"} ELSE {buffer[head].id}

Analyse ==
  /\ main = "analyse" /\ fillSize > 0
  /\ \E b \in Read : Passed(Turn(state_counter, b))
  /\ buffer' = [i \in Slots |-> IF i = head THEN NoEvent ELSE buffer[i]]
  /\ head' = (head + 1) % SIZE_BUFFER
  /\ SetsFillSize(fillSize - 1)
  /\ UNCHANGED <<clocks, wakes, control, nTask, queue, xInternetActive, backup>>

\* after_analizer: the count is saved, if the request succeeds, ...
Report ==
  /\ main = "analyse" /\ fillSize = 0
  /\ backup' \in Saved(count)
  /\ main' = "report"
  /\ UNCHANGED <<clocks, ring, wakes, woken, written, nTask, puTask, queue,
                 xInternetActive, state_counter, count>>

\* ... and the device sleeps for some time, ...
SleepAgain ==
  /\ main = "report"
  /\ deep_sleep_routine(WAKEUP_AFTER)
  /\ UNCHANGED backup

\* ... or, in the reset hour, for the night, after a reset of the count.
NightReset ==
  /\ main = "report"
  /\ backup' \in Saved(0)
  /\ deep_sleep_routine(NIGHT)

-----------------------------------------------------------------------------
MainTask == \/ SetupToSleep \/ SetupTasks \/ TestWrite \/ TestFill
            \/ AwaitInternet \/ RestoreCount \/ Analyse \/ Report
            \/ SleepAgain \/ NightReset
Internet == GotIP \/ ClockSet \/ BrokerConnected
Pusher   == \/ PusherTake \/ PusherStop \/ PusherAims
            \/ PusherReceive \/ PusherTimeout \/ PusherIncrement

Next ==
  \/ Tick
  \/ \E pins \in SUBSET {INDOOR, OUTDOOR, BUTTON} : wakeup_routine(pins)
  \/ EdgeBeforeQueue \/ FetchPanics
  \/ \E b \in Barriers : BarrierEdge(b)
  \/ Internet \/ ConnectionLost
  \/ MainTask
  \/ Pusher

Spec == Init /\ [][Next]_vars

(***************************************************************************)
(* Fairness: ready tasks run, setup and initSNTP end.  Nothing is assumed  *)
(* of access point and broker, of the barriers (but that no edge falls     *)
(* into every setup), of the wake-ups, or of a connection staying up.      *)
(***************************************************************************)
FairSpec == Spec /\ WF_vars(MainTask) /\ WF_vars(Pusher) /\ WF_vars(ClockSet)

-----------------------------------------------------------------------------
(* Properties *)

TypeOK ==
  /\ rtc \in 0..MaxTime /\ synced \in BOOLEAN
  /\ timeOffset \in Nat /\ alarm \in Nat
  /\ buffer \in [Slots -> [id : Barriers \cup {"none"}, late : Int]]
  /\ head \in 0..UINT8 - 1 /\ fillSize \in 0..UINT8 - 1
  /\ missed \in Nat /\ overrun \in Nat
  /\ main \in {"setup", "asleep", "test", "testFill", "restore", "analyse", "report"}
  /\ woken \in BOOLEAN /\ written \in 0..4 * TEST_CALLS
  /\ net \in {"off", "wifi", "sntp", "mqtt"} /\ online \in BOOLEAN
  /\ pusher \in {"off", "poll", "receive", "received", "stop"} /\ slot \in Slots
  /\ queue \in Seq([id : Barriers, late : Int]) /\ Len(queue) <= SIZE_QUEUE
  /\ xInternetActive \in BOOLEAN
  /\ state_counter \in -3..3 /\ count \in 0..UINT8 - 1 /\ backup \in 0..UINT8 - 1

\* The stub looks at the fill level once and may write one event behind the
\* buffer (wakeup.c:99-117), but never a second one; and nothing but that write
\* takes the ring out of its bounds: not the test data, nor pushInBuffer and the
\* analyzer, which update fillSize without a lock.
RingInBounds ==
  /\ overrun <= 1
  /\ overrun = 0 => head \in Slots /\ fillSize <= SIZE_BUFFER

\* The barriers of one wake at most find the buffer full: the stub that cannot
\* store them boots the device, which empties the buffer (wakeup.c:149).
OneWakeLost == missed <= 1

\* pushInBuffer and app_main share the ring without a lock, and going to sleep
\* forgets what is in it.  Still at most one event is left at the report, the one
\* pushInBuffer was waiting for when the internet became active.
OneEventDropped == main = "report" => fillSize <= 1

\* xInternetActive is created empty, given by initInternet, and then taken and
\* given back by two tasks: while app_main waits for it without a timeout, it is
\* there or some task is still going to give it.
InternetComes ==
  main = "test" => xInternetActive \/ net # "off" \/ pusher = "stop"

\* The device sleeps again and again, whatever the barriers, the interrupt, the
\* races for ring and semaphore and failed requests do, unless it waits for ever
\* in initWifi, which has no fail branch, or in initMQTT: then it stays awake
\* until its battery is empty.
SleepsAgain ==
  []<>(main = "asleep") \/ <>[](net = "wifi") \/ <>[](net = "mqtt")

\* timeOffset is there "to have correct time in deepsleep" (mySetup.h:81): a
\* stamp taken while the device sleeps is the time of the event.
DeepSleepTimeCorrect == \A i \in Slots : buffer[i].late \in {UNSET, 0}

=============================================================================
