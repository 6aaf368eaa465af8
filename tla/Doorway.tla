------------------------------- MODULE Doorway -------------------------------
(***************************************************************************)
(* The light barriers at the door, their interrupt routines, and the test  *)
(* mode, which takes the routines away and suspends the tasks              *)
(* (test_sensor_lab/main/countingAlgo.c).  What lies behind the queue is   *)
(* taken from module PassageCounter, which module Counting implements:     *)
(* accepted events are analysed in order, one at a time.                   *)
(*                                                                         *)
(* Time is reduced to `quiet': THRESHOLD_DEBOUCE has passed since the last *)
(* accepted edge of a barrier.  An interrupt routine runs at once.         *)
(*                                                                         *)
(* `walk' and `people' are a history: the passages that were made at the   *)
(* door, as long as none of their edges was missed.                        *)
(***************************************************************************)
EXTENDS Integers, Sequences, FiniteSets

CONSTANTS
  SIZE_QUEUE,    \* capacity of the FreeRTOS queue
  SIZE_PENDING,  \* the same and the slots of the buffer
  COUNT_LIMIT    \* above this count nobody is counted in (250)

ASSUME DoorwayAssumption ==
  /\ SIZE_QUEUE \in Nat \ {0}
  /\ SIZE_PENDING \in Nat /\ SIZE_PENDING > SIZE_QUEUE
  /\ COUNT_LIMIT \in 0..254

VARIABLES
  level,           \* of each barrier's pin, 1 when something is in the way
  lastState,       \* the level of the last accepted edge
  quiet,           \* the barrier is past its debounce time
  pending,         \* accepted events that are not analysed yet
  state_counter,   \* state of the passage machine
  count,           \* people in the room
  running,         \* tasks not suspended and interrupt handlers installed
  xPressedButton,  \* binary semaphore, TRUE when given
  testModeActive,
  testMode, step,  \* control of task testMode, its position in Order
  walk, people,    \* history: state and count of the real passages
  missed,          \* history: some edge was not accepted
  outOfPhase       \* history: see InPhase

pins    == <<level, lastState, quiet>>
counter == <<pending, state_counter, count>>
button  == <<xPressedButton, testModeActive, testMode, step>>
history == <<walk, people, missed, outOfPhase>>
vars == <<pins, counter, running, button, history>>

Barriers == {"OUTDOOR", "INDOOR"}

\* What pauseOtherTasks stops and starts again, in this order.
Order == << "analyzer", "showRoomState", "pushInBuffer", "sendFromNVS",
            "updateOTA", "OUTDOOR", "INDOOR" >>
Everything == {Order[n] : n \in DOMAIN Order}

Passages == INSTANCE PassageCounter WITH
  state <- state_counter, backup <- count, BadFetch <- {}

\* The machine and the count after one more event.
NextState(s, b) ==
  IF Passages!Toward(s, b) \in {-4, 4} THEN 0 ELSE Passages!Toward(s, b)
NextCount(s, b, c) ==
  CASE Passages!Toward(s, b) = 4 /\ c <= COUNT_LIMIT -> c + 1
    [] Passages!Toward(s, b) = -4 /\ c > 0           -> c - 1
    [] OTHER                                         -> c

\* The levels as the machine knows them: those of the analysed events.
Of(b) == {n \in DOMAIN pending : pending[n] = b}
Seen(b) == (lastState[b] + Cardinality(Of(b))) % 2
SeenClear == \A b \in Barriers : Seen(b) = 0

Init ==
  /\ level \in [Barriers -> {0, 1}]
  /\ lastState = [b \in Barriers |-> 0]
  /\ quiet = [b \in Barriers |-> TRUE]
  /\ pending = <<>>
  /\ state_counter = 0
  /\ count \in 0..COUNT_LIMIT + 1
  /\ running = Everything
  /\ xPressedButton = FALSE
  /\ testModeActive = 0
  /\ testMode = "wait" /\ step = 1
  /\ missed = (level # lastState)
  /\ walk = 0 /\ people = IF missed THEN 0 ELSE count
  /\ outOfPhase = FALSE

\* A restart; the count restored may be any.
Restart ==
  /\ lastState' = [b \in Barriers |-> 0]
  /\ quiet' = [b \in Barriers |-> TRUE]
  /\ pending' = <<>>
  /\ state_counter' = 0
  /\ count' \in 0..COUNT_LIMIT + 1
  /\ running' = Everything
  /\ xPressedButton' = FALSE
  /\ testModeActive' = 0
  /\ testMode' = "wait" /\ step' = 1
  /\ missed' = (level # lastState')
  /\ walk' = 0 /\ people' = IF missed' THEN 0 ELSE count'
  /\ outOfPhase' = FALSE
  /\ UNCHANGED level

-----------------------------------------------------------------------------
(* The door *)

\* Something comes into the way of a barrier, or goes out of it.
Flips(b) == level' = [level EXCEPT ![b] = 1 - @]

Walks(b) ==
  IF missed THEN UNCHANGED <<walk, people, missed>>
  ELSE /\ walk' = NextState(walk, b)
       /\ people' = NextCount(walk, b, people)
       /\ UNCHANGED missed

\* From now on the history is of no use.
Misses == missed' = TRUE /\ walk' = 0 /\ people' = 0

\* The time of the last accepted edge is more than the debounce time ago.
Settle(b) ==
  /\ ~quiet[b]
  /\ quiet' = [quiet EXCEPT ![b] = TRUE]
  /\ UNCHANGED <<level, lastState, counter, running, button, history>>

-----------------------------------------------------------------------------
(* isr_outter_barrier, isr_inner_barrier *)

\* Mutant: the level of the last accepted edge is not looked at.
AcceptsSameState(b) == b \in running /\ quiet[b]

Accepts(b) == b \in running /\ lastState[b] # level'[b] /\ quiet[b]

Records(b) ==
  /\ lastState' = [lastState EXCEPT ![b] = level'[b]]
  /\ quiet' = [quiet EXCEPT ![b] = FALSE]

\* Mutant: the capacity of queue and buffer is not respected.
EdgeAcceptedUnlimited(b) ==
  /\ Flips(b)
  /\ Accepts(b)
  /\ Records(b)
  /\ pending' = Append(pending, b)
  /\ Walks(b)
  /\ UNCHANGED <<state_counter, count, running, button, outOfPhase>>

\* An edge is accepted and sent.
EdgeAccepted(b) ==
  /\ Flips(b)
  /\ Accepts(b)
  /\ Records(b)
  /\ Len(pending) < SIZE_PENDING
  /\ pending' = Append(pending, b)
  /\ Walks(b)
  /\ UNCHANGED <<state_counter, count, running, button, outOfPhase>>

\* An edge is accepted, but the queue is full.
EdgeDropped(b) ==
  /\ Flips(b)
  /\ Accepts(b)
  /\ Records(b)
  /\ Len(pending) >= SIZE_QUEUE
  /\ Misses
  /\ outOfPhase' = TRUE
  /\ UNCHANGED <<counter, running, button>>

\* The edge comes too early, leads back to the level of the last accepted one,
\* or finds no handler.
EdgeIgnored(b) ==
  /\ Flips(b)
  /\ ~Accepts(b)
  /\ Misses
  /\ UNCHANGED <<lastState, quiet, counter, running, button, outOfPhase>>

-----------------------------------------------------------------------------
(* Tasks pushInBuffer and analyzer, as PassageCounter has them *)

\* Mutant: the newest event is analysed first.
AnalyseNewest ==
  /\ "analyzer" \in running
  /\ pending # <<>>
  /\ state_counter' = NextState(state_counter, pending[Len(pending)])
  /\ count' = NextCount(state_counter, pending[Len(pending)], count)
  /\ pending' = SubSeq(pending, 1, Len(pending) - 1)
  /\ UNCHANGED <<pins, running, button, history>>

Analyse ==
  /\ "analyzer" \in running
  /\ pending # <<>>
  /\ state_counter' = NextState(state_counter, Head(pending))
  /\ count' = NextCount(state_counter, Head(pending), count)
  /\ pending' = Tail(pending)
  /\ UNCHANGED <<pins, running, button, history>>

\* checkBuffer gives up an unfinished passage; the machine is in step with the
\* barriers afterwards if nothing is in their way.
Forget ==
  /\ "analyzer" \in running
  /\ Len(pending) <= SIZE_QUEUE
  /\ state_counter' = 0
  /\ outOfPhase' = ~SeenClear
  /\ IF state_counter = 0 THEN UNCHANGED <<walk, people, missed>> ELSE Misses
  /\ UNCHANGED <<pins, pending, count, running, button>>

-----------------------------------------------------------------------------
(* The button, and task testMode *)

\* isr_test_mode, a debounced press
Press ==
  /\ ~xPressedButton
  /\ xPressedButton' = TRUE
  /\ UNCHANGED <<pins, counter, running, testModeActive, testMode, step, history>>

\* pauseOtherTasks gets the semaphore, with or without waiting.
Toggle ==
  /\ testMode \in {"wait", "blink"}
  /\ xPressedButton
  /\ xPressedButton' = FALSE
  /\ testModeActive' = 1 - testModeActive
  /\ testMode' = "switch" /\ step' = 1
  /\ UNCHANGED <<pins, counter, running, history>>

\* Mutant: the handlers are not removed.
SwitchTasksOnly ==
  running' = IF testModeActive = 1 THEN running \ ({Order[step]} \ Barriers)
                                   ELSE running \cup {Order[step]}

\* Mutant: the handlers are not installed again.
SwitchHandlersOff ==
  running' = IF testModeActive = 1 THEN running \ {Order[step]}
                                   ELSE running \cup ({Order[step]} \ Barriers)

\* vTaskSuspend and gpio_isr_handler_remove, or vTaskResume and _add
Switch == running' = IF testModeActive = 1 THEN running \ {Order[step]}
                                           ELSE running \cup {Order[step]}

SwitchNext ==
  /\ testMode = "switch"
  /\ Switch
  /\ IF step < Len(Order)
     THEN step' = step + 1 /\ UNCHANGED testMode
     ELSE step' = 1 /\ testMode' = IF testModeActive = 1 THEN "blink" ELSE "wait"
  /\ UNCHANGED <<pins, counter, xPressedButton, testModeActive, history>>

-----------------------------------------------------------------------------
Next ==
  \/ \E b \in Barriers : \/ EdgeAccepted(b) \/ EdgeDropped(b) \/ EdgeIgnored(b)
                         \/ Settle(b)
  \/ Analyse \/ Forget
  \/ Press \/ Toggle \/ SwitchNext
  \/ Restart

Spec == Init /\ [][Next]_vars

-----------------------------------------------------------------------------
(* Properties *)

TypeOK ==
  /\ level \in [Barriers -> {0, 1}] /\ lastState \in [Barriers -> {0, 1}]
  /\ quiet \in [Barriers -> BOOLEAN]
  /\ pending \in Seq(Barriers) /\ Len(pending) <= SIZE_PENDING
  /\ state_counter \in -3..3 /\ count \in 0..COUNT_LIMIT + 1
  /\ running \subseteq Everything
  /\ xPressedButton \in BOOLEAN /\ testModeActive \in {0, 1}
  /\ testMode \in {"wait", "switch", "blink"} /\ step \in DOMAIN Order
  /\ walk \in -3..3 /\ people \in 0..COUNT_LIMIT + 1
  /\ missed \in BOOLEAN /\ outOfPhase \in BOOLEAN

\* The states that a pair of levels allows: a passage goes around them, in one
\* direction or the other.
Position(out, in) == IF out = in THEN 2 * out ELSE 1 + 2 * in

\* The machine is in step with the barriers: the levels it has seen determine
\* its state but for the direction.  Neither edges that come too fast nor the
\* test mode change that, only an event dropped by the full queue, or a reset
\* of the machine while something is in the way of a barrier; and the next
\* reset with a clear doorway, or a restart, repairs it.
InPhase ==
  ~outOfPhase => state_counter % 4 = Position(Seen("OUTDOOR"), Seen("INDOOR"))

\* From the door to the count: if every edge was accepted and no passage was
\* given up, the machine and the count are, once all events are analysed, what
\* the passages at the door have made them.
CountsPassages ==
  ~missed /\ pending = <<>> => state_counter = walk /\ count = people

\* While the device is in test mode, once everything is switched off, no event
\* is accepted and nothing is counted, whatever happens at the door.
TestModeIsSilent ==
  [][ testMode = "blink" => UNCHANGED <<lastState, counter>> \/ Restart ]_vars

\* However often and whenever the button is pressed: out of test mode, no task
\* stays suspended and no handler removed.
AllBackAtWork ==
  testMode = "wait" => running = Everything /\ testModeActive = 0

=============================================================================
