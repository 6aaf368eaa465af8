---------------------------- MODULE DoorwayProofs ----------------------------
(***************************************************************************)
(* Proofs, for every value of the constants, that the machine stays in     *)
(* step with the barriers, and about the test mode (module Doorway).       *)
(***************************************************************************)
EXTENDS Doorway, FiniteSetTheorems, FunctionTheorems, TLAPS

-----------------------------------------------------------------------------
(* Facts about the operators *)

\* Another event leaves the machine in its seven states (analyzer).
LEMMA NextStateType ==
  ASSUME NEW s \in -3..3, NEW b \in Barriers
  PROVE  NextState(s, b) \in -3..3
BY DEF NextState, Passages!Toward, Barriers

\* What is switched before position n, and what is still to be switched.
Before(n) == {Order[m] : m \in 1..n - 1}

\* pauseOtherTasks has switched nothing at first, ...
LEMMA NothingBefore == Before(1) = {}
BY DEF Before

\* ... one thing more after each step, ...
LEMMA OneMore ==
  ASSUME NEW n \in 1..7
  PROVE  Before(n + 1) = Before(n) \cup {Order[n]}
BY DEF Before, Order

\* ... and everything at the end.
LEMMA AllBefore == Before(8) = Everything /\ Len(Order) = 7 /\ DOMAIN Order = 1..7
BY DEF Before, Everything, Order

-----------------------------------------------------------------------------
(* The inductive invariant *)

\* pauseOtherTasks is always done with a prefix of Order, and only with that.
SwitchedInOrder ==
  /\ testMode \in {"wait", "switch", "blink"} /\ testModeActive \in {0, 1}
  /\ step \in 1..7
  /\ testMode = "wait"  => testModeActive = 0 /\ running = Everything
  /\ testMode = "blink" => testModeActive = 1 /\ running = {}
  /\ testMode = "switch" =>
       running = IF testModeActive = 1 THEN Everything \ Before(step) ELSE Before(step)

\* The steps that have nothing to do with pauseOtherTasks.
Elsewhere == UNCHANGED <<running, testModeActive, testMode, step>>

\* The steps of the door and of the pipeline, and presses of the button.
LEMMA ElsewhereSteps ==
  ASSUME NEW b \in Barriers,
         \/ EdgeAccepted(b) \/ EdgeDropped(b) \/ EdgeIgnored(b) \/ Settle(b)
         \/ Analyse \/ Forget \/ Press
  PROVE  Elsewhere
BY DEF EdgeAccepted, EdgeDropped, EdgeIgnored, Settle, Analyse, Forget, Press,
       Elsewhere, button

LEMMA InitSwitched == Init => SwitchedInOrder
BY DEF Init, SwitchedInOrder

LEMMA ToggleSwitched == SwitchedInOrder /\ Toggle => SwitchedInOrder'
<1> SUFFICES ASSUME SwitchedInOrder, Toggle PROVE SwitchedInOrder'
    OBVIOUS
<1>1. /\ testMode' = "switch" /\ step' = 1 /\ running' = running
      /\ testModeActive' \in {0, 1}
    BY DEF Toggle, SwitchedInOrder
<1>2. running = IF testModeActive' = 1 THEN Everything ELSE {}
    BY DEF Toggle, SwitchedInOrder
<1>3. Before(step') = {}
    BY <1>1, NothingBefore
<1>4. QED
    BY <1>1, <1>2, <1>3 DEF SwitchedInOrder

LEMMA SwitchNextSwitched == SwitchedInOrder /\ SwitchNext => SwitchedInOrder'
<1> SUFFICES ASSUME SwitchedInOrder, SwitchNext PROVE SwitchedInOrder'
    OBVIOUS
<1>1. step \in 1..7 /\ testModeActive \in {0, 1} /\ testModeActive' = testModeActive
    BY DEF SwitchedInOrder, SwitchNext
<1>2. running' = IF testModeActive' = 1 THEN Everything \ Before(step + 1)
                                        ELSE Before(step + 1)
    BY <1>1, OneMore DEF SwitchNext, Switch, SwitchedInOrder
<1>3. CASE step < 7
    BY <1>1, <1>2, <1>3, AllBefore DEF SwitchNext, SwitchedInOrder
<1>4. CASE step = 7
    BY <1>1, <1>2, <1>4, AllBefore DEF SwitchNext, SwitchedInOrder
<1>5. QED
    BY <1>1, <1>3, <1>4

LEMMA NextSwitched == SwitchedInOrder /\ [Next]_vars => SwitchedInOrder'
<1> SUFFICES ASSUME SwitchedInOrder, [Next]_vars PROVE SwitchedInOrder'
    OBVIOUS
<1>1. CASE Elsewhere
    BY <1>1 DEF Elsewhere, SwitchedInOrder
<1>2. CASE UNCHANGED vars
    BY <1>1, <1>2 DEF vars, button, Elsewhere
<1>3. CASE Restart
    BY <1>3 DEF Restart, SwitchedInOrder
<1>4. CASE Analyse \/ Forget \/ Press
    BY <1>1, <1>4, ElsewhereSteps DEF Barriers
<1>5. QED
    BY <1>1, <1>2, <1>3, <1>4, ElsewhereSteps, ToggleSwitched, SwitchNextSwitched DEF Next

-----------------------------------------------------------------------------
(* The events of a barrier among those not analysed yet *)

Places(s, b) == {n \in DOMAIN s : s[n] = b}
Number(s, b) == Cardinality(Places(s, b))

\* There are finitely many events, so they can be counted.
LEMMA NumberType ==
  ASSUME NEW s \in Seq(Barriers), NEW b
  PROVE  Number(s, b) \in Nat /\ IsFiniteSet(Places(s, b))
<1>1. IsFiniteSet(1..Len(s))
    BY FS_Interval
<1>2. Places(s, b) \subseteq 1..Len(s)
    BY DEF Places
<1>3. QED
    BY <1>1, <1>2, FS_Subset, FS_CardinalityType DEF Number

\* An interrupt routine adds one event of its own barrier and none of another
\* (xQueueSendFromISR).
LEMMA NumberAppended ==
  ASSUME NEW s \in Seq(Barriers), NEW a \in Barriers, NEW b \in Barriers
  PROVE  Number(Append(s, a), b) = IF a = b THEN Number(s, b) + 1 ELSE Number(s, b)
<1>1. Places(Append(s, a), b) = Places(s, b) \cup (IF a = b THEN {Len(s) + 1} ELSE {})
    BY DEF Places
<1>2. Len(s) + 1 \notin Places(s, b)
    BY DEF Places
<1>3. QED
    BY <1>1, <1>2, NumberType, FS_AddElement DEF Number

\* Analyzing takes one event of the barrier of the oldest event away.
LEMMA NumberTaken ==
  ASSUME NEW s \in Seq(Barriers), s # <<>>, NEW b \in Barriers
  PROVE  Number(s, b) = IF Head(s) = b THEN Number(Tail(s), b) + 1 ELSE Number(Tail(s), b)
<1> DEFINE Shifted == {n + 1 : n \in Places(Tail(s), b)}
           Shift == [n \in Places(Tail(s), b) |-> n + 1]
<1>1. /\ Tail(s) \in Seq(Barriers) /\ Len(Tail(s)) = Len(s) - 1 /\ Head(s) = s[1]
      /\ \A n \in 1..Len(s) - 1 : Tail(s)[n] = s[n + 1]
      /\ Len(s) \in Nat \ {0}
    OBVIOUS
<1>2. Places(s, b) = Shifted \cup (IF Head(s) = b THEN {1} ELSE {})
  <2>1. DOMAIN s = 1..Len(s) /\ DOMAIN Tail(s) = 1..Len(s) - 1
      BY <1>1
  <2>2. ASSUME NEW n \in Places(s, b), n # 1
        PROVE  n \in Shifted
    <3>1. n \in 1..Len(s) /\ s[n] = b /\ n - 1 \in 1..Len(s) - 1 /\ n = (n - 1) + 1
        BY <2>1, <2>2, <1>1 DEF Places
    <3>2. n - 1 \in Places(Tail(s), b)
        BY <3>1, <2>1, <1>1 DEF Places
    <3>3. QED
        BY <3>1, <3>2
  <2>3. Shifted \subseteq Places(s, b)
      BY <2>1, <1>1 DEF Places
  <2>4. 1 \in Places(s, b) <=> Head(s) = b
      BY <2>1, <1>1 DEF Places
  <2>5. QED
      BY <2>2, <2>3, <2>4
<1>3. 1 \notin Shifted
    BY <1>1 DEF Places
<1>4. Cardinality(Shifted) = Number(Tail(s), b) /\ IsFiniteSet(Shifted)
  <2>1. Places(Tail(s), b) \subseteq Nat
      BY <1>1 DEF Places
  <2>2. Shift \in Bijection(Places(Tail(s), b), Shifted)
      BY <2>1 DEF Bijection, Injection, Surjection, IsInjective
  <2>3. ExistsBijection(Places(Tail(s), b), Shifted)
      BY <2>2 DEF ExistsBijection
  <2>4. QED
      BY <2>3, <1>1, NumberType, FS_Bijection DEF Number
<1>5. QED
    BY <1>2, <1>3, <1>4, FS_AddElement DEF Number

-----------------------------------------------------------------------------
(* The machine and the barriers *)

Levels ==
  /\ level \in [Barriers -> {0, 1}] /\ lastState \in [Barriers -> {0, 1}]
  /\ pending \in Seq(Barriers)
  /\ state_counter \in -3..3 /\ outOfPhase \in BOOLEAN

PhaseInv == Levels /\ InPhase

\* The levels as the machine knows them are determined by the last accepted
\* edges and the events still on their way.
LEMMA SeenNumber ==
  ASSUME NEW b
  PROVE  /\ Seen(b) = (lastState[b] + Number(pending, b)) % 2
         /\ Seen(b)' = (lastState'[b] + Number(pending', b)) % 2
BY DEF Seen, Of, Number, Places

\* One event takes the machine to the position of the new levels.
LEMMA OnePosition ==
  ASSUME NEW s \in -3..3, NEW out \in {0, 1}, NEW in \in {0, 1},
         s % 4 = Position(out, in)
  PROVE  /\ NextState(s, "OUTDOOR") % 4 = Position(1 - out, in)
         /\ NextState(s, "INDOOR") % 4 = Position(out, 1 - in)
BY DEF NextState, Passages!Toward, Position

\* With both levels clear the machine is to be in its first state.
LEMMA ClearPosition == 0 % 4 = Position(0, 0)
BY DEF Position

\* What does not touch the levels, the events or the machine keeps them in step.
LEMMA PhaseKept ==
  ASSUME PhaseInv, UNCHANGED <<lastState, pending, state_counter, outOfPhase>>,
         level' \in [Barriers -> {0, 1}]
  PROVE  PhaseInv'
BY DEF PhaseInv, Levels, InPhase, Seen, Of

LEMMA FlipsType ==
  ASSUME Levels, NEW b \in Barriers, Flips(b)
  PROVE  level' \in [Barriers -> {0, 1}]
BY DEF Levels, Flips

\* An accepted edge is one more event and the other level: the machine sees the
\* same as before.
LEMMA AcceptedPhase ==
  ASSUME PhaseInv, NEW b \in Barriers, EdgeAccepted(b)
  PROVE  PhaseInv'
<1>1. Levels /\ level' \in [Barriers -> {0, 1}]
    BY FlipsType DEF PhaseInv, EdgeAccepted
<1>2. /\ lastState' = [lastState EXCEPT ![b] = 1 - lastState[b]]
      /\ pending' = Append(pending, b)
      /\ UNCHANGED <<state_counter, outOfPhase>>
  <2>1. lastState[b] # level'[b] /\ lastState[b] \in {0, 1} /\ level'[b] \in {0, 1}
      BY <1>1 DEF EdgeAccepted, Accepts, Levels
  <2>2. level'[b] = 1 - lastState[b]
      BY <2>1
  <2>3. QED
      BY <2>2 DEF EdgeAccepted, Records
<1>3. ASSUME NEW c \in Barriers
      PROVE  Seen(c)' = Seen(c)
  <2>1. Number(pending, c) \in Nat /\ lastState[c] \in {0, 1}
      BY <1>1, NumberType DEF Levels
  <2>2. Number(pending', c) = IF b = c THEN Number(pending, c) + 1 ELSE Number(pending, c)
      BY <1>1, <1>2, NumberAppended DEF Levels
  <2>3. lastState'[c] = IF b = c THEN 1 - lastState[c] ELSE lastState[c]
      BY <1>1, <1>2 DEF Levels
  <2>4. QED
      BY <2>1, <2>2, <2>3, SeenNumber
<1>4. Levels'
    BY <1>1, <1>2 DEF Levels
<1>5. QED
    BY <1>2, <1>3, <1>4 DEF PhaseInv, InPhase, Barriers

\* Analysing an event is what makes the machine see it.
LEMMA AnalysePhase ==
  ASSUME PhaseInv, Analyse
  PROVE  PhaseInv'
<1> DEFINE a == Head(pending)
<1>1. /\ Levels /\ pending # <<>> /\ a \in Barriers /\ Tail(pending) \in Seq(Barriers)
      /\ pending' = Tail(pending) /\ state_counter' = NextState(state_counter, a)
      /\ UNCHANGED <<level, lastState, outOfPhase>>
    BY DEF PhaseInv, Levels, Analyse, pins, history
<1>2. ASSUME NEW c \in Barriers
      PROVE  Seen(c) \in {0, 1} /\ Seen(c)' = IF a = c THEN 1 - Seen(c) ELSE Seen(c)
  <2>1. Number(pending', c) \in Nat /\ lastState[c] \in {0, 1} /\ lastState'[c] = lastState[c]
      BY <1>1, NumberType DEF Levels
  <2>2. Number(pending, c) = IF a = c THEN Number(pending', c) + 1 ELSE Number(pending', c)
      BY <1>1, NumberTaken DEF Levels
  <2>3. QED
      BY <2>1, <2>2, SeenNumber
<1>3. Levels'
    BY <1>1, NextStateType DEF Levels
<1>4. InPhase'
  <2>1. SUFFICES ASSUME ~outOfPhase
                 PROVE  state_counter' % 4 = Position(Seen("OUTDOOR")', Seen("INDOOR")')
      BY <1>1 DEF InPhase, Position
  <2>2. state_counter % 4 = Position(Seen("OUTDOOR"), Seen("INDOOR"))
      BY <2>1 DEF PhaseInv, InPhase
  <2>3. state_counter \in -3..3 /\ Seen("OUTDOOR") \in {0, 1} /\ Seen("INDOOR") \in {0, 1}
      BY <1>1, <1>2 DEF Levels, Barriers
  <2>4. CASE a = "OUTDOOR"
    <3>1. Seen("OUTDOOR")' = 1 - Seen("OUTDOOR") /\ Seen("INDOOR")' = Seen("INDOOR")
        BY <2>4, <1>2 DEF Barriers
    <3>2. QED
        BY <3>1, <2>2, <2>3, <2>4, <1>1, OnePosition
  <2>5. CASE a = "INDOOR"
    <3>1. Seen("OUTDOOR")' = Seen("OUTDOOR") /\ Seen("INDOOR")' = 1 - Seen("INDOOR")
        BY <2>5, <1>2 DEF Barriers
    <3>2. QED
        BY <3>1, <2>2, <2>3, <2>5, <1>1, OnePosition
  <2>6. QED
      BY <2>4, <2>5, <1>1 DEF Barriers
<1>5. QED
    BY <1>3, <1>4 DEF PhaseInv

\* A reset of the machine: in step exactly if the doorway is clear as far as the
\* machine has seen (checkBuffer).
LEMMA ForgetPhase ==
  ASSUME PhaseInv, Forget
  PROVE  PhaseInv'
<1>1. /\ UNCHANGED <<level, lastState, pending>> /\ state_counter' = 0
      /\ outOfPhase' = ~SeenClear
    BY DEF Forget, pins
<1>2. Levels'
    BY <1>1 DEF PhaseInv, Levels
<1>3. SeenClear => Seen("OUTDOOR")' = 0 /\ Seen("INDOOR")' = 0
    BY <1>1 DEF SeenClear, Seen, Of, Barriers
<1>4. QED
  <2>1. SeenClear => state_counter' % 4 = Position(Seen("OUTDOOR")', Seen("INDOOR")')
      BY <1>1, <1>3, ClearPosition
  <2>2. QED
      BY <1>1, <1>2, <2>1 DEF PhaseInv, InPhase

\* At the start no event is on its way and every barrier counts as clear.
LEMMA StartInPhase ==
  /\ Init => PhaseInv
  /\ PhaseInv /\ Restart => PhaseInv'
<1>1. Number(<<>>, "OUTDOOR") = 0 /\ Number(<<>>, "INDOOR") = 0
  <2>1. Places(<<>>, "OUTDOOR") = {} /\ Places(<<>>, "INDOOR") = {}
      BY DEF Places
  <2>2. QED
      BY <2>1, FS_EmptySet DEF Number
<1>2. ASSUME Init PROVE PhaseInv
  <2>1. Seen("OUTDOOR") = 0 /\ Seen("INDOOR") = 0
      BY <1>1, <1>2, SeenNumber DEF Init, Barriers
  <2>2. QED
    <3>1. /\ level \in [Barriers -> {0, 1}] /\ lastState = [b \in Barriers |-> 0]
          /\ pending = <<>> /\ state_counter = 0 /\ outOfPhase = FALSE
        BY <1>2 DEF Init
    <3>2. pending \in Seq(Barriers) /\ state_counter \in -3..3
      <4>1. <<>> \in Seq(Barriers) /\ 0 \in -3..3
          OBVIOUS
      <4>2. QED
          BY <3>1, <4>1
    <3>3. outOfPhase \in BOOLEAN
        BY <3>1
    <3>4. level \in [Barriers -> {0, 1}] /\ lastState \in [Barriers -> {0, 1}]
        BY <3>1
    <3>5. InPhase
        BY <3>1, <2>1, ClearPosition DEF InPhase
    <3>6. QED
        BY <3>2, <3>3, <3>4, <3>5 DEF PhaseInv, Levels
<1>3. ASSUME PhaseInv, Restart PROVE PhaseInv'
  <2>1. Seen("OUTDOOR")' = 0 /\ Seen("INDOOR")' = 0
      BY <1>1, <1>3, SeenNumber DEF Restart, Barriers
  <2>2. QED
    <3>1. /\ level' = level /\ lastState' = [b \in Barriers |-> 0]
          /\ pending' = <<>> /\ state_counter' = 0 /\ outOfPhase' = FALSE
        BY <1>3 DEF Restart
    <3>2. pending' \in Seq(Barriers) /\ state_counter' \in -3..3
      <4>1. <<>> \in Seq(Barriers) /\ 0 \in -3..3
          OBVIOUS
      <4>2. QED
          BY <3>1, <4>1
    <3>3. outOfPhase' \in BOOLEAN
        BY <3>1
    <3>4. level' \in [Barriers -> {0, 1}] /\ lastState' \in [Barriers -> {0, 1}]
        BY <3>1, <1>3 DEF PhaseInv, Levels
    <3>5. InPhase'
        BY <3>1, <2>1, ClearPosition DEF InPhase
    <3>6. QED
        BY <3>2, <3>3, <3>4, <3>5 DEF PhaseInv, Levels
<1>4. QED
    BY <1>2, <1>3

\* No step of the system brings machine and barriers out of step unnoticed.
LEMMA NextPhase == PhaseInv /\ [Next]_vars => PhaseInv'
<1> SUFFICES ASSUME PhaseInv, [Next]_vars PROVE PhaseInv'
    OBVIOUS
<1>0. Levels
    BY DEF PhaseInv
<1>1. ASSUME NEW b \in Barriers, EdgeDropped(b)
      PROVE  PhaseInv'
  <2>1. level' \in [Barriers -> {0, 1}]
      BY <1>0, <1>1, FlipsType DEF EdgeDropped
  <2>2. lastState' \in [Barriers -> {0, 1}]
      BY <2>1, <1>0, <1>1 DEF EdgeDropped, Records, Levels
  <2>3. QED
      BY <2>1, <2>2, <1>0, <1>1 DEF EdgeDropped, counter, PhaseInv, Levels, InPhase
<1>2. ASSUME NEW b \in Barriers, EdgeIgnored(b)
      PROVE  PhaseInv'
    BY <1>0, <1>2, FlipsType, PhaseKept DEF EdgeIgnored, counter
<1>3. ASSUME NEW b \in Barriers, Settle(b)
      PROVE  PhaseInv'
    BY <1>0, <1>3, PhaseKept DEF Settle, counter, history, Levels
<1>4. CASE Press \/ Toggle \/ SwitchNext
    BY <1>0, <1>4, PhaseKept DEF Press, Toggle, SwitchNext, pins, counter, history, Levels
<1>5. CASE UNCHANGED vars
    BY <1>0, <1>5, PhaseKept DEF vars, pins, counter, history, Levels
<1>6. QED
    BY <1>1, <1>2, <1>3, <1>4, <1>5, AcceptedPhase, AnalysePhase, ForgetPhase, StartInPhase DEF Next

-----------------------------------------------------------------------------
(* The rest of the types *)

CountsType ==
  /\ Len(pending) <= SIZE_PENDING
  /\ count \in 0..COUNT_LIMIT + 1
  /\ walk \in -3..3 /\ people \in 0..COUNT_LIMIT + 1

FlagsType ==
  /\ quiet \in [Barriers -> BOOLEAN]
  /\ xPressedButton \in BOOLEAN /\ missed \in BOOLEAN

\* A passage keeps the count within its limits (analyzer).
LEMMA NextCountType ==
  ASSUME NEW s \in -3..3, NEW b \in Barriers, NEW c \in 0..COUNT_LIMIT + 1
  PROVE  NextCount(s, b, c) \in 0..COUNT_LIMIT + 1
<1>1. COUNT_LIMIT \in Nat
    BY DoorwayAssumption
<1>2. /\ c <= COUNT_LIMIT => c + 1 \in 0..COUNT_LIMIT + 1
      /\ c > 0 => c - 1 \in 0..COUNT_LIMIT + 1
    BY <1>1
<1>3. QED
    BY <1>2 DEF NextCount

LEMMA WalkType ==
  ASSUME CountsType, FlagsType, NEW b \in Barriers, Walks(b) \/ Misses
  PROVE  walk' \in -3..3 /\ people' \in 0..COUNT_LIMIT + 1
<1>1. 0 \in 0..COUNT_LIMIT + 1
    BY DoorwayAssumption
<1>2. NextState(walk, b) \in -3..3 /\ NextCount(walk, b, people) \in 0..COUNT_LIMIT + 1
    BY NextStateType, NextCountType DEF CountsType
<1>3. QED
    BY <1>1, <1>2 DEF Walks, Misses, CountsType

\* The steps of the door.
LEMMA EdgeTypes ==
  ASSUME Levels, CountsType, FlagsType, NEW b \in Barriers,
         EdgeAccepted(b) \/ EdgeDropped(b) \/ EdgeIgnored(b) \/ Settle(b)
  PROVE  CountsType' /\ FlagsType'
<1>1. count' = count /\ xPressedButton' = xPressedButton
    BY DEF EdgeAccepted, EdgeDropped, EdgeIgnored, Settle, counter, button
<1>2. walk' \in -3..3 /\ people' \in 0..COUNT_LIMIT + 1
    BY WalkType DEF EdgeAccepted, EdgeDropped, EdgeIgnored, Settle, history, CountsType
<1>3. Len(pending') <= SIZE_PENDING
  <2>1. CASE EdgeAccepted(b)
      BY <2>1, DoorwayAssumption DEF EdgeAccepted, Levels
  <2>2. CASE pending' = pending
      BY <2>2 DEF CountsType
  <2>3. QED
      BY <2>1, <2>2 DEF EdgeDropped, EdgeIgnored, Settle, counter
<1>4. quiet' \in [Barriers -> BOOLEAN]
  <2>1. \/ quiet' = quiet
        \/ quiet' = [quiet EXCEPT ![b] = TRUE]
        \/ quiet' = [quiet EXCEPT ![b] = FALSE]
      BY DEF EdgeAccepted, EdgeDropped, EdgeIgnored, Settle, Records
  <2>2. QED
      BY <2>1 DEF FlagsType
<1>5. missed' \in BOOLEAN
  <2>1. missed' = missed \/ missed' = TRUE
      BY DEF EdgeAccepted, EdgeDropped, EdgeIgnored, Settle, Walks, Misses, history
  <2>2. QED
      BY <2>1, Zenon DEF FlagsType
<1>6. FlagsType'
    BY <1>1, <1>4, <1>5, Zenon DEF FlagsType
<1>7. CountsType'
    BY <1>1, <1>2, <1>3 DEF CountsType
<1>8. QED
    BY <1>6, <1>7

\* The steps of the tasks and of the button.
LEMMA TaskTypes ==
  ASSUME Levels, CountsType, FlagsType,
         Analyse \/ Forget \/ Press \/ Toggle \/ SwitchNext \/ UNCHANGED vars
  PROVE  CountsType' /\ FlagsType'
<1> USE DEF Analyse, Forget, Press, Toggle, SwitchNext, vars, pins, counter, button, history
<1>1. quiet' = quiet
    OBVIOUS
<1>2. walk' \in -3..3 /\ people' \in 0..COUNT_LIMIT + 1
    BY DoorwayAssumption DEF Misses, CountsType
<1>3. count' \in 0..COUNT_LIMIT + 1
  <2>1. CASE Analyse
    <3>1. Head(pending) \in Barriers
        BY <2>1 DEF Levels
    <3>2. NextCount(state_counter, Head(pending), count) \in 0..COUNT_LIMIT + 1
        BY <3>1, NextCountType DEF Levels, CountsType
    <3>3. QED
        BY <2>1, <3>2
  <2>2. CASE count' = count
      BY <2>2 DEF CountsType
  <2>3. QED
      BY <2>1, <2>2
<1>4. Len(pending') <= SIZE_PENDING
  <2>1. CASE Analyse
      BY <2>1, DoorwayAssumption DEF Levels, CountsType
  <2>2. CASE pending' = pending
      BY <2>2 DEF CountsType
  <2>3. QED
      BY <2>1, <2>2
<1>5. missed' \in BOOLEAN /\ xPressedButton' \in BOOLEAN
  <2>1. missed' = missed \/ missed' = TRUE
      BY DEF Misses
  <2>2. xPressedButton' = xPressedButton \/ xPressedButton' = TRUE \/ xPressedButton' = FALSE
      OBVIOUS
  <2>3. QED
      BY <2>1, <2>2, Zenon DEF FlagsType
<1>6. QED
    BY <1>1, <1>2, <1>3, <1>4, <1>5, Zenon DEF CountsType, FlagsType

LEMMA InitTypes == Init => CountsType /\ FlagsType
<1> SUFFICES ASSUME Init PROVE CountsType /\ FlagsType
    OBVIOUS
<1>1. CountsType
    BY DoorwayAssumption DEF Init, CountsType
<1>2. FlagsType
    BY Zenon DEF Init, FlagsType
<1>3. QED
    BY <1>1, <1>2

LEMMA RestartTypes == Restart => CountsType' /\ FlagsType'
<1> SUFFICES ASSUME Restart PROVE CountsType' /\ FlagsType'
    OBVIOUS
<1>1. CountsType'
    BY DoorwayAssumption DEF Restart, CountsType
<1>2. FlagsType'
    BY Zenon DEF Restart, FlagsType
<1>3. QED
    BY <1>1, <1>2

-----------------------------------------------------------------------------
(* The passages at the door and the count *)

\* f and g are the states and counts through which the events on their way will
\* lead the machine: from its own to those of the passages at the door.
Leads(f, g) ==
  /\ f[0] = state_counter /\ g[0] = count
  /\ \A n \in 1..Len(pending) :
       /\ f[n] = NextState(f[n - 1], pending[n])
       /\ g[n] = NextCount(f[n - 1], pending[n], g[n - 1])
  /\ f[Len(pending)] = walk /\ g[Len(pending)] = people

Agrees == ~missed => \E f, g : Leads(f, g)

\* A restart, like the first start, begins with no events and the history of a
\* device that has missed nothing.
LEMMA StartAgrees == (Init => Agrees) /\ (Restart => Agrees')
<1>1. ASSUME Init PROVE Agrees
  <2> SUFFICES ASSUME ~missed PROVE Leads([n \in {0} |-> 0], [n \in {0} |-> count])
      BY DEF Agrees
  <2>1. pending = <<>> /\ state_counter = 0 /\ walk = 0 /\ people = count
      BY <1>1 DEF Init
  <2>2. QED
      BY <2>1 DEF Leads
<1>2. ASSUME Restart PROVE Agrees'
  <2> SUFFICES ASSUME ~missed' PROVE \E f, g : Leads(f, g)'
      BY DEF Agrees
  <2>1. pending' = <<>> /\ state_counter' = 0 /\ walk' = 0 /\ people' = count'
      BY <1>2 DEF Restart
  <2>2. PICK f, g : f[0] = 0 /\ g[0] = count'
    <3> WITNESS [n \in {0} |-> 0], [n \in {0} |-> count']
    <3>1. QED
        OBVIOUS
  <2>3. Leads(f, g)'
      BY <2>1, <2>2 DEF Leads
  <2>4. QED
      BY <2>3
<1>3. QED
    BY <1>1, <1>2

\* An accepted edge is one more step at the door and one more event.
LEMMA AcceptedAgrees ==
  ASSUME Levels, Agrees, NEW b \in Barriers, EdgeAccepted(b)
  PROVE  Agrees'
<1> SUFFICES ASSUME ~missed' PROVE \E f, g : Leads(f, g)'
    BY DEF Agrees
<1>1. /\ ~missed /\ walk' = NextState(walk, b) /\ people' = NextCount(walk, b, people)
      /\ pending' = Append(pending, b) /\ UNCHANGED <<state_counter, count>>
    BY DEF EdgeAccepted, Walks
<1>2. PICK f, g : Leads(f, g)
    BY <1>1 DEF Agrees
<1> DEFINE N == Len(pending)
<1>p. PICK f2, g2 :
        /\ f2 = [n \in 0..N + 1 |-> IF n <= N THEN f[n] ELSE walk']
        /\ g2 = [n \in 0..N + 1 |-> IF n <= N THEN g[n] ELSE people']
    OBVIOUS
<1>3. /\ N \in Nat /\ Len(pending') = N + 1
      /\ \A n \in 1..N : pending'[n] = pending[n]
      /\ pending'[N + 1] = b
    BY <1>1 DEF Levels
<1>4. /\ \A n \in 0..N : f2[n] = f[n] /\ g2[n] = g[n]
      /\ f2[N + 1] = walk' /\ g2[N + 1] = people'
    BY <1>3, <1>p
<1> HIDE DEF N
<1>5. f2[0] = state_counter' /\ g2[0] = count'
    BY <1>1, <1>2, <1>3, <1>4 DEF Leads, N
<1>6. ASSUME NEW n \in 1..N + 1
      PROVE  /\ f2[n] = NextState(f2[n - 1], pending'[n])
             /\ g2[n] = NextCount(f2[n - 1], pending'[n], g2[n - 1])
  <2>1. CASE n = N + 1
    <3>1. n - 1 = N /\ f2[n - 1] = walk /\ g2[n - 1] = people
        BY <1>2, <1>3, <1>4, <2>1 DEF Leads, N
    <3>2. QED
        BY <1>1, <1>3, <1>4, <2>1, <3>1
  <2>2. CASE n \in 1..N
    <3>1. n \in 0..N /\ n - 1 \in 0..N
        BY <1>3, <2>2
    <3>2. f2[n] = f[n] /\ f2[n - 1] = f[n - 1] /\ g2[n] = g[n] /\ g2[n - 1] = g[n - 1]
        BY <1>4, <3>1
    <3>3. pending'[n] = pending[n]
        BY <1>3, <2>2
    <3>4. QED
        BY <1>2, <2>2, <3>2, <3>3 DEF Leads, N
  <2>3. QED
      BY <1>3, <2>1, <2>2
<1>7. Leads(f2, g2)'
    BY <1>3, <1>4, <1>5, <1>6 DEF Leads
<1>8. QED
    BY <1>7

\* Analysing an event takes the machine one step along the way.
LEMMA AnalyseAgrees ==
  ASSUME Levels, Agrees, Analyse
  PROVE  Agrees'
<1> SUFFICES ASSUME ~missed' PROVE \E f, g : Leads(f, g)'
    BY DEF Agrees
<1>1. /\ ~missed /\ UNCHANGED <<walk, people>>
      /\ pending # <<>> /\ pending' = Tail(pending)
      /\ state_counter' = NextState(state_counter, Head(pending))
      /\ count' = NextCount(state_counter, Head(pending), count)
    BY DEF Analyse, history
<1>2. PICK f, g : Leads(f, g)
    BY <1>1 DEF Agrees
<1> DEFINE N == Len(pending)
<1>p. PICK f2, g2 :
        /\ f2 = [n \in 0..N - 1 |-> f[n + 1]]
        /\ g2 = [n \in 0..N - 1 |-> g[n + 1]]
    OBVIOUS
<1>3. /\ N \in Nat \ {0} /\ Len(pending') = N - 1 /\ Head(pending) = pending[1]
      /\ \A n \in 1..N - 1 : pending'[n] = pending[n + 1]
    BY <1>1 DEF Levels
<1>4. \A n \in 0..N - 1 : f2[n] = f[n + 1] /\ g2[n] = g[n + 1]
    BY <1>p
<1> HIDE DEF N
<1>5. f2[0] = state_counter' /\ g2[0] = count'
  <2>1. f2[0] = f[1] /\ g2[0] = g[1] /\ 1 \in 1..N /\ 1 - 1 = 0
      BY <1>3, <1>4
  <2>2. /\ f[1] = NextState(f[0], pending[1])
        /\ g[1] = NextCount(f[0], pending[1], g[0])
      BY <1>2, <2>1 DEF Leads, N
  <2>3. QED
      BY <1>1, <1>2, <1>3, <2>1, <2>2 DEF Leads
<1>6. ASSUME NEW n \in 1..N - 1
      PROVE  /\ f2[n] = NextState(f2[n - 1], pending'[n])
             /\ g2[n] = NextCount(f2[n - 1], pending'[n], g2[n - 1])
  <2>1. /\ n + 1 \in 1..N /\ n \in 0..N - 1 /\ n - 1 \in 0..N - 1
        /\ (n - 1) + 1 = n /\ (n + 1) - 1 = n
      BY <1>3
  <2>2. f2[n] = f[n + 1] /\ f2[n - 1] = f[n] /\ g2[n] = g[n + 1] /\ g2[n - 1] = g[n]
      BY <1>4, <2>1
  <2>3. /\ f[n + 1] = NextState(f[n], pending[n + 1])
        /\ g[n + 1] = NextCount(f[n], pending[n + 1], g[n])
      BY <1>2, <2>1 DEF Leads, N
  <2>4. QED
      BY <1>3, <2>2, <2>3
<1>7. f2[N - 1] = walk' /\ g2[N - 1] = people'
  <2>1. N - 1 \in 0..N - 1 /\ (N - 1) + 1 = N
      BY <1>3
  <2>2. QED
      BY <1>1, <1>2, <1>4, <2>1 DEF Leads, N
<1>8. Leads(f2, g2)'
    BY <1>3, <1>5, <1>6, <1>7 DEF Leads
<1>9. QED
    BY <1>8

LEMMA NextAgrees == Levels /\ Agrees /\ [Next]_vars => Agrees'
<1> SUFFICES ASSUME Levels, Agrees, [Next]_vars PROVE Agrees'
    OBVIOUS
<1>1. ASSUME NEW b \in Barriers, EdgeDropped(b) \/ EdgeIgnored(b)
      PROVE  Agrees'
    BY <1>1 DEF EdgeDropped, EdgeIgnored, Misses, Agrees
<1>2. CASE UNCHANGED <<pending, state_counter, count, walk, people, missed>>
    BY <1>2 DEF Agrees, Leads
<1>3. CASE Forget
  <2>1. CASE state_counter = 0
      BY <1>2, <1>3, <2>1 DEF Forget
  <2>2. CASE state_counter # 0
      BY <1>3, <2>2 DEF Forget, Misses, Agrees
  <2>3. QED
      BY <2>1, <2>2
<1>4. ASSUME NEW b \in Barriers, Settle(b)
      PROVE  Agrees'
    BY <1>2, <1>4 DEF Settle, counter, history
<1>5. CASE Press \/ Toggle \/ SwitchNext \/ UNCHANGED vars
    BY <1>2, <1>5 DEF Press, Toggle, SwitchNext, vars, counter, history
<1>6. QED
    BY <1>1, <1>3, <1>4, <1>5, AcceptedAgrees, AnalyseAgrees, StartAgrees DEF Next

-----------------------------------------------------------------------------
(* The theorems *)

\* pauseOtherTasks keeps to its order, however the button is pressed.
THEOREM SwitchingInOrder == Spec => []SwitchedInOrder
<1>1. QED
    BY InitSwitched, NextSwitched, PTL DEF Spec

\* Out of test mode every task runs and every handler is installed.
THEOREM EverybodyComesBack == Spec => []AllBackAtWork
<1>1. SwitchedInOrder => AllBackAtWork
    BY DEF SwitchedInOrder, AllBackAtWork
<1>2. QED
    BY <1>1, SwitchingInOrder, PTL

\* In test mode no event is accepted and nothing is analysed or counted: the
\* steps that do need a handler or a task that runs.
THEOREM NothingHappensInTestMode == Spec => TestModeIsSilent
<1> DEFINE Silent == testMode = "blink" => UNCHANGED <<lastState, counter>> \/ Restart
<1>1. SwitchedInOrder /\ [Next]_vars => [Silent]_vars
  <2> SUFFICES ASSUME SwitchedInOrder, Next, testMode = "blink", ~Restart
               PROVE  UNCHANGED <<lastState, counter>>
      OBVIOUS
  <2>1. running = {}
      BY DEF SwitchedInOrder
  <2>2. ~Analyse /\ ~Forget
      BY <2>1 DEF Analyse, Forget
  <2>3. ASSUME NEW b \in Barriers
        PROVE  ~EdgeAccepted(b) /\ ~EdgeDropped(b)
      BY <2>1 DEF EdgeAccepted, EdgeDropped, Accepts
  <2>4. ASSUME NEW b \in Barriers, EdgeIgnored(b) \/ Settle(b)
        PROVE  UNCHANGED <<lastState, counter>>
      BY <2>4 DEF EdgeIgnored, Settle
  <2>5. CASE Press \/ Toggle \/ SwitchNext
      BY <2>5 DEF Press, Toggle, SwitchNext, pins
  <2>6. QED
      BY <2>2, <2>3, <2>4, <2>5 DEF Next
<1>2. QED
    BY <1>1, SwitchingInOrder, PTL DEF Spec, TestModeIsSilent

\* The machine is in step with the barriers, whatever the sizes of queue and
\* buffer: an accepted edge changes the level and adds an event, and analysing
\* the event makes up for both.
THEOREM MachineInPhase == Spec => []InPhase
<1>1. PhaseInv => InPhase
    BY DEF PhaseInv
<1>2. QED
    BY <1>1, StartInPhase, NextPhase, PTL DEF Spec

\* Queue and buffer hold no more than they have room for, and machine and count
\* stay in their ranges, over restarts and test mode.
THEOREM TypeCorrect == Spec => []TypeOK
<1> DEFINE I == SwitchedInOrder /\ PhaseInv /\ CountsType /\ FlagsType
<1>1. Init => I
    BY InitSwitched, StartInPhase, InitTypes
<1>2. I /\ [Next]_vars => I'
  <2> SUFFICES ASSUME I, [Next]_vars PROVE I'
      OBVIOUS
  <2>1. Levels
      BY DEF PhaseInv
  <2>2. CountsType' /\ FlagsType'
      BY <2>1, EdgeTypes, TaskTypes, RestartTypes DEF Next
  <2>3. QED
      BY <2>2, NextSwitched, NextPhase
<1>3. I => TypeOK
  <2> SUFFICES ASSUME I PROVE TypeOK
      OBVIOUS
  <2>1. running \subseteq Everything
      BY DEF SwitchedInOrder, Before, Order, Everything
  <2>2. step \in DOMAIN Order
      BY AllBefore DEF SwitchedInOrder
  <2>3. QED
      BY <2>1, <2>2, Zenon DEF SwitchedInOrder, PhaseInv, Levels, CountsType, FlagsType, TypeOK
<1>4. QED
    BY <1>1, <1>2, <1>3, PTL DEF Spec

\* From the door to the count, whatever the sizes of queue and buffer: once all
\* events are analysed, machine and count are what the passages at the door made
\* them, unless an edge was missed or a passage given up.
THEOREM PassagesCounted == Spec => []CountsPassages
<1>1. Agrees => CountsPassages
  <2> SUFFICES ASSUME Agrees, ~missed, pending = <<>>
               PROVE  state_counter = walk /\ count = people
      BY DEF CountsPassages
  <2>1. PICK f, g : Leads(f, g)
      BY DEF Agrees
  <2>2. QED
      BY <2>1 DEF Leads
<1>2. PhaseInv /\ Agrees /\ [Next]_vars => PhaseInv' /\ Agrees'
    BY NextPhase, NextAgrees DEF PhaseInv
<1>3. QED
    BY StartInPhase, StartAgrees, <1>1, <1>2, PTL DEF Spec

=============================================================================
