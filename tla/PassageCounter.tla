--------------------------- MODULE PassageCounter ---------------------------
(***************************************************************************)
(* What the counting pipeline promises, without queue, buffer, tasks or    *)
(* semaphores: accepted barrier events are analysed one at a time, in the  *)
(* order in which they arrived, and the count follows the completed        *)
(* passages among them.  The state and the promise are those of            *)
(* test_sensor_lab/main/countingAlgo.c; module Counting implements them.   *)
(***************************************************************************)
EXTENDS Integers, Sequences

CONSTANTS COUNT_LIMIT, BadFetch

VARIABLES
  pending,  \* accepted events that are not analysed yet, oldest first
  state,    \* progress of the passage: -3..3
  count,    \* people in the room
  backup    \* the value on the IoT platform

vars == <<pending, state, count, backup>>

Barriers == {"OUTDOOR", "INDOOR"}

Init ==
  /\ pending = <<>>
  /\ state = 0
  /\ backup \in 0..COUNT_LIMIT + 1
  /\ count \in {backup} \cup BadFetch

Accept == \E b \in Barriers : pending' = Append(pending, b)
                              /\ UNCHANGED <<state, count, backup>>

\* An event takes the passage one step on or one step back.
Toward(s, b) ==
  CASE s % 2 = 0 /\ b = "OUTDOOR" -> s + 1
    [] s % 2 = 0 /\ b = "INDOOR"  -> s - 1
    [] s % 2 = 1 /\ b = "OUTDOOR" -> s - 1
    [] s % 2 = 1 /\ b = "INDOOR"  -> s + 1

\* The oldest event is analysed; a completed passage is counted at once, and
\* the count stays within 0..COUNT_LIMIT+1 whatever it was restored to.
Analyse ==
  /\ pending # <<>>
  /\ LET next == Toward(state, Head(pending)) IN
     CASE next = 4  -> /\ state' = 0
                       /\ count' = IF count > COUNT_LIMIT THEN count ELSE count + 1
       [] next = -4 -> /\ state' = 0
                       /\ count' = IF count = 0 THEN 0 ELSE count - 1
       [] OTHER     -> state' = next /\ UNCHANGED count
  /\ pending' = Tail(pending)
  /\ UNCHANGED backup

\* An unfinished passage is given up.
Forget == state' = 0 /\ UNCHANGED <<pending, count, backup>>

\* The platform receives the current count, or the zero of the reset hours.
Save == backup' \in {count, 0} /\ UNCHANGED <<pending, state, count>>

\* The device restarts from the platform's value.
Restart ==
  /\ pending' = <<>>
  /\ state' = 0
  /\ count' \in {backup} \cup BadFetch
  /\ UNCHANGED backup

Next == Accept \/ Analyse \/ Forget \/ Save \/ Restart

Spec == Init /\ [][Next]_vars

=============================================================================
