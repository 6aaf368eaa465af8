----------------------------- MODULE SendClock -----------------------------
(***************************************************************************)
(* The clock of task sendFromNVS in test_sensor_lab/main/countingAlgo.c:   *)
(* every SEND_COUNT_DELAY the task looks at the local time, restarts the   *)
(* device in the two reset windows of the day, and otherwise fetches a new *)
(* prediction when enough minutes went by.                                 *)
(*                                                                         *)
(* Time is the minute of the day.  A step is one round of the task: the    *)
(* delay, up to SLACK minutes for the semaphore and the network, and the   *)
(* decisions.  Test mode suspends the task; when it ends, vTaskResume also *)
(* ends the delay, so that a round may take fewer or more minutes.         *)
(***************************************************************************)
EXTENDS Integers

CONSTANTS
  SEND_COUNT_DELAY,  \* minutes the task sleeps
  SLACK,             \* minutes a round may take besides
  BOOT,              \* minutes from a restart to the task's first delay
  RESET_COUNT_HOUR, RESET_COUNT_HOUR2,
  RESET_COUNT_MIN,   \* the first minutes of those hours
  REFRESH_MIN,       \* minutes after which the prediction is fetched
  MAX_TEST,          \* bound of the model: length of a round with test mode,
                     \* 0 without test modes
  MAX_AGE            \* bound of the model: the prediction's age is not
                     \* counted further

DAY == 24 * 60

ASSUME ClockAssumption ==
  /\ SEND_COUNT_DELAY \in 1..DAY /\ SLACK \in Nat /\ BOOT \in Nat
  /\ RESET_COUNT_HOUR \in 0..23 /\ RESET_COUNT_HOUR2 \in 0..23
  /\ RESET_COUNT_MIN \in 1..60 /\ RESET_COUNT_MIN + BOOT <= 60
  /\ SEND_COUNT_DELAY + SLACK + BOOT < RESET_COUNT_MIN
  /\ REFRESH_MIN \in 1..59
  /\ MAX_TEST \in 0..DAY - 1 /\ MAX_AGE \in Nat

VARIABLES
  now,               \* minute of the day
  previousTime_min,  \* minute of the hour of the last refresh
  age,               \* minutes since the prediction was fetched
  resets,            \* resets in the reset window that is open
  restarted,         \* the OTA task restarted the device in that window
  tested             \* a test mode ended in that window

vars == <<now, previousTime_min, age, resets, restarted, tested>>

Minute(t) == t % 60
Hour(t)   == t \div 60
After(d)  == (now + d) % DAY
Least(a, b) == IF a < b THEN a ELSE b

\* Minute t of the day is reached within the next d minutes.
Reached(t, d) == (t - now) % DAY \in 1..d

Windows == {RESET_COUNT_HOUR * 60, RESET_COUNT_HOUR2 * 60}
Opens(d)  == \E w \in Windows : Reached(w, d)
Closes(d) == \E w \in Windows : Reached(w + RESET_COUNT_MIN, d)

\* History of a step of d minutes: what is counted starts anew with a window,
\* and is forgotten outside.
SameWindow(d) ==
  /\ \E w \in Windows : (now - w) % DAY < RESET_COUNT_MIN
  /\ ~Opens(d)

History(d, reset, ota, test) ==
  /\ resets' = (IF SameWindow(d) THEN resets ELSE 0) + reset
  /\ restarted' = (ota \/ (SameWindow(d) /\ restarted))
  /\ tested' = (test \/ (SameWindow(d) /\ tested))

\* The task starts with a prediction that start_counting_algo has just fetched.
Init ==
  /\ now \in 0..DAY - 1
  /\ previousTime_min = Minute(now)
  /\ age = 0
  /\ resets = 0
  /\ restarted = TRUE
  /\ tested = FALSE

\* Mutant: the second reset hour is forgotten.
InFirstResetHour(t) == Hour(t) = RESET_COUNT_HOUR /\ Minute(t) < RESET_COUNT_MIN

\* Mutant: one minute too many.
InResetHourInclusive(t) ==
  /\ Hour(t) \in {RESET_COUNT_HOUR, RESET_COUNT_HOUR2}
  /\ Minute(t) <= RESET_COUNT_MIN

InResetHour(t) ==
  /\ Hour(t) \in {RESET_COUNT_HOUR, RESET_COUNT_HOUR2}
  /\ Minute(t) < RESET_COUNT_MIN

\* d minutes pass, and the device boots for b minutes.
Reboot(d, b) ==
  /\ now' = After(d + b)
  /\ previousTime_min' = Minute(now')
  /\ age' = 0

\* setCount_backup(0) and esp_restart, after d minutes; t tells of a test mode.
Reset(d, b, t) ==
  /\ InResetHour(After(d))
  /\ Reboot(d, b)
  /\ History(d, 1, FALSE, t)

RefreshDue(t) == Minute(t) - previousTime_min >= REFRESH_MIN

Wait(d, t) ==
  /\ ~InResetHour(After(d))
  /\ now' = After(d)
  /\ History(d, 0, FALSE, t)

\* Mutant: the minute of the day is kept, not that of the hour.
RefreshKeepsTime(d, t) ==
  /\ Wait(d, t)
  /\ RefreshDue(After(d))
  /\ previousTime_min' = After(d)
  /\ age' = 0

\* getPrediction
Refresh(d, t) ==
  /\ Wait(d, t)
  /\ RefreshDue(After(d))
  /\ previousTime_min' = Minute(After(d))
  /\ age' = 0

Sleep(d, t) ==
  /\ Wait(d, t)
  /\ ~RefreshDue(After(d))
  /\ age' = Least(age + d, MAX_AGE)
  /\ UNCHANGED previousTime_min

Decide(d, t) ==
  \/ \E b \in 0..BOOT : Reset(d, b, t)
  \/ Refresh(d, t)
  \/ Sleep(d, t)

\* The usual delay.
Round == \E d \in SEND_COUNT_DELAY..SEND_COUNT_DELAY + SLACK : Decide(d, FALSE)

\* pauseOtherTasks suspends the task and, d minutes after its last decision,
\* has resumed it: it decides at once, however long it has slept.
TestRound == \E d \in 1..MAX_TEST : Decide(d, TRUE)

\* Task updateOTA restarts the device before the round ends.
OtaRestart ==
  \E d \in 0..SEND_COUNT_DELAY - 1, b \in 0..BOOT :
    /\ Reboot(d, b)
    /\ History(d + b, 0, TRUE, FALSE)

Next == Round \/ TestRound \/ OtaRestart

Spec == Init /\ [][Next]_vars

-----------------------------------------------------------------------------
(* Properties *)

TypeOK ==
  /\ now \in 0..DAY - 1
  /\ previousTime_min \in 0..59
  /\ age \in 0..MAX_AGE
  /\ resets \in Nat
  /\ restarted \in BOOLEAN /\ tested \in BOOLEAN

\* The device, which is back before its window is over, resets again, but
\* without a test mode no more often than the delay fits into the window.
ResetsPerWindow ==
  tested \/ (resets - 1) * SEND_COUNT_DELAY < RESET_COUNT_MIN

\* Elapsed minutes of a step.
Elapsed == (now' - now) % DAY

\* "we reset between 5:00 - 5:15 and 23:00 - 23:15 the counter" (mySetup.h): no
\* window closes without a reset, unless the OTA task restarted the device in
\* it or test mode kept the task from running when it closed.  A test mode that
\* ends before does no harm, because it ends the delay of the task too.
WindowNeverMissed ==
  [][ Closes(Elapsed) => \/ resets' > 0 \/ restarted'
                         \/ Elapsed > SEND_COUNT_DELAY + SLACK ]_vars

\* "update every 15 min the prediction", says the comment at the comparison: the
\* prediction is not even an hour late, whatever minutes of the hour are compared.
\* Without test modes and slack the task looks at the same minutes every hour, so
\* that a refresh that is an hour late never comes before a restart.
PredictionUpdated == age < 60 + REFRESH_MIN + SEND_COUNT_DELAY + SLACK

=============================================================================
