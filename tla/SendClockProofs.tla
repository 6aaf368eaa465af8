--------------------------- MODULE SendClockProofs ---------------------------
(***************************************************************************)
(* Proofs, for every value of the constants, of the invariants and of the  *)
(* action property of module SendClock.                                    *)
(***************************************************************************)
EXTENDS SendClock, TLAPS

-----------------------------------------------------------------------------
(* The hours of a day *)

\* The minutes since the last time that it was minute w of the day.
Since(t, w) == (t - w) % DAY

\* A difference of two minutes of the day is reduced by adding a day.
LEMMA SinceIs ==
  ASSUME NEW t \in 0..DAY - 1, NEW w \in 0..DAY - 1
  PROVE  Since(t, w) = IF t < w THEN t - w + DAY ELSE t - w
BY DEF Since, DAY

\* d minutes from now it is minute now + d, or less a day.
LEMMA AfterIs ==
  ASSUME now \in 0..DAY - 1, NEW d \in 0..DAY
  PROVE  After(d) = IF now + d < DAY THEN now + d ELSE now + d - DAY
BY DEF After, DAY

LEMMA DayIs == DAY = 1440
BY DEF DAY

\* The hour and the minute of a minute of the day.
LEMMA SplitMinute ==
  ASSUME NEW t \in 0..DAY - 1
  PROVE  t = 60 * (t \div 60) + (t % 60) /\ t % 60 \in 0..59 /\ t \div 60 \in 0..23
<1>1. t \in Int /\ 0 <= t /\ t < 1440 BY DEF DAY
<1>2. ASSUME NEW n \in Int PROVE n = 60 * (n \div 60) + (n % 60)
  BY SMT
<1>3. t % 60 \in 0..59 /\ t \div 60 \in Int BY <1>1
<1> QED BY <1>1, <1>2, <1>3

\* A window opens at a full hour.
LEMMA WindowHour ==
  ASSUME NEW w \in Windows
  PROVE  \E h \in {RESET_COUNT_HOUR, RESET_COUNT_HOUR2} :
           h \in 0..23 /\ w = h * 60
BY ClockAssumption DEF Windows

LEMMA WindowInDay == \A w \in Windows : w \in 0..DAY - 60 /\ w \in 0..DAY - 1
BY WindowHour DEF DAY

\* The test of the task for the reset hours says whether a window is open.
LEMMA InResetHourIs ==
  ASSUME NEW t \in 0..DAY - 1
  PROVE  InResetHour(t) <=> \E w \in Windows : Since(t, w) < RESET_COUNT_MIN
<1>1. ASSUME NEW h \in 0..23
      PROVE  (t \div 60 = h /\ t % 60 < RESET_COUNT_MIN)
               <=> Since(t, h * 60) < RESET_COUNT_MIN
  <2>1. h * 60 \in 0..DAY - 60 /\ h * 60 \in 0..DAY - 1 BY DEF DAY
  <2>2. Since(t, h * 60) = IF t < h * 60 THEN t - h * 60 + DAY ELSE t - h * 60
    BY <2>1, SinceIs
  <2>3. t = 60 * (t \div 60) + (t % 60) /\ t % 60 \in 0..59 /\ t \div 60 \in 0..23
    BY SplitMinute
  <2>4. RESET_COUNT_MIN \in 1..60 BY ClockAssumption
  <2>5. CASE t \div 60 = h BY <2>2, <2>3, <2>4, <2>5 DEF DAY
  <2>6. CASE t \div 60 < h BY <2>2, <2>3, <2>4, <2>6 DEF DAY
  <2>7. CASE t \div 60 > h BY <2>2, <2>3, <2>4, <2>7 DEF DAY
  <2> QED BY <2>3, <2>5, <2>6, <2>7
<1>2. InResetHour(t) <=> \/ t \div 60 = RESET_COUNT_HOUR /\ t % 60 < RESET_COUNT_MIN
                         \/ t \div 60 = RESET_COUNT_HOUR2 /\ t % 60 < RESET_COUNT_MIN
  BY DEF InResetHour, Hour, Minute
<1>3. InResetHour(t) <=> \/ Since(t, RESET_COUNT_HOUR * 60) < RESET_COUNT_MIN
                         \/ Since(t, RESET_COUNT_HOUR2 * 60) < RESET_COUNT_MIN
  BY <1>1, <1>2, ClockAssumption
<1> QED BY <1>3 DEF Windows

\* At most one window has opened within the hour.
LEMMA OneWindow ==
  ASSUME NEW t \in 0..DAY - 1, NEW v \in Windows, NEW w \in Windows,
         Since(t, v) < 60, Since(t, w) < 60
  PROVE  v = w
<1>1. v \in 0..DAY - 60 /\ w \in 0..DAY - 60 BY WindowInDay
<1>2. /\ Since(t, v) = IF t < v THEN t - v + DAY ELSE t - v
      /\ Since(t, w) = IF t < w THEN t - w + DAY ELSE t - w
  BY WindowInDay, SinceIs
<1>3. PICK h \in 0..23 : v = h * 60 BY WindowHour
<1>4. PICK k \in 0..23 : w = k * 60 BY WindowHour
<1>5. t - v \in 0..59 /\ t - w \in 0..59
  BY <1>1, <1>2, ClockAssumption DEF DAY
<1> QED BY <1>3, <1>4, <1>5

-----------------------------------------------------------------------------
(* Type correctness *)

LEMMA MinutesOfHour == \A t \in Nat : Minute(t) \in 0..59
BY DEF Minute

LEMMA AfterIsMinute ==
  ASSUME now \in 0..DAY - 1, NEW d \in Nat
  PROVE  After(d) \in 0..DAY - 1
BY DEF After, DAY

LEMMA HistoryTypes ==
  ASSUME TypeOK, NEW d, NEW reset \in Nat, NEW ota \in BOOLEAN, NEW t \in BOOLEAN,
         History(d, reset, ota, t)
  PROVE  resets' \in Nat /\ restarted' \in BOOLEAN /\ tested' \in BOOLEAN
<1>1. resets' \in Nat BY SMT DEF History, TypeOK
<1>2. restarted' \in BOOLEAN /\ tested' \in BOOLEAN BY DEF History
<1> QED BY <1>1, <1>2

LEMMA RebootTypes ==
  ASSUME TypeOK, NEW d \in Nat, NEW b \in Nat, Reboot(d, b)
  PROVE  now' \in 0..DAY - 1 /\ previousTime_min' \in 0..59 /\ age' \in 0..MAX_AGE
<1>1. d + b \in Nat /\ now \in 0..DAY - 1 BY DEF TypeOK
<1>2. now' \in 0..DAY - 1 BY <1>1, AfterIsMinute DEF Reboot
<1>3. now' \in Nat BY <1>2 DEF DAY
<1>4. previousTime_min' \in 0..59 BY <1>3, MinutesOfHour DEF Reboot
<1>5. age' \in 0..MAX_AGE BY ClockAssumption DEF Reboot
<1> QED BY <1>2, <1>4, <1>5

LEMMA DecideTypes ==
  ASSUME TypeOK, NEW d \in Nat, NEW t \in BOOLEAN, Decide(d, t)
  PROVE  TypeOK'
<1>0. now \in 0..DAY - 1 BY DEF TypeOK
<1>1. CASE \E b \in 0..BOOT : Reset(d, b, t)
  <2>1. PICK b \in 0..BOOT : Reset(d, b, t) BY <1>1
  <2>2. b \in Nat BY ClockAssumption
  <2> QED BY <2>1, <2>2, RebootTypes, HistoryTypes DEF Reset, TypeOK
<1>2. CASE Refresh(d, t)
  <2>1. After(d) \in 0..DAY - 1 BY <1>0, AfterIsMinute
  <2>2. After(d) \in Nat BY <2>1, SMTT(30) DEF DAY
  <2>3. previousTime_min' \in 0..59 BY <1>2, <2>2, MinutesOfHour DEF Refresh
  <2>4. age' \in 0..MAX_AGE BY <1>2, ClockAssumption DEF Refresh
  <2> QED BY <1>2, <2>1, <2>3, <2>4, HistoryTypes DEF Refresh, Wait, TypeOK
<1>3. CASE Sleep(d, t)
  <2>1. After(d) \in 0..DAY - 1 BY <1>0, AfterIsMinute
  <2>2. previousTime_min' \in 0..59 BY <1>3 DEF Sleep, TypeOK
  <2>3. age' \in 0..MAX_AGE BY <1>3, ClockAssumption DEF Sleep, Least, TypeOK
  <2> QED BY <1>3, <2>1, <2>2, <2>3, HistoryTypes DEF Sleep, Wait, TypeOK
<1> QED BY <1>1, <1>2, <1>3 DEF Decide

\* Every step is a decision of the task after some minutes, or an OTA restart.
LEMMA RoundLengths ==
  /\ Round => \E d \in SEND_COUNT_DELAY..SEND_COUNT_DELAY + SLACK :
                d \in 1..59 /\ Decide(d, FALSE)
  /\ TestRound => \E d \in 1..DAY - 1 : Decide(d, TRUE)
  /\ OtaRestart => \E d \in 0..SEND_COUNT_DELAY - 1, b \in 0..BOOT :
                     d + b \in 0..58 /\ Reboot(d, b) /\ History(d + b, 0, TRUE, FALSE)
<1>1. Round => \E d \in SEND_COUNT_DELAY..SEND_COUNT_DELAY + SLACK :
                 d \in 1..59 /\ Decide(d, FALSE)
  <2>1. \A d \in SEND_COUNT_DELAY..SEND_COUNT_DELAY + SLACK : d \in 1..59
    BY ClockAssumption
  <2> QED BY <2>1 DEF Round
<1>2. TestRound => \E d \in 1..DAY - 1 : Decide(d, TRUE)
  <2>1. \A d \in 1..MAX_TEST : d \in 1..DAY - 1 BY ClockAssumption DEF DAY
  <2> QED BY <2>1 DEF TestRound
<1>3. OtaRestart => \E d \in 0..SEND_COUNT_DELAY - 1, b \in 0..BOOT :
                      d + b \in 0..58 /\ Reboot(d, b) /\ History(d + b, 0, TRUE, FALSE)
  <2>1. \A d \in 0..SEND_COUNT_DELAY - 1, b \in 0..BOOT : d + b \in 0..58
    BY ClockAssumption DEF DAY
  <2> QED BY <2>1 DEF OtaRestart
<1> QED BY <1>1, <1>2, <1>3

LEMMA TypeInv == TypeOK /\ [Next]_vars => TypeOK'
<1> SUFFICES ASSUME TypeOK, [Next]_vars PROVE TypeOK' OBVIOUS
<1>1. CASE Round
  <2>1. PICK d \in 1..59 : Decide(d, FALSE) BY <1>1, RoundLengths
  <2>2. d \in Nat /\ FALSE \in BOOLEAN OBVIOUS
  <2> QED BY <2>1, <2>2, DecideTypes
<1>2. CASE TestRound
  <2>1. PICK d \in 1..DAY - 1 : Decide(d, TRUE) BY <1>2, RoundLengths
  <2>2. d \in Nat BY DEF DAY
  <2> QED BY <2>1, <2>2, DecideTypes
<1>3. CASE OtaRestart
  <2>1. PICK d \in 0..SEND_COUNT_DELAY - 1, b \in 0..BOOT :
           Reboot(d, b) /\ History(d + b, 0, TRUE, FALSE)
    BY <1>3 DEF OtaRestart
  <2>2. d \in Nat /\ b \in Nat BY ClockAssumption
  <2> QED BY <2>1, <2>2, RebootTypes, HistoryTypes DEF TypeOK
<1>4. CASE UNCHANGED vars BY <1>4 DEF vars, TypeOK
<1> QED BY <1>1, <1>2, <1>3, <1>4 DEF Next

-----------------------------------------------------------------------------
\* Minutes of less than a day.
LEMMA WithinDay ==
  /\ DAY \in Nat
  /\ \A d \in 0..DAY - 1 : d \in Nat /\ d \in Int /\ d \in 0..DAY /\ d < DAY
<1>1. DAY \in Nat BY DayIs
<1> SUFFICES ASSUME NEW d \in 0..DAY - 1
             PROVE  d \in Nat /\ d \in Int /\ d \in 0..DAY /\ d < DAY
  BY <1>1
<1>2. d \in Int /\ 0 <= d /\ d < DAY BY <1>1
<1> QED BY <1>1, <1>2

\* The minutes since a minute of the day are less than a day.
LEMMA SinceInt ==
  ASSUME NEW t \in 0..DAY - 1, NEW w \in 0..DAY - 1
  PROVE  Since(t, w) \in 0..DAY - 1
<1>1. Since(t, w) = IF t < w THEN t - w + DAY ELSE t - w BY SinceIs
<1> QED BY <1>1 DEF DAY

(* How a step moves in the windows *)

InWindow(t, w) == Since(t, w) < RESET_COUNT_MIN

\* After a step within a day the window that the task lands in is either the one
\* that it was in, or has opened on the way.
LEMMA StaysInWindow ==
  ASSUME now \in 0..DAY - 1, NEW d \in 0..DAY - 1, ~Opens(d),
         NEW w \in Windows, InWindow(After(d), w)
  PROVE  /\ InWindow(now, w)
         /\ Since(After(d), w) = Since(now, w) + d
<1> DEFINE q == Since(After(d), w)
<1>1. w \in 0..DAY - 1 BY WindowInDay
<1>2. After(d) \in 0..DAY - 1 BY WithinDay, AfterIsMinute
<1>3. After(d) = IF now + d < DAY THEN now + d ELSE now + d - DAY
  BY WithinDay, AfterIs
<1>4. /\ q = IF After(d) < w THEN After(d) - w + DAY ELSE After(d) - w
      /\ Since(now, w) = IF now < w THEN now - w + DAY ELSE now - w
      /\ Since(w, now) = IF w < now THEN w - now + DAY ELSE w - now
  BY <1>1, <1>2, SinceIs
<1>5. q >= d
  <2>1. SUFFICES ASSUME q < d PROVE FALSE
    BY <1>1, <1>2, <1>4, DayIs, SMTT(30)
  <2>2. Since(w, now) = d - q /\ d - q \in 1..d
    BY <1>1, <1>2, <1>3, <1>4, <2>1, DayIs
  <2> QED BY <2>2 DEF Opens, Reached, Since
<1>6. Since(now, w) = q - d
  BY <1>1, <1>2, <1>3, <1>4, <1>5, DayIs
<1>7. q \in Int /\ d \in Nat /\ RESET_COUNT_MIN \in Nat
  BY <1>1, <1>2, SinceInt, WithinDay, ClockAssumption
<1> QED BY <1>5, <1>6, <1>7 DEF InWindow

\* No window opens within a step that is shorter than a window and ends outside.
LEMMA OpensThenOpen ==
  ASSUME now \in 0..DAY - 1, NEW d \in 1..RESET_COUNT_MIN - 1, Opens(d)
  PROVE  \E w \in Windows : InWindow(After(d), w)
<1>1. PICK w \in Windows : Since(w, now) \in 1..d BY DEF Opens, Reached, Since
<1>2. w \in 0..DAY - 1 /\ d \in 0..DAY - 1 /\ RESET_COUNT_MIN \in Nat
  BY WindowInDay, ClockAssumption, DayIs
<1>3. After(d) \in 0..DAY - 1 BY <1>2, WithinDay, AfterIsMinute
<1>4. After(d) = IF now + d < DAY THEN now + d ELSE now + d - DAY
  BY <1>2, WithinDay, AfterIs
<1>5. /\ Since(After(d), w) = IF After(d) < w THEN After(d) - w + DAY ELSE After(d) - w
      /\ Since(w, now) = IF w < now THEN w - now + DAY ELSE w - now
  BY <1>2, <1>3, SinceIs
<1>6. Since(After(d), w) < d
  BY <1>1, <1>2, <1>3, <1>4, <1>5, DayIs
<1>7. Since(After(d), w) \in Int
  BY <1>2, <1>3, SinceInt, WithinDay
<1> QED BY <1>2, <1>6, <1>7 DEF InWindow

\* A step that is shorter than a window closes only a window that it starts in.
LEMMA ClosesFromInside ==
  ASSUME now \in 0..DAY - 1, NEW d \in 1..RESET_COUNT_MIN - 1, Closes(d)
  PROVE  \E w \in Windows : InWindow(now, w)
<1>1. PICK w \in Windows : ((w + RESET_COUNT_MIN) - now) % DAY \in 1..d
  BY DEF Closes, Reached
<1>2. w \in 0..DAY - 60 /\ w \in 0..DAY - 1 /\ RESET_COUNT_MIN \in 1..60
  BY WindowInDay, ClockAssumption
<1>3. Since(now, w) = IF now < w THEN now - w + DAY ELSE now - w
  BY <1>2, SinceIs
<1>4. ((w + RESET_COUNT_MIN) - now) % DAY = IF w + RESET_COUNT_MIN < now
        THEN ((w + RESET_COUNT_MIN) - now) + DAY
        ELSE IF (w + RESET_COUNT_MIN) - now = DAY THEN 0 ELSE (w + RESET_COUNT_MIN) - now
  BY <1>2, DayIs
<1>5. Since(now, w) < RESET_COUNT_MIN
  BY <1>1, <1>2, <1>3, <1>4 DEF DAY
<1> QED BY <1>5 DEF InWindow

\* The minutes that a step takes, as its states show them.
LEMMA ElapsedIs ==
  ASSUME now \in 0..DAY - 1, NEW d \in 0..DAY - 1, now' = After(d)
  PROVE  Elapsed = d
<1>1. After(d) = IF now + d < DAY THEN now + d ELSE now + d - DAY
  BY WithinDay, AfterIs
<1> QED BY <1>1, DayIs DEF Elapsed

\* A window that opened within the hour opened at this minute of the day or before.
LEMMA OpenForAnHour ==
  ASSUME NEW t \in 0..DAY - 1, NEW w \in Windows, Since(t, w) < 60
  PROVE  t - w \in 0..59 /\ Since(t, w) = t - w
<1>1. w \in 0..DAY - 60 BY WindowInDay
<1>2. Since(t, w) = IF t < w THEN t - w + DAY ELSE t - w
  BY WindowInDay, SinceIs
<1> QED BY <1>1, <1>2 DEF DAY

\* A few minutes later on the same day.
LEMMA AfterBoot ==
  ASSUME now \in 0..DAY - 1, NEW d \in Nat, NEW b \in Nat, After(d) + b < DAY
  PROVE  After(d + b) = After(d) + b
BY DEF After, DAY

\* The device is back b minutes later, still in the hour of the window.
LEMMA BackInHour ==
  ASSUME now \in 0..DAY - 1, NEW d \in 0..DAY - 1, NEW b \in 0..BOOT,
         NEW w \in Windows, InWindow(After(d), w)
  PROVE  /\ After(d + b) \in 0..DAY - 1
         /\ Since(After(d + b), w) = Since(After(d), w) + b
         /\ Since(After(d + b), w) < 60
<1>1. /\ w \in 0..DAY - 60 /\ w \in 0..DAY - 1
      /\ b \in 0..59 /\ RESET_COUNT_MIN \in 1..60 /\ RESET_COUNT_MIN + b <= 60
  BY WindowInDay, ClockAssumption
<1>2. After(d) \in 0..DAY - 1 /\ After(d + b) \in 0..DAY - 1
  <2>1. d \in Nat /\ d + b \in Nat BY <1>1, WithinDay
  <2> QED BY <2>1, AfterIsMinute
<1>3. Since(After(d), w) < RESET_COUNT_MIN BY DEF InWindow
<1>4. After(d) - w \in 0..RESET_COUNT_MIN - 1 /\ Since(After(d), w) = After(d) - w
  <2>1. Since(After(d), w) < 60
    BY <1>1, <1>2, <1>3, SinceInt, WithinDay
  <2>2. After(d) - w \in 0..59 /\ Since(After(d), w) = After(d) - w
    BY <1>2, <2>1, OpenForAnHour
  <2> QED BY <1>1, <1>3, <2>2
<1>5. After(d + b) = After(d) + b
  <2>1. After(d) + b < DAY
    <3>1. b \in Int /\ RESET_COUNT_MIN \in Int /\ RESET_COUNT_MIN + b <= 60 BY <1>1
    <3>2. w \in Int /\ w <= 1380 BY <1>1 DEF DAY
    <3>3. After(d) \in Int BY <1>2, WithinDay
    <3>4. After(d) - w < RESET_COUNT_MIN BY <1>4, <3>1, <3>2, <3>3
    <3>5. After(d) + b < 1440 BY <3>1, <3>2, <3>3, <3>4
    <3> QED BY <3>5 DEF DAY
  <2> QED BY <1>1, <2>1, WithinDay, AfterBoot
<1>6. Since(After(d + b), w) = After(d) + b - w
  BY <1>1, <1>2, <1>4, <1>5, SinceIs
<1>7. After(d) \in Int /\ w \in Int /\ b \in Int
  BY <1>1, <1>2, WithinDay
<1> QED BY <1>1, <1>2, <1>4, <1>6, <1>7
-----------------------------------------------------------------------------
(* The inductive invariant *)

\* In an open window the task has reset, or the OTA task has restarted the
\* device: whoever lands there does either.
Visited ==
  \A w \in Windows : InWindow(now, w) => resets > 0 \/ restarted

\* The last of n resets is n - 1 delays after the first at least, and so far into
\* its window.
Spaced ==
  tested \/ /\ (resets - 1) * SEND_COUNT_DELAY < RESET_COUNT_MIN
            /\ \A w \in Windows :
                  InWindow(now, w) => (resets - 1) * SEND_COUNT_DELAY <= Since(now, w)

IInv == TypeOK /\ Visited /\ Spaced

\* The task only goes on when it is in no window.
LEMMA WaitIsOutside ==
  ASSUME TypeOK, NEW d \in Nat, NEW t, Wait(d, t)
  PROVE  \A w \in Windows : ~InWindow(now', w)
<1>1. After(d) \in 0..DAY - 1 BY AfterIsMinute DEF TypeOK
<1> QED BY <1>1, InResetHourIs DEF Wait, InWindow

LEMMA ResetIsInside ==
  ASSUME TypeOK, NEW d \in Nat, NEW b, NEW t, Reset(d, b, t)
  PROVE  \E w \in Windows : InWindow(After(d), w)
<1>1. After(d) \in 0..DAY - 1 BY AfterIsMinute DEF TypeOK
<1> QED BY <1>1, InResetHourIs DEF Reset, InWindow

LEMMA VisitedDecide ==
  ASSUME TypeOK, NEW d \in Nat, NEW t, Decide(d, t)
  PROVE  Visited'
<1>1. CASE \E b \in 0..BOOT : Reset(d, b, t)
  <2>1. resets' > 0 BY <1>1 DEF Reset, History, TypeOK
  <2> QED BY <2>1 DEF Visited
<1>2. CASE Refresh(d, t) \/ Sleep(d, t)
  <2>1. Wait(d, t) BY <1>2 DEF Refresh, Sleep
  <2>2. \A w \in Windows : ~InWindow(now', w) BY <2>1, WaitIsOutside
  <2> QED BY <2>2 DEF Visited, InWindow, Windows
<1> QED BY <1>1, <1>2 DEF Decide

LEMMA VisitedInv == TypeOK /\ Visited /\ [Next]_vars => Visited'
<1> SUFFICES ASSUME TypeOK, Visited, [Next]_vars PROVE Visited' OBVIOUS
<1>1. CASE Round
  <2>1. PICK d \in 1..59 : Decide(d, FALSE) BY <1>1, RoundLengths
  <2>2. d \in Nat OBVIOUS
  <2> QED BY <2>1, <2>2, VisitedDecide
<1>2. CASE TestRound
  <2>1. PICK d \in 1..DAY - 1 : Decide(d, TRUE) BY <1>2, RoundLengths
  <2>2. d \in Nat BY DEF DAY
  <2> QED BY <2>1, <2>2, VisitedDecide
<1>3. CASE OtaRestart
  <2>1. restarted' BY <1>3 DEF OtaRestart, History
  <2> QED BY <2>1 DEF Visited
<1>4. CASE UNCHANGED vars BY <1>4 DEF vars, Visited, InWindow, Since, Windows
<1> QED BY <1>1, <1>2, <1>3, <1>4 DEF Next

\* One more delay.
LEMMA OneMore ==
  ASSUME NEW n \in Nat
  PROVE  /\ (n + 1 - 1) * SEND_COUNT_DELAY = (n - 1) * SEND_COUNT_DELAY + SEND_COUNT_DELAY
         /\ (n - 1) * SEND_COUNT_DELAY \in Int
         /\ (0 - 1) * SEND_COUNT_DELAY < 0
         /\ (1 - 1) * SEND_COUNT_DELAY = 0
<1>1. SEND_COUNT_DELAY \in Int /\ SEND_COUNT_DELAY > 0 BY ClockAssumption DEF DAY
<1> QED BY <1>1
\* A reset of an undisturbed round.
LEMMA SpacedReset ==
  ASSUME TypeOK, Spaced, NEW d \in SEND_COUNT_DELAY..SEND_COUNT_DELAY + SLACK,
         d \in 1..59, NEW b \in 0..BOOT, Reset(d, b, FALSE)
  PROVE  Spaced'
<1> SUFFICES ASSUME ~tested'
             PROVE  /\ (resets' - 1) * SEND_COUNT_DELAY < RESET_COUNT_MIN
                    /\ \A w \in Windows : InWindow(now', w) =>
                          (resets' - 1) * SEND_COUNT_DELAY <= Since(now', w)
  BY DEF Spaced, Windows, InWindow, Since
<1>0. /\ now \in 0..DAY - 1 /\ d \in 0..DAY - 1 /\ d \in Nat /\ resets \in Nat
      /\ SEND_COUNT_DELAY \in Int /\ RESET_COUNT_MIN \in 1..60 /\ d >= SEND_COUNT_DELAY
      /\ b \in Nat
  BY ClockAssumption, DayIs DEF TypeOK
<1>1. PICK v \in Windows : InWindow(After(d), v) BY <1>0, ResetIsInside
<1>2. now' = After(d + b) BY DEF Reset, Reboot
<1>3. /\ now' \in 0..DAY - 1
      /\ Since(now', v) = Since(After(d), v) + b
      /\ Since(now', v) < 60
  BY <1>0, <1>1, <1>2, BackInHour
<1>4. After(d) \in 0..DAY - 1 BY <1>0, AfterIsMinute
<1>5. Since(After(d), v) \in Nat /\ Since(After(d), v) < RESET_COUNT_MIN
  BY <1>1, <1>4, WindowInDay, SinceInt, WithinDay DEF InWindow
<1>6. (resets' - 1) * SEND_COUNT_DELAY <= Since(After(d), v)
  <2>1. CASE SameWindow(d)
    <3>1. ~tested /\ resets' = resets + 1 /\ ~Opens(d)
      BY <2>1 DEF Reset, History, SameWindow
    <3>2. InWindow(now, v) /\ Since(After(d), v) = Since(now, v) + d
      BY <1>0, <1>1, <3>1, StaysInWindow
    <3>3. (resets - 1) * SEND_COUNT_DELAY <= Since(now, v)
      BY <3>1, <3>2 DEF Spaced
    <3>4. Since(now, v) \in Nat
      BY <1>0, WindowInDay, SinceInt, WithinDay
    <3>5. (resets' - 1) * SEND_COUNT_DELAY = (resets - 1) * SEND_COUNT_DELAY + SEND_COUNT_DELAY
      BY <1>0, <3>1, OneMore
    <3> QED BY <1>0, <3>2, <3>3, <3>4, <3>5, OneMore
  <2>2. CASE ~SameWindow(d)
    <3>1. resets' = 1 BY <2>2 DEF Reset, History
    <3> QED BY <1>0, <1>5, <3>1
  <2> QED BY <2>1, <2>2
<1>7. resets' \in Nat /\ (resets' - 1) * SEND_COUNT_DELAY \in Int
  BY <1>0, OneMore DEF Reset, History
<1>8. (resets' - 1) * SEND_COUNT_DELAY < RESET_COUNT_MIN
  <2> DEFINE m == (resets' - 1) * SEND_COUNT_DELAY
  <2>1. m \in Int /\ m <= Since(After(d), v) BY <1>6, <1>7
  <2>2. RESET_COUNT_MIN \in Int BY <1>0
  <2> HIDE DEF m
  <2>3. m < RESET_COUNT_MIN BY <1>5, <2>1, <2>2
  <2> QED BY <2>3 DEF m
<1>9. ASSUME NEW w \in Windows, InWindow(now', w)
      PROVE  (resets' - 1) * SEND_COUNT_DELAY <= Since(now', w)
  <2>1. Since(now', w) < 60
    <3>1. Since(now', w) \in Nat BY <1>3, WindowInDay, SinceInt, WithinDay
    <3>2. Since(now', w) < RESET_COUNT_MIN BY <1>9 DEF InWindow
    <3> QED BY <1>0, <3>1, <3>2
  <2>2. w = v BY <1>3, <2>1, OneWindow
  <2> QED BY <1>0, <1>3, <1>5, <1>6, <1>7, <2>2
<1> QED BY <1>8, <1>9

\* An undisturbed round that does not reset ends in no window.
LEMMA SpacedWait ==
  ASSUME TypeOK, Spaced, NEW d \in Nat, Wait(d, FALSE)
  PROVE  Spaced'
<1> SUFFICES ASSUME ~tested'
             PROVE  (resets' - 1) * SEND_COUNT_DELAY < RESET_COUNT_MIN
  <2>1. \A w \in Windows : ~InWindow(now', w) BY WaitIsOutside
  <2> QED BY <2>1 DEF Spaced, Windows, InWindow, Since
<1>1. CASE SameWindow(d)
  <2>1. ~tested /\ resets' = resets
    BY <1>1 DEF Wait, History, TypeOK
  <2> QED BY <2>1 DEF Spaced
<1>2. CASE ~SameWindow(d)
  <2>1. resets' = 0 BY <1>2 DEF Wait, History
  <2> QED BY <2>1, OneMore, ClockAssumption
<1> QED BY <1>1, <1>2

\* A restart by the OTA task only takes time.
LEMMA SpacedOta ==
  ASSUME TypeOK, Spaced, NEW e \in 0..58, now' = After(e), History(e, 0, TRUE, FALSE)
  PROVE  Spaced'
<1> SUFFICES ASSUME ~tested'
             PROVE  /\ (resets' - 1) * SEND_COUNT_DELAY < RESET_COUNT_MIN
                    /\ \A w \in Windows : InWindow(now', w) =>
                          (resets' - 1) * SEND_COUNT_DELAY <= Since(now', w)
  BY DEF Spaced, Windows, InWindow, Since
<1>0. /\ now \in 0..DAY - 1 /\ e \in 0..DAY - 1 /\ e \in Nat /\ resets \in Nat
      /\ RESET_COUNT_MIN \in Nat
  BY ClockAssumption, DayIs DEF TypeOK
<1>1. CASE SameWindow(e)
  <2>1. ~tested /\ resets' = resets /\ ~Opens(e)
    BY <1>1 DEF History, SameWindow, TypeOK
  <2>2. ASSUME NEW w \in Windows, InWindow(now', w)
        PROVE  (resets - 1) * SEND_COUNT_DELAY <= Since(now', w)
    <3>1. InWindow(now, w) /\ Since(now', w) = Since(now, w) + e
      BY <1>0, <2>1, <2>2, StaysInWindow
    <3>2. (resets - 1) * SEND_COUNT_DELAY <= Since(now, w)
      BY <2>1, <3>1 DEF Spaced
    <3>3. Since(now, w) \in Nat /\ (resets - 1) * SEND_COUNT_DELAY \in Int
      BY <1>0, WindowInDay, SinceInt, WithinDay, OneMore
    <3> QED BY <1>0, <3>1, <3>2, <3>3
  <2> QED BY <2>1, <2>2 DEF Spaced
<1>2. CASE ~SameWindow(e)
  <2>1. resets' = 0 BY <1>2 DEF History
  <2>2. (resets' - 1) * SEND_COUNT_DELAY \in Int /\ (resets' - 1) * SEND_COUNT_DELAY < 0
    BY <2>1, OneMore
  <2>3. now' \in 0..DAY - 1 BY <1>0, AfterIsMinute
  <2>4. \A w \in Windows : Since(now', w) \in Nat
    BY <2>3, WindowInDay, SinceInt, WithinDay
  <2> QED BY <1>0, <2>2, <2>4
<1> QED BY <1>1, <1>2
\* A step with a test mode is marked by it.
LEMMA DisturbedStep ==
  ASSUME NEW d, Decide(d, TRUE)
  PROVE  tested'
BY DEF Decide, Reset, Refresh, Sleep, Wait, History

LEMMA SpacedInv == TypeOK /\ Spaced /\ [Next]_vars => Spaced'
<1> SUFFICES ASSUME TypeOK, Spaced, [Next]_vars PROVE Spaced' OBVIOUS
<1>1. CASE Round
  <2>1. PICK d \in SEND_COUNT_DELAY..SEND_COUNT_DELAY + SLACK :
           d \in 1..59 /\ Decide(d, FALSE)
    BY <1>1, RoundLengths
  <2>2. d \in Nat BY <2>1
  <2>3. CASE \E b \in 0..BOOT : Reset(d, b, FALSE) BY <2>1, <2>3, SpacedReset
  <2>4. CASE Refresh(d, FALSE) \/ Sleep(d, FALSE)
    <3>1. Wait(d, FALSE) BY <2>4 DEF Refresh, Sleep
    <3> QED BY <2>2, <3>1, SpacedWait
  <2> QED BY <2>1, <2>3, <2>4 DEF Decide
<1>2. CASE TestRound
  <2>1. tested' BY <1>2, DisturbedStep DEF TestRound
  <2> QED BY <2>1 DEF Spaced
<1>3. CASE OtaRestart
  <2>1. PICK d \in 0..SEND_COUNT_DELAY - 1, b \in 0..BOOT :
           d + b \in 0..58 /\ Reboot(d, b) /\ History(d + b, 0, TRUE, FALSE)
    BY <1>3, RoundLengths
  <2>2. now' = After(d + b) BY <2>1 DEF Reboot
  <2> QED BY <2>1, <2>2, SpacedOta
<1>4. CASE UNCHANGED vars BY <1>4 DEF vars, Spaced, InWindow, Since, Windows
<1> QED BY <1>1, <1>2, <1>3, <1>4 DEF Next

LEMMA InitInv == Init => IInv
<1> SUFFICES ASSUME Init PROVE IInv OBVIOUS
<1>1. TypeOK
  <2>1. \A t \in 0..DAY - 1 : t \in Nat BY DEF DAY
  <2>2. 0 \in 0..MAX_AGE BY ClockAssumption
  <2>3. TRUE \in BOOLEAN /\ FALSE \in BOOLEAN /\ 0 \in Nat OBVIOUS
  <2> QED BY <2>1, <2>2, <2>3, MinutesOfHour, Zenon DEF Init, TypeOK
<1>2. Visited BY DEF Init, Visited
<1>3. Spaced
  <2>1. /\ resets = 0 /\ (0 - 1) * SEND_COUNT_DELAY < 0
        /\ (0 - 1) * SEND_COUNT_DELAY \in Int
    BY OneMore DEF Init
  <2>2. RESET_COUNT_MIN \in Nat BY ClockAssumption
  <2>3. \A w \in Windows : Since(now, w) \in Nat
    BY <1>1, WindowInDay, SinceInt, WithinDay DEF TypeOK
  <2> QED BY <2>1, <2>2, <2>3 DEF Spaced
<1> QED BY <1>1, <1>2, <1>3 DEF IInv

THEOREM Invariance == Spec => []IInv
<1>1. IInv /\ [Next]_vars => IInv'
  BY TypeInv, VisitedInv, SpacedInv DEF IInv
<1> QED BY <1>1, InitInv, PTL DEF Spec

-----------------------------------------------------------------------------
(* The properties of the clock *)

\* The clock's variables keep their ranges; the minute of the last refresh is a
\* minute of the hour.
THEOREM TypeCorrect == Spec => []TypeOK
<1>1. IInv => TypeOK BY DEF IInv
<1> QED BY <1>1, Invariance, PTL

\* Without a test mode the device resets in a window no more often than the
\* delays of sendFromNVS fit into it.
THEOREM ResetsFitWindow == Spec => []ResetsPerWindow
<1>1. IInv => ResetsPerWindow BY DEF IInv, Spaced, ResetsPerWindow
<1> QED BY <1>1, Invariance, PTL

\* The elapsed minutes are a number.
LEMMA NextElapsed ==
  ASSUME TypeOK, Next
  PROVE  Elapsed \in Int
<1>1. now \in Int /\ now' \in Int
  BY TypeInv, WithinDay DEF TypeOK
<1> QED BY <1>1 DEF Elapsed, DAY

\* A step that closes a window and goes on has been in that window all the time.
LEMMA WaitCloses ==
  ASSUME IInv, NEW d \in 1..SEND_COUNT_DELAY + SLACK, NEW t, Wait(d, t), Closes(d)
  PROVE  resets' > 0 \/ restarted'
<1>1. /\ now \in 0..DAY - 1 /\ d \in 1..RESET_COUNT_MIN - 1 /\ d \in 0..DAY - 1
      /\ d \in Nat /\ resets \in Nat
  BY ClockAssumption, DayIs DEF IInv, TypeOK
<1>2. PICK v \in Windows : InWindow(now, v) BY <1>1, ClosesFromInside
<1>3. resets > 0 \/ restarted BY <1>2 DEF IInv, Visited
<1>4. ~Opens(d)
  <2>1. \A w \in Windows : ~InWindow(After(d), w)
    BY <1>1, WaitIsOutside DEF IInv, Wait
  <2> QED BY <1>1, <2>1, OpensThenOpen
<1>5. SameWindow(d) BY <1>2, <1>4 DEF SameWindow, InWindow, Since
<1>6. resets' = resets BY <1>1, <1>5 DEF Wait, History
<1>7. restarted => restarted' BY <1>5, Zenon DEF Wait, History
<1> QED BY <1>3, <1>6, <1>7

LEMMA DecideCloses ==
  ASSUME IInv, NEW d \in 1..DAY - 1, NEW t, Decide(d, t), Closes(Elapsed),
         Elapsed <= SEND_COUNT_DELAY + SLACK
  PROVE  resets' > 0 \/ restarted'
<1>1. CASE \E b \in 0..BOOT : Reset(d, b, t)
  BY <1>1 DEF Reset, History, IInv, TypeOK
<1>2. CASE Refresh(d, t) \/ Sleep(d, t)
  <2>1. Wait(d, t) BY <1>2 DEF Refresh, Sleep
  <2>2. now \in 0..DAY - 1 /\ now' = After(d) /\ d \in 0..DAY - 1
    BY <2>1, DayIs DEF Wait, IInv, TypeOK
  <2>3. Elapsed = d BY <2>2, ElapsedIs
  <2>4. d \in 1..SEND_COUNT_DELAY + SLACK BY <2>3, DayIs, ClockAssumption
  <2> QED BY <2>1, <2>3, <2>4, WaitCloses
<1> QED BY <1>1, <1>2 DEF Decide

\* No window closes without a reset, unless the OTA task restarts the device in
\* it or a test mode stops the task until after its end (WindowNeverMissed).
THEOREM NoWindowMissed == Spec => WindowNeverMissed
<1>1. ASSUME IInv, Next, Closes(Elapsed)
      PROVE  resets' > 0 \/ restarted' \/ Elapsed > SEND_COUNT_DELAY + SLACK
  <2>1. SUFFICES ASSUME Elapsed <= SEND_COUNT_DELAY + SLACK
                 PROVE  resets' > 0 \/ restarted'
    <3>1. Elapsed \in Int
      BY <1>1, NextElapsed DEF IInv
    <3> QED BY <3>1, ClockAssumption, DayIs
  <2>2. CASE Round
    <3>1. PICK d \in 1..59 : Decide(d, FALSE) BY <2>2, RoundLengths
    <3>2. d \in 1..DAY - 1 BY DayIs
    <3> QED BY <1>1, <2>1, <3>1, <3>2, DecideCloses
  <2>3. CASE TestRound
    <3>1. PICK d \in 1..DAY - 1 : Decide(d, TRUE) BY <2>3, RoundLengths
    <3> QED BY <1>1, <2>1, <3>1, DecideCloses
  <2>4. CASE OtaRestart BY <2>4 DEF OtaRestart, History
  <2> QED BY <1>1, <2>2, <2>3, <2>4 DEF Next
<1>2. IInv /\ [Next]_vars =>
        [Closes(Elapsed) => \/ resets' > 0 \/ restarted'
                            \/ Elapsed > SEND_COUNT_DELAY + SLACK]_vars
  BY <1>1
<1> QED BY <1>2, Invariance, PTL DEF Spec, WindowNeverMissed

=============================================================================
