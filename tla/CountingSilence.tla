--------------------------- MODULE CountingSilence ---------------------------
(***************************************************************************)
(* What the source says about silence at the barriers, as a property of    *)
(* module Counting.  The variable lastFresh is a history of the events     *)
(* that have left the buffer; it does not influence Counting.              *)
(***************************************************************************)
EXTENDS Counting

VARIABLE lastFresh  \* the last analysed event is not stale yet

silenceVars == <<vars, lastFresh>>

SilenceInit == Init /\ lastFresh = FALSE

EventRemoved == buffer # <<>> /\ buffer' = Tail(buffer)

\* Events grow stale in the order of their time stamps, an analysed one too.
LastAges == lastFresh /\ lastFresh' = FALSE /\ UNCHANGED vars

SilenceNext ==
  \/ LastAges
  \/ /\ Next
     /\ Age => ~lastFresh
     /\ lastFresh' = IF EventRemoved THEN nStale = 0 ELSE lastFresh

SilenceSpec == SilenceInit /\ [][SilenceNext]_silenceVars

\* countingAlgo.c says of the branch that resets the machine that "buffer is
\* empty and there was no new event since TIME_TO_EMPTY_BUFFER sec": an
\* unfinished passage is given up only when its last event is stale.
PassageForgottenOnlyAfterSilence ==
  [][ AnalyzerReady /\ ResetState /\ state_counter # 0 => ~lastFresh ]_silenceVars

=============================================================================
