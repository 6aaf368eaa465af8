------------------------------ MODULE EventLog ------------------------------
(***************************************************************************)
(* What the storage of test_sensor_lab/main/nvs.c promises its callers: a  *)
(* log of events in the order of their writing.  Sending hands over a      *)
(* prefix of it to the MQTT client; a restart forgets the log.             *)
(* Events are numbered in the order in which they are written.             *)
(***************************************************************************)
EXTENDS Naturals, Sequences

VARIABLES
  log,   \* events stored and not yet handed over
  sent,  \* events handed to the MQTT client
  next   \* number of the next event

vars == <<log, sent, next>>

Init == log = <<>> /\ sent = <<>> /\ next = 1

\* writeToNVM: the event is stored behind all others.
Write ==
  /\ log' = Append(log, next)
  /\ next' = next + 1
  /\ UNCHANGED sent

\* sendDataFromJSON_toDB hands over the events of one key.
Send ==
  \E n \in 1..Len(log) :
    /\ sent' = sent \o SubSeq(log, 1, n)
    /\ log' = SubSeq(log, n + 1, Len(log))
    /\ UNCHANGED next

\* A restart: initMY_nvs begins with an empty log.
Restart ==
  /\ log' = <<>>
  /\ UNCHANGED <<sent, next>>

Next == Write \/ Send \/ Restart

Spec == Init /\ [][Next]_vars
=============================================================================
