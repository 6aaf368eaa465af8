--------------------------- MODULE LifecycleProofs ---------------------------
(***************************************************************************)
(* Proofs, for every value of the constants, that updateOTA notices lost   *)
(* memory in time and that updates only go forward (module Lifecycle).     *)
(***************************************************************************)
EXTENDS Lifecycle, SequenceTheorems, TLAPS

\* What is left of the heap, by the position of updateOTA in its round: it
\* restarts the device below MIN_HEAP, and a round takes away no more than a
\* client before the update and a URL and a handle during it, beside what the
\* other tasks have lost since.
HeapLeft ==
  /\ heap \in Int /\ lost \in 0..OTHERS
  /\ ota \in {"none", "flag"} => heap + lost >= MIN_HEAP
  /\ ota \in {"sleep", "begin", "load"} => heap + lost >= MIN_HEAP - CLIENT
  /\ ota = "heap" => heap + lost >= MIN_HEAP - CLIENT - URL - HANDLE
  /\ ota \in {"none", "sleep", "begin", "load", "heap", "flag"}

\* The image being loaded is newer than the running program.
LoadsNewer ==
  /\ version \in Nat /\ candidate \in Nat /\ offered \in Nat
  /\ ota = "load" => candidate > version

\* updateOTA exists only once the wait for the MQTT broker is over, so its first
\* round starts with the heap of a boot.
IInv ==
  /\ HeapLeft
  /\ LoadsNewer
  /\ ota # "none" => boot \in {"algo", "run"}

-----------------------------------------------------------------------------
(* One lemma per group of actions *)

LEMMA InitInv == Init => IInv
BY LifecycleAssumption, HeapAssumption
DEF Init, IInv, HeapLeft, LoadsNewer

\* A restart, into the same version or another, starts with the heap of a boot
\* and without an update (esp_restart).
LEMMA RestartInv ==
  ASSUME IInv, NEW v \in Nat, RestartInto(v)
  PROVE  IInv'
BY LifecycleAssumption, HeapAssumption
DEF RestartInto, remote, IInv, HeapLeft, LoadsNewer

\* A step that leaves updateOTA, the version and the offer alone and does not
\* take a running device back preserves the invariant.
LEMMA ElsewhereInv ==
  ASSUME IInv, UNCHANGED <<update, version>>, offered' \in Nat,
         boot' = boot \/ boot \notin {"algo", "run"} \/ boot' = "run"
  PROVE  IInv'
BY DEF update, IInv, HeapLeft, LoadsNewer

\* The steps of radio and servers, of the event handler, and of the start-up.
LEMMA SurroundingsInv == IInv /\ (Radio \/ Events \/ Main) => IInv'
<1> SUFFICES ASSUME IInv, Radio \/ Events \/ Main
             PROVE  IInv'
    OBVIOUS
<1>v. version \in Nat /\ offered \in Nat
    BY DEF IInv, LoadsNewer
<1>1. CASE Radio
  <2>1. UNCHANGED <<boot, update, version>> /\ offered' \in Nat
      BY <1>1, <1>v, LifecycleAssumption
      DEF Radio, LinkUp, LinkDown, TimeSync, Publish, remote
  <2>2. QED
      BY <2>1, ElsewhereInv
<1>2. CASE Events
  <2>1. UNCHANGED <<boot, update, version, remote>>
      BY <1>2 DEF Events, Reconnect, GiveUp, GotIp, EventIgnored
  <2>2. QED
      BY <2>1, <1>v, ElsewhereInv DEF remote
<1>3. CASE Main
  <2>1. CASE WifiFailed \/ WifiTimeout \/ SntpFailed
      BY <2>1, <1>v, RestartInv DEF WifiFailed, WifiTimeout, SntpFailed
  <2>2. CASE MqttConnected
      BY <2>2, LifecycleAssumption
      DEF MqttConnected, Goto, remote, IInv, HeapLeft, LoadsNewer
  <2>3. CASE StartWifi \/ WifiConnected \/ Unregister \/ SntpWait \/ SntpDone
             \/ StartCounting
    <3>1. UNCHANGED <<update, version, remote>>
          /\ (boot' = boot \/ boot \notin {"algo", "run"} \/ boot' = "run")
        BY <2>3 DEF StartWifi, WifiConnected, Unregister, SntpWait, SntpDone, StartCounting
    <3>2. QED
        BY <3>1, <1>v, ElsewhereInv DEF remote
  <2>4. QED
      BY <1>3, <2>1, <2>2, <2>3 DEF Main
<1>4. QED
    BY <1>1, <1>2, <1>3

\* The steps of updateOTA.  HeapLeft is tight: each loss moves to a position
\* that allows for it, and only HeapSuffices goes back up.
LEMMA UpdateInv == IInv /\ Update => IInv'
<1> SUFFICES ASSUME IInv, Update PROVE IInv'
    OBVIOUS
<1>v. version \in Nat /\ candidate \in Nat
    BY DEF IInv, LoadsNewer
<1> USE LifecycleAssumption
    DEF Goto, Loses, OtaUnchanged, remote, IInv, HeapLeft, LoadsNewer
<1>1. CASE OtaWakes
    BY <1>1 DEF OtaWakes
<1>2. CASE BeginFails
    BY <1>2 DEF BeginFails
<1>3. CASE ImageRefused
    BY <1>3 DEF ImageRefused
<1>4. CASE ImageAccepted
    BY <1>4 DEF ImageAccepted, NotNewer
<1>5. CASE LoadFails
    BY <1>5 DEF LoadFails
<1>6. CASE HeapSuffices
    BY <1>6 DEF HeapSuffices
<1>7. CASE FlagNotSet
    BY <1>7 DEF FlagNotSet
<1>8. CASE LoadSucceeds \/ HeapShort \/ FlagSet
    BY <1>8, <1>v, RestartInv DEF LoadSucceeds, HeapShort, FlagSet
<1>9. QED
    BY <1>1, <1>2, <1>3, <1>4, <1>5, <1>6, <1>7, <1>8 DEF Update

\* What the other tasks lose is counted.
LEMMA OthersInv == ASSUME IInv, FetchFails PROVE IInv'
<1>1. /\ lost' = lost + CLIENT /\ heap' = heap - CLIENT /\ lost' <= OTHERS
      /\ UNCHANGED <<boot, ota, candidate, version, offered>>
    BY DEF FetchFails, remote
<1>2. QED
    BY <1>1, LifecycleAssumption DEF IInv, HeapLeft, LoadsNewer

LEMMA NextInv == IInv /\ [Next]_vars => IInv'
<1> SUFFICES ASSUME IInv, [Next]_vars PROVE IInv'
    OBVIOUS
<1>1. CASE UNCHANGED vars
    BY <1>1 DEF vars, update, remote, IInv, HeapLeft, LoadsNewer
<1>2. CASE NightReset \/ FetchPanics
    BY <1>2, RestartInv DEF NightReset, FetchPanics, IInv, LoadsNewer
<1>3. CASE PressButton
    BY <1>3, ElsewhereInv DEF PressButton, remote, IInv, LoadsNewer
<1>4. QED
    BY <1>1, <1>2, <1>3, SurroundingsInv, UpdateInv, OthersInv DEF Next

-----------------------------------------------------------------------------
(* The theorems *)

\* The invariant holds in every reachable state.
THEOREM Invariance == Spec => []IInv
<1>1. QED
    BY InitInv, NextInv, PTL DEF Spec

\* The heap is never exhausted by what ota_update and fetchNumber do not free,
\* whatever the sizes, as long as one round of updateOTA, and what the other tasks
\* lose meanwhile, fits into what updateOTA insists on.
THEOREM HeapNeverExhausted == Spec => []HeapLasts
<1>1. IInv => HeapLasts
    BY LifecycleAssumption, HeapAssumption DEF IInv, HeapLeft, HeapLasts
<1>2. QED
    BY <1>1, Invariance, PTL

\* An update leads to a newer version only: validate_image_header compares with
\* the program that is still running when the image is complete.
THEOREM UpdatesGoForward == Spec => VersionsRise
<1> DEFINE Rises == version' # version \/ LoadSucceeds => version' > version
<1>1. IInv /\ [Next]_vars => [Rises]_vars
  <2> SUFFICES ASSUME IInv, Next PROVE Rises
      OBVIOUS
  <2>1. CASE LoadSucceeds
      BY <2>1 DEF LoadSucceeds, RestartInto, IInv, LoadsNewer
  <2>2. CASE version' = version /\ ~LoadSucceeds
      BY <2>2
  <2>3. version' = version \/ LoadSucceeds
    <3>1. CASE Radio
        BY <3>1 DEF Radio, LinkUp, LinkDown, TimeSync, Publish
    <3>2. CASE Events
        BY <3>2 DEF Events, Reconnect, GiveUp, GotIp, EventIgnored
    <3>3. CASE Main
        BY <3>3 DEF Main, RestartInto, StartWifi, WifiConnected, WifiFailed, WifiTimeout,
                    Unregister, SntpWait, SntpFailed, SntpDone, MqttConnected, StartCounting
    <3>4. CASE Update
        BY <3>4 DEF Update, RestartInto, OtaUnchanged, OtaWakes, BeginFails, ImageRefused,
                    ImageAccepted, LoadFails, HeapSuffices, HeapShort, FlagSet, FlagNotSet
    <3>5. CASE NightReset \/ FetchFails \/ FetchPanics \/ PressButton
        BY <3>5 DEF NightReset, FetchFails, FetchPanics, PressButton, RestartInto
    <3>6. QED
        BY <3>1, <3>2, <3>3, <3>4, <3>5 DEF Next
  <2>4. QED
      BY <2>1, <2>2, <2>3
<1>2. QED
    BY <1>1, Invariance, PTL DEF Spec, VersionsRise

-----------------------------------------------------------------------------
(* The types.  At most two events wait, because the radio does nothing     *)
(* between a lost connection and the handler's next attempt.               *)

Waiting ==
  /\ link \in {"off", "connecting", "up"}
  /\ link = "connecting" => events = <<>>
  /\ link = "up"  => events \in {<<>>, <<"GOT_IP">>}
  /\ link = "off" => events \in {<<>>, <<"DISCONNECTED">>, <<"GOT_IP", "DISCONNECTED">>}
  /\ boot = "init" => link = "off" /\ events = <<>>

StartUpType ==
  /\ boot \in {"init", "wifi", "unregister", "sntp", "mqtt", "algo", "run"}
  /\ s_retry_num \in 0..MAXIMUM_RETRY /\ retry \in 0..RETRY_COUNT - 1
  /\ bits \subseteq {"CONNECTED", "FAIL"}

FlagsType ==
  registered \in BOOLEAN /\ synced \in BOOLEAN /\ testMode \in BOOLEAN

UpdateType ==
  /\ candidate \in 0..MAX_VERSION /\ heap <= HEAP /\ lost \in 0..OTHERS
  /\ version \in 0..MAX_VERSION /\ offered \in 0..MAX_VERSION
  /\ restart_flag \in {0, 1}

TypeInv == Waiting /\ StartUpType /\ FlagsType /\ UpdateType

LEMMA InitTypes == Init => TypeInv
<1> SUFFICES ASSUME Init PROVE TypeInv
    OBVIOUS
<1>1. Waiting /\ StartUpType /\ UpdateType
    BY LifecycleAssumption DEF Init, Waiting, StartUpType, UpdateType
<1>2. FlagsType
    BY Zenon DEF Init, FlagsType
<1>3. QED
    BY <1>1, <1>2 DEF TypeInv

LEMMA RestartTypes ==
  ASSUME TypeInv, NEW v \in 0..MAX_VERSION, RestartInto(v)
  PROVE  TypeInv'
<1>1. Waiting' /\ StartUpType' /\ UpdateType'
    BY LifecycleAssumption
    DEF RestartInto, remote, TypeInv, Waiting, StartUpType, UpdateType
<1>2. FlagsType'
    BY Zenon DEF RestartInto, FlagsType
<1>3. QED
    BY <1>1, <1>2 DEF TypeInv

LEMMA AppendToOne ==
  ASSUME NEW S, NEW e \in S, NEW f \in S
  PROVE  Append(<<e>>, f) = <<e, f>>
<1>1. <<e>> \in Seq(S) /\ <<e, f>> \in Seq(S) /\ Len(<<e, f>>) = 2
    OBVIOUS
<1>2. /\ Append(<<e>>, f) \in Seq(S) /\ Len(Append(<<e>>, f)) = 2
      /\ \A n \in 1..2 : Append(<<e>>, f)[n] = <<e, f>>[n]
    BY <1>1
<1>3. QED
    BY <1>1, <1>2, SeqEqual

LEMMA RadioTypes == ASSUME TypeInv, Radio PROVE TypeInv'
<1> USE DEF Radio, LinkUp, LinkDown, TimeSync, Publish, radio, wifi, clock, update, remote
<1>1. Waiting'
  <2>1. /\ Append(<<>>, "GOT_IP") = <<"GOT_IP">>
        /\ Append(<<>>, "DISCONNECTED") = <<"DISCONNECTED">>
        /\ Append(<<"GOT_IP">>, "DISCONNECTED") = <<"GOT_IP", "DISCONNECTED">>
    <3>1. \A e, f \in {"GOT_IP", "DISCONNECTED"} : Append(<<e>>, f) = <<e, f>>
        BY AppendToOne
    <3>2. \A e \in {"GOT_IP", "DISCONNECTED"} : Append(<<>>, e) = <<e>>
        OBVIOUS
    <3>3. QED
        BY <3>1, <3>2
  <2>2. CASE LinkUp
      BY <2>1, <2>2 DEF TypeInv, Waiting
  <2>3. CASE LinkDown
      BY <2>1, <2>3 DEF TypeInv, Waiting
  <2>4. CASE TimeSync \/ Publish
      BY <2>4 DEF TypeInv, Waiting
  <2>5. QED
      BY <2>2, <2>3, <2>4
<1>2. StartUpType'
    BY DEF TypeInv, StartUpType
<1>3. FlagsType'
  <2>1. /\ UNCHANGED <<registered, testMode>>
        /\ synced' = synced \/ synced' = TRUE
      OBVIOUS
  <2>2. QED
      BY <2>1, Zenon DEF TypeInv, FlagsType
<1>4. UpdateType'
  <2>1. UNCHANGED <<candidate, heap, lost, version>>
      OBVIOUS
  <2>2. offered' \in 0..MAX_VERSION /\ restart_flag' \in {0, 1}
      BY DEF TypeInv, UpdateType
  <2>3. QED
      BY <2>1, <2>2 DEF TypeInv, UpdateType
<1>5. QED
    BY <1>1, <1>2, <1>3, <1>4 DEF TypeInv

LEMMA EventTypes == ASSUME TypeInv, Events PROVE TypeInv'
<1> USE DEF Events, Reconnect, GiveUp, GotIp, EventIgnored, EventIs, wifi, clock, update,
            remote
<1>1. Waiting'
  <2>1. boot' = boot /\ events # <<>> /\ events' = Tail(events)
      OBVIOUS
  <2>2. \/ link' = link
        \/ Head(events) = "DISCONNECTED" /\ link' = "connecting"
      OBVIOUS
  <2>3. /\ Tail(<<"GOT_IP">>) = <<>> /\ Tail(<<"DISCONNECTED">>) = <<>>
        /\ Tail(<<"GOT_IP", "DISCONNECTED">>) = <<"DISCONNECTED">>
        /\ Head(<<"GOT_IP">>) = "GOT_IP" /\ Head(<<"GOT_IP", "DISCONNECTED">>) = "GOT_IP"
      OBVIOUS
  <2>4. QED
      BY <2>1, <2>2, <2>3 DEF TypeInv, Waiting
<1>2. StartUpType'
  <2>1. \/ s_retry_num' = s_retry_num
        \/ s_retry_num < MAXIMUM_RETRY /\ s_retry_num' = s_retry_num + 1
        \/ s_retry_num' = 0
      OBVIOUS
  <2>2. s_retry_num' \in 0..MAXIMUM_RETRY
      BY <2>1, LifecycleAssumption DEF TypeInv, StartUpType
  <2>3. boot' = boot /\ retry' = retry /\ bits' \in {bits, bits \cup {"FAIL"}, bits \cup {"CONNECTED"}}
      OBVIOUS
  <2>4. QED
      BY <2>2, <2>3 DEF TypeInv, StartUpType
<1>3. FlagsType'
    BY Zenon DEF TypeInv, FlagsType
<1>4. UpdateType'
    BY DEF TypeInv, UpdateType
<1>5. QED
    BY <1>1, <1>2, <1>3, <1>4 DEF TypeInv

LEMMA MainTypes == ASSUME TypeInv, Main PROVE TypeInv'
<1>1. CASE WifiFailed \/ WifiTimeout \/ SntpFailed
    BY <1>1, RestartTypes DEF WifiFailed, WifiTimeout, SntpFailed, TypeInv, UpdateType
<1>2. CASE \/ StartWifi \/ WifiConnected \/ Unregister \/ SntpWait \/ SntpDone
           \/ MqttConnected \/ StartCounting
  <2> USE <1>2 DEF StartWifi, WifiConnected, Unregister, SntpWait, SntpDone, MqttConnected,
                   StartCounting, radio, wifi, clock, update, remote
  <2>1. Waiting'
      BY DEF TypeInv, Waiting
  <2>2. StartUpType'
    <3>1. retry' \in 0..RETRY_COUNT - 1
        BY LifecycleAssumption DEF TypeInv, StartUpType
    <3>2. UNCHANGED <<s_retry_num, bits>>
        OBVIOUS
    <3>3. boot' \in {"wifi", "unregister", "sntp", "mqtt", "algo", "run"}
        OBVIOUS
    <3>4. QED
        BY <3>1, <3>2, <3>3 DEF TypeInv, StartUpType
  <2>3. FlagsType'
    <3>1. UNCHANGED <<synced, testMode>> /\ (registered' = registered \/ registered' = TRUE \/ registered' = FALSE)
        BY Zenon
    <3>2. QED
        BY <3>1, Zenon DEF TypeInv, FlagsType
  <2>4. UpdateType'
      BY DEF TypeInv, UpdateType
  <2>5. QED
      BY <2>1, <2>2, <2>3, <2>4 DEF TypeInv
<1>3. QED
    BY <1>1, <1>2 DEF Main

LEMMA UpdateTypes == ASSUME IInv, TypeInv, Update PROVE TypeInv'
<1>1. CASE LoadSucceeds \/ HeapShort \/ FlagSet
    BY <1>1, RestartTypes DEF LoadSucceeds, HeapShort, FlagSet, TypeInv, UpdateType
<1>2. CASE \/ OtaWakes \/ BeginFails \/ ImageRefused \/ ImageAccepted
           \/ LoadFails \/ HeapSuffices \/ FlagNotSet
  <2>1. UNCHANGED <<boot, link, events, registered, s_retry_num, bits, synced, retry,
                    testMode, version, offered, restart_flag>>
      BY <1>2 DEF OtaWakes, BeginFails, ImageRefused, ImageAccepted, LoadFails, HeapSuffices,
                  FlagNotSet, OtaUnchanged, radio, wifi, clock, remote
  <2>2. candidate' = candidate \/ candidate' = offered
      BY <1>2 DEF OtaWakes, BeginFails, ImageRefused, ImageAccepted, LoadFails, HeapSuffices,
                  FlagNotSet
  <2>3. heap' = heap \/ \E n \in Nat : heap' = heap - n
      BY <1>2, LifecycleAssumption
      DEF OtaWakes, BeginFails, ImageRefused, ImageAccepted, LoadFails, HeapSuffices,
          FlagNotSet, Loses
  <2>4. UpdateType'
    <3>0. lost' = lost \/ lost' = 0
        BY <1>2 DEF OtaWakes, BeginFails, ImageRefused, ImageAccepted, LoadFails,
                    HeapSuffices, FlagNotSet, OtaUnchanged
    <3>1. heap \in Int /\ HEAP \in Nat
        BY LifecycleAssumption DEF IInv, HeapLeft
    <3>2. heap' <= HEAP
        BY <2>3, <3>1 DEF TypeInv, UpdateType
    <3>3. QED
        BY <2>1, <2>2, <3>0, <3>2, LifecycleAssumption DEF TypeInv, UpdateType
  <2>5. Waiting' /\ StartUpType'
      BY <2>1 DEF TypeInv, Waiting, StartUpType
  <2>6. FlagsType'
      BY <2>1, Zenon DEF TypeInv, FlagsType
  <2>7. QED
      BY <2>4, <2>5, <2>6 DEF TypeInv
<1>3. QED
    BY <1>1, <1>2 DEF Update

LEMMA OtherTypes ==
  ASSUME IInv, TypeInv, FetchFails \/ FetchPanics \/ NightReset \/ PressButton
  PROVE  TypeInv'
<1>1. CASE FetchPanics \/ NightReset
    BY <1>1, RestartTypes DEF FetchPanics, NightReset, TypeInv, UpdateType
<1>2. CASE FetchFails \/ PressButton
  <2> USE <1>2 DEF FetchFails, PressButton, radio, wifi, clock, update, remote
  <2>1. Waiting' /\ StartUpType'
      BY DEF TypeInv, Waiting, StartUpType
  <2>2. FlagsType'
    <3>1. /\ UNCHANGED <<registered, synced>>
          /\ testMode' = testMode \/ testMode' = ~testMode
        OBVIOUS
    <3>2. QED
        BY <3>1, Zenon DEF TypeInv, FlagsType
  <2>3. UpdateType'
    <3>1. heap \in Int /\ HEAP \in Nat /\ CLIENT \in Nat /\ OTHERS \in Nat
        BY LifecycleAssumption DEF IInv, HeapLeft
    <3>2. QED
        BY <3>1 DEF TypeInv, UpdateType
  <2>4. QED
      BY <2>1, <2>2, <2>3 DEF TypeInv
<1>3. QED
    BY <1>1, <1>2

\* Two events at most wait for the handler, an attempt is counted up to the
\* maximum, and heap and versions stay in their ranges.
THEOREM TypeCorrect == Spec => []TypeOK
<1>1. IInv /\ TypeInv /\ [Next]_vars => TypeInv'
  <2> SUFFICES ASSUME IInv, TypeInv, [Next]_vars PROVE TypeInv'
      OBVIOUS
  <2>1. CASE FetchFails \/ FetchPanics \/ NightReset \/ PressButton
      BY <2>1, OtherTypes
  <2>2. CASE UNCHANGED vars
    <3>1. Waiting' /\ StartUpType' /\ UpdateType'
        BY <2>2 DEF vars, radio, wifi, clock, update, remote, TypeInv, Waiting, StartUpType,
                    UpdateType
    <3>2. FlagsType'
        BY <2>2, Zenon DEF vars, wifi, clock, TypeInv, FlagsType
    <3>3. QED
        BY <3>1, <3>2 DEF TypeInv
  <2>3. QED
      BY <2>1, <2>2, RadioTypes, EventTypes, MainTypes, UpdateTypes DEF Next
<1>2. IInv /\ TypeInv => TypeOK
  <2> SUFFICES ASSUME IInv, TypeInv PROVE TypeOK
      OBVIOUS
  <2>1. events \in Seq({"GOT_IP", "DISCONNECTED"}) /\ Len(events) <= 2
    <3>1. events \in {<<>>, <<"GOT_IP">>, <<"DISCONNECTED">>, <<"GOT_IP", "DISCONNECTED">>}
        BY DEF TypeInv, Waiting
    <3> DEFINE Ev == {"GOT_IP", "DISCONNECTED"}
    <3>2. <<>> \in Seq(Ev) /\ Len(<<>>) <= 2
        OBVIOUS
    <3>3. \A e \in Ev : <<e>> \in Seq(Ev) /\ Len(<<e>>) <= 2
        OBVIOUS
    <3>4. \A e, f \in Ev : <<e, f>> \in Seq(Ev) /\ Len(<<e, f>>) <= 2
        OBVIOUS
    <3>5. "GOT_IP" \in Ev /\ "DISCONNECTED" \in Ev
        OBVIOUS
    <3> HIDE DEF Ev
    <3>6. events \in Seq(Ev) /\ Len(events) <= 2
        BY <3>1, <3>2, <3>3, <3>4, <3>5
    <3>7. QED
        BY <3>6 DEF Ev
  <2>2. heap \in 0..HEAP
      BY LifecycleAssumption, HeapAssumption DEF IInv, HeapLeft, TypeInv, UpdateType
  <2>3. ota \in {"none", "sleep", "begin", "load", "heap", "flag"}
      BY DEF IInv, HeapLeft
  <2>4. QED
      BY <2>1, <2>2, <2>3, Zenon
      DEF TypeInv, Waiting, StartUpType, FlagsType, UpdateType, TypeOK
<1>3. QED
    BY InitTypes, Invariance, <1>1, <1>2, PTL DEF Spec

=============================================================================
