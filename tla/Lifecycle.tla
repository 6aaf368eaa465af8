------------------------------ MODULE Lifecycle ------------------------------
(***************************************************************************)
(* Start-up, connection and over-the-air update of test_sensor_lab: the    *)
(* chain of waits in app_main (wifi.c, timeMgmt.c, mqtt.c), task updateOTA *)
(* (webFunctions.c, caps_ota.c), and what restarts the device.             *)
(*                                                                         *)
(* Data abstracted: a version is its number, as atoi sees it; the heap is  *)
(* counted in the pieces that a round of updateOTA may lose.  The radio,   *)
(* the servers and the test button do what they like.                      *)
(***************************************************************************)
EXTENDS Integers, Sequences

CONSTANTS
  MAXIMUM_RETRY,  \* attempts to connect to the access point again
  RETRY_COUNT,    \* looks at the clock in initSNTP (10)
  HEAP,           \* free heap after the boot
  MIN_HEAP,       \* updateOTA restarts the device below (8000 bytes)
  URL, HANDLE,    \* what an update that ends early does not free ...
  CLIENT,         \* ... and a fetch that finds no value (PlatformApi)
  OTHERS,         \* what fetches of other tasks lose between two looks at the heap
  MAX_VERSION     \* bound of the model: versions on the server

ASSUME LifecycleAssumption ==
  /\ MAXIMUM_RETRY \in Nat
  /\ RETRY_COUNT \in Nat \ {0}
  /\ {HEAP, MIN_HEAP, URL, HANDLE, CLIENT, OTHERS} \subseteq Nat
  /\ MAX_VERSION \in Nat

\* The heap that updateOTA insists on is enough for one round, and for the
\* fetches beside it: two of start_counting_algo before the first round, later one
\* of sendFromNVS at most, which fetches every 15 minutes (a round takes 150
\* seconds and the update), or two, with a test mode in the middle of the round.
ASSUME HeapAssumption ==
  /\ MIN_HEAP <= HEAP
  /\ URL + HANDLE + CLIENT + OTHERS < MIN_HEAP

VARIABLES
  boot,         \* app_main: init, wifi, unregister, sntp, mqtt, algo, run
  link,         \* of the radio: off, connecting, up
  events,       \* events of the radio that are not handled yet
  registered,   \* event_handler is registered
  s_retry_num,
  bits,         \* the event group of initWifi
  synced,       \* sntp_get_sync_status is not RESET
  retry,        \* of initSNTP
  ota,          \* control of updateOTA: none, sleep, begin, load, heap, flag
  candidate,    \* version of the image that is being loaded
  heap,         \* free heap
  lost,         \* by fetches of other tasks since updateOTA looked at the heap
  testMode,     \* sendFromNVS and updateOTA are suspended
  version,      \* of the running program
  offered,      \* version of the image on the server
  restart_flag  \* on the platform

radio  == <<link, events>>
wifi   == <<registered, s_retry_num, bits>>
clock  == <<synced, retry>>
update == <<ota, candidate, heap, lost>>
remote == <<offered, restart_flag>>
vars == <<boot, radio, wifi, clock, update, testMode, version, remote>>

Init ==
  /\ boot = "init"
  /\ link = "off" /\ events = <<>>
  /\ registered = FALSE /\ s_retry_num = 0 /\ bits = {}
  /\ synced = FALSE /\ retry = 0
  /\ ota = "none" /\ candidate = 0 /\ heap = HEAP /\ lost = 0
  /\ testMode = FALSE
  /\ version = 0
  /\ offered \in 0..MAX_VERSION /\ restart_flag \in {0, 1}

\* esp_restart, into the program of version v
RestartInto(v) ==
  /\ boot' = "init"
  /\ link' = "off" /\ events' = <<>>
  /\ registered' = FALSE /\ s_retry_num' = 0 /\ bits' = {}
  /\ synced' = FALSE /\ retry' = 0
  /\ ota' = "none" /\ candidate' = 0 /\ heap' = HEAP /\ lost' = 0
  /\ testMode' = FALSE
  /\ version' = v
  /\ UNCHANGED remote

-----------------------------------------------------------------------------
(* The radio and the servers *)

\* An attempt succeeds with an address from the DHCP server, ...
LinkUp ==
  /\ link = "connecting"
  /\ link' = "up"
  /\ events' = Append(events, "GOT_IP")
  /\ UNCHANGED <<boot, wifi, clock, update, testMode, version, remote>>

\* ... it fails, or the connection is lost.  (An attempt may also last forever,
\* when there is no address.)
LinkDown ==
  /\ link # "off"
  /\ link' = "off"
  /\ events' = Append(events, "DISCONNECTED")
  /\ UNCHANGED <<boot, wifi, clock, update, testMode, version, remote>>

TimeSync ==
  /\ link = "up" /\ boot \notin {"wifi", "unregister"}
  /\ ~synced
  /\ synced' = TRUE
  /\ UNCHANGED <<boot, radio, wifi, retry, update, testMode, version, remote>>

Publish ==
  /\ offered' \in 0..MAX_VERSION
  /\ restart_flag' \in {0, 1}
  /\ UNCHANGED <<boot, radio, wifi, clock, update, testMode, version>>

-----------------------------------------------------------------------------
(* wifi.c *)

EventIs(e) == events # <<>> /\ Head(events) = e /\ events' = Tail(events)

\* initWifi up to its wait: the handler is registered, and the start of the
\* radio makes it connect for the first time.
StartWifi ==
  /\ boot = "init"
  /\ boot' = "wifi"
  /\ registered' = TRUE
  /\ link' = "connecting"
  /\ UNCHANGED <<events, s_retry_num, bits, clock, update, testMode, version, remote>>

\* Mutant: the attempts are not limited.
ReconnectForever ==
  /\ registered /\ EventIs("DISCONNECTED")
  /\ s_retry_num' = s_retry_num + 1
  /\ link' = "connecting"
  /\ UNCHANGED <<boot, registered, bits, clock, update, testMode, version, remote>>

\* event_handler, as long as it is registered
Reconnect ==
  /\ registered /\ EventIs("DISCONNECTED")
  /\ s_retry_num < MAXIMUM_RETRY
  /\ s_retry_num' = s_retry_num + 1
  /\ link' = "connecting"
  /\ UNCHANGED <<boot, registered, bits, clock, update, testMode, version, remote>>

GiveUp ==
  /\ registered /\ EventIs("DISCONNECTED")
  /\ s_retry_num >= MAXIMUM_RETRY
  /\ bits' = bits \cup {"FAIL"}
  /\ UNCHANGED <<boot, link, registered, s_retry_num, clock, update, testMode, version, remote>>

GotIp ==
  /\ registered /\ EventIs("GOT_IP")
  /\ s_retry_num' = 0
  /\ bits' = bits \cup {"CONNECTED"}
  /\ UNCHANGED <<boot, link, registered, clock, update, testMode, version, remote>>

EventIgnored ==
  /\ ~registered /\ events # <<>>
  /\ events' = Tail(events)
  /\ UNCHANGED <<boot, link, wifi, clock, update, testMode, version, remote>>

\* initWifi: xEventGroupWaitBits returns, ...
WifiConnected ==
  /\ boot = "wifi" /\ "CONNECTED" \in bits
  /\ boot' = "unregister"
  /\ UNCHANGED <<radio, wifi, clock, update, testMode, version, remote>>

WifiFailed ==
  /\ boot = "wifi" /\ "CONNECTED" \notin bits
  /\ "FAIL" \in bits
  /\ RestartInto(version)

\* Mutant: the wait has no time-out.
WifiWaits == FALSE

\* ... after 60 seconds at the latest.
WifiTimeout ==
  /\ boot = "wifi" /\ bits = {}
  /\ RestartInto(version)

Unregister ==
  /\ boot = "unregister"
  /\ registered' = FALSE
  /\ boot' = "sntp"
  /\ UNCHANGED <<radio, s_retry_num, bits, clock, update, testMode, version, remote>>

-----------------------------------------------------------------------------
(* timeMgmt.c, mqtt.c, main.c *)

\* initSNTP: a look at the clock, and two seconds' delay
SntpWait ==
  /\ boot = "sntp" /\ ~synced
  /\ retry + 1 < RETRY_COUNT
  /\ retry' = retry + 1
  /\ UNCHANGED <<boot, radio, wifi, synced, update, testMode, version, remote>>

SntpFailed ==
  /\ boot = "sntp" /\ ~synced
  /\ retry + 1 >= RETRY_COUNT
  /\ RestartInto(version)

SntpDone ==
  /\ boot = "sntp" /\ synced
  /\ boot' = "mqtt"
  /\ UNCHANGED <<radio, wifi, clock, update, testMode, version, remote>>

\* initMQTT waits without a time-out; then init_web_functions creates updateOTA.
MqttConnected ==
  /\ boot = "mqtt" /\ link = "up"
  /\ boot' = "algo"
  /\ ota' = "sleep"
  /\ UNCHANGED <<radio, wifi, clock, candidate, heap, lost, testMode, version, remote>>

\* start_counting_algo: two requests, answered or not
StartCounting ==
  /\ boot = "algo"
  /\ boot' = "run"
  /\ UNCHANGED <<radio, wifi, clock, update, testMode, version, remote>>

\* The button turns the test mode on and off, which may be left on.
PressButton ==
  /\ boot = "run"
  /\ testMode' = ~testMode
  /\ UNCHANGED <<boot, radio, wifi, clock, update, version, remote>>

\* getCount_backup and getPrediction of start_counting_algo and getPrediction of
\* sendFromNVS: a fetch that finds no value.
FetchFails ==
  /\ boot \in {"algo", "run"}
  /\ lost + CLIENT <= OTHERS
  /\ lost' = lost + CLIENT /\ heap' = heap - CLIENT
  /\ UNCHANGED <<boot, radio, wifi, clock, ota, candidate, testMode, version, remote>>

\* fetchNumber makes a number of a pointer that was never set, if the fetch
\* brought no text: that may panic, or be 1 for the restart flag.
FetchPanics ==
  /\ boot \in {"algo", "run"}
  /\ RestartInto(version)

\* sendFromNVS restarts the device twice a day (module SendClock).
NightReset ==
  /\ boot = "run"
  /\ RestartInto(version)

-----------------------------------------------------------------------------
(* Task updateOTA; ota_update of caps_ota.c *)

Goto(label) == ota' = label
Loses(n) == heap' = heap - n
OtaUnchanged == UNCHANGED <<boot, radio, wifi, clock, lost, testMode, version, remote>>

OtaWakes ==
  /\ ota = "sleep"
  /\ Goto("begin")
  /\ UNCHANGED <<candidate, heap>> /\ OtaUnchanged

\* The server is not reached, or has nothing: esp_https_ota_begin fails.
BeginFails ==
  /\ ota = "begin"
  /\ Loses(URL)
  /\ Goto("heap")
  /\ UNCHANGED candidate /\ OtaUnchanged

\* Mutant: only the very same version is refused.
Rejected == offered = version

\* validate_image_header: the image is not newer.
NotNewer == version >= offered

\* The image is not newer, or its header cannot be read, also with the link up.
ImageRefused ==
  /\ ota = "begin"
  /\ Loses(URL + HANDLE)
  /\ Goto("heap")
  /\ UNCHANGED candidate /\ OtaUnchanged

ImageAccepted ==
  /\ ota = "begin" /\ link = "up"
  /\ ~NotNewer
  /\ candidate' = offered
  /\ Goto("load")
  /\ UNCHANGED heap /\ OtaUnchanged

\* The image is not received completely, or is not valid.
LoadFails ==
  /\ ota = "load"
  /\ Loses(HANDLE) \/ Loses(0)
  /\ Goto("heap")
  /\ UNCHANGED candidate /\ OtaUnchanged

LoadSucceeds ==
  /\ ota = "load" /\ link = "up"
  /\ RestartInto(candidate)

\* Mutant: the heap is looked at, but the device goes on.
HeapIgnored ==
  /\ ota = "heap"
  /\ Goto("flag")
  /\ lost' = 0
  /\ UNCHANGED <<boot, radio, wifi, clock, candidate, heap, testMode, version, remote>>

HeapSuffices ==
  /\ ota = "heap"
  /\ heap >= MIN_HEAP
  /\ Goto("flag")
  /\ lost' = 0
  /\ UNCHANGED <<boot, radio, wifi, clock, candidate, heap, testMode, version, remote>>

\* The storage is sent (module NvsStore), then the restart.
HeapShort ==
  /\ ota = "heap"
  /\ heap < MIN_HEAP
  /\ RestartInto(version)

FlagSet ==
  /\ ota = "flag" /\ link = "up"
  /\ restart_flag = 1
  /\ RestartInto(version)

\* The flag is 0 or cannot be fetched, which may cost a client handle.
FlagNotSet ==
  /\ ota = "flag"
  /\ \/ restart_flag = 0 /\ link = "up" /\ Loses(0)
     \/ Loses(CLIENT)
  /\ Goto("sleep")
  /\ UNCHANGED candidate /\ OtaUnchanged

-----------------------------------------------------------------------------
Radio  == LinkUp \/ LinkDown \/ TimeSync \/ Publish
Events == Reconnect \/ GiveUp \/ GotIp \/ EventIgnored
Main   == \/ StartWifi \/ WifiConnected \/ WifiFailed \/ WifiTimeout \/ Unregister
          \/ SntpWait \/ SntpFailed \/ SntpDone
          \/ MqttConnected \/ StartCounting
Update == \/ OtaWakes \/ BeginFails \/ ImageRefused \/ ImageAccepted
          \/ LoadFails \/ LoadSucceeds \/ HeapSuffices \/ HeapShort
          \/ FlagSet \/ FlagNotSet

\* pauseOtherTasks suspends updateOTA and sendFromNVS wherever they are.
Next ==
  \/ Radio \/ Events \/ Main \/ PressButton
  \/ ~testMode /\ (Update \/ NightReset \/ FetchFails \/ FetchPanics)

\* app_main runs, and its waits with a time-out end.  Nothing is assumed of the
\* radio and the servers, and of what a test mode left on would suspend.
Fairness ==
  /\ WF_vars(WifiConnected \/ WifiFailed \/ WifiTimeout)
  /\ WF_vars(StartWifi \/ Unregister \/ StartCounting)
  /\ WF_vars(SntpWait \/ SntpFailed \/ SntpDone)

Spec == Init /\ [][Next]_vars /\ Fairness

-----------------------------------------------------------------------------
(* Properties *)

TypeOK ==
  /\ boot \in {"init", "wifi", "unregister", "sntp", "mqtt", "algo", "run"}
  /\ link \in {"off", "connecting", "up"}
  /\ events \in Seq({"GOT_IP", "DISCONNECTED"}) /\ Len(events) <= 2
  /\ registered \in BOOLEAN /\ s_retry_num \in 0..MAXIMUM_RETRY
  /\ bits \subseteq {"CONNECTED", "FAIL"}
  /\ synced \in BOOLEAN /\ retry \in 0..RETRY_COUNT - 1
  /\ ota \in {"none", "sleep", "begin", "load", "heap", "flag"}
  /\ candidate \in 0..MAX_VERSION
  /\ heap \in 0..HEAP /\ lost \in 0..OTHERS /\ testMode \in BOOLEAN
  /\ version \in 0..MAX_VERSION /\ offered \in 0..MAX_VERSION
  /\ restart_flag \in {0, 1}

\* updateOTA looks at the heap once in a round, after the update: that is early
\* enough for the memory that the early returns of ota_update, and fetches
\* without a value of this task and of others, do not give back.
HeapLasts == heap > 0

\* An update never leads to an older version or to the same one, so that a
\* device does not go on updating itself.
VersionsRise == [][ version' # version \/ LoadSucceeds => version' > version ]_vars

\* No wait of the start-up but that for the MQTT broker lasts for ever: again
\* and again the device restarts, waits for the broker, or counts.
StartUpGoesOn ==
  []<>(boot \in {"mqtt", "run"}) \/ []<><<RestartInto(version)>>_vars

=============================================================================
