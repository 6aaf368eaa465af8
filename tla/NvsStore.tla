------------------------------ MODULE NvsStore ------------------------------
(***************************************************************************)
(* The event storage of test_sensor_lab/main/nvs.c: NUM_KEY_WORDS keys of  *)
(* the non-volatile storage, filled one after the other, and the routine   *)
(* that sends and erases them.                                             *)
(*                                                                         *)
(* Two tasks use it.  The "counter" is the task that holds xAccessCount:   *)
(* analyzer writes an event, sendFromNVS writes one and then sends all.    *)
(* The "ota" task sends all, without any lock, when the heap is short, and *)
(* then restarts the device.  One step is one access to the storage.       *)
(*                                                                         *)
(* Data abstracted: an event is its number; the JSON text of a key is the  *)
(* sequence of its events and is full at KEY_CAPACITY events; NULL is the  *)
(* text that a failed nvs_get_str leaves behind.                           *)
(*                                                                         *)
(* Erasing a key and writing an event back may fail, which nobody looks    *)
(* at; opening the storage, and the write of initNVS_json, are taken to    *)
(* succeed.                                                                *)
(***************************************************************************)
EXTENDS Integers, SequencesExt

CONSTANTS
  NUM_KEY_WORDS,  \* keys of the storage
  KEY_CAPACITY,   \* events in a key when no NEEDED_SPACE_NVS bytes are left
  MAX_EVENTS,     \* bound of the model: events ever written
  NULL            \* no text

ASSUME StoreAssumption ==
  /\ NUM_KEY_WORDS \in Nat \ {0}
  /\ KEY_CAPACITY \in Nat \ {0}
  /\ MAX_EVENTS \in Nat
  /\ NULL \notin Seq(Nat)

VARIABLES
  flash,            \* the stored text of each key
  nvs_index,        \* the key that is being filled
  my_nvs_handle,    \* TRUE while the last opened handle is not closed
  pc,               \* control of each task
  i,                \* loop index of sendDataFromJSON_toDB, per task
  json_str,         \* the text writeToNVM has read
  sending,          \* sendFromNVS: sending follows the write
  bool_openHandle,  \* sendDataFromJSON_toDB was called from writeToNVM
  sent,             \* events the counter task has handed to the MQTT client
  next              \* number of the next event

task  == <<pc, i, json_str, sending, bool_openHandle>>
store == <<flash, nvs_index, my_nvs_handle>>
vars  == <<store, task, sent, next>>

Tasks  == {"counter", "ota"}
Keys   == 0..NUM_KEY_WORDS - 1
Absent == NULL

\* nvs_set_str, nvs_erase_key and nvs_get_str with a valid handle.  What lies
\* behind keyWords names no key, if reading it does not panic.
Put(k, text) == flash' = IF my_nvs_handle THEN [flash EXCEPT ![k] = text] ELSE flash
Get(k) == IF my_nvs_handle /\ k \in Keys THEN flash[k] ELSE NULL

Goto(t, label) == pc' = [pc EXCEPT ![t] = label]

\* What the application finds after initMY_nvs: the first key is emptied, the
\* others hold what they held, unless the flash had to be erased.
Booted(f) == [f EXCEPT ![0] = <<>>]
Erased == [k \in Keys |-> Absent]

Init ==
  /\ flash = Booted(Erased)
  /\ nvs_index = 0
  /\ my_nvs_handle = FALSE
  /\ pc = [t \in Tasks |-> "idle"]
  /\ i = [t \in Tasks |-> 0]
  /\ json_str = NULL
  /\ sending = FALSE /\ bool_openHandle = FALSE
  /\ sent = <<>>
  /\ next = 1

\* Power loss, esp_restart or a panic, at any point.
Restart ==
  /\ flash' \in {Booted(flash), Booted(Erased)}
  /\ nvs_index' = 0
  /\ my_nvs_handle' = FALSE
  /\ pc' = [t \in Tasks |-> "idle"]
  /\ i' = [t \in Tasks |-> 0]
  /\ json_str' = NULL
  /\ sending' = FALSE /\ bool_openHandle' = FALSE
  /\ UNCHANGED <<sent, next>>

-----------------------------------------------------------------------------
(* writeToNVM *)

Full == Get(nvs_index) # NULL /\ Len(Get(nvs_index)) >= KEY_CAPACITY

\* nvs_open; s tells whether the caller sends afterwards.
BeginWrite(s) ==
  /\ pc["counter"] = "idle"
  /\ next <= MAX_EVENTS
  /\ my_nvs_handle' = TRUE
  /\ sending' = s
  /\ Goto("counter", "open")
  /\ UNCHANGED <<flash, nvs_index, i, json_str, bool_openHandle, sent, next>>

\* The current key has room for an event.
UseKey ==
  /\ pc["counter"] = "open"
  /\ ~Full
  /\ Goto("counter", "read")
  /\ UNCHANGED <<store, i, json_str, sending, bool_openHandle, sent, next>>

\* Mutant: the number of keys is not respected.
NextKeyUnbounded ==
  /\ pc["counter"] = "open"
  /\ Full
  /\ nvs_index' = nvs_index + 1
  /\ Goto("counter", "newKey")
  /\ UNCHANGED <<flash, my_nvs_handle, i, json_str, sending, bool_openHandle, sent, next>>

\* It has not: go to the next key, whose text initNVS_json replaces.
NextKey ==
  /\ pc["counter"] = "open"
  /\ Full
  /\ nvs_index + 1 < NUM_KEY_WORDS
  /\ nvs_index' = nvs_index + 1
  /\ Goto("counter", "newKey")
  /\ UNCHANGED <<flash, my_nvs_handle, i, json_str, sending, bool_openHandle, sent, next>>

\* Mutant: the next key is initialised only when it does not exist.
NewKeyIfAbsent ==
  /\ pc["counter"] = "newKey"
  /\ IF Get(nvs_index) = NULL THEN Put(nvs_index, <<>>) ELSE UNCHANGED flash
  /\ Goto("counter", "read")
  /\ UNCHANGED <<nvs_index, my_nvs_handle, i, json_str, sending, bool_openHandle, sent, next>>

NewKey ==
  /\ pc["counter"] = "newKey"
  /\ Put(nvs_index, <<>>)
  /\ Goto("counter", "read")
  /\ UNCHANGED <<nvs_index, my_nvs_handle, i, json_str, sending, bool_openHandle, sent, next>>

\* The last key is full: for a moment nvs_index is behind the keys, ...
PastLastKey ==
  /\ pc["counter"] = "open"
  /\ Full
  /\ nvs_index + 1 = NUM_KEY_WORDS
  /\ nvs_index' = nvs_index + 1
  /\ Goto("counter", "past")
  /\ UNCHANGED <<flash, my_nvs_handle, i, json_str, sending, bool_openHandle, sent, next>>

\* ... then everything is sent, and the first key is used.  What is decremented is
\* a register: the compiler reads nvs_index once (sdkconfig: -Og).
LastKeyFull ==
  /\ pc["counter"] = "past"
  /\ nvs_index' = NUM_KEY_WORDS - 1
  /\ bool_openHandle' = TRUE
  /\ i' = [i EXCEPT !["counter"] = 0]
  /\ Goto("counter", "send")
  /\ UNCHANGED <<flash, my_nvs_handle, json_str, sending, sent, next>>

ReadKey ==
  /\ pc["counter"] = "read"
  /\ json_str' = Get(nvs_index)
  /\ Goto("counter", "add")
  /\ UNCHANGED <<store, i, sending, bool_openHandle, sent, next>>

\* addEventToStorage and nvs_close: the whole text is written back.  Without a
\* handle, or if nvs_set_str fails, the event is lost.
AddEvent ==
  /\ pc["counter"] = "add"
  /\ my_nvs_handle => json_str # NULL
  /\ \/ my_nvs_handle /\ Put(nvs_index, Append(json_str, next)) /\ next' = next + 1
     \/ UNCHANGED <<flash, next>>
  /\ my_nvs_handle' = FALSE
  /\ json_str' = NULL
  /\ sending' = FALSE
  /\ Goto("counter", IF sending THEN "openSend" ELSE "idle")
  /\ UNCHANGED <<nvs_index, i, bool_openHandle, sent>>

\* There was no text to add to: nvs_set_str panics on the missing string.
AddToNothing ==
  /\ pc["counter"] = "add"
  /\ my_nvs_handle /\ json_str = NULL
  /\ Restart

-----------------------------------------------------------------------------
(* sendDataFromJSON_toDB *)

OpenSend(t) ==
  /\ pc[t] = "openSend"
  /\ my_nvs_handle' = TRUE
  /\ i' = [i EXCEPT ![t] = 0]
  /\ Goto(t, "send")
  /\ UNCHANGED <<flash, nvs_index, json_str, sending, bool_openHandle, sent, next>>

\* Mutant: the current key is not sent.
MoreKeysButCurrent(t) == i[t] < nvs_index

MoreKeys(t) == i[t] <= nvs_index

NextI(t) == i' = [i EXCEPT ![t] = i[t] + 1]

\* The text of a key is handed to the MQTT client; nobody looks at the result.
\* What the OTA task hands over is not recorded: `sent' speaks of the counter task
\* alone, and the two may well hand over the same text.
SendKey(t) ==
  /\ pc[t] = "send"
  /\ MoreKeys(t)
  /\ Get(i[t]) # NULL
  /\ sent' = IF t = "counter" THEN sent \o Get(i[t]) ELSE sent
  /\ Goto(t, "erase")
  /\ UNCHANGED <<store, i, json_str, sending, bool_openHandle, next>>

SkipKey(t) ==
  /\ pc[t] = "send"
  /\ MoreKeys(t)
  /\ Get(i[t]) = NULL
  /\ NextI(t)
  /\ UNCHANGED <<store, pc, json_str, sending, bool_openHandle, sent, next>>

EraseKey(t) ==
  /\ pc[t] = "erase"
  /\ Put(i[t], Absent) \/ UNCHANGED flash
  /\ NextI(t)
  /\ Goto(t, "send")
  /\ UNCHANGED <<nvs_index, my_nvs_handle, json_str, sending, bool_openHandle, sent, next>>

\* Mutant: the first key is not filled again.
EndSendNoInit(t) ==
  /\ pc[t] = "send"
  /\ ~MoreKeys(t)
  /\ nvs_index' = 0
  /\ i' = [i EXCEPT ![t] = 0]
  /\ UNCHANGED flash

\* All keys are sent: start again with an empty first key.
EndSend(t) ==
  /\ pc[t] = "send"
  /\ ~MoreKeys(t)
  /\ nvs_index' = 0
  /\ Put(0, <<>>)
  /\ i' = [i EXCEPT ![t] = 0]

\* ... from sendFromNVS: close the handle
EndReport ==
  /\ ~bool_openHandle
  /\ EndSend("counter")
  /\ my_nvs_handle' = FALSE
  /\ Goto("counter", "idle")
  /\ UNCHANGED <<json_str, sending, bool_openHandle, sent, next>>

\* Mutant: the handle of writeToNVM is closed.
EndRollOverCloses ==
  /\ bool_openHandle
  /\ EndSend("counter")
  /\ bool_openHandle' = FALSE
  /\ my_nvs_handle' = FALSE
  /\ Goto("counter", "read")
  /\ UNCHANGED <<json_str, sending, sent, next>>

\* ... from writeToNVM: the event is still to be added
EndRollOver ==
  /\ bool_openHandle
  /\ EndSend("counter")
  /\ bool_openHandle' = FALSE
  /\ Goto("counter", "read")
  /\ UNCHANGED <<my_nvs_handle, json_str, sending, sent, next>>

-----------------------------------------------------------------------------
(* updateOTA with less than 8000 bytes of heap left *)

BeginOta ==
  /\ pc["ota"] = "idle"
  /\ Goto("ota", "openSend")
  /\ UNCHANGED <<store, i, json_str, sending, bool_openHandle, sent, next>>

EndOta ==
  /\ EndSend("ota")
  /\ my_nvs_handle' = FALSE
  /\ Goto("ota", "restart")
  /\ UNCHANGED <<json_str, sending, bool_openHandle, sent, next>>

OtaRestart == pc["ota"] = "restart" /\ Restart

Write ==
  \/ \E s \in BOOLEAN : BeginWrite(s)
  \/ UseKey \/ NextKey \/ NewKey \/ PastLastKey \/ LastKeyFull
  \/ ReadKey \/ AddEvent \/ AddToNothing

SendLoop(t) == OpenSend(t) \/ SendKey(t) \/ SkipKey(t) \/ EraseKey(t)

Next ==
  \/ Write
  \/ SendLoop("counter") \/ EndReport \/ EndRollOver
  \/ BeginOta \/ SendLoop("ota") \/ EndOta \/ OtaRestart
  \/ Restart

Spec == Init /\ [][Next]_vars

-----------------------------------------------------------------------------
(* Properties *)

Events == 1..next - 1

TypeOK ==
  /\ flash \in [Keys -> Seq(Events) \cup {Absent}]
  /\ nvs_index \in Keys \/ (nvs_index = NUM_KEY_WORDS /\ pc["counter"] = "past")
  /\ my_nvs_handle \in BOOLEAN
  /\ pc \in [Tasks -> {"idle", "open", "past", "newKey", "read", "add", "openSend",
                       "send", "erase", "restart"}]
  /\ i \in [Tasks -> 0..NUM_KEY_WORDS + 1]
  /\ json_str \in Seq(Events) \cup {NULL}
  /\ sending \in BOOLEAN /\ bool_openHandle \in BOOLEAN
  /\ sent \in Seq(Events)
  /\ next \in 1..MAX_EVENTS + 1

\* As long as the OTA task leaves the storage alone, every key up to the
\* current one holds a text, except for those that are being sent and the one
\* initNVS_json is about to fill; so no event is ever added to nothing.
LiveKeysHoldText ==
  pc["ota"] = "idle" =>
    \A k \in Keys :
      k <= nvs_index /\ flash[k] = Absent =>
        \/ pc["counter"] \in {"send", "erase"} /\ k < i["counter"]
        \/ pc["counter"] = "newKey" /\ k = nvs_index

\* While nobody else touches the storage, the handle in the global variable is
\* open at every access.
HandleOpenWhenUsed ==
  pc["ota"] = "idle" => (my_nvs_handle <=> pc["counter"] \notin {"idle", "openSend"})

\* The counter task hands over events in the order of their writing and none of
\* them twice, over all restarts and whatever the OTA task does: although a key
\* may be handed over and not erased, it is never taken up again after a restart.
SentOnceInOrder == \A a, b \in DOMAIN sent : a < b => sent[a] < sent[b]

\* The log that the keys represent: those not yet handed over, in order.
FirstKey ==
  CASE pc["counter"] = "send"  -> i["counter"]
    [] pc["counter"] = "erase" -> i["counter"] + 1
    [] OTHER -> 0
LastKey ==
  CASE pc["counter"] = "newKey" -> nvs_index - 1
    [] pc["counter"] = "past"   -> NUM_KEY_WORDS - 1
    [] OTHER -> nvs_index
Text(k) == IF flash[k] = Absent THEN <<>> ELSE flash[k]
Log == FlattenSeq([j \in 1..(LastKey - FirstKey + 1) |-> Text(FirstKey + j - 1)])

Abstract == INSTANCE EventLog WITH log <- Log

\* Until the OTA task sends too, the storage implements EventLog: a full
\* storage, a change of key and a failed erasure neither lose, repeat nor
\* reorder what is stored; only a restart forgets what was not sent.
ImplementsEventLog ==
  /\ Abstract!Init
  /\ [][ \/ pc["ota"] # "idle"
         \/ Abstract!Write \/ Abstract!Send
         \/ Abstract!Restart /\ Restart ]_<<Log, sent, next>>

=============================================================================
