--------------------------- MODULE NvsStoreProofs ---------------------------
(***************************************************************************)
(* Proofs about NvsStore, for every number and size of the keys: the types *)
(* under both tasks and restarts at any access, and, as long as updateOTA  *)
(* leaves the storage alone, that the handle is open at every access, that *)
(* no event is ever added to a key without a text and that the storage     *)
(* implements EventLog.                                                    *)
(***************************************************************************)
EXTENDS NvsStore, WellFoundedInduction, TLAPS

Labels == {"idle", "open", "past", "newKey", "read", "add", "openSend", "send", "erase", "restart"}
Texts == Seq(Events) \cup {NULL}

FlashType == flash \in [Keys -> Texts]
IndexType ==
  /\ nvs_index \in 0..NUM_KEY_WORDS
  /\ pc["counter"] # "past" => nvs_index \in Keys
  /\ pc \in [Tasks -> Labels]
  /\ i \in [Tasks -> 0..NUM_KEY_WORDS + 1]
EventsType ==
  /\ next \in 1..MAX_EVENTS + 1
  /\ json_str \in Texts
  /\ sent \in Seq(Events)
FlagsType ==
  /\ my_nvs_handle \in BOOLEAN
  /\ sending \in BOOLEAN /\ bool_openHandle \in BOOLEAN

Types == FlashType /\ IndexType /\ EventsType /\ FlagsType

\* A key that is being erased is a key although the other task may have
\* gone back to the first one.
Erasing == \A t \in Tasks : pc[t] = "erase" => i[t] \in Keys

\* A write that has begun has a number for its event, also while it sends.
Writing ==
  /\ pc["counter"] \in {"open", "past", "newKey", "read", "add"} => next <= MAX_EVENTS
  /\ pc["counter"] = "past" => nvs_index = NUM_KEY_WORDS \/ pc["ota"] # "idle"
  /\ bool_openHandle => next <= MAX_EVENTS /\ pc["counter"] \in {"send", "erase"}

IInv == Types /\ Erasing /\ Writing /\ HandleOpenWhenUsed /\ LiveKeysHoldText

-----------------------------------------------------------------------------
(* Keys and texts *)

LEMMA KeyFacts ==
  /\ NUM_KEY_WORDS \in Nat \ {0} /\ 0 \in Keys
  /\ NUM_KEY_WORDS \in 0..NUM_KEY_WORDS /\ NUM_KEY_WORDS - 1 \in Keys
  /\ \A k \in Keys : k \in Nat /\ k \in 0..NUM_KEY_WORDS /\ k + 1 \in 0..NUM_KEY_WORDS
  /\ \A k \in 0..NUM_KEY_WORDS : k \in 0..NUM_KEY_WORDS + 1 /\ k + 1 \in 0..NUM_KEY_WORDS + 1
BY StoreAssumption DEF Keys

\* The missing text is not a text.
LEMMA TextIsNoNull ==
  ASSUME next \in Nat, NEW text \in Seq(Events)
  PROVE  text # NULL
<1>1. text \in Seq(Nat)
  BY DEF Events
<1> QED
  BY <1>1, StoreAssumption

LEMMA EmptyIsNoNull == <<>> # NULL
<1>1. <<>> \in Seq(Nat)
  OBVIOUS
<1> QED
  BY <1>1, StoreAssumption

\* The keys up to the current one are keys.
LEMMA UpToKey ==
  ASSUME NEW n \in Keys, NEW k \in 0..n
  PROVE  k \in Keys /\ k \in Nat /\ n \in Nat
BY StoreAssumption DEF Keys

LEMMA PutType ==
  ASSUME FlashType, NEW k \in Keys, NEW text \in Texts, Put(k, text)
  PROVE  flash' \in [Keys -> Texts]
BY DEF FlashType, Put

LEMMA GetType ==
  ASSUME FlashType, NEW k
  PROVE  Get(k) \in Texts
BY DEF FlashType, Get, Texts

\* The counter task leaves the keys only for a moment.
LEMMA CounterKey ==
  ASSUME IInv
  PROVE  /\ nvs_index \in Nat /\ nvs_index \in 0..NUM_KEY_WORDS
         /\ pc["counter"] # "past" => nvs_index \in Keys
BY StoreAssumption DEF IInv, Types, IndexType

LEMMA InitInv == Init => IInv
<1> SUFFICES ASSUME Init PROVE IInv
  OBVIOUS
<1>0. <<>> \in Seq(Events)
  OBVIOUS
<1>1. FlashType
  BY <1>0 DEF Init, Booted, Erased, Absent, FlashType, Texts
<1>2. IndexType
  BY KeyFacts DEF Init, IndexType, Labels
<1>3. EventsType
  BY <1>0, StoreAssumption DEF Init, EventsType, Texts
<1>4. FlagsType
  BY Zenon DEF Init, FlagsType
<1>5. Erasing /\ Writing
  BY DEF Init, Erasing, Writing, Tasks
<1>6. HandleOpenWhenUsed
  BY DEF Init, HandleOpenWhenUsed, Tasks
<1>7. LiveKeysHoldText
  <2>1. flash[0] = <<>> /\ <<>> # NULL
    BY EmptyIsNoNull, KeyFacts DEF Init, Booted, Erased
  <2> QED
    BY <2>1 DEF Init, LiveKeysHoldText, Absent, Keys
<1> QED
  BY <1>1, <1>2, <1>3, <1>4, <1>5, <1>6, <1>7 DEF IInv, Types


LEMMA RestartInv == ASSUME IInv, Restart PROVE IInv'
<1> USE DEF Restart
<1>0. Events' = Events /\ Texts' = Texts /\ <<>> \in Texts
  BY DEF Events, Texts
<1>1. FlashType'
  <2>1. \A f \in [Keys -> Texts] : Booted(f) \in [Keys -> Texts]
    BY <1>0 DEF Booted
  <2>2. flash \in [Keys -> Texts] /\ Erased \in [Keys -> Texts]
    BY DEF IInv, Types, FlashType, Erased, Absent, Texts
  <2> QED
    BY <1>0, <2>1, <2>2 DEF FlashType
<1>2. IndexType'
  BY KeyFacts DEF IndexType, Labels
<1>3. EventsType'
  BY <1>0 DEF IInv, Types, EventsType, Texts
<1>4. FlagsType'
  BY Zenon DEF FlagsType
<1>5. Erasing' /\ Writing'
  BY DEF Erasing, Writing, Tasks
<1>6. HandleOpenWhenUsed'
  BY DEF HandleOpenWhenUsed, Tasks
<1>7. LiveKeysHoldText'
  <2>1. flash'[0] = <<>>
    BY KeyFacts DEF Booted, Erased, IInv, Types, FlashType
  <2> QED
    BY <2>1, EmptyIsNoNull DEF LiveKeysHoldText, Absent, Keys
<1> QED
  BY <1>1, <1>2, <1>3, <1>4, <1>5, <1>6, <1>7 DEF IInv, Types

\* A task goes on to another label, the other one stays where it is.
LEMMA GotoFacts ==
  ASSUME IndexType, NEW t \in Tasks, NEW l \in Labels, Goto(t, l)
  PROVE  /\ pc' \in [Tasks -> Labels]
         /\ pc'[t] = l
         /\ \A u \in Tasks \ {t} : pc'[u] = pc[u]
BY DEF IndexType, Goto

LEMMA TwoTasks == "counter" \in Tasks /\ "ota" \in Tasks /\ "counter" # "ota"
BY DEF Tasks

-----------------------------------------------------------------------------
(* writeToNVM *)

\* The steps that only look at the storage or choose a key.
LEMMA LookInv ==
  ASSUME IInv, (\E s \in BOOLEAN : BeginWrite(s)) \/ UseKey \/ NextKey \/ PastLastKey \/ LastKeyFull
         \/ ReadKey
  PROVE  IInv'
<1> PICK l \in {"open", "read", "newKey", "past", "send", "add"} : Goto("counter", l)
  BY DEF BeginWrite, UseKey, NextKey, PastLastKey, LastKeyFull, ReadKey
<1>u. UNCHANGED <<flash, sent, next>>
  BY DEF BeginWrite, UseKey, NextKey, PastLastKey, LastKeyFull, ReadKey, store
<1>0. Events' = Events /\ Texts' = Texts
  BY <1>u DEF Events, Texts
<1>g. /\ pc' \in [Tasks -> Labels] /\ pc'["counter"] = l
      /\ pc'["ota"] = pc["ota"]
  BY GotoFacts, TwoTasks DEF IInv, Types, Labels
<1>1. FlashType'
  BY <1>0, <1>u DEF IInv, Types, FlashType
<1>x. /\ l = "newKey" => nvs_index' = nvs_index + 1 /\ nvs_index + 1 < NUM_KEY_WORDS
      /\ l = "past" => nvs_index' = NUM_KEY_WORDS
      /\ l = "send" => nvs_index' = NUM_KEY_WORDS - 1 /\ pc["counter"] = "past"
      /\ l \in {"open", "read", "add"} => nvs_index' = nvs_index /\ pc["counter"] # "past"
  <2>1. nvs_index \in Nat
    BY CounterKey
  <2>2. l = pc'["counter"]
    BY <1>g
  <2> QED
    BY <1>g, <2>1, <2>2 DEF BeginWrite, UseKey, NextKey, PastLastKey, LastKeyFull, ReadKey,
                            store, Goto, IInv, Types, IndexType, Labels
<1>2. IndexType'
  <2>1. /\ nvs_index' \in 0..NUM_KEY_WORDS
        /\ pc'["counter"] # "past" => nvs_index' \in Keys
    <3>1. nvs_index \in Nat /\ NUM_KEY_WORDS \in Nat \ {0}
      BY CounterKey, KeyFacts
    <3>2. CASE l \in {"open", "read", "add"}
      BY <1>x, <3>2, CounterKey
    <3>3. CASE l \in {"newKey", "past", "send"}
      BY <1>x, <1>g, <3>1, <3>3 DEF Keys
    <3> QED
      BY <3>2, <3>3
  <2>2. i' \in [Tasks -> 0..NUM_KEY_WORDS + 1]
    BY KeyFacts DEF BeginWrite, UseKey, NextKey, PastLastKey, LastKeyFull, ReadKey,
                    IInv, Types, IndexType
  <2> QED
    BY <1>g, <2>1, <2>2 DEF IndexType
<1>3. EventsType'
  <2>1. json_str' \in Texts
    <3>1. Get(nvs_index) \in Texts
      BY GetType DEF IInv, Types, IndexType
    <3> QED
      BY <3>1 DEF BeginWrite, UseKey, NextKey, PastLastKey, LastKeyFull, ReadKey, IInv, Types, EventsType
  <2> QED
    BY <1>0, <1>u, <2>1 DEF IInv, Types, EventsType
<1>4. FlagsType'
  BY Zenon DEF BeginWrite, UseKey, NextKey, PastLastKey, LastKeyFull, ReadKey, store, IInv, Types, FlagsType
<1>5. Erasing'
  <2>1. i'["ota"] = i["ota"]
    BY TwoTasks DEF BeginWrite, UseKey, NextKey, PastLastKey, LastKeyFull, ReadKey, IInv, Types, IndexType
  <2> QED
    BY <1>g, <2>1 DEF IInv, Erasing, Tasks
<1>6. Writing'
  <2>1. next <= MAX_EVENTS /\ ~bool_openHandle
    BY DEF BeginWrite, UseKey, NextKey, PastLastKey, LastKeyFull, ReadKey, IInv, Writing
  <2>2. bool_openHandle' => pc'["counter"] = "send"
    <3>1. LastKeyFull \/ bool_openHandle' = bool_openHandle
      BY DEF BeginWrite, UseKey, NextKey, PastLastKey, ReadKey
    <3>2. LastKeyFull => pc'["counter"] = "send"
      BY TwoTasks DEF LastKeyFull, Goto, IInv, Types, IndexType
    <3> QED
      BY <2>1, <3>1, <3>2
  <2>3. pc'["counter"] = "past" => nvs_index' = NUM_KEY_WORDS
    BY <1>g, <1>x
  <2> QED
    BY <1>u, <2>1, <2>2, <2>3 DEF Writing
<1>7. HandleOpenWhenUsed'
  BY <1>g DEF BeginWrite, UseKey, NextKey, PastLastKey, LastKeyFull, ReadKey, store, IInv,
              HandleOpenWhenUsed
<1>8. LiveKeysHoldText'
  <2> SUFFICES ASSUME pc["ota"] = "idle", NEW k \in Keys, k <= nvs_index', flash[k] = Absent,
                      ~(pc'["counter"] = "newKey" /\ k = nvs_index')
               PROVE  FALSE
    BY <1>u, <1>g DEF LiveKeysHoldText
  <2>1. nvs_index \in Nat /\ k \in Nat /\ k < NUM_KEY_WORDS
    BY CounterKey, StoreAssumption DEF Keys
  <2>2. pc["counter"] \in {"idle", "open", "past", "read"}
    BY DEF BeginWrite, UseKey, NextKey, PastLastKey, LastKeyFull, ReadKey
  <2>3. pc["counter"] = "past" => nvs_index = NUM_KEY_WORDS
    BY DEF IInv, Writing
  <2>4. k <= nvs_index
    <3>1. l = "newKey" => k # nvs_index + 1
      BY <1>g, <1>x
    <3>2. l = "past" => nvs_index + 1 = NUM_KEY_WORDS
      BY <1>g, <2>2 DEF BeginWrite, UseKey, NextKey, PastLastKey, LastKeyFull, ReadKey, Goto,
                        IInv, Types, IndexType
    <3> QED
      BY <1>x, <2>1, <2>3, <3>1, <3>2
  <2> QED
    BY <2>2, <2>4 DEF IInv, LiveKeysHoldText
<1> QED
  BY <1>1, <1>2, <1>3, <1>4, <1>5, <1>6, <1>7, <1>8 DEF IInv, Types

\* initNVS_json gives the next key an empty text.
LEMMA NewKeyInv == ASSUME IInv, NewKey PROVE IInv'
<1> USE DEF NewKey
<1>0. Events' = Events /\ Texts' = Texts /\ <<>> \in Texts
  BY DEF Events, Texts
<1>g. /\ pc' \in [Tasks -> Labels] /\ pc'["counter"] = "read"
      /\ pc'["ota"] = pc["ota"]
  BY GotoFacts, TwoTasks DEF IInv, Types, Labels
<1>1. FlashType'
  BY <1>0, PutType, CounterKey DEF IInv, Types, FlashType
<1>2. IndexType'
  BY <1>g DEF IInv, Types, IndexType
<1>3. EventsType'
  BY <1>0 DEF IInv, Types, EventsType
<1>4. FlagsType'
  BY Zenon DEF IInv, Types, FlagsType
<1>5. Erasing' /\ Writing' /\ HandleOpenWhenUsed'
  BY <1>g DEF IInv, Erasing, Writing, HandleOpenWhenUsed, Tasks
<1>6. LiveKeysHoldText'
  <2> SUFFICES ASSUME pc["ota"] = "idle", NEW k \in Keys, k <= nvs_index, flash'[k] = Absent
               PROVE  FALSE
    BY <1>g DEF LiveKeysHoldText
  <2>1. my_nvs_handle /\ nvs_index \in Keys
    BY CounterKey DEF IInv, HandleOpenWhenUsed
  <2>2. flash' = [flash EXCEPT ![nvs_index] = <<>>]
    BY <2>1 DEF Put
  <2>3. <<>> # NULL
    BY EmptyIsNoNull
  <2>5. k # nvs_index /\ flash[k] = Absent
    BY <2>1, <2>2, <2>3 DEF Absent, IInv, Types, FlashType
  <2> QED
    BY <2>5 DEF IInv, LiveKeysHoldText
<1> QED
  BY <1>1, <1>2, <1>3, <1>4, <1>5, <1>6 DEF IInv, Types

\* The text is written back with one event more.
LEMMA AddInv == ASSUME IInv, AddEvent PROVE IInv'
<1> USE DEF AddEvent
<1>n. next \in Nat /\ next \in 1..MAX_EVENTS /\ MAX_EVENTS \in Nat
  BY StoreAssumption DEF IInv, Writing, Types, EventsType
<1>m. next' \in {next, next + 1}
  OBVIOUS
<1>e. Events \subseteq Events' /\ Texts \subseteq Texts' /\ NULL \in Texts'
  <2>1. CASE next' = next
    BY <2>1 DEF Events, Texts
  <2>2. CASE next' = next + 1
    <3>1. 1..next - 1 \subseteq 1..next
      BY <1>n
    <3>2. Events \subseteq Events'
      BY <1>n, <2>2, <3>1 DEF Events
    <3> QED
      BY <3>2 DEF Texts
  <2> QED
    BY <1>m, <2>1, <2>2
<1>g. /\ pc' \in [Tasks -> Labels] /\ pc'["counter"] \in {"openSend", "idle"}
      /\ pc'["ota"] = pc["ota"]
  <2> PICK l \in {"openSend", "idle"} : Goto("counter", l)
    OBVIOUS
  <2> QED
    BY GotoFacts, TwoTasks DEF IInv, Types, Labels
<1>t. flash' # flash => /\ Append(json_str, next) \in Seq(Events')
                        /\ flash' = [flash EXCEPT ![nvs_index] = Append(json_str, next)]
                        /\ next' = next + 1
  <2> SUFFICES ASSUME flash' # flash PROVE Append(json_str, next) \in Seq(Events')
    BY DEF Put
  <2>1. json_str \in Seq(Events)
    BY DEF IInv, Types, EventsType, Texts
  <2>2. next \in Events' /\ json_str \in Seq(Events')
    BY <1>n, <1>e, <2>1 DEF Events
  <2> QED
    BY <2>2
<1>1. FlashType'
  <2>1. CASE flash' # flash
    BY <1>e, <1>t, <2>1 DEF IInv, Types, FlashType, Texts
  <2>2. CASE flash' = flash
    BY <1>e, <2>2 DEF IInv, Types, FlashType
  <2> QED
    BY <2>1, <2>2
<1>2. IndexType'
  BY <1>g DEF IInv, Types, IndexType
<1>3. EventsType'
  <2>1. sent' \in Seq(Events')
    BY <1>e DEF IInv, Types, EventsType
  <2>2. next' \in 1..MAX_EVENTS + 1
    BY <1>n, <1>m
  <2> QED
    BY <1>e, <2>1, <2>2 DEF EventsType
<1>4. FlagsType'
  BY Zenon DEF IInv, Types, FlagsType
<1>5. Erasing'
  BY <1>g DEF IInv, Erasing, Tasks
<1>6. Writing'
  BY <1>g DEF IInv, Writing
<1>7. HandleOpenWhenUsed'
  BY <1>g DEF HandleOpenWhenUsed
<1>8. LiveKeysHoldText'
  <2> SUFFICES ASSUME pc["ota"] = "idle", NEW k \in Keys, k <= nvs_index, flash'[k] = Absent
               PROVE  FALSE
    BY <1>g DEF LiveKeysHoldText
  <2>1. my_nvs_handle /\ nvs_index \in Keys
    BY CounterKey DEF IInv, HandleOpenWhenUsed
  <2>2. flash' # flash => Append(json_str, next) # NULL
    <3>1. flash' # flash => Append(json_str, next) \in Seq(Nat)
      BY <1>t DEF Events
    <3> QED
      BY <3>1, StoreAssumption
  <2>4. flash[k] = Absent
    BY <1>t, <2>1, <2>2 DEF Absent, IInv, Types, FlashType
  <2> QED
    BY <2>4 DEF IInv, LiveKeysHoldText
<1> QED
  BY <1>1, <1>2, <1>3, <1>4, <1>5, <1>6, <1>7, <1>8 DEF IInv, Types


-----------------------------------------------------------------------------
(* sendDataFromJSON_toDB, called by either task *)

\* The steps that hand over a key or go on to the next one.
LEMMA SendLoopInv ==
  ASSUME IInv, NEW t \in Tasks, OpenSend(t) \/ SendKey(t) \/ SkipKey(t)
  PROVE  IInv'
<1>u. UNCHANGED <<flash, nvs_index, json_str, sending, bool_openHandle, next>>
  BY DEF OpenSend, SendKey, SkipKey, store
<1>0. Events' = Events /\ Texts' = Texts
  BY <1>u DEF Events, Texts
<1>p. pc[t] \in {"openSend", "send"} /\ pc'[t] \in {"send", "erase"}
      /\ (pc[t] = "openSend" => pc'[t] = "send" /\ i'[t] = 0)
  BY DEF OpenSend, SendKey, SkipKey, Goto, IInv, Types, IndexType, Labels
<1>q. /\ pc' \in [Tasks -> Labels]
      /\ \A u \in Tasks \ {t} : pc'[u] = pc[u] /\ i'[u] = i[u]
  BY DEF OpenSend, SendKey, SkipKey, Goto, NextI, IInv, Types, IndexType, Labels
<1>k. MoreKeys(t) => i[t] \in 0..NUM_KEY_WORDS
  <2>1. i[t] \in 0..NUM_KEY_WORDS + 1
    BY DEF IInv, Types, IndexType
  <2> QED
    BY <2>1, CounterKey, StoreAssumption DEF MoreKeys
<1>s. SendKey(t) => i[t] \in Keys
  BY DEF SendKey, Get
<1>i. i' \in [Tasks -> 0..NUM_KEY_WORDS + 1] /\ (pc'[t] = "erase" => i'[t] \in Keys)
  <2>1. CASE OpenSend(t)
    BY <2>1, <1>p, KeyFacts DEF OpenSend, Goto, IInv, Types, IndexType
  <2>2. CASE SendKey(t)
    BY <2>2, <1>s DEF SendKey, IInv, Types, IndexType
  <2>3. CASE SkipKey(t)
    <3>1. i[t] + 1 \in 0..NUM_KEY_WORDS + 1 /\ pc'[t] = "send"
      BY <2>3, <1>k, KeyFacts DEF SkipKey
    <3> QED
      BY <2>3, <3>1 DEF SkipKey, NextI, IInv, Types, IndexType
  <2> QED
    BY <2>1, <2>2, <2>3
<1>1. FlashType'
  BY <1>0, <1>u DEF IInv, Types, FlashType
<1>r. pc'["counter"] = "past" => pc["counter"] = "past"
  BY <1>p, <1>q, TwoTasks
<1>2. IndexType'
  <2>1. pc["counter"] = "past" => pc'["counter"] = "past"
    BY <1>p, <1>q, TwoTasks
  <2>2. nvs_index' = nvs_index
    BY <1>u
  <2>3. nvs_index \in 0..NUM_KEY_WORDS /\ (pc'["counter"] # "past" => nvs_index \in Keys)
    BY <2>1, CounterKey
  <2> QED
    BY <1>q, <1>i, <2>2, <2>3 DEF IndexType
<1>3. EventsType'
  <2>1. sent' \in Seq(Events)
    <3>1. CASE SendKey(t)
      <4>1. Get(i[t]) \in Seq(Events)
        BY <3>1, GetType DEF SendKey, IInv, Types, Texts
      <4> QED
        BY <3>1, <4>1 DEF SendKey, IInv, Types, EventsType
    <3>2. CASE sent' = sent
      BY <3>2 DEF IInv, Types, EventsType
    <3> QED
      BY <3>1, <3>2 DEF OpenSend, SkipKey
  <2> QED
    BY <1>0, <1>u, <2>1 DEF IInv, Types, EventsType
<1>4. FlagsType'
  BY Zenon DEF OpenSend, SendKey, SkipKey, store, IInv, Types, FlagsType
<1>5. Erasing'
  <2> SUFFICES ASSUME NEW u \in Tasks, pc'[u] = "erase" PROVE i'[u] \in Keys
    BY DEF Erasing
  <2> QED
    BY <1>q, <1>i DEF IInv, Erasing
<1>6. Writing'
  <2>1. CASE t = "counter"
    BY <1>u, <1>p, <2>1 DEF IInv, Writing
  <2>2. CASE t # "counter"
    <3>1. t = "ota" /\ pc'["ota"] # "idle" /\ pc'["counter"] = pc["counter"]
      BY <1>p, <1>q, <2>2, TwoTasks DEF Tasks
    <3> QED
      BY <1>u, <3>1 DEF IInv, Writing
  <2> QED
    BY <2>1, <2>2
<1>7. HandleOpenWhenUsed'
  <2> SUFFICES ASSUME pc'["ota"] = "idle"
               PROVE  my_nvs_handle' <=> pc'["counter"] \notin {"idle", "openSend"}
    BY DEF HandleOpenWhenUsed
  <2>1. t = "counter" /\ pc["ota"] = "idle"
    BY <1>p, <1>q, TwoTasks DEF Tasks
  <2> QED
    BY <1>p, <2>1 DEF OpenSend, SendKey, SkipKey, store, IInv, HandleOpenWhenUsed
<1>8. LiveKeysHoldText'
  <2> SUFFICES ASSUME pc'["ota"] = "idle", NEW k \in Keys, k <= nvs_index,
                      flash[k] = Absent
               PROVE  pc'["counter"] \in {"send", "erase"} /\ k < i'["counter"]
    BY <1>u DEF LiveKeysHoldText
  <2>1. t = "counter" /\ pc["ota"] = "idle"
    BY <1>p, <1>q, TwoTasks DEF Tasks
  <2>2. pc[t] \in {"send", "erase"} /\ k < i[t]
    BY <1>p, <2>1 DEF IInv, LiveKeysHoldText
  <2>3. k \in Nat /\ i[t] \in Nat
    BY DEF IInv, Types, IndexType, Keys
  <2>4. i'[t] \in {i[t], i[t] + 1}
    BY <1>p, <2>2 DEF OpenSend, SendKey, SkipKey, NextI, IInv, Types, IndexType
  <2> QED
    BY <1>p, <2>1, <2>2, <2>3, <2>4
<1> QED
  BY <1>1, <1>2, <1>3, <1>4, <1>5, <1>6, <1>7, <1>8 DEF IInv, Types

LEMMA EraseInv == ASSUME IInv, NEW t \in Tasks, EraseKey(t) PROVE IInv'
<1> USE DEF EraseKey
<1>0. Events' = Events /\ Texts' = Texts /\ Absent \in Texts
  BY DEF Events, Texts, Absent
<1>k. i[t] \in Keys /\ i[t] + 1 \in 0..NUM_KEY_WORDS + 1
  BY KeyFacts DEF IInv, Erasing
<1>g. /\ pc' \in [Tasks -> Labels] /\ pc'[t] = "send"
      /\ \A u \in Tasks \ {t} : pc'[u] = pc[u] /\ i'[u] = i[u]
      /\ i' \in [Tasks -> 0..NUM_KEY_WORDS + 1] /\ i'[t] = i[t] + 1
  BY <1>k DEF Goto, NextI, IInv, Types, IndexType, Labels
<1>1. FlashType'
  BY <1>0, <1>k, PutType DEF IInv, Types, FlashType
<1>2. IndexType'
  <2>1. pc["counter"] = "past" <=> pc'["counter"] = "past"
    BY <1>g, TwoTasks
  <2> QED
    BY <1>g, <2>1 DEF IInv, Types, IndexType
<1>3. EventsType'
  BY <1>0 DEF IInv, Types, EventsType
<1>4. FlagsType'
  BY Zenon DEF IInv, Types, FlagsType
<1>5. Erasing'
  BY <1>g DEF IInv, Erasing
<1>6. Writing'
  <2>1. CASE t = "counter"
    BY <1>g, <2>1 DEF IInv, Writing
  <2>2. CASE t # "counter"
    <3>1. t = "ota" /\ pc'["ota"] # "idle" /\ pc'["counter"] = pc["counter"]
      BY <1>g, <2>2, TwoTasks DEF Tasks
    <3> QED
      BY <3>1 DEF IInv, Writing
  <2> QED
    BY <2>1, <2>2
<1>c. pc'["ota"] = "idle" => t = "counter" /\ pc["ota"] = "idle"
  BY <1>g, TwoTasks DEF Tasks
<1>7. HandleOpenWhenUsed'
  BY <1>c, <1>g DEF IInv, HandleOpenWhenUsed
<1>8. LiveKeysHoldText'
  <2> SUFFICES ASSUME pc'["ota"] = "idle", NEW k \in Keys, k <= nvs_index,
                      flash'[k] = Absent
               PROVE  pc'["counter"] \in {"send", "erase"} /\ k < i'["counter"]
    BY DEF LiveKeysHoldText
  <2>1. k \in Nat /\ i[t] \in Nat
    BY <1>k DEF Keys
  <2>2. k = i[t] \/ flash[k] = Absent
    BY <1>k, <2>1 DEF Put, IInv, Types, FlashType
  <2>3. k <= i[t]
    BY <1>c, <2>1, <2>2 DEF IInv, LiveKeysHoldText
  <2> QED
    BY <1>c, <1>g, <2>1, <2>3
<1> QED
  BY <1>1, <1>2, <1>3, <1>4, <1>5, <1>6, <1>7, <1>8 DEF IInv, Types

\* All keys are sent: the first one is empty again.
LEMMA EndSendInv ==
  ASSUME IInv, EndReport \/ EndRollOver \/ EndOta
  PROVE  IInv'
<1> PICK t \in Tasks, l \in {"idle", "read", "restart"} :
      /\ EndSend(t) /\ Goto(t, l)
      /\ t = "ota" <=> l = "restart"
  BY TwoTasks DEF EndReport, EndRollOver, EndOta
<1>u. UNCHANGED <<json_str, sending, sent, next>> /\ nvs_index' = 0
  BY DEF EndReport, EndRollOver, EndOta, EndSend
<1>0. Events' = Events /\ Texts' = Texts /\ <<>> \in Texts
  BY <1>u DEF Events, Texts
<1>g. /\ pc' \in [Tasks -> Labels] /\ pc'[t] = l /\ pc[t] = "send"
      /\ \A u \in Tasks \ {t} : pc'[u] = pc[u] /\ i'[u] = i[u]
      /\ i' \in [Tasks -> 0..NUM_KEY_WORDS + 1]
  BY KeyFacts DEF Goto, EndSend, IInv, Types, IndexType, Labels
<1>1. FlashType'
  BY <1>0, KeyFacts, PutType DEF EndSend, IInv, Types, FlashType
<1>2. IndexType'
  BY <1>u, <1>g, KeyFacts DEF IndexType
<1>3. EventsType'
  BY <1>0, <1>u DEF IInv, Types, EventsType
<1>4. FlagsType'
  BY <1>u, Zenon DEF EndReport, EndRollOver, EndOta, IInv, Types, FlagsType
<1>5. Erasing'
  BY <1>g DEF IInv, Erasing
<1>6. Writing'
  <2>1. CASE EndOta
    <3>1. pc'["counter"] = pc["counter"] /\ bool_openHandle' = bool_openHandle
      BY <2>1, TwoTasks DEF EndOta, Goto, IInv, Types, IndexType
    <3>2. pc'["ota"] # "idle"
      BY <2>1, TwoTasks DEF EndOta, Goto, IInv, Types, IndexType
    <3> QED
      BY <1>u, <3>1, <3>2 DEF IInv, Writing
  <2>2. CASE EndRollOver
    <3>1. next <= MAX_EVENTS /\ ~bool_openHandle' /\ pc'["counter"] = "read"
      BY <2>2, TwoTasks DEF EndRollOver, Goto, IInv, Types, IndexType, Writing
    <3> QED
      BY <1>u, <3>1 DEF Writing
  <2>3. CASE EndReport
    <3>1. pc'["counter"] = "idle" /\ ~bool_openHandle'
      BY <2>3, TwoTasks DEF EndReport, Goto, IInv, Types, IndexType
    <3> QED
      BY <3>1 DEF Writing
  <2> QED
    BY <2>1, <2>2, <2>3
<1>7. HandleOpenWhenUsed'
  <2> SUFFICES ASSUME pc'["ota"] = "idle"
               PROVE  my_nvs_handle' <=> pc'["counter"] \notin {"idle", "openSend"}
    BY DEF HandleOpenWhenUsed
  <2>1. ~EndOta
    BY TwoTasks DEF EndOta, Goto, IInv, Types, IndexType
  <2>2. pc["ota"] = "idle" /\ pc["counter"] = "send"
    BY <2>1, TwoTasks DEF EndReport, EndRollOver, EndSend, Goto, IInv, Types, IndexType
  <2>3. my_nvs_handle
    BY <2>2 DEF IInv, HandleOpenWhenUsed
  <2>4. CASE EndReport
    BY <2>4, TwoTasks DEF EndReport, Goto, IInv, Types, IndexType
  <2>5. CASE EndRollOver
    BY <2>5, <2>3, TwoTasks DEF EndRollOver, Goto, IInv, Types, IndexType
  <2> QED
    BY <2>1, <2>4, <2>5
<1>8. LiveKeysHoldText'
  <2> SUFFICES ASSUME pc'["ota"] = "idle" PROVE flash'[0] # Absent
    BY <1>u DEF LiveKeysHoldText, Keys
  <2>1. t = "counter" /\ pc["ota"] = "idle"
    BY <1>g, TwoTasks DEF Tasks
  <2>2. my_nvs_handle
    BY <1>g, <2>1 DEF IInv, HandleOpenWhenUsed
  <2>3. flash'[0] = <<>>
    BY <2>2, KeyFacts DEF EndSend, Put, IInv, Types, FlashType
  <2> QED
    BY <2>3, EmptyIsNoNull DEF Absent
<1> QED
  BY <1>1, <1>2, <1>3, <1>4, <1>5, <1>6, <1>7, <1>8 DEF IInv, Types

-----------------------------------------------------------------------------

LEMMA BeginOtaInv == ASSUME IInv, BeginOta PROVE IInv'
<1> USE DEF BeginOta, store
<1>0. Events' = Events /\ Texts' = Texts
  BY DEF Events, Texts
<1>g. /\ pc' \in [Tasks -> Labels] /\ pc'["ota"] = "openSend"
      /\ pc'["counter"] = pc["counter"]
  BY GotoFacts, TwoTasks DEF IInv, Types, Labels
<1>1. FlashType' /\ IndexType'
  BY <1>0, <1>g DEF IInv, Types, FlashType, IndexType
<1>2. EventsType'
  BY <1>0 DEF IInv, Types, EventsType
<1>3. FlagsType'
  BY Zenon DEF IInv, Types, FlagsType
<1>4. Erasing' /\ Writing'
  BY <1>g DEF IInv, Erasing, Writing, Tasks
<1>5. HandleOpenWhenUsed' /\ LiveKeysHoldText'
  BY <1>g DEF HandleOpenWhenUsed, LiveKeysHoldText
<1> QED
  BY <1>1, <1>2, <1>3, <1>4, <1>5 DEF IInv, Types

LEMMA StutterInv == ASSUME IInv, UNCHANGED vars PROVE IInv'
<1> USE DEF vars, store, task
<1>0. Events' = Events /\ Texts' = Texts
  BY DEF Events, Texts
<1>1. FlashType' /\ IndexType' /\ EventsType'
  BY <1>0 DEF IInv, Types, FlashType, IndexType, EventsType
<1>2. FlagsType'
  BY Zenon DEF IInv, Types, FlagsType
<1>3. Erasing' /\ Writing' /\ HandleOpenWhenUsed' /\ LiveKeysHoldText'
  BY DEF IInv, Erasing, Writing, HandleOpenWhenUsed, LiveKeysHoldText
<1> QED
  BY <1>1, <1>2, <1>3 DEF IInv, Types

THEOREM Invariance == Spec => []IInv
<1>1. IInv /\ [Next]_vars => IInv'
  <2> SUFFICES ASSUME IInv, [Next]_vars PROVE IInv'
    OBVIOUS
  <2>1. CASE Write
    BY <2>1, LookInv, NewKeyInv, AddInv, RestartInv DEF Write, AddToNothing
  <2>2. CASE \E t \in Tasks : SendLoop(t)
    BY <2>2, SendLoopInv, EraseInv DEF SendLoop
  <2>3. CASE BeginOta \/ OtaRestart \/ Restart
    BY <2>3, BeginOtaInv, RestartInv DEF OtaRestart
  <2> QED
    BY <2>1, <2>2, <2>3, EndSendInv, StutterInv, TwoTasks DEF Next
<1> QED
  BY InitInv, <1>1, PTL DEF Spec

-----------------------------------------------------------------------------
(* The order of the events: what is still to be sent lies behind what was  *)
(* sent, and each key behind those before it.                              *)

Sorted(s) == \A a, b \in DOMAIN s : a < b => s[a] < s[b]
Behind(s, t) == \A a \in DOMAIN s, b \in DOMAIN t : s[a] < t[b]

\* Key k is one of those that hold what the counter task has not handed over.
Live(k) == k \in FirstKey..LastKey /\ flash[k] # NULL

KeysInOrder ==
  /\ \A k \in Keys : Live(k) => Sorted(flash[k]) /\ Behind(sent, flash[k])
  /\ \A k, l \in Keys : Live(k) /\ Live(l) /\ k < l => Behind(flash[k], flash[l])

\* What writeToNVM has read is still the newest text when it writes it back.
ReadBehind ==
  pc["counter"] = "add" /\ my_nvs_handle /\ json_str # NULL =>
    /\ Sorted(json_str) /\ Behind(sent, json_str)
    /\ \A k \in Keys : k < nvs_index /\ flash[k] # NULL => Behind(flash[k], json_str)

\* The OTA task closes the handle under the counter task only when it has
\* emptied the storage, and then it only restarts.
Closed ==
  pc["counter"] \notin {"idle", "openSend"} /\ ~my_nvs_handle =>
    /\ pc["ota"] = "restart" /\ flash[0] \in {<<>>, NULL}
    /\ nvs_index = 0 \/ pc["counter"] = "send"

OrderInv == Sorted(sent) /\ KeysInOrder /\ ReadBehind /\ Closed

LEMMA EmptyInOrder ==
  ASSUME NEW s
  PROVE  Sorted(<<>>) /\ Behind(s, <<>>) /\ Behind(<<>>, s)
BY DEF Sorted, Behind

\* A new event has the highest number.
LEMMA AppendInOrder ==
  ASSUME NEW n \in Nat, NEW s \in Seq(1..n - 1), NEW t \in Seq(1..n - 1)
  PROVE  /\ Sorted(s) => Sorted(Append(s, n))
         /\ Behind(t, s) => Behind(t, Append(s, n))
<1> DEFINE u == Append(s, n)
<1>1. /\ DOMAIN u = 1..Len(s) + 1 /\ Len(s) \in Nat /\ DOMAIN s = 1..Len(s)
      /\ u[Len(s) + 1] = n
      /\ \A a \in 1..Len(s) : u[a] = s[a] /\ s[a] \in 1..n - 1
  OBVIOUS
<1>2. \A a \in DOMAIN t : t[a] \in 1..n - 1
  OBVIOUS
<1> HIDE DEF u
<1>3. Sorted(s) => Sorted(u)
  <2> SUFFICES ASSUME Sorted(s), NEW a \in DOMAIN u, NEW b \in DOMAIN u, a < b
               PROVE  u[a] < u[b]
    BY DEF Sorted
  <2>1. a \in 1..Len(s)
    BY <1>1
  <2>2. CASE b \in 1..Len(s)
    BY <1>1, <2>1, <2>2 DEF Sorted
  <2>3. CASE b = Len(s) + 1
    BY <1>1, <2>1, <2>3
  <2> QED
    BY <1>1, <2>2, <2>3
<1>4. Behind(t, s) => Behind(t, u)
  <2> SUFFICES ASSUME Behind(t, s), NEW a \in DOMAIN t, NEW b \in DOMAIN u
               PROVE  t[a] < u[b]
    BY DEF Behind
  <2>1. CASE b \in 1..Len(s)
    BY <1>1, <2>1 DEF Behind
  <2>2. CASE b = Len(s) + 1
    BY <1>1, <1>2, <2>2
  <2> QED
    BY <1>1, <2>1, <2>2
<1> QED
  BY <1>3, <1>4 DEF u

\* A text handed over after others that lie behind it.
LEMMA ConcatInOrder ==
  ASSUME NEW s \in Seq(Nat), NEW t \in Seq(Nat), NEW u \in Seq(Nat), Behind(s, t)
  PROVE  /\ Sorted(s) /\ Sorted(t) => Sorted(s \o t)
         /\ Behind(s, u) /\ Behind(t, u) => Behind(s \o t, u)
<1> DEFINE v == s \o t  m == Len(s)
<1>1. /\ DOMAIN v = 1..m + Len(t) /\ m \in Nat /\ Len(t) \in Nat
      /\ DOMAIN s = 1..m /\ DOMAIN t = 1..Len(t)
      /\ \A a \in 1..m : v[a] = s[a]
      /\ \A a \in m + 1..m + Len(t) : v[a] = t[a - m] /\ a - m \in 1..Len(t)
  OBVIOUS
<1> HIDE DEF v, m
<1>2. \A a \in DOMAIN v : a \in 1..m \/ a \in m + 1..m + Len(t)
  BY <1>1
<1>3. Sorted(s) /\ Sorted(t) => Sorted(v)
  <2> SUFFICES ASSUME Sorted(s), Sorted(t),
                      NEW a \in DOMAIN v, NEW b \in DOMAIN v, a < b
               PROVE  v[a] < v[b]
    BY DEF Sorted
  <2>1. CASE a \in 1..m /\ b \in 1..m
    BY <1>1, <2>1 DEF Sorted
  <2>2. CASE a \in 1..m /\ b \in m + 1..m + Len(t)
    BY <1>1, <2>2 DEF Behind
  <2>3. CASE a \in m + 1..m + Len(t) /\ b \in m + 1..m + Len(t)
    <3>1. a - m < b - m
      BY <1>1, <2>3
    <3> QED
      BY <1>1, <2>3, <3>1 DEF Sorted
  <2>4. ~(a \in m + 1..m + Len(t) /\ b \in 1..m)
    BY <1>1
  <2> QED
    BY <1>2, <2>1, <2>2, <2>3, <2>4
<1>4. Behind(s, u) /\ Behind(t, u) => Behind(v, u)
  BY <1>1, <1>2 DEF Behind
<1> QED
  BY <1>3, <1>4 DEF v

\* Steps after which the live keys hold what they held, or nothing.
LEMMA KeepsOrder ==
  ASSUME KeysInOrder, sent' = sent,
         \A k \in Keys : Live(k)' => \/ flash'[k] = <<>>
                                     \/ Live(k) /\ flash'[k] = flash[k]
  PROVE  KeysInOrder'
<1>1. \A k \in Keys : Live(k)' => Sorted(flash'[k]) /\ Behind(sent', flash'[k])
  BY EmptyInOrder DEF KeysInOrder
<1>2. \A k, l \in Keys : Live(k)' /\ Live(l)' /\ k < l => Behind(flash'[k], flash'[l])
  BY EmptyInOrder DEF KeysInOrder
<1> QED
  BY <1>1, <1>2 DEF KeysInOrder

LEMMA OrderInit == Init => OrderInv
<1> SUFFICES ASSUME Init PROVE OrderInv
  OBVIOUS
<1>1. Sorted(sent)
  BY EmptyInOrder DEF Init
<1>2. \A k \in Keys : Live(k) => k = 0 /\ flash[k] = <<>>
  BY KeyFacts DEF Init, Booted, Erased, Absent, Live, FirstKey, LastKey, Tasks
<1>3. KeysInOrder
  BY <1>2, EmptyInOrder DEF KeysInOrder
<1>4. ReadBehind /\ Closed
  BY DEF Init, ReadBehind, Closed, Tasks
<1> QED
  BY <1>1, <1>3, <1>4 DEF OrderInv

LEMMA OrderRestart == ASSUME IInv, OrderInv, Restart PROVE OrderInv'
<1> USE DEF Restart
<1>1. Sorted(sent')
  BY DEF OrderInv
<1>2. flash'[0] = <<>>
  BY KeyFacts DEF Booted, Erased, IInv, Types, FlashType
<1>3. KeysInOrder'
  <2>1. \A k \in Keys : Live(k)' => flash'[k] = <<>>
    BY <1>2 DEF Live, FirstKey, LastKey, Tasks
  <2> QED
    BY <2>1, KeepsOrder DEF OrderInv
<1>4. ReadBehind' /\ Closed'
  BY DEF ReadBehind, Closed, Tasks
<1> QED
  BY <1>1, <1>3, <1>4 DEF OrderInv

\* A text is only full, or missing in the sense of the storage, with a handle.
LEMMA FullMeansOpen == Full => my_nvs_handle
BY DEF Full, Get

LEMMA OrderLook ==
  ASSUME IInv, OrderInv,
         (\E s \in BOOLEAN : BeginWrite(s)) \/ UseKey \/ NextKey \/ PastLastKey
  PROVE  OrderInv'
<1> PICK l \in {"open", "read", "newKey", "past"} : Goto("counter", l)
  BY DEF BeginWrite, UseKey, NextKey, PastLastKey
<1>u. UNCHANGED <<flash, sent>>
  BY DEF BeginWrite, UseKey, NextKey, PastLastKey, store
<1>g. pc'["counter"] = l /\ pc'["ota"] = pc["ota"] /\ pc["counter"] \in {"idle", "open"}
  BY GotoFacts, TwoTasks DEF IInv, Types, Labels, BeginWrite, UseKey, NextKey, PastLastKey
<1>1. Sorted(sent')
  BY <1>u DEF OrderInv
<1>2. KeysInOrder'
  <2>1. nvs_index \in Nat /\ NUM_KEY_WORDS \in Nat
    BY CounterKey, KeyFacts
  <2>2. \/ l \in {"open", "read"} /\ nvs_index' = nvs_index
        \/ l = "newKey" /\ nvs_index' = nvs_index + 1
        \/ l = "past" /\ nvs_index + 1 = NUM_KEY_WORDS
    BY <1>g, TwoTasks DEF BeginWrite, UseKey, NextKey, PastLastKey, store, Goto, IInv, Types,
                          IndexType
  <2>4. FirstKey' = 0 /\ FirstKey = 0 /\ LastKey' = nvs_index /\ LastKey = nvs_index
    BY <1>g, <2>1, <2>2 DEF FirstKey, LastKey
  <2>5. \A k \in Keys : Live(k)' => Live(k) /\ flash'[k] = flash[k]
    BY <1>u, <2>4 DEF Live
  <2> QED
    BY <1>u, <2>5, KeepsOrder DEF OrderInv
<1>3. ReadBehind'
  BY <1>g DEF ReadBehind
<1>4. Closed'
  <2>1. CASE \E s \in BOOLEAN : BeginWrite(s)
    BY <2>1 DEF BeginWrite, Closed
  <2>2. CASE UseKey
    BY <2>2, <1>g, <1>u DEF UseKey, store, OrderInv, Closed
  <2>3. CASE NextKey \/ PastLastKey
    BY <2>3, FullMeansOpen DEF NextKey, PastLastKey, store, Closed
  <2> QED
    BY <2>1, <2>2, <2>3
<1> QED
  BY <1>1, <1>2, <1>3, <1>4 DEF OrderInv

\* All keys are to be sent, the OTA task may have emptied them meanwhile.
LEMMA OrderLastKey == ASSUME IInv, OrderInv, LastKeyFull PROVE OrderInv'
<1> USE DEF LastKeyFull
<1>g. pc'["counter"] = "send" /\ pc'["ota"] = pc["ota"] /\ i'["counter"] = 0
  BY GotoFacts, TwoTasks DEF IInv, Types, IndexType, Labels
<1>1. KeysInOrder'
  <2>1. FirstKey' = FirstKey /\ LastKey' = LastKey
    BY <1>g DEF FirstKey, LastKey
  <2>2. \A k \in Keys : Live(k)' => Live(k) /\ flash'[k] = flash[k]
    BY <2>1 DEF Live
  <2> QED
    BY <2>2, KeepsOrder DEF OrderInv
<1>2. ReadBehind'
  BY <1>g DEF ReadBehind
<1>3. Closed'
  BY <1>g DEF OrderInv, Closed
<1> QED
  BY <1>1, <1>2, <1>3 DEF OrderInv

LEMMA OrderRead == ASSUME IInv, OrderInv, ReadKey PROVE OrderInv'
<1> USE DEF ReadKey, store
<1>g. pc'["counter"] = "add" /\ pc'["ota"] = pc["ota"]
  BY GotoFacts, TwoTasks DEF IInv, Types, Labels
<1>i. nvs_index \in Keys /\ nvs_index \in Nat
  BY CounterKey
<1>l. \A k \in Keys : Live(k) <=> k \in 0..nvs_index /\ flash[k] # NULL
  BY DEF Live, FirstKey, LastKey
<1>1. KeysInOrder'
  <2>1. \A k \in Keys : Live(k)' => Live(k) /\ flash'[k] = flash[k]
    BY <1>g, <1>l DEF Live, FirstKey, LastKey
  <2> QED
    BY <2>1, KeepsOrder DEF OrderInv
<1>2. ReadBehind'
  <2> SUFFICES ASSUME my_nvs_handle, flash[nvs_index] # NULL
               PROVE  /\ Sorted(flash[nvs_index]) /\ Behind(sent, flash[nvs_index])
                      /\ \A k \in Keys : k < nvs_index /\ flash[k] # NULL
                                         => Behind(flash[k], flash[nvs_index])
    BY DEF ReadBehind, Get
  <2>1. Live(nvs_index)
    BY <1>i, <1>l
  <2>2. \A k \in Keys : k < nvs_index /\ flash[k] # NULL => Live(k)
    BY <1>i, <1>l DEF Keys
  <2> QED
    BY <1>i, <2>1, <2>2 DEF OrderInv, KeysInOrder
<1>3. Closed'
  BY <1>g DEF OrderInv, Closed
<1> QED
  BY <1>1, <1>2, <1>3 DEF OrderInv

LEMMA OrderNewKey == ASSUME IInv, OrderInv, NewKey PROVE OrderInv'
<1> USE DEF NewKey
<1>g. pc'["counter"] = "read" /\ pc'["ota"] = pc["ota"]
  BY GotoFacts, TwoTasks DEF IInv, Types, Labels
<1>i. nvs_index \in Keys /\ nvs_index \in Nat
  BY CounterKey
<1>h. ~my_nvs_handle => flash' = flash /\ nvs_index = 0 /\ flash[0] \in {<<>>, NULL}
  BY DEF Put, OrderInv, Closed
<1>o. my_nvs_handle => flash' = [flash EXCEPT ![nvs_index] = <<>>]
  BY DEF Put
<1>1. KeysInOrder'
  <2> SUFFICES ASSUME NEW k \in Keys, Live(k)', flash'[k] # <<>>
               PROVE  Live(k) /\ flash'[k] = flash[k]
    BY KeepsOrder DEF OrderInv
  <2>1. k \in 0..nvs_index /\ flash'[k] # NULL
    BY <1>g DEF Live, FirstKey, LastKey
  <2>2. my_nvs_handle
    BY <1>h, <2>1
  <2>3. k # nvs_index /\ flash'[k] = flash[k]
    BY <1>i, <1>o, <2>2 DEF IInv, Types, FlashType
  <2> QED
    BY <1>i, <2>1, <2>3 DEF Live, FirstKey, LastKey
<1>2. ReadBehind'
  BY <1>g DEF ReadBehind
<1>3. Closed'
  BY <1>g, <1>h DEF OrderInv, Closed
<1> QED
  BY <1>1, <1>2, <1>3 DEF OrderInv

\* The event goes behind the newest text, or nowhere.
LEMMA OrderAdd == ASSUME IInv, OrderInv, AddEvent PROVE OrderInv'
<1> USE DEF AddEvent
<1>g. pc'["counter"] \in {"openSend", "idle"}
  <2> PICK l \in {"openSend", "idle"} : Goto("counter", l)
    OBVIOUS
  <2> QED
    BY GotoFacts, TwoTasks DEF IInv, Types, Labels
<1>i. nvs_index \in Keys /\ nvs_index \in Nat /\ next \in Nat
  BY CounterKey, StoreAssumption DEF IInv, Types, EventsType
<1>l. /\ \A k \in Keys : Live(k) <=> k \in 0..nvs_index /\ flash[k] # NULL
      /\ \A k \in Keys : Live(k)' <=> k \in 0..nvs_index /\ flash'[k] # NULL
  BY <1>g DEF Live, FirstKey, LastKey
<1>1. KeysInOrder'
  <2>1. CASE flash' = flash
    <3>1. \A k \in Keys : Live(k)' => Live(k) /\ flash'[k] = flash[k]
      BY <1>l, <2>1
    <3> QED
      BY <3>1, KeepsOrder DEF OrderInv
  <2>2. CASE my_nvs_handle /\ Put(nvs_index, Append(json_str, next))
    <3> DEFINE text == Append(json_str, next)
    <3>1. json_str \in Seq(1..next - 1) /\ sent \in Seq(1..next - 1) /\ json_str # NULL
      BY <2>2 DEF IInv, Types, EventsType, Texts, Events
    <3>2. /\ Sorted(json_str) /\ Behind(sent, json_str)
          /\ \A k \in Keys : k < nvs_index /\ flash[k] # NULL => Behind(flash[k], json_str)
      BY <2>2, <3>1 DEF OrderInv, ReadBehind
    <3>3. Sorted(text) /\ Behind(sent, text)
      BY <1>i, <3>1, <3>2, AppendInOrder
    <3>4. \A k \in Keys : k < nvs_index /\ flash[k] # NULL => Behind(flash[k], text)
      <4> SUFFICES ASSUME NEW k \in Keys, k < nvs_index, flash[k] # NULL
                   PROVE  Behind(flash[k], text)
        OBVIOUS
      <4>1. flash[k] \in Seq(1..next - 1)
        BY DEF IInv, Types, FlashType, Texts, Events
      <4>2. Behind(flash[k], json_str)
        BY <3>2
      <4> QED
        BY <1>i, <3>1, <4>1, <4>2, AppendInOrder
    <3> HIDE DEF text
    <3>5. flash' = [flash EXCEPT ![nvs_index] = text]
      BY <2>2 DEF Put, text
    <3>6. /\ flash'[nvs_index] = text
          /\ \A k \in Keys \ {nvs_index} : flash'[k] = flash[k]
      BY <1>i, <3>5 DEF IInv, Types, FlashType
    <3>7. \A k \in Keys \ {nvs_index} : Live(k)' => Live(k) /\ k < nvs_index
      BY <1>i, <1>l, <3>6 DEF Keys
    <3>8. \A k \in Keys : Live(k)' => Sorted(flash'[k]) /\ Behind(sent', flash'[k])
      BY <3>3, <3>6, <3>7 DEF OrderInv, KeysInOrder
    <3>9. ASSUME NEW k \in Keys, NEW m \in Keys, Live(k)', Live(m)', k < m
          PROVE  Behind(flash'[k], flash'[m])
      <4>1. k # nvs_index
        BY <1>i, <1>l, <3>9 DEF Keys
      <4>2. CASE m = nvs_index
        BY <1>l, <3>4, <3>6, <3>7, <3>9, <4>1, <4>2
      <4>3. CASE m # nvs_index
        BY <3>6, <3>7, <3>9, <4>1, <4>3 DEF OrderInv, KeysInOrder
      <4> QED
        BY <4>2, <4>3
    <3> QED
      BY <3>8, <3>9 DEF KeysInOrder
  <2> QED
    BY <2>1, <2>2
<1>2. ReadBehind' /\ Closed'
  BY <1>g DEF ReadBehind, Closed
<1> QED
  BY <1>1, <1>2 DEF OrderInv

\* The steps of the OTA task that neither open nor close the handle.
LEMMA OrderOther ==
  ASSUME IInv, OrderInv, BeginOta \/ SendKey("ota") \/ SkipKey("ota") \/ EraseKey("ota")
  PROVE  OrderInv'
<1>u. UNCHANGED <<nvs_index, my_nvs_handle, json_str, sent>>
  BY TwoTasks DEF BeginOta, SendKey, SkipKey, EraseKey, store
<1>g. pc'["counter"] = pc["counter"] /\ i'["counter"] = i["counter"] /\ pc["ota"] # "restart"
  BY TwoTasks DEF BeginOta, SendKey, SkipKey, EraseKey, Goto, NextI, IInv, Types, IndexType
<1>f. \A k \in Keys : flash'[k] # NULL => flash'[k] = flash[k]
  BY DEF BeginOta, SendKey, SkipKey, EraseKey, Put, Absent, store, IInv, Types, FlashType
<1>1. KeysInOrder'
  <2>1. \A k \in Keys : Live(k)' => Live(k) /\ flash'[k] = flash[k]
    BY <1>u, <1>g, <1>f DEF Live, FirstKey, LastKey
  <2> QED
    BY <1>u, <2>1, KeepsOrder DEF OrderInv
<1>2. ReadBehind'
  BY <1>u, <1>g, <1>f DEF OrderInv, ReadBehind
<1>3. Closed'
  BY <1>u, <1>g DEF OrderInv, Closed
<1> QED
  BY <1>u, <1>1, <1>2, <1>3 DEF OrderInv

LEMMA OrderOpenSend == ASSUME IInv, OrderInv, NEW t \in Tasks, OpenSend(t) PROVE OrderInv'
<1> USE DEF OpenSend
<1>g. /\ \/ pc'["counter"] = pc["counter"] /\ i'["counter"] = i["counter"] /\ t = "ota"
         \/ pc["counter"] = "openSend" /\ pc'["counter"] = "send" /\ i'["counter"] = 0
  BY TwoTasks DEF Tasks, Goto, IInv, Types, IndexType
<1>1. KeysInOrder'
  <2>1. \A k \in Keys : Live(k)' => Live(k) /\ flash'[k] = flash[k]
    BY <1>g DEF Live, FirstKey, LastKey
  <2> QED
    BY <2>1, KeepsOrder DEF OrderInv
<1>2. ReadBehind'
  <2>1. CASE pc'["counter"] = "send"
    BY <2>1 DEF ReadBehind
  <2>2. CASE t = "ota" /\ pc'["counter"] = pc["counter"]
    <3>1. pc["counter"] = "add" => my_nvs_handle
      BY <2>2 DEF OrderInv, Closed
    <3> QED
      BY <2>2, <3>1 DEF OrderInv, ReadBehind
  <2> QED
    BY <1>g, <2>1, <2>2
<1>3. Closed'
  BY DEF Closed
<1> QED
  BY <1>1, <1>2, <1>3 DEF OrderInv

\* The first live key is handed over: all others lie behind it.
LEMMA OrderSendKey == ASSUME IInv, OrderInv, SendKey("counter") PROVE OrderInv'
<1> USE DEF SendKey, store
<1> DEFINE k0 == i["counter"]
<1>g. pc'["counter"] = "erase" /\ pc'["ota"] = pc["ota"]
  BY GotoFacts, TwoTasks DEF IInv, Types, Labels
<1>h. my_nvs_handle' = TRUE
  BY DEF Get, IInv, Types, FlagsType
<1>i. k0 \in Keys /\ k0 \in 0..nvs_index /\ nvs_index \in Nat
  <2>1. nvs_index \in Keys /\ nvs_index \in Nat /\ k0 \in Nat
    BY CounterKey, TwoTasks DEF IInv, Types, IndexType
  <2> QED
    BY <2>1, UpToKey DEF MoreKeys
<1>k. flash[k0] # NULL /\ sent' = sent \o flash[k0]
  BY DEF Get
<1>l. Live(k0) /\ \A k \in Keys : Live(k)' => Live(k) /\ k0 < k
  BY <1>g, <1>i, <1>k DEF Live, FirstKey, LastKey, Keys
<1>t. /\ sent \in Seq(Nat) /\ \A k \in Keys : flash[k] # NULL => flash[k] \in Seq(Nat)
  BY DEF IInv, Types, EventsType, FlashType, Texts, Events
<1>o. Sorted(sent) /\ Sorted(flash[k0]) /\ Behind(sent, flash[k0])
  BY <1>i, <1>l DEF OrderInv, KeysInOrder
<1> HIDE DEF k0
<1>1. Sorted(sent')
  BY <1>i, <1>k, <1>t, <1>o, ConcatInOrder
<1>2. \A k \in Keys : Live(k)' => Sorted(flash[k]) /\ Behind(sent', flash[k])
  <2> SUFFICES ASSUME NEW k \in Keys, Live(k), k0 < k
               PROVE  Sorted(flash[k]) /\ Behind(sent', flash[k])
    BY <1>l
  <2>1. Sorted(flash[k]) /\ Behind(sent, flash[k]) /\ Behind(flash[k0], flash[k])
    BY <1>i, <1>l DEF OrderInv, KeysInOrder
  <2>2. flash[k] \in Seq(Nat) /\ flash[k0] \in Seq(Nat)
    BY <1>i, <1>k, <1>t DEF Live
  <2>3. Behind(sent \o flash[k0], flash[k])
    BY <1>t, <1>o, <2>1, <2>2, ConcatInOrder
  <2> QED
    BY <1>k, <2>1, <2>3
<1>3. KeysInOrder'
  BY <1>l, <1>2 DEF OrderInv, KeysInOrder
<1>4. ReadBehind' /\ Closed'
  BY <1>g, <1>h DEF ReadBehind, Closed
<1> QED
  BY <1>1, <1>3, <1>4 DEF OrderInv

LEMMA OrderNextKey ==
  ASSUME IInv, OrderInv, SkipKey("counter") \/ EraseKey("counter")
  PROVE  OrderInv'
<1>u. UNCHANGED <<nvs_index, my_nvs_handle, json_str, sent>>
  BY DEF SkipKey, EraseKey, store
<1>i. i["counter"] \in Nat /\ i'["counter"] = i["counter"] + 1
  BY TwoTasks DEF SkipKey, EraseKey, NextI, IInv, Types, IndexType
<1>g. /\ pc["counter"] \in {"send", "erase"} /\ pc'["counter"] = "send"
      /\ pc'["ota"] = pc["ota"]
  BY TwoTasks DEF SkipKey, EraseKey, Goto, IInv, Types, IndexType
<1>f. \A k \in Keys : flash'[k] # NULL => flash'[k] = flash[k]
  BY DEF SkipKey, EraseKey, Put, Absent, store, IInv, Types, FlashType
<1>1. KeysInOrder'
  <2>1. \A k \in Keys : Live(k)' => Live(k) /\ flash'[k] = flash[k]
    BY <1>u, <1>i, <1>g, <1>f DEF Live, FirstKey, LastKey, Keys
  <2> QED
    BY <1>u, <2>1, KeepsOrder DEF OrderInv
<1>2. ReadBehind'
  BY <1>g DEF ReadBehind
<1>3. Closed'
  <2>1. flash[0] \in {<<>>, NULL} => flash'[0] \in {<<>>, NULL}
    BY <1>f, KeyFacts
  <2> QED
    BY <1>u, <1>g, <2>1 DEF OrderInv, Closed
<1> QED
  BY <1>u, <1>1, <1>2, <1>3 DEF OrderInv

\* All is sent: only the first key is live again, and it is empty.
LEMMA OrderEnd == ASSUME IInv, OrderInv, EndReport \/ EndRollOver PROVE OrderInv'
<1>u. nvs_index' = 0 /\ sent' = sent /\ pc["counter"] = "send" /\ pc'["ota"] = pc["ota"]
  BY TwoTasks DEF EndReport, EndRollOver, EndSend, Goto, IInv, Types, IndexType
<1>g. \/ EndReport /\ pc'["counter"] = "idle"
      \/ EndRollOver /\ pc'["counter"] = "read" /\ my_nvs_handle' = my_nvs_handle
  BY TwoTasks DEF EndReport, EndRollOver, Goto, IInv, Types, IndexType
<1>f. flash'[0] \in {<<>>, NULL}
  <2>1. Put(0, <<>>)
    BY DEF EndReport, EndRollOver, EndSend
  <2>2. CASE my_nvs_handle
    BY <2>1, <2>2, KeyFacts DEF Put, IInv, Types, FlashType
  <2>3. CASE ~my_nvs_handle
    BY <1>u, <2>1, <2>3 DEF Put, OrderInv, Closed
  <2> QED
    BY <2>2, <2>3
<1>1. KeysInOrder'
  <2>1. \A k \in Keys : Live(k)' => flash'[k] = <<>>
    BY <1>u, <1>g, <1>f DEF Live, FirstKey, LastKey, Keys
  <2> QED
    BY <1>u, <2>1, KeepsOrder DEF OrderInv
<1>2. ReadBehind'
  BY <1>g DEF ReadBehind
<1>3. Closed'
  BY <1>u, <1>g, <1>f DEF OrderInv, Closed
<1> QED
  BY <1>u, <1>1, <1>2, <1>3 DEF OrderInv

\* The same by the OTA task, at any point of the counter task.
LEMMA OrderEndOta == ASSUME IInv, OrderInv, EndOta PROVE OrderInv'
<1> USE DEF EndOta, EndSend
<1>g. /\ pc'["counter"] = pc["counter"] /\ i'["counter"] = i["counter"]
      /\ pc'["ota"] = "restart" /\ pc["ota"] = "send"
  BY TwoTasks DEF Goto, IInv, Types, IndexType
<1>o. my_nvs_handle => flash'[0] = <<>>
  BY KeyFacts DEF Put, IInv, Types, FlashType
<1>c. ~my_nvs_handle => flash' = flash /\ pc["counter"] \in {"idle", "openSend"}
  BY <1>g DEF Put, OrderInv, Closed
<1>1. KeysInOrder'
  <2> SUFFICES ASSUME NEW k \in Keys, Live(k)', flash'[k] # <<>>
               PROVE  Live(k) /\ flash'[k] = flash[k]
    BY KeepsOrder DEF OrderInv
  <2>1. CASE pc["counter"] = "past"
    <3>1. my_nvs_handle
      BY <1>c, <2>1
    <3>2. k # 0
      BY <1>o, <3>1
    <3>3. flash'[k] = flash[k]
      BY <3>1, <3>2, KeyFacts DEF Put, IInv, Types, FlashType
    <3> QED
      BY <1>g, <2>1, <3>3 DEF Live, FirstKey, LastKey
  <2>2. CASE pc["counter"] # "past"
    <3>1. k = 0 /\ flash'[k] # NULL
      <4>1. i["counter"] \in Nat
        BY TwoTasks DEF IInv, Types, IndexType
      <4> QED
        BY <1>g, <2>2, <4>1 DEF Live, FirstKey, LastKey, Keys
    <3>2. ~my_nvs_handle
      BY <1>o, <3>1
    <3>3. nvs_index \in Nat
      BY CounterKey
    <3> QED
      BY <1>c, <3>1, <3>2, <3>3 DEF Live, FirstKey, LastKey
  <2> QED
    BY <2>1, <2>2
<1>2. ReadBehind'
  BY DEF ReadBehind
<1>3. Closed'
  BY <1>g, <1>o, <1>c DEF Closed
<1> QED
  BY <1>1, <1>2, <1>3 DEF OrderInv

THEOREM Order == Spec => []OrderInv
<1>1. IInv /\ OrderInv /\ [Next]_vars => OrderInv'
  <2> SUFFICES ASSUME IInv, OrderInv, [Next]_vars PROVE OrderInv'
    OBVIOUS
  <2>1. CASE Write
    BY <2>1, OrderLook, OrderLastKey, OrderRead, OrderNewKey, OrderAdd, OrderRestart
       DEF Write, AddToNothing
  <2>2. CASE SendLoop("counter") \/ EndReport \/ EndRollOver
    BY <2>2, TwoTasks, OrderOpenSend, OrderSendKey, OrderNextKey, OrderEnd DEF SendLoop
  <2>3. CASE BeginOta \/ SendLoop("ota") \/ EndOta
    BY <2>3, TwoTasks, OrderOpenSend, OrderOther, OrderEndOta DEF SendLoop
  <2>4. CASE OtaRestart \/ Restart
    BY <2>4, OrderRestart DEF OtaRestart
  <2>5. CASE UNCHANGED vars
    BY <2>5 DEF vars, store, task, OrderInv, KeysInOrder, ReadBehind, Closed, Live, FirstKey,
                LastKey
  <2> QED
    BY <2>1, <2>2, <2>3, <2>4, <2>5 DEF Next
<1> QED
  BY OrderInit, Invariance, <1>1, PTL DEF Spec

-----------------------------------------------------------------------------

\* Under both tasks and restarts at any access: the loops stay within the keys,
\* and what is stored and sent are texts of events that were written.
THEOREM TypeCorrect == Spec => []TypeOK
<1>1. IInv => TypeOK
  <2> SUFFICES ASSUME IInv PROVE TypeOK
    OBVIOUS
  <2>1. nvs_index \in Keys \/ (nvs_index = NUM_KEY_WORDS /\ pc["counter"] = "past")
    BY CounterKey, KeyFacts DEF Keys
  <2> QED
    BY <2>1, Zenon DEF IInv, Types, FlashType, IndexType, EventsType, FlagsType, Texts, Labels,
                       Absent, TypeOK
<1> QED
  BY <1>1, Invariance, PTL

\* The handle in the global variable is open at every access of the counter
\* task, also when writeToNVM sends in the middle of its write.
THEOREM HandleOpen == Spec => []HandleOpenWhenUsed
<1>1. IInv => HandleOpenWhenUsed
  BY DEF IInv
<1> QED
  BY <1>1, Invariance, PTL

\* No event is added to a key without a text, whatever the restarts left in
\* the storage.
THEOREM LiveKeysKeepText == Spec => []LiveKeysHoldText
<1>1. IInv => LiveKeysHoldText
  BY DEF IInv
<1> QED
  BY <1>1, Invariance, PTL

\* What the counter task itself hands over is in the order of the writing and
\* without repetition, over all restarts, failed writes and failed erasures, and
\* although the OTA task sends, erases and closes beside it.  It says nothing of
\* what the OTA task hands over: the same event may be sent by both.
THEOREM SentInOrder == Spec => []SentOnceInOrder
<1>1. OrderInv => SentOnceInOrder
  BY DEF OrderInv, Sorted, SentOnceInOrder
<1> QED
  BY <1>1, Order, PTL

-----------------------------------------------------------------------------
(* Concatenating the texts of the keys *)

\* A set of numbers has a least one: with it, a claim about every number is
\* proved from its least counterexample.
LEMMA NatLeast ==
  ASSUME NEW T, T \subseteq Nat, T # {}
  PROVE  \E x \in T : \A y \in T : x <= y
<1> DEFINE R == {ss \in Nat \X Nat : ss[1] < ss[2]}
<1>1. IsWellFoundedOn(R, Nat)
  BY NatLessThanWellFounded DEF OpToRel
<1>2. \E x \in T : \A y \in T : ~ (<<y, x>> \in R)
  BY <1>1, WFMin
<1>3. \A x, y \in Nat : ~(<<y, x>> \in R) => x <= y
  OBVIOUS
<1> QED
  BY <1>2, <1>3

\* g holds the concatenations of the first elements of s.
Flattens(g, s, n) == g = [k \in 1..n |-> IF k = 1 THEN s[k] ELSE g[k - 1] \o s[k]]

LEMMA FlattenIs ==
  ASSUME NEW s
  PROVE  FlattenSeq(s) = IF Len(s) = 0 THEN s ELSE (CHOOSE g : Flattens(g, s, Len(s)))[Len(s)]
BY DEF FlattenSeq, Flattens

LEMMA FlattensExists ==
  ASSUME NEW s, NEW m \in Nat
  PROVE  \E g : Flattens(g, s, m)
<1> DEFINE T == {n \in Nat : ~ \E g : Flattens(g, s, n)}
<1>1. CASE T = {}
  BY <1>1
<1>2. CASE T # {}
  <2>1. PICK n \in T : \A y \in T : n <= y
    BY <1>2, NatLeast
  <2>2. n # 0
    <3>1. Flattens([k \in 1..0 |-> 0], s, 0)
      BY DEF Flattens
    <3> QED
      BY <2>1, <3>1
  <2>3. n \in Nat /\ n - 1 \in Nat /\ n - 1 \notin T
    BY <2>1, <2>2
  <2>4. PICK g : Flattens(g, s, n - 1)
    BY <2>3
  <2>5. \A k \in 1..n - 1 : g[k] = IF k = 1 THEN s[k] ELSE g[k - 1] \o s[k]
    BY <2>4 DEF Flattens
  <2> DEFINE last == IF n = 1 THEN s[n] ELSE g[n - 1] \o s[n]
             h == [k \in 1..n |-> IF k = n THEN last ELSE g[k]]
  <2>6. \A k \in 1..n : h[k] = IF k = n THEN last ELSE g[k]
    OBVIOUS
  <2>7. \A k \in 1..n : h[k] = IF k = 1 THEN s[k] ELSE h[k - 1] \o s[k]
    <3> HIDE DEF h, last
    <3> SUFFICES ASSUME NEW k \in 1..n
                 PROVE  h[k] = IF k = 1 THEN s[k] ELSE h[k - 1] \o s[k]
      OBVIOUS
    <3>1. k # 1 => k - 1 \in 1..n - 1 /\ k - 1 \in 1..n /\ k - 1 # n
      BY <2>3
    <3>2. CASE k = n
      BY <2>6, <3>1, <3>2 DEF last
    <3>3. CASE k # n
      <4>1. k \in 1..n - 1
        BY <2>3, <3>3
      <4> QED
        BY <2>5, <2>6, <3>1, <3>3, <4>1
    <3> QED
      BY <3>2, <3>3
  <2>8. h = [k \in 1..n |-> h[k]]
    OBVIOUS
  <2> HIDE DEF h
  <2>9. Flattens(h, s, n)
    BY <2>7, <2>8 DEF Flattens
  <2> QED
    BY <2>1, <2>9
<1> QED
  BY <1>1, <1>2

\* Over a common beginning of s and t the concatenations are the same.
LEMMA FlattensAgree ==
  ASSUME NEW s, NEW t, NEW g, NEW h, NEW m \in Nat, NEW n \in Nat, m <= n,
         Flattens(g, s, m), Flattens(h, t, n), \A k \in 1..m : s[k] = t[k]
  PROVE  \A k \in 1..m : g[k] = h[k]
<1> DEFINE T == {k \in 1..m : g[k] # h[k]}
<1>1. CASE T = {}
  BY <1>1
<1>2. CASE T # {}
  <2>0. T \subseteq Nat
    OBVIOUS
  <2>1. PICK k \in T : \A y \in T : k <= y
    BY <1>2, <2>0, NatLeast
  <2>2. k \in 1..m /\ k \in 1..n /\ k \in Nat
    BY <2>1
  <2>3. k # 1 => k - 1 \in 1..m /\ k - 1 \notin T
    BY <2>1, <2>2
  <2>4. g[k] = (IF k = 1 THEN s[k] ELSE g[k - 1] \o s[k])
    BY <2>2 DEF Flattens
  <2>5. h[k] = (IF k = 1 THEN t[k] ELSE h[k - 1] \o t[k])
    BY <2>2 DEF Flattens
  <2>6. k # 1 => g[k - 1] = h[k - 1]
    BY <2>3
  <2> QED
    BY <2>1, <2>2, <2>4, <2>5, <2>6
<1> QED
  BY <1>1, <1>2

\* One element more is concatenated at the end.
LEMMA FlattenLonger ==
  ASSUME NEW s, NEW t, NEW n \in Nat, Len(s) = n, Len(t) = n + 1,
         \A k \in 1..n : s[k] = t[k], n = 0 => s = <<>> /\ t[1] \in Seq(Nat)
  PROVE  FlattenSeq(t) = FlattenSeq(s) \o t[n + 1]
<1>1. PICK g : Flattens(g, s, n) /\ FlattenSeq(s) = IF n = 0 THEN s ELSE g[n]
  <2> DEFINE g == CHOOSE x : Flattens(x, s, n)
  <2>1. Flattens(g, s, n)
    BY FlattensExists
  <2> QED
    BY <2>1, FlattenIs
<1>2. PICK h : Flattens(h, t, n + 1) /\ FlattenSeq(t) = h[n + 1]
  <2> DEFINE h == CHOOSE x : Flattens(x, t, n + 1)
  <2>1. Flattens(h, t, n + 1)
    BY FlattensExists
  <2> QED
    BY <2>1, FlattenIs
<1>3. \A k \in 1..n : g[k] = h[k]
  BY <1>1, <1>2, FlattensAgree
<1>4. h[n + 1] = IF n = 0 THEN t[n + 1] ELSE h[n] \o t[n + 1]
  <2>1. n + 1 \in 1..n + 1 /\ (n + 1) - 1 = n /\ (n + 1 = 1 <=> n = 0)
    OBVIOUS
  <2>2. h[n + 1] = IF n + 1 = 1 THEN t[n + 1] ELSE h[(n + 1) - 1] \o t[n + 1]
    BY <1>2, <2>1 DEF Flattens
  <2> QED
    BY <2>1, <2>2
<1>5. CASE n = 0
  <2>1. t[n + 1] \in Seq(Nat) /\ FlattenSeq(s) = <<>> /\ FlattenSeq(t) = t[n + 1]
    BY <1>1, <1>2, <1>4, <1>5
  <2> QED
    BY <2>1
<1>6. CASE n # 0
  <2>1. n \in 1..n
    BY <1>6
  <2>2. g[n] = h[n]
    BY <1>3, <2>1
  <2>3. FlattenSeq(s) = g[n] /\ FlattenSeq(t) = h[n] \o t[n + 1]
    BY <1>1, <1>2, <1>4, <1>6
  <2> QED
    BY <2>2, <2>3
<1> QED
  BY <1>5, <1>6

\* The texts of n keys of f from key a on, an absent one as no events.
EventsOf(text) == IF text = Absent THEN <<>> ELSE text
Parts(f, a, n) == [j \in 1..n |-> EventsOf(f[a + j - 1])]
LogOf(f, a, n) == FlattenSeq(Parts(f, a, n))

HoldEvents(f, a, n) == \A k \in a..a + n - 1 : EventsOf(f[k]) \in Seq(Nat)

LEMMA PartsAre ==
  ASSUME NEW f, NEW a \in Nat, NEW n \in Nat, HoldEvents(f, a, n)
  PROVE  /\ Len(Parts(f, a, n)) = n
         /\ \A j \in 1..n : Parts(f, a, n)[j] = EventsOf(f[a + j - 1])
<1>1. \A j \in 1..n : a + j - 1 \in a..a + n - 1
  OBVIOUS
<1>2. Parts(f, a, n) \in Seq(Seq(Nat))
  BY <1>1 DEF Parts, HoldEvents
<1> QED
  BY <1>2 DEF Parts

LEMMA NoPart ==
  ASSUME NEW f, NEW a, NEW n \in Int, n <= 0
  PROVE  LogOf(f, a, n) = <<>>
<1>1. 1..n = {}
  OBVIOUS
<1>2. Parts(f, a, n) = <<>>
  BY <1>1 DEF Parts
<1>3. FlattenSeq(<<>>) = <<>>
  BY FlattenIs
<1> QED
  BY <1>2, <1>3 DEF LogOf

LEMMA PartsSame ==
  ASSUME NEW f, NEW g, NEW a \in Nat, NEW n \in Int,
         \A k \in a..a + n - 1 : EventsOf(f[k]) = EventsOf(g[k])
  PROVE  LogOf(f, a, n) = LogOf(g, a, n)
<1>1. \A j \in 1..n : a + j - 1 \in a..a + n - 1
  OBVIOUS
<1>2. Parts(f, a, n) = Parts(g, a, n)
  BY <1>1 DEF Parts
<1> QED
  BY <1>2 DEF LogOf

\* The newest key comes last.
LEMMA LastPart ==
  ASSUME NEW f, NEW a \in Nat, NEW n \in Nat, HoldEvents(f, a, n + 1)
  PROVE  LogOf(f, a, n + 1) = LogOf(f, a, n) \o EventsOf(f[a + n])
<1> DEFINE s == Parts(f, a, n)
           t == Parts(f, a, n + 1)
<1>1. HoldEvents(f, a, n)
  BY DEF HoldEvents
<1>2. /\ Len(s) = n /\ \A j \in 1..n : s[j] = EventsOf(f[a + j - 1])
  BY <1>1, PartsAre
<1>3. /\ Len(t) = n + 1 /\ \A j \in 1..n + 1 : t[j] = EventsOf(f[a + j - 1])
  BY PartsAre, n + 1 \in Nat
<1>4. n = 0 => s = <<>> /\ t[1] \in Seq(Nat)
  <2>1. n = 0 => s = <<>>
    BY DEF Parts
  <2>2. n = 0 => t[1] = EventsOf(f[a]) /\ a \in a..a + (n + 1) - 1
    BY <1>3
  <2> QED
    BY <2>1, <2>2 DEF HoldEvents
<1>5. \A j \in 1..n : s[j] = t[j]
  BY <1>2, <1>3
<1>6. t[n + 1] = EventsOf(f[a + n])
  <2>1. n + 1 \in 1..n + 1 /\ a + (n + 1) - 1 = a + n
    OBVIOUS
  <2> QED
    BY <1>3, <2>1
<1> HIDE DEF s, t
<1>7. FlattenSeq(t) = FlattenSeq(s) \o t[n + 1]
  <2>1. Len(s) = n /\ Len(t) = n + 1
    BY <1>2, <1>3
  <2> QED
    BY <1>4, <1>5, <2>1, FlattenLonger, Zenon
<1> QED
  BY <1>6, <1>7 DEF LogOf, s, t

LEMMA LogType ==
  ASSUME NEW f, NEW a \in Nat, NEW m \in Nat, HoldEvents(f, a, m)
  PROVE  LogOf(f, a, m) \in Seq(Nat)
<1> DEFINE T == {n \in 0..m : LogOf(f, a, n) \notin Seq(Nat)}
<1>1. CASE T = {}
  BY <1>1
<1>2. CASE T # {}
  <2>0. T \subseteq Nat
    OBVIOUS
  <2>1. PICK n \in T : \A y \in T : n <= y
    BY <1>2, <2>0, NatLeast
  <2>2. n # 0
    <3>1. LogOf(f, a, 0) = <<>> /\ <<>> \in Seq(Nat)
      BY NoPart
    <3> QED
      BY <2>1, <3>1
  <2> DEFINE k == n - 1
  <2>3. k \in Nat /\ k + 1 = n /\ LogOf(f, a, k) \in Seq(Nat)
    <3>1. k \in 0..m /\ k < n /\ k + 1 = n
      BY <2>1, <2>2
    <3>2. k \notin T
      <4> HIDE DEF T, k
      <4> QED
        BY <2>0, <2>1, <3>1
    <3> QED
      BY <3>1, <3>2
  <2>4. HoldEvents(f, a, k + 1) /\ EventsOf(f[a + k]) \in Seq(Nat)
    <3>1. a + k \in a..a + m - 1 /\ k + 1 <= m
      BY <2>1, <2>3
    <3> QED
      BY <2>3, <3>1 DEF HoldEvents
  <2> HIDE DEF k
  <2>5. LogOf(f, a, k + 1) = LogOf(f, a, k) \o EventsOf(f[a + k])
    BY <2>3, <2>4, LastPart
  <2>6. LogOf(f, a, k + 1) \in Seq(Nat)
    <3>1. \A x, y \in Seq(Nat) : x \o y \in Seq(Nat)
      OBVIOUS
    <3> QED
      BY <2>3, <2>4, <2>5, <3>1
  <2> QED
    BY <2>1, <2>3, <2>6
<1> QED
  BY <1>1, <1>2

LEMMA Associative ==
  \A x, y, z \in Seq(Nat) : (x \o y) \o z = x \o (y \o z)
<1> SUFFICES ASSUME NEW x \in Seq(Nat), NEW y \in Seq(Nat), NEW z \in Seq(Nat)
             PROVE  (x \o y) \o z = x \o (y \o z)
  OBVIOUS
<1> QED
  OBVIOUS

\* The oldest key comes first.
LEMMA FirstPart ==
  ASSUME NEW f, NEW a \in Nat, NEW m \in Nat, HoldEvents(f, a, m + 1)
  PROVE  LogOf(f, a, m + 1) = EventsOf(f[a]) \o LogOf(f, a + 1, m)
<1>0. EventsOf(f[a]) \in Seq(Nat)
  <2>1. a \in a..a + (m + 1) - 1
    OBVIOUS
  <2> QED
    BY <2>1 DEF HoldEvents
<1> DEFINE T == {n \in 0..m : LogOf(f, a, n + 1) # EventsOf(f[a]) \o LogOf(f, a + 1, n)}
<1>1. CASE T = {}
  <2>1. m \in 0..m
    OBVIOUS
  <2>2. m \notin T
    BY <1>1
  <2> QED
    BY <2>1, <2>2
<1>2. CASE T # {}
  <2>0. T \subseteq Nat
    OBVIOUS
  <2>1. PICK n \in T : \A y \in T : n <= y
    BY <1>2, <2>0, NatLeast
  <2>2. n # 0
    <3>1. LogOf(f, a, 0) = <<>> /\ LogOf(f, a + 1, 0) = <<>>
      BY NoPart
    <3>2. HoldEvents(f, a, 0 + 1)
      BY <1>0 DEF HoldEvents
    <3>3. LogOf(f, a, 0 + 1) = <<>> \o EventsOf(f[a])
      <4>1. LogOf(f, a, 0 + 1) = LogOf(f, a, 0) \o EventsOf(f[a + 0])
        BY <3>2, LastPart, 0 \in Nat
      <4>2. a + 0 = a
        OBVIOUS
      <4> QED
        BY <3>1, <4>1, <4>2
    <3>4. <<>> \o EventsOf(f[a]) = EventsOf(f[a]) \o <<>>
      BY <1>0
    <3>5. 0 \notin T
      BY <3>1, <3>3, <3>4
    <3> QED
      BY <2>1, <3>5
  <2> DEFINE k == n - 1
             one == EventsOf(f[a])
             rest == LogOf(f, a + 1, k)
             last == EventsOf(f[a + n])
  <2>3. k \in Nat /\ k + 1 = n /\ n \in 0..m /\ n \in Nat /\ a + 1 \in Nat
    BY <2>1, <2>2
  <2>4. LogOf(f, a, n) = one \o rest
    <3>1. k \in 0..m /\ k < n
      BY <2>3
    <3>2. k \notin T
      <4> HIDE DEF T, k
      <4> QED
        BY <2>1, <2>3, <3>1
    <3>3. LogOf(f, a, k + 1) = one \o rest
      BY <3>1, <3>2
    <3> HIDE DEF k, one, rest
    <3> QED
      BY <2>3, <3>3
  <2>5. HoldEvents(f, a, n + 1) /\ HoldEvents(f, a + 1, k + 1) /\ HoldEvents(f, a + 1, k)
    BY <2>3 DEF HoldEvents
  <2>6. LogOf(f, a, n + 1) = LogOf(f, a, n) \o last
    BY <2>3, <2>5, LastPart
  <2>7. LogOf(f, a + 1, n) = rest \o last
    <3>1. LogOf(f, a + 1, k + 1) = LogOf(f, a + 1, k) \o EventsOf(f[(a + 1) + k])
      BY <2>3, <2>5, LastPart
    <3>2. (a + 1) + k = a + n
      BY <2>3
    <3>3. EventsOf(f[(a + 1) + k]) = last
      BY <3>2
    <3>4. LogOf(f, a + 1, k + 1) = LogOf(f, a + 1, n)
      BY <2>3
    <3> HIDE DEF k, last
    <3> QED
      BY <3>1, <3>3, <3>4
  <2>8. rest \in Seq(Nat) /\ last \in Seq(Nat) /\ one \in Seq(Nat)
    <3>1. rest \in Seq(Nat)
      BY <2>3, <2>5, LogType
    <3>2. a + n \in a..a + (n + 1) - 1
      BY <2>3
    <3> QED
      BY <1>0, <2>5, <3>1, <3>2 DEF HoldEvents
  <2> HIDE DEF one, rest, last
  <2>9. (one \o rest) \o last = one \o (rest \o last)
    BY <2>8, Associative
  <2>10. LogOf(f, a, n + 1) = one \o LogOf(f, a + 1, n)
    BY <2>4, <2>6, <2>7, <2>9
  <2> QED
    BY <2>1, <2>10 DEF one
<1> QED
  BY <1>1, <1>2

-----------------------------------------------------------------------------
(* The storage implements EventLog *)

\* Between the read and the write-back of a text nobody changes the key.
Reading == pc["ota"] = "idle" /\ pc["counter"] = "add" => json_str = flash[nvs_index]

LEMMA LogIs == Log = LogOf(flash, FirstKey, LastKey - FirstKey + 1)
BY DEF Log, LogOf, Parts, EventsOf, Text

\* Any run of keys holds texts.
LEMMA KeysHoldEvents ==
  ASSUME FlashType, next \in Nat, NEW a \in Nat, NEW n \in Nat, a + n <= NUM_KEY_WORDS
  PROVE  HoldEvents(flash, a, n)
<1> SUFFICES ASSUME NEW k \in a..a + n - 1 PROVE EventsOf(flash[k]) \in Seq(Nat)
  BY DEF HoldEvents
<1>1. k \in Keys
  BY StoreAssumption DEF Keys
<1>2. flash[k] \in Texts
  BY <1>1 DEF FlashType
<1> QED
  BY <1>2 DEF Texts, Events, EventsOf, Absent

\* What the steps of the refinement need of the state.
LEMMA StateFacts ==
  ASSUME IInv
  PROVE  /\ NUM_KEY_WORDS \in Nat /\ nvs_index \in Nat
         /\ pc["counter"] # "past" => nvs_index \in Keys /\ nvs_index + 1 <= NUM_KEY_WORDS
         /\ i["counter"] \in Nat /\ next \in Nat /\ FlashType
         /\ pc["counter"] \in Labels
BY StoreAssumption, TwoTasks DEF IInv, Types, IndexType, EventsType, Keys

\* The keys that the log has not reached or has left may change.
LEMMA LogUnchanged ==
  ASSUME IInv, FirstKey \in Nat, FirstKey' = FirstKey, LastKey' = LastKey, LastKey \in Int,
         \A k \in FirstKey..LastKey : flash'[k] = flash[k]
  PROVE  Log' = Log
<1> DEFINE a == FirstKey  n == LastKey - FirstKey + 1
<1>1. a \in Nat /\ n \in Int /\ \A k \in a..a + n - 1 : k \in FirstKey..LastKey
  OBVIOUS
<1>2. \A k \in a..a + n - 1 : EventsOf(flash'[k]) = EventsOf(flash[k])
  BY <1>1
<1>3. Log = LogOf(flash, a, n)
  BY LogIs
<1>4. Log' = LogOf(flash', a, n)
  <2>1. (Log = LogOf(flash, FirstKey, LastKey - FirstKey + 1))'
    BY LogIs, PTL
  <2> QED
    BY <2>1 DEF LogOf, Parts
<1> HIDE DEF a, n
<1>5. LogOf(flash', a, n) = LogOf(flash, a, n)
  BY <1>1, <1>2, PartsSame
<1> QED
  BY <1>3, <1>4, <1>5

LEMMA LogNext == Log' = LogOf(flash', FirstKey', LastKey' - FirstKey' + 1)
<1>1. (Log = LogOf(flash, FirstKey, LastKey - FirstKey + 1))'
  BY LogIs, PTL
<1> QED
  BY <1>1 DEF LogOf, Parts

\* The steps that choose a key, look at it or erase what was handed over.
LEMMA LogLook ==
  ASSUME IInv, (\E s \in BOOLEAN : BeginWrite(s)) \/ UseKey \/ NextKey \/ PastLastKey \/ ReadKey
  PROVE  Log' = Log
<1> PICK l \in {"open", "read", "newKey", "past", "add"} : Goto("counter", l)
  BY DEF BeginWrite, UseKey, NextKey, PastLastKey, ReadKey
<1>u. flash' = flash
  BY DEF BeginWrite, UseKey, NextKey, PastLastKey, ReadKey, store
<1>g. pc'["counter"] = l /\ pc["counter"] \in {"idle", "open", "read"}
  BY GotoFacts, TwoTasks DEF IInv, Types, Labels, BeginWrite, UseKey, NextKey, PastLastKey,
                             ReadKey
<1>1. \/ l \in {"open", "read", "add"} /\ nvs_index' = nvs_index
      \/ l = "newKey" /\ nvs_index' = nvs_index + 1
      \/ l = "past" /\ nvs_index + 1 = NUM_KEY_WORDS
  BY <1>g, TwoTasks DEF BeginWrite, UseKey, NextKey, PastLastKey, ReadKey, store, Goto, IInv,
                        Types, IndexType
<1>3. FirstKey' = 0 /\ FirstKey = 0 /\ LastKey' = nvs_index /\ LastKey = nvs_index
  BY <1>g, <1>1, StateFacts DEF FirstKey, LastKey
<1> QED
  BY <1>u, <1>3, StateFacts, LogUnchanged

LEMMA LogLastKey == ASSUME IInv, LastKeyFull PROVE Log' = Log
<1> USE DEF LastKeyFull
<1>1. pc'["counter"] = "send" /\ i'["counter"] = 0 /\ flash' = flash
  BY TwoTasks DEF Goto, IInv, Types, IndexType
<1>2. /\ FirstKey' = 0 /\ FirstKey = 0
      /\ LastKey' = NUM_KEY_WORDS - 1 /\ LastKey = NUM_KEY_WORDS - 1
  BY <1>1 DEF FirstKey, LastKey
<1> QED
  BY <1>1, <1>2, StateFacts, LogUnchanged

LEMMA LogErase ==
  ASSUME IInv, OpenSend("counter") \/ EraseKey("counter") \/ BeginOta
  PROVE  Log' = Log
<1>1. CASE OpenSend("counter")
  <2>1. pc'["counter"] = "send" /\ i'["counter"] = 0 /\ flash' = flash /\ nvs_index' = nvs_index
    BY <1>1, TwoTasks DEF OpenSend, Goto, IInv, Types, IndexType
  <2>2. FirstKey' = 0 /\ FirstKey = 0 /\ LastKey' = nvs_index /\ LastKey = nvs_index
    BY <1>1, <2>1 DEF FirstKey, LastKey, OpenSend
  <2> QED
    BY <2>1, <2>2, StateFacts, LogUnchanged
<1>2. CASE EraseKey("counter")
  <2>1. pc'["counter"] = "send" /\ i'["counter"] = i["counter"] + 1 /\ nvs_index' = nvs_index
    BY <1>2, TwoTasks DEF EraseKey, Goto, NextI, IInv, Types, IndexType
  <2>2. /\ FirstKey' = i["counter"] + 1 /\ FirstKey = i["counter"] + 1
        /\ LastKey' = nvs_index /\ LastKey = nvs_index
    BY <1>2, <2>1 DEF FirstKey, LastKey, EraseKey
  <2>3. \A k \in FirstKey..LastKey : flash'[k] = flash[k]
    <3>1. \A k \in FirstKey..LastKey : k \in Keys /\ k # i["counter"]
      BY <1>2, <2>2, StateFacts DEF Keys, EraseKey
    <3> QED
      BY <1>2, <3>1 DEF EraseKey, Put, IInv, Types, FlashType
  <2> QED
    BY <2>2, <2>3, StateFacts, LogUnchanged
<1>3. CASE BeginOta
  <2>1. pc'["counter"] = pc["counter"] /\ i' = i /\ flash' = flash /\ nvs_index' = nvs_index
    BY <1>3, TwoTasks DEF BeginOta, Goto, store, IInv, Types, IndexType
  <2>2. FirstKey' = FirstKey /\ LastKey' = LastKey /\ FirstKey \in Nat /\ LastKey \in Int
    BY <2>1, StateFacts DEF FirstKey, LastKey
  <2> QED
    BY <2>1, <2>2, StateFacts, LogUnchanged
<1> QED
  BY <1>1, <1>2, <1>3

\* The new key adds an empty text.
LEMMA LogNewKey ==
  ASSUME IInv, pc["ota"] = "idle", NewKey
  PROVE  Log' = Log
<1> DEFINE n == nvs_index
<1>1. my_nvs_handle /\ pc["counter"] = "newKey"
  BY DEF IInv, HandleOpenWhenUsed, NewKey
<1>2. /\ flash' = [flash EXCEPT ![n] = <<>>] /\ nvs_index' = n
      /\ pc'["counter"] = "read"
  BY <1>1, TwoTasks DEF NewKey, Put, Goto, IInv, Types, IndexType
<1>3. FirstKey = 0 /\ FirstKey' = 0 /\ LastKey = n - 1 /\ LastKey' = n
  BY <1>1, <1>2 DEF FirstKey, LastKey
<1>n. NUM_KEY_WORDS \in Nat /\ n \in Nat /\ n \in Keys /\ n + 1 <= NUM_KEY_WORDS
  BY <1>1, StateFacts
<1> HIDE DEF n
<1>4. Log = LogOf(flash, 0, n)
  <2>1. (n - 1) - 0 + 1 = n
    BY <1>n
  <2> QED
    BY <1>3, <2>1, LogIs
<1>5. Log' = LogOf(flash', 0, n + 1)
  <2>1. n - 0 + 1 = n + 1
    BY <1>n
  <2> QED
    BY <1>3, <2>1, LogNext
<1>6. flash'[n] = <<>> /\ \A k \in Keys \ {n} : flash'[k] = flash[k]
  BY <1>2, <1>n, StateFacts DEF FlashType
<1>7. HoldEvents(flash', 0, n + 1)
  <2>1. HoldEvents(flash, 0, n + 1)
    BY <1>n, StateFacts, KeysHoldEvents
  <2>2. EventsOf(flash'[n]) \in Seq(Nat)
    <3>1. <<>> \in Seq(Nat)
      OBVIOUS
    <3> QED
      BY <1>6, <3>1 DEF EventsOf
  <2>3. \A k \in 0..0 + (n + 1) - 1 : k \in Keys
    BY <1>n DEF Keys
  <2> QED
    BY <1>6, <2>1, <2>2, <2>3 DEF HoldEvents
<1>8. Log' = LogOf(flash', 0, n) \o <<>>
  <2>1. LogOf(flash', 0, n + 1) = LogOf(flash', 0, n) \o EventsOf(flash'[0 + n])
    BY <1>n, <1>7, LastPart
  <2>2. EventsOf(flash'[0 + n]) = <<>>
    BY <1>n, <1>6 DEF EventsOf
  <2> QED
    BY <1>5, <2>1, <2>2
<1>9. LogOf(flash', 0, n) = LogOf(flash, 0, n)
  <2>1. \A k \in 0..0 + n - 1 : k \in Keys \ {n}
    BY <1>n DEF Keys
  <2>2. \A k \in 0..0 + n - 1 : EventsOf(flash'[k]) = EventsOf(flash[k])
    BY <1>6, <2>1
  <2> QED
    BY <1>n, <2>2, PartsSame
<1>10. LogOf(flash, 0, n) \in Seq(Nat)
  <2>1. HoldEvents(flash, 0, n)
    BY <1>n, StateFacts, KeysHoldEvents
  <2> QED
    BY <1>n, <2>1, LogType
<1> QED
  BY <1>4, <1>8, <1>9, <1>10

\* The event goes behind all others, ...
LEMMA LogAdd ==
  ASSUME IInv, Reading, pc["ota"] = "idle", AddEvent,
         Put(nvs_index, Append(json_str, next)), next' = next + 1
  PROVE  Log' = Append(Log, next) /\ next' = next + 1 /\ sent' = sent
<1> DEFINE n == nvs_index
<1>1. my_nvs_handle /\ pc["counter"] = "add"
  BY DEF IInv, HandleOpenWhenUsed, AddEvent
<1>2. /\ flash' = [flash EXCEPT ![n] = Append(flash[n], next)] /\ nvs_index' = n
      /\ next' = next + 1 /\ sent' = sent /\ flash[n] # NULL
  BY <1>1 DEF AddEvent, Put, Reading
<1>3. FirstKey = 0 /\ FirstKey' = 0 /\ LastKey = n /\ LastKey' = n
  <2>1. pc'["counter"] \in {"openSend", "idle"}
    BY TwoTasks DEF AddEvent, Goto, IInv, Types, IndexType
  <2> QED
    BY <1>1, <1>2, <2>1 DEF FirstKey, LastKey
<1>n. NUM_KEY_WORDS \in Nat /\ n \in Nat /\ n \in Keys /\ n + 1 <= NUM_KEY_WORDS /\ next \in Nat
  BY <1>1, StateFacts
<1> HIDE DEF n
<1>4. Log = LogOf(flash, 0, n + 1) /\ Log' = LogOf(flash', 0, n + 1)
  <2>1. n - 0 + 1 = n + 1
    BY <1>n
  <2> QED
    BY <1>3, <2>1, LogIs, LogNext
<1>5. /\ flash'[n] = Append(flash[n], next)
      /\ \A k \in Keys \ {n} : flash'[k] = flash[k]
  BY <1>2, <1>n, StateFacts DEF FlashType
<1>6. HoldEvents(flash, 0, n + 1) /\ HoldEvents(flash, 0, n)
  <2>1. HoldEvents(flash, 0, n + 1)
    BY <1>n, StateFacts, KeysHoldEvents
  <2>2. HoldEvents(flash, 0, n)
    BY <1>n, StateFacts, KeysHoldEvents
  <2> QED
    BY <2>1, <2>2
<1>7. flash[n] \in Seq(Nat) /\ Append(flash[n], next) \in Seq(Nat)
  <2>1. flash[n] \in Seq(Nat)
    BY <1>2, <1>n, StateFacts DEF FlashType, Texts, Events
  <2> QED
    BY <1>n, <2>1
<1>8. EventsOf(flash[n]) = flash[n] /\ EventsOf(flash'[n]) = Append(flash[n], next)
  <2>1. Append(flash[n], next) # NULL
    BY <1>7, StoreAssumption
  <2> QED
    BY <1>2, <1>5, <2>1 DEF EventsOf, Absent
<1>9. HoldEvents(flash', 0, n + 1)
  <2>1. \A k \in 0..0 + (n + 1) - 1 : k \in Keys
    BY <1>n DEF Keys
  <2> QED
    BY <1>5, <1>6, <1>7, <1>8, <2>1 DEF HoldEvents
<1>10. LogOf(flash', 0, n) = LogOf(flash, 0, n)
  <2>1. \A k \in 0..0 + n - 1 : k \in Keys \ {n}
    BY <1>n DEF Keys
  <2>2. \A k \in 0..0 + n - 1 : EventsOf(flash'[k]) = EventsOf(flash[k])
    BY <1>5, <2>1
  <2>3. n \in Int /\ 0 \in Nat
    BY <1>n
  <2> QED
    BY <2>2, <2>3, PartsSame
<1>11. /\ Log = LogOf(flash, 0, n) \o flash[n]
       /\ Log' = LogOf(flash, 0, n) \o Append(flash[n], next)
  <2>1. LogOf(flash, 0, n + 1) = LogOf(flash, 0, n) \o EventsOf(flash[0 + n])
    BY <1>n, <1>6, LastPart
  <2>2. LogOf(flash', 0, n + 1) = LogOf(flash', 0, n) \o EventsOf(flash'[0 + n])
    BY <1>n, <1>9, LastPart
  <2>3. 0 + n = n
    BY <1>n
  <2> QED
    BY <1>4, <1>8, <1>10, <2>1, <2>2, <2>3
<1>12. LogOf(flash, 0, n) \in Seq(Nat)
  BY <1>n, <1>6, LogType
<1>13. \A x, y \in Seq(Nat), e \in Nat : x \o Append(y, e) = Append(x \o y, e)
  <2> SUFFICES ASSUME NEW x \in Seq(Nat), NEW y \in Seq(Nat), NEW e \in Nat
               PROVE  x \o Append(y, e) = Append(x \o y, e)
    OBVIOUS
  <2> QED
    OBVIOUS
<1> QED
  BY <1>2, <1>n, <1>7, <1>11, <1>12, <1>13

\* ... or is lost.
LEMMA LogLost ==
  ASSUME IInv, AddEvent, UNCHANGED <<flash, next>>
  PROVE  UNCHANGED <<Log, sent, next>>
<1>1. pc'["counter"] \in {"openSend", "idle"} /\ nvs_index' = nvs_index
  BY TwoTasks DEF AddEvent, Goto, IInv, Types, IndexType
<1>2. FirstKey = 0 /\ FirstKey' = 0 /\ LastKey = nvs_index /\ LastKey' = nvs_index
  BY <1>1 DEF AddEvent, FirstKey, LastKey
<1>3. Log' = Log
  BY <1>2, StateFacts, LogUnchanged
<1> QED
  BY <1>3 DEF AddEvent

\* A key without events adds nothing to the log.
LEMMA LogSkip ==
  ASSUME IInv, pc["ota"] = "idle", SkipKey("counter")
  PROVE  Log' = Log
<1> DEFINE a == i["counter"]  n == nvs_index
<1>1. my_nvs_handle /\ pc["counter"] = "send" /\ a <= n /\ flash[a] = NULL
  <2>1. my_nvs_handle /\ pc["counter"] = "send" /\ a <= n /\ Get(a) = NULL
    BY DEF IInv, HandleOpenWhenUsed, SkipKey, MoreKeys
  <2>2. a \in Keys
    BY <2>1, StateFacts DEF Keys
  <2> QED
    BY <2>1, <2>2 DEF Get
<1>2. flash' = flash /\ nvs_index' = n /\ pc' = pc /\ i'["counter"] = a + 1
  BY TwoTasks DEF SkipKey, NextI, store, IInv, Types, IndexType
<1>3. FirstKey = a /\ FirstKey' = a + 1 /\ LastKey = n /\ LastKey' = n
  BY <1>1, <1>2 DEF FirstKey, LastKey
<1>n. NUM_KEY_WORDS \in Nat /\ n \in Nat /\ a \in Nat /\ n + 1 <= NUM_KEY_WORDS
  BY <1>1, StateFacts
<1> HIDE DEF a, n
<1> DEFINE m == n - a
<1>m. m \in Nat /\ n - a + 1 = m + 1 /\ n - (a + 1) + 1 = m /\ a + (m + 1) <= NUM_KEY_WORDS
      /\ (a + 1) + m <= NUM_KEY_WORDS
  BY <1>1, <1>n
<1> HIDE DEF m
<1>4. Log = LogOf(flash, a, m + 1) /\ Log' = LogOf(flash, a + 1, m)
  BY <1>2, <1>3, <1>m, LogIs, LogNext
<1>5. LogOf(flash, a, m + 1) = EventsOf(flash[a]) \o LogOf(flash, a + 1, m)
  <2>1. HoldEvents(flash, a, m + 1)
    <3>1. m + 1 \in Nat
      BY <1>m
    <3> QED
      BY <1>n, <1>m, <3>1, StateFacts, KeysHoldEvents
  <2> QED
    BY <1>n, <1>m, <2>1, FirstPart
<1>6. LogOf(flash, a + 1, m) \in Seq(Nat)
  <2>1. HoldEvents(flash, a + 1, m) /\ a + 1 \in Nat
    <3>1. a + 1 \in Nat
      BY <1>n
    <3> QED
      BY <1>m, <3>1, StateFacts, KeysHoldEvents
  <2> QED
    BY <1>m, <2>1, LogType
<1>7. EventsOf(flash[a]) = <<>>
  BY <1>1 DEF EventsOf, Absent
<1> QED
  BY <1>4, <1>5, <1>6, <1>7

\* The text of the oldest key is the beginning of the log.
LEMMA LogSend ==
  ASSUME IInv, pc["ota"] = "idle", SendKey("counter")
  PROVE  \E text \in Seq(Nat) :
           /\ Log' \in Seq(Nat)
           /\ Log = text \o Log'
           /\ sent' = sent \o text /\ sent \in Seq(Nat) /\ next' = next
<1> DEFINE a == i["counter"]  n == nvs_index
<1>1. my_nvs_handle /\ pc["counter"] = "send" /\ a <= n /\ flash[a] # NULL
  BY DEF IInv, HandleOpenWhenUsed, SendKey, MoreKeys, Get
<1>2. /\ flash' = flash /\ nvs_index' = n /\ pc'["counter"] = "erase" /\ i' = i
      /\ sent' = sent \o flash[a] /\ next' = next
  BY <1>1, TwoTasks DEF SendKey, Get, Goto, store, IInv, Types, IndexType
<1>3. FirstKey = a /\ FirstKey' = a + 1 /\ LastKey = n /\ LastKey' = n
  BY <1>1, <1>2 DEF FirstKey, LastKey
<1>n. NUM_KEY_WORDS \in Nat /\ n \in Nat /\ a \in Nat /\ n + 1 <= NUM_KEY_WORDS
  BY <1>1, StateFacts
<1> HIDE DEF a, n
<1> DEFINE m == n - a
<1>m. m \in Nat /\ n - a + 1 = m + 1 /\ n - (a + 1) + 1 = m /\ a + (m + 1) <= NUM_KEY_WORDS
      /\ (a + 1) + m <= NUM_KEY_WORDS
  BY <1>1, <1>n
<1> HIDE DEF m
<1>4. Log = LogOf(flash, a, m + 1) /\ Log' = LogOf(flash, a + 1, m)
  BY <1>2, <1>3, <1>m, LogIs, LogNext
<1>5. LogOf(flash, a, m + 1) = EventsOf(flash[a]) \o LogOf(flash, a + 1, m)
  <2>1. HoldEvents(flash, a, m + 1)
    <3>1. m + 1 \in Nat
      BY <1>m
    <3> QED
      BY <1>n, <1>m, <3>1, StateFacts, KeysHoldEvents
  <2> QED
    BY <1>n, <1>m, <2>1, FirstPart
<1>6. LogOf(flash, a + 1, m) \in Seq(Nat)
  <2>1. HoldEvents(flash, a + 1, m) /\ a + 1 \in Nat
    <3>1. a + 1 \in Nat
      BY <1>n
    <3> QED
      BY <1>m, <3>1, StateFacts, KeysHoldEvents
  <2> QED
    BY <1>m, <2>1, LogType
<1>7. EventsOf(flash[a]) = flash[a] /\ flash[a] \in Seq(Nat)
  <2>1. a \in Keys
    BY <1>1, <1>n DEF Keys
  <2> QED
    BY <1>1, <2>1, StateFacts DEF FlashType, Texts, Events, EventsOf, Absent
<1>8. sent \in Seq(Nat)
  BY DEF IInv, Types, EventsType, Events
<1> QED
  BY <1>2, <1>4, <1>5, <1>6, <1>7, <1>8

\* An empty first key is an empty log.
LEMMA LogOfFirst ==
  ASSUME FirstKey' = 0, LastKey' = 0, flash'[0] = <<>>
  PROVE  Log' = <<>>
<1>1. Log' = LogOf(flash', 0, 1)
  <2>1. 0 - 0 + 1 = 1
    OBVIOUS
  <2> QED
    BY <2>1, LogNext
<1>2. LogOf(flash', 0, 0) = <<>>
  BY NoPart
<1>3. EventsOf(flash'[0]) = <<>> /\ <<>> \in Seq(Nat)
  BY DEF EventsOf
<1>4. HoldEvents(flash', 0, 0 + 1)
  <2>1. \A k \in 0..0 + (0 + 1) - 1 : k = 0
    OBVIOUS
  <2> QED
    BY <1>3, <2>1 DEF HoldEvents
<1>5. LogOf(flash', 0, 0 + 1) = LogOf(flash', 0, 0) \o EventsOf(flash'[0 + 0])
  BY <1>4, 0 \in Nat, LastPart
<1>6. 0 + 0 = 0 /\ 0 + 1 = 1
  OBVIOUS
<1> QED
  BY <1>1, <1>2, <1>3, <1>5, <1>6

LEMMA LogRestart ==
  ASSUME IInv, Restart
  PROVE  Log' = <<>> /\ sent' = sent /\ next' = next
<1>1. flash'[0] = <<>>
  BY KeyFacts DEF Restart, Booted, Erased, IInv, Types, FlashType
<1>2. FirstKey' = 0 /\ LastKey' = 0
  BY TwoTasks DEF Restart, FirstKey, LastKey
<1> QED
  BY <1>1, <1>2, LogOfFirst DEF Restart

\* When the loop ends everything is handed over.
LEMMA LogEnd ==
  ASSUME IInv, pc["ota"] = "idle", EndReport \/ EndRollOver
  PROVE  Log = <<>> /\ Log' = <<>>
<1>1. /\ pc["counter"] = "send" /\ ~(i["counter"] <= nvs_index) /\ my_nvs_handle
      /\ nvs_index' = 0 /\ flash' = [flash EXCEPT ![0] = <<>>]
  BY DEF EndReport, EndRollOver, EndSend, MoreKeys, Put, IInv, HandleOpenWhenUsed
<1>2. pc'["counter"] \in {"idle", "read"}
  BY TwoTasks DEF EndReport, EndRollOver, EndSend, Goto, IInv, Types, IndexType
<1>3. Log = <<>>
  <2>1. FirstKey = i["counter"] /\ LastKey = nvs_index
    BY <1>1 DEF FirstKey, LastKey
  <2>2. LastKey - FirstKey + 1 \in Int /\ LastKey - FirstKey + 1 <= 0
    BY <1>1, <2>1, StateFacts
  <2> QED
    BY <2>2, NoPart, LogIs
<1>4. FirstKey' = 0 /\ LastKey' = 0 /\ flash'[0] = <<>>
  BY <1>1, <1>2, KeyFacts, StateFacts DEF FirstKey, LastKey, FlashType
<1> QED
  BY <1>3, <1>4, LogOfFirst

LEMMA LogInit == Init => Log = <<>>
<1> SUFFICES ASSUME Init PROVE Log = <<>>
  OBVIOUS
<1>1. flash[0] = <<>> /\ FirstKey = 0 /\ LastKey = 0
  BY KeyFacts, TwoTasks DEF Init, Booted, Erased, FirstKey, LastKey
<1>2. Log = LogOf(flash, 0, 0 + 1)
  <2>1. 0 - 0 + 1 = 0 + 1
    OBVIOUS
  <2> QED
    BY <1>1, <2>1, LogIs
<1>3. HoldEvents(flash, 0, 0 + 1)
  <2>1. \A k \in 0..0 + (0 + 1) - 1 : k = 0
    OBVIOUS
  <2>2. EventsOf(<<>>) \in Seq(Nat)
    BY DEF EventsOf
  <2> QED
    BY <1>1, <2>1, <2>2 DEF HoldEvents
<1>4. LogOf(flash, 0, 0 + 1) = LogOf(flash, 0, 0) \o EventsOf(flash[0 + 0])
  BY <1>3, 0 \in Nat, LastPart
<1>5. LogOf(flash, 0, 0) = <<>> /\ EventsOf(flash[0 + 0]) = <<>>
  BY <1>1, NoPart DEF EventsOf
<1> QED
  BY <1>2, <1>4, <1>5

THEOREM ReadsHold == Spec => []Reading
<1>1. Init => Reading
  BY TwoTasks DEF Init, Reading
<1>2. IInv /\ Reading /\ [Next]_vars => Reading'
  <2> SUFFICES ASSUME IInv, Reading, [Next]_vars, pc'["ota"] = "idle", pc'["counter"] = "add"
               PROVE  json_str' = flash'[nvs_index']
    BY DEF Reading
  <2>1. CASE Write
    <3>1. CASE ReadKey
      <4>1. my_nvs_handle /\ nvs_index \in Keys /\ pc["ota"] = "idle"
        BY <3>1, CounterKey, TwoTasks DEF ReadKey, Goto, IInv, Types, IndexType,
                                          HandleOpenWhenUsed
      <4> QED
        BY <3>1, <4>1 DEF ReadKey, Get, store
    <3>2. CASE \/ \E s \in BOOLEAN : BeginWrite(s)
              \/ UseKey \/ NextKey \/ NewKey \/ PastLastKey \/ LastKeyFull
      BY <3>2, TwoTasks DEF BeginWrite, UseKey, NextKey, NewKey, PastLastKey, LastKeyFull, Goto,
                            IInv, Types, IndexType
    <3>3. CASE AddEvent
      BY <3>3, TwoTasks DEF AddEvent, Goto, IInv, Types, IndexType
    <3>4. CASE AddToNothing
      BY <3>4, TwoTasks DEF AddToNothing, Restart
    <3> QED
      BY <2>1, <3>1, <3>2, <3>3, <3>4 DEF Write
  <2>2. CASE SendLoop("counter") \/ EndReport \/ EndRollOver
    BY <2>2, TwoTasks DEF SendLoop, OpenSend, SendKey, SkipKey, EraseKey, EndReport, EndRollOver,
                          Goto, IInv, Types, IndexType
  <2>3. CASE BeginOta \/ SendLoop("ota") \/ EndOta
    BY <2>3, TwoTasks DEF BeginOta, SendLoop, OpenSend, SendKey, SkipKey, EraseKey, EndOta,
                          EndSend, Goto, IInv, Types, IndexType
  <2>4. CASE OtaRestart \/ Restart
    BY <2>4, TwoTasks DEF OtaRestart, Restart
  <2>5. CASE UNCHANGED vars
    BY <2>5 DEF vars, store, task, Reading
  <2> QED
    BY <2>1, <2>2, <2>3, <2>4, <2>5 DEF Next
<1> QED
  BY <1>1, <1>2, Invariance, PTL DEF Spec

\* Handing over the beginning of the log, if it holds events, is Send.
LEMMA SendIsSend ==
  ASSUME NEW text \in Seq(Nat), Log' \in Seq(Nat), Log = text \o Log',
         sent' = sent \o text, sent \in Seq(Nat), next' = next
  PROVE  Abstract!Send \/ UNCHANGED <<Log, sent, next>>
<1> DEFINE rest == Log'  n == Len(text)
<1>0. \A x, y \in Seq(Nat) :
        /\ Len(x \o y) = Len(x) + Len(y) /\ Len(x) \in Nat /\ Len(y) \in Nat
        /\ SubSeq(x \o y, 1, Len(x)) = x
        /\ SubSeq(x \o y, Len(x) + 1, Len(x) + Len(y)) = y
  <2> SUFFICES ASSUME NEW x \in Seq(Nat), NEW y \in Seq(Nat)
               PROVE  /\ Len(x \o y) = Len(x) + Len(y) /\ Len(x) \in Nat /\ Len(y) \in Nat
                      /\ SubSeq(x \o y, 1, Len(x)) = x
                      /\ SubSeq(x \o y, Len(x) + 1, Len(x) + Len(y)) = y
    OBVIOUS
  <2> QED
    OBVIOUS
<1>1. CASE n = 0
  <2>1. text = <<>>
    BY <1>1
  <2>2. <<>> \o Log' = Log' /\ sent \o <<>> = sent
    OBVIOUS
  <2> QED
    BY <2>1, <2>2
<1>2. CASE n # 0
  <2>1. /\ SubSeq(Log, 1, n) = text /\ SubSeq(Log, n + 1, Len(Log)) = Log'
        /\ n \in 1..Len(Log)
    BY <1>0, <1>2
  <2> QED
    BY <2>1 DEF Abstract!Send
<1> QED
  BY <1>1, <1>2

\* Until the OTA task sends too, every step on the storage, whatever the number
\* and size of the keys, is a step of the abstract log or leaves it alone: no
\* change of key, full storage or erased key loses, repeats or reorders events.
THEOREM StoreImplementsEventLog == Spec => ImplementsEventLog
<1> DEFINE Step == \/ pc["ota"] # "idle"
                   \/ Abstract!Write \/ Abstract!Send
                   \/ Abstract!Restart /\ Restart
<1>1. Init => Abstract!Init
  BY LogInit DEF Init, Abstract!Init
<1>2. IInv /\ Reading /\ [Next]_vars => [Step]_<<Log, sent, next>>
  <2> SUFFICES ASSUME IInv, Reading, [Next]_vars, pc["ota"] = "idle"
               PROVE  \/ Abstract!Write \/ Abstract!Send
                      \/ Abstract!Restart /\ Restart
                      \/ UNCHANGED <<Log, sent, next>>
    OBVIOUS
  <2>1. CASE \/ \E s \in BOOLEAN : BeginWrite(s)
            \/ UseKey \/ NextKey \/ PastLastKey \/ LastKeyFull \/ ReadKey
    <3>1. sent' = sent /\ next' = next
      BY <2>1 DEF BeginWrite, UseKey, NextKey, PastLastKey, LastKeyFull, ReadKey
    <3> QED
      BY <2>1, <3>1, LogLook, LogLastKey
  <2>2. CASE NewKey
    BY <2>2, LogNewKey DEF NewKey
  <2>3. CASE AddEvent
    <3>1. \/ Put(nvs_index, Append(json_str, next)) /\ next' = next + 1
          \/ UNCHANGED <<flash, next>>
      BY <2>3 DEF AddEvent
    <3> QED
      BY <2>3, <3>1, LogAdd, LogLost DEF Abstract!Write
  <2>4. CASE AddToNothing \/ OtaRestart \/ Restart
    <3>1. Restart
      BY <2>4 DEF AddToNothing, OtaRestart
    <3> QED
      BY <3>1, LogRestart DEF Abstract!Restart
  <2>5. CASE OpenSend("counter") \/ EraseKey("counter") \/ BeginOta
    <3>1. sent' = sent /\ next' = next
      BY <2>5 DEF OpenSend, EraseKey, BeginOta
    <3> QED
      BY <2>5, <3>1, LogErase
  <2>6. CASE SkipKey("counter")
    BY <2>6, LogSkip DEF SkipKey
  <2>7. CASE SendKey("counter")
    BY <2>7, LogSend, SendIsSend
  <2>8. CASE EndReport \/ EndRollOver
    <3>1. sent' = sent /\ next' = next
      BY <2>8 DEF EndReport, EndRollOver
    <3> QED
      BY <2>8, <3>1, LogEnd
  <2>9. CASE SendLoop("ota") \/ EndOta
    BY <2>9 DEF SendLoop, OpenSend, SendKey, SkipKey, EraseKey, EndOta, EndSend
  <2>10. CASE UNCHANGED vars
    BY <2>10 DEF vars, store, task, Log, FirstKey, LastKey, Text
  <2> QED
    BY <2>1, <2>2, <2>3, <2>4, <2>5, <2>6, <2>7, <2>8, <2>9, <2>10
    DEF Next, Write, SendLoop
<1> QED
  BY <1>1, <1>2, Invariance, ReadsHold, PTL DEF Spec, ImplementsEventLog

=============================================================================
