# People counting with light barriers: models, checks and proofs

This directory holds TLA+ models of the programs of the IoT practical course: a
device at the door of a room (an ESP32 with two light barriers, FreeRTOS on two
cores, tick 10 ms) counts the people in the room and reports the count to an IoT
platform. The models are translated from the C sources under `src/`; TLC checks
them on small instances, and TLAPS proves, for every value of the constants, every safety property
that a passing run checks and both refinements.

Contents: [inventory](#1-inventory) · [modules](#2-modules) · [runs](#3-runs-and-bounds) ·
[fairness](#4-fairness) · [proofs](#5-proofs) · [disagreements](#6-where-code-and-words-disagree) ·
[not modelled](#7-what-is-not-modelled) · [plan](#8-plan)

## 1. Inventory

`src/` contains five programs and two reports.

- `test_sensor_lab` is the product: it counts continuously.
- `zthe_low_power` is the battery version: it sleeps and analyses in batches.
- `lcd_and_counter` is the first counter, with another analyzer and without a network.
- `initial_blink` and `test_code` are exercises.
- `sensor-report` and `power-tuning-report` say what the programs are meant to do.

### 1.1 test_sensor_lab

```
 light barriers --ISR--> queue --pushInBuffer--> buffer[] --analyzer--> state_counter --> count
                        (16 events)              (ring of 16)                             |
                                                    analyzer, sendFromNVS ----------------+
                                                    |                  |                  |
                                              nvs.c: event log    platform API       display
                                                    |             (REST, HTTP)
                                                  MQTT
```

| component | state | operations | interacts through |
|---|---|---|---|
| counting pipeline, `main/countingAlgo.c` | queue, ring (`buffer`, `head`, `fillSize`), batch counter, `reseted_buffer`, passage machine, `count`, `xAccessBuffer`, `xAccessCount` | tasks pushInBuffer (priority 10), analyzer (11), sendFromNVS (3) | the two semaphores; the platform's copy of the count survives a restart |
| interrupt routines and debouncing, `countingAlgo.c:469-521` | last level and time per barrier | one routine per barrier | `xQueueSendFromISR`; an event is lost when the queue is full |
| test mode, `countingAlgo.c:410-463` | mode flag | suspends and resumes tasks, removes and adds interrupt handlers | task handles |
| event storage, `main/nvs.c` | keys `s0`..`s<n>` in flash, `nvs_index`, one global handle | writeToNVM, sendDataFromJSON_toDB, initMY_nvs | called by analyzer and sendFromNVS under `xAccessCount`, by updateOTA without it |
| platform client, `components/platform_client/platform_api.c`; callers in `main/webFunctions.c` | one query, response, token and client for all tasks | init, set_token, set_query_string, perform_request, retrieve_val, cleanup | called by every task that reports |
| clock of sendFromNVS, `countingAlgo.c:370-403` | `previousTime_min`, the local time | count reset and restart at 5:00-5:15 and 23:00-23:15, refresh of the prediction | the platform |
| room display, `main/showRoomInfo.c` | none of its own | draws `count` and the prediction | reads `count` without a lock |
| start-up, WiFi, MQTT, SNTP | event group, connection state | chain of waits, some with a restart at the end | everything waits for it |
| over-the-air update, `components/caps_ota` | update handle | version check, download, restart | every 150 s from updateOTA |

### 1.2 zthe_low_power

The device is asleep nearly always. Each barrier event wakes a *stub*
(`main/wakeup.c`), which runs from RTC memory, stores the event in a ring there and goes to
sleep again. The timer, a button or a full ring boot the device: `app_main` sets up
(`main/mySetup.c`), becomes the analyzer, reports, empties the ring and sleeps
(`main/countingAlgo.c`, `main/main.c`). Meanwhile initInternet connects - access point, then
clock, then MQTT broker, each with a wait of its own and nobody to make a lost connection again - and pushInBuffer
stores the barriers that are crossed while the device is awake; `xInternetActive` tells
them when to stop and when to go on. The tasks share the ring without a lock.

### 1.3 lcd_and_counter

Two interrupt routines put edges into a queue (20), pushInBuffer moves them into a ring (10), analyzer compares the
four oldest with the pattern of a way in and that of a way out and otherwise drops the oldest, and showRoomState
draws the count on an LCD. analyzer holds `xAccessBuffer` while it waits for `xAccessCount`, which
showRoomState, the task of lowest priority, holds while it draws.

### 1.4 What is hard here, and what should hold

| behaviour | hard because | properties |
|---|---|---|
| Analyzer, pushInBuffer and sendFromNVS interleave | one semaphore is taken inside the other; pushInBuffer does not wait for it, analyzer waits forever | `MutualExclusion`, `CountStableWhileReported`, `PassageFinished` |
| The ring | `fillSize++` is not guarded, `fillSize--` is not either; only delays and the batch counter keep it in range | `NoBufferOverflow`, `BatchBacked` |
| An event on its way to the count | it crosses a queue, a ring and a batch | `ImplementsPassageCounter`, `NoEventStranded` |
| The count is a byte, restored from the network | wrap-around in both directions | `CountMovesByOne` |
| The passage machine | must never get out of its seven states | `PassageInRange` |
| Silence at the barriers | a half-finished passage has to be forgotten, a running one not | `SilenceResetsMachine`, `PassageForgottenOnlyAfterSilence` (both fail) |
| Debouncing, and events dropped by a full queue | an edge within the debounce time is lost, the next one leads back to the recorded level; a dropped one moves `lastState` all the same | `InPhase`, `CountsPassages` |
| The test mode | seven tasks and handlers switched one by one, while barriers and button go on | `TestModeIsSilent`, `AllBackAtWork` |
| Start-up and connection | a chain of waits; the WiFi handler is gone afterwards, so that nobody reconnects | `StartUpGoesOn` |
| Update over the air | early returns lose memory; the image on the server may be any | `HeapLasts`, `VersionsRise` |
| Storage with a global handle, filled in the middle of a write | nested call of the send routine; a restart between handing over and erasing | `HandleOpenWhenUsed`, `LiveKeysHoldText`, `SentOnceInOrder`, `ImplementsEventLog` |
| One static HTTP client | early returns keep the query; an error report uses the client that failed | `OwnParametersLast`, `ValueOfOwnRequest`, `LostByReportsOnly` |
| Clock arithmetic with minutes of the hour | windows may be stepped over; the age of the prediction is the difference of two minutes | `WindowNeverMissed`, `ResetsPerWindow`, `PredictionUpdated` (fails) |
| Sleep and boot | a full ring, a write behind it, a boot in the middle, a race for the fill level, two clocks | `OneWakeLost`, `RingInBounds`, `OneEventDropped`, `DeepSleepTimeCorrect` (fails) |
| Getting back to sleep | a semaphore that three tasks take and give, two waits of the connection without a time-out | `SleepsAgain` |
| Pattern search | somebody turns round, and the patterns have to fall into step with the events again | `CountsPassages` of `PatternCounter` |
| A slow display | keeps analyzer from the count, and analyzer pushInBuffer from the ring that nothing guards | `RingHasRoom`, `ShowsPassages` |

`PROJECT.json` lists every hazard at its line, including those no property covers yet and those one covers in part (the note says which part is open).

## 2. Modules

| module | models | extends / uses |
|---|---|---|
| `PassageCounter` | what the pipeline promises: accepted events are analysed one at a time and in order, completed passages are counted | |
| `Counting` | the pipeline of `test_sensor_lab/main/countingAlgo.c` | implements `PassageCounter` |
| `CountingSilence` | `Counting` with a history variable: the last analysed event is fresh | extends `Counting` |
| `EventRing` | the ring itself: an array with `head` and `fillSize` | |
| `CountingProofs` | proofs about both | extends `Counting` and `EventRing` |
| `EventLog` | what the storage promises: a log, sent prefix by prefix, forgotten at a restart | |
| `NvsStore` | `test_sensor_lab/main/nvs.c` | implements `EventLog` |
| `PlatformApi` | `platform_api.c` and its callers in `webFunctions.c` | |
| `SendClock` | the decisions of sendFromNVS about time | |
| `LowPower` | the duty cycle of `zthe_low_power` | |
| `Doorway` | the barriers, their interrupt routines and the test mode of `countingAlgo.c` | takes the rest of the pipeline from `PassageCounter` |
| `Lifecycle` | `wifi.c`, `timeMgmt.c`, the connection of `mqtt.c`, updateOTA and `caps_ota.c` | |
| `PatternCounter` | `lcd_and_counter` | |
| `NvsStoreProofs`, `PlatformApiProofs`, `SendClockProofs`, `LowPowerProofs`, `DoorwayProofs`, `LifecycleProofs`, `PatternCounterProofs` | proofs | each extends the module it is named after |

Definitions have the names of the code where there is one. A comment that begins with
*Mutant* marks a variant with a plausible mistake in it; no specification uses
it. It shows what the property named with it in `PROJECT.json` would find.

### 2.1 Counting

One action is what a task does between two points at which another task can see or
disturb it: taking a semaphore, giving it, a call into the network, a delay.

| code | actions |
|---|---|
| `isr_inner_barrier`, `isr_outter_barrier` after debouncing (see `Doorway`) | `BarrierEdge` |
| `pushInBuffer` | `PusherTake` or `PusherSkip` (semaphore with block time 0), `PusherReceive` or `PusherTimeout`, each ending in `vTaskDelay` |
| `checkBuffer` | `StartBatch`, `ContinueBatch`, `DrainStale` (it returns 1); `EndBatch`, `ResetState`, `AwaitEvents` (it returns 0) |
| `analyzer` | `AnalyzerIdle`, `AnalyzeEvent`, and for an event that completes a passage `AnalyzerPassage`, then `IgnorePassage` or `CountPassage` and `SavePassage` |
| `sendFromNVS` | `SenderTake`, `SenderBackup`, `SenderSend`, then `SenderSleep` or `SenderReset`, `SenderRestart` |
| `updateOTA`, `esp_restart` | `OtaRestart` at any time |
| FreeRTOS clock | `Tick`, only when no task of the pipeline is ready |
| `time()` against `TIME_TO_EMPTY_BUFFER` | `Age`: one more event, the oldest fresh one, becomes stale |

An event is its barrier; its time stamp is the number `nStale` of events at the front that
are stale (they arrive in order, so the stale ones are the oldest). The ring is the
sequence of its live slots. `CountingProofs` proves this exact: storing behind
`head + fillSize` appends (`ReceiveAppends`), stepping `head` is `Tail` (`RemoveIsTail`), and
one event too many would overwrite the oldest (`OverflowForgets`). In `Counting` an overflow is
therefore a sequence longer than the ring, which `NoBufferOverflow` excludes.

The actions run at the granularity of the code's own locking. Analyzer has its
semaphore during a whole round, and a round that does not wait for the count touches
nothing another task writes; so it is one step.

### 2.2 NvsStore

One step is one access to the storage or one hand-over to MQTT. Task `counter` stands
for whoever holds `xAccessCount`, task `ota` for updateOTA, which sends everything without a
lock when the heap is low and restarts. A key holds a sequence of event numbers. `Restart` happens
anywhere: it empties key `s0` and leaves the others, as initMY_nvs does, or
empties all when the partition had to be erased. Writing an event back and erasing a key may fail, which
the code only logs (`AddEvent`, `EraseKey`); opening the storage and the write of initNVS_json are taken to succeed.
In a roll-over `nvs_index` is behind the keys for a moment (`PastLastKey`, then `LastKeyFull`), which the OTA task may see.

`sent` is what the *counter* task has handed over. The OTA task's hand-overs are not in it: without a lock both tasks may
well send the same key, the code does not prevent it and no property says it does.

### 2.3 PlatformApi

The routines of `webFunctions.c` are sequences of library calls in `todo`; a step executes
the first of them. `RequestFails` is every early return of perform_request; http_event_handler has then stored whatever body
arrived, an error page or an answer whose end was lost, and nobody looks at the result of the request. `ValueOfOwnRequest` therefore says whose
body is read, not that the request succeeded: it is the one that the routine's own last request received, and no older one.
`CheckError` inserts the calls of systemReport in front of the cleanup of fetchNumber, as
the code does, and `ConvertUnset` is the atoi of a pointer that was never set: any number, or a panic. `own` is what the caller set for the request that it is about to make, `afterFailure` tells whether the
request before it failed: only then may older parameters stand in front of its own. One routine runs at a time; that
tasks call the library concurrently is a hazard without a property.

### 2.4 SendClock

Time is the minute of the day. A step is a round of the task: sleep, up to `SLACK`
minutes for semaphore and network, then reset or refresh or neither. `OtaRestart` interrupts a
round. In `TestRound` the test mode suspended the task: resumed, it decides at once, after fewer minutes than its delay or
after more, up to `MAX_TEST`. `tested` and `restarted` tell whether a reset window was disturbed.

### 2.5 LowPower

`wakeup_routine(pins)` is a run of the stub for a set of pins (none for the timer),
`SetupToSleep` and `SetupTasks` the two ends of my_setup, `GotIP`, `ClockSet` and `BrokerConnected` the waits of initInternet, which
`ConnectionLost` may disturb at any time before the broker has answered, `TestWrite` and `TestFill` the test data that
app_main writes over the ring, `AwaitInternet` .. `Report` the analyzer, `SleepAgain` and
`NightReset` the two ends of after_analizer. pushInBuffer computes its slot (`PusherAims`), writes
it when an event arrives (`PusherReceive`) and increments `fillSize` in a step of its own; that
increment races with app_main on the other core, which decrements `fillSize` or sets it for the test data, so either update may be lost (`SetsFillSize`).
A failed fetch makes a number of a pointer that was never set, any number or a panic (`FetchPanics`).

The length of a sleep keeps the width of its type: `Microseconds` computes `1000000 * seconds` modulo 2^32, so that the night of 25200 s,
meant to last until seven o'clock, comes out as 62 minutes. No property promises its length.

The stub looks at the fill level once and may write its second event behind `buffer[]`. Where the linker puts `head`, `fillSize` and `timeOffset`
is not in the source; `Behind` says which of them lie there, and the write leaves anything in them (`WritesBehind`, `Damage`). `overrun` remembers it until the next
sleep of the program. `RingInBounds` says that this single write is all that takes the ring out of its bounds. An event that the stub wrote is
analysed from wherever the damaged `head` points, so nothing is said of the count afterwards but its type.

`EdgeBeforeQueue` is the time between the installation of the interrupt handler and the
creation of the queue: the kernel asserts on the missing queue and the device reboots.

### 2.6 Doorway

| code | actions |
|---|---|
| an edge at a barrier, and its interrupt routine | `EdgeAccepted`, `EdgeDropped` (the queue is full), `EdgeIgnored` (debounced, or no handler) |
| `THRESHOLD_DEBOUCE` has passed since the last accepted edge | `Settle` |
| pushInBuffer and analyzer, as `PassageCounter` has them | `Analyse`, `Forget` |
| `isr_test_mode`; `pauseOtherTasks` | `Press`; `Toggle` and seven times `SwitchNext` |
| `esp_restart`, `start_counting_algo` | `Restart` |

The interrupt routine runs at once, in one step with the edge. `walk` and `people` are a history: the passages made at the
door. They are given up (`missed`) with the first edge that is not accepted, as nobody can say any more what
the count should be.

`InPhase` rests on the shape of the analyzer: its state modulo 4 is a Gray code of the two levels, so that what
the machine has *seen* of a barrier (the level of the last accepted edge, less the
events still on their way) determines the state but for the direction of the passage. `outOfPhase` is set where that is lost: when the
queue drops an event whose level the interrupt routine records, and when the machine is reset while something is in the way.
Being out of phase means that ways in are taken for steps back; a reset with clear barriers repairs it.

### 2.7 Lifecycle

`boot` is how far app_main has come. The radio delivers events in order; a connection attempt may succeed, fail or last for
ever, a connection may be lost at any time, and the image and the restart flag on the server change at any
time. `Reconnect`, `GiveUp` and `GotIp` are event_handler while it is registered, `WifiConnected`, `WifiFailed` and `WifiTimeout` the
three ends of the wait in initWifi, `Sntp...` initSNTP. updateOTA starts when MQTT is connected; a
round is `OtaWakes`, one of `BeginFails`, `ImageRefused` and `ImageAccepted` with `LoadFails` or `LoadSucceeds`, the look at the heap, and the flag. Heap is counted in the pieces
that a round may lose: the URL and the update handle at an early return of ota_update, a client when fetchNumber finds no
value (`PlatformApi` shows how), and those that fetches of other tasks lose meanwhile (`FetchFails`; `lost` counts them since the last look at the heap, at most `OTHERS`).
`FetchPanics` is the atoi of a pointer never set. `NightReset` is the restart in the reset hours, whose coming `SendClock` shows. `PressButton` turns the test mode on and
off, which suspends updateOTA and sendFromNVS. It may be left on, so nothing guarantees that a running device that lost its connection is ever restarted, and no property says so.

### 2.8 PatternCounter

| code | actions |
|---|---|
| a person in the doorway, `isr_barrier1`, `isr_barrier2` | `Walk`: a step to the next place, which covers or clears one barrier |
| `pushInBuffer` | `PusherTake`, `PusherReceive` or `PusherTimeout` |
| `analyzer` | `TooFewEvents`, `NoPassage`, `FoundPassage` and then `CountPassage` |
| `showRoomState` | `DisplayDraws`, `DisplayDrawn` |

The events come from a walk through the doorway, so that the run sees the sequences that people can make, turning round included,
and no others. `passages` is a history: the count that the straight passages make. It is given up (`lost`) with the first edge that is
debounced away or meets a full queue. Of the delays of 100 ms and 10 ms this is kept: analyzer, unless it is blocked, has a
round between two of pushInBuffer (`looked`).

## 3. Runs and bounds

| run | question | instance |
|---|---|---|
| `counting` | is the pipeline safe, does it implement `PassageCounter`, does every event get analysed and every passage finish? | queue 1, ring 3, threshold = batch = 2, delays 3/1/1, counts 0 and 1 |
| `lingering_passage` | *violated*: is an unfinished passage reset after silence? | the same with a ring of 2 |
| `sticky_reset` | *violated*: is it reset only after silence? | ring, threshold and batch 4 as in the code |
| `nvs_store` | does the storage implement `EventLog`, over restarts and roll-overs? | 3 keys of 2 events, 8 events |
| `platform_api` | do requests carry their own parameters, do values belong to their request? | 4 failures in a row, each with any body, 3 fetches |
| `send_clock` | is no reset window missed, how often is the count reset? | the code's own constants, every minute of the day |
| `prediction_updated` | *violated*: is a prediction updated at all, at most an hour late? | the same, rounds of exactly 5 minutes, no test mode |
| `low_power` | how many barriers of a wake and received events does the device lose, does the ring stay in its bounds, does it get back to sleep? | ring 5, queue 1, one call of testData, bytes of 7 values, sleep products of 4, `head` behind the buffer |
| `deep_sleep_time` | *violated*: are the stamps of the stub right? | the same, without liveness, nothing behind the buffer |
| `doorway` | does the machine stay in step with the barriers, is what passes the door what is counted, does the test mode stop and restore everything? | queue 1, up to 3 events pending, counts 0 and 1 |
| `lifecycle` | does the start-up go on, does the heap last, do updates go forward? | 1 reconnection, 2 looks at the clock, heap 9 of which 7 are insisted on, versions 0 to 2 |
| `pattern_counter` | does the pattern search count what passed, has the ring always room, is the count shown in the end? | queue 2, ring 5, threshold 4 as in the code, counts 0 and 1 |

Why the bounds are enough:

- *Sizes of Counting.* The code has queue 16, ring 16, threshold 4 = batch 4, delays 10, 5 and 1 ticks.
  What the properties depend on are the relations: the ring is at least the threshold, the
  batch at most the threshold, two rounds of analyzer fit between two of pushInBuffer.
  The instances keep them (2·1 < 3, with a ring that has one slot to spare). A ring of three slots wraps, and
  a batch of two has a first, a middle and a last element (`valid` 2, 1, 0). With the ring in front of it a queue of one is
  enough to hold several events in order. The safety properties and the refinement are also proved for all sizes.
- *Counts.* `COUNT_LIMIT = 0` stands for 250: values 0 and 1 are both saturated ends.
  `BadFetch = {2}` is a value beyond the limit that a failed fetch may restore.
- *NvsStore.* Three keys have a first, a middle and a last; eight events are more than
  the six that fit, so that a roll-over and a second filling happen. `MAX_EVENTS`
  bounds the writes.
- *PlatformApi.* `MAX_FAILURES` and `MAX_FETCHES` bound two counters that grow only with failures
  and lost handles; three nested reports are more than any property tells apart.
- *SendClock.* Real constants. In `prediction_updated` `MAX_AGE = 90` is where the age is no longer counted, beyond the bound
  `60 + REFRESH_MIN + SEND_COUNT_DELAY + SLACK = 80`; there `SLACK` and `MAX_TEST` are 0, so that the task looks at the same twelve minutes
  every hour and a whole hour without a refresh shows that there is none before a restart. In `send_clock` `MAX_TEST = 20` minutes are more than a reset window, so that
  a test mode may cover one. `SLACK = 2` and `BOOT = 1` minutes are assumptions about the network.
- *LowPower.* Ring of 5 slots with 4 taken by the test data of one call (200 and 20 in the code), so that a
  stub with one free slot and one with none occur. `MaxTime = 1` is one unit of the
  slow clock: stamps are compared for being equal or late, not for how late. `EPOCH` and `VALID` only
  have to be ordered as in the code. The run uses the build with WiFi, backup and sending on. `UINT8 = 7` has the values up to one beyond the ring and its
  overrun, as 256 has with a ring of 200; `MICROS = 2` and `UINT32 = 4` make the product of the night (3) wrap and that of a usual sleep (1) not. `Behind` holds `head`
  in `low_power`, and `Overwritten` one value that no slot has; `deep_sleep_time` has nothing behind the buffer, so that its stamps are not late because something was overwritten. The proofs take any of them.
- *Doorway.* One slot in the queue and three events in all, so that events of both barriers, two of the same, and a drop
  occur with the machine anywhere. The buffer behind the queue may be empty when the queue is full, so a drop needs only `SIZE_QUEUE` events.
  `COUNT_LIMIT = 0` as above.
- *Lifecycle.* `MAXIMUM_RETRY` and `RETRY_COUNT` (10) only have to be reached. Heap 9, limit 7, losses of 1, 2 and 1 and 2 by other tasks: between two looks at the heap
  6 may be lost, less than the limit, as in the code (8000 bytes); `HeapAssumption` names this. `OTHERS` is two fetches: start_counting_algo makes two before the first round, and
  sendFromNVS one every 15 minutes at most, where a round takes 150 seconds (a test mode in the middle of a round may add a second). Three versions make one older, equal and newer than the middle one.
- *PatternCounter.* The patterns have the code's own length. With two events in the queue and four in the ring a whole passage and a
  half may be on their way. The ring is larger than the threshold, as 10 is than 4; its bound is also proved.

TLC checks for deadlock in every run but `low_power` and `deep_sleep_time`: nothing else may stop. A low-power device without an access point, or
one that lost it before the broker answered, waits for ever (`wifi.c:123`, `mqtt.c:126`, both without a time-out); once its queue and its ring are full and the
clock has reached `MaxTime`, nothing in the model moves any more.

## 4. Fairness

Liveness is checked of `Counting`, `Lifecycle`, `LowPower` and `PatternCounter`.

`FairSpec` of `Counting`:

- weak fairness of `Tick`, `Age`, `Pusher`: the clock ticks, time passes, a ready task of high priority
  runs;
- weak fairness of `SavePassage` and of sendFromNVS once it is awake: the HTTP client has a
  time-out, so a request returns;
- strong fairness of the two steps in which analyzer takes a semaphore: it is the task of highest priority
  (11) and blocks with `portMAX_DELAY`. FreeRTOS gives a semaphore to the waiting task
  of highest priority, so it cannot be passed over again and again.

Nothing is assumed of the barriers, of sendFromNVS waking up, or of restarts.

`Spec` of `Lifecycle` has weak fairness of the wait in initWifi as a whole (its time-out is 60 s), of the loop in initSNTP (its delays end),
and of the steps without a wait. Nothing is assumed of the radio and
the servers, nor of `NightReset` and updateOTA, which a test mode left on suspends. `StartUpGoesOn` therefore excepts the wait for the MQTT broker, which has no time-out in the code.

`FairSpec` of `LowPower` has weak fairness of app_main and pushInBuffer, because ready tasks run, and of the end of initSNTP, which gives up after ten tries. Nothing is
assumed of the access point and the broker, of the barriers, of the wake-ups, or of a connection staying up. `SleepsAgain` excepts the two waits that the code does not bound:
initWifi waits with `portMAX_DELAY` and its handler never sets the fail bit, initMQTT waits in a loop.

`FairSpec` of `PatternCounter` has weak fairness of pushInBuffer and showRoomState (drawing ends) and strong fairness of analyzer's two
takes, which block with `portMAX_DELAY` and are woken by each give. `ShowsPassages` excepts people who walk for ever.

## 5. Proofs

Every proof holds for all values of the constants that the assumptions of its module allow. Each proof module has an inductive
invariant made of named parts, one lemma per action or group of actions, and the theorems at its end.

### 5.1 The pipeline

`CountingProofs` assumes that sizes and
delays are positive, `BATCH <= THRESHOLD_ANALIZER` (`SizesAssumption`, `DelaysAssumption`),
`COUNT_LIMIT <= 254`, restored values are bytes (`CountAssumption`), and

    THRESHOLD_ANALIZER <= SIZE_BUFFER  /\  2 * ANALYZER_DELAY < PUSH_DELAY      (PaceAssumption)

which the code satisfies with 4 <= 16 and 2 < 10.

The inductive invariant is

    IInv == TypeOK /\ MutualExclusion /\ PassageInRange /\ BatchBacked /\ Pace

and `Invariance` proves `Spec => []IInv`. Why each part is needed:

- `MutualExclusion` by itself is inductive with `TypeOK`: it ties the semaphores to the control of
  the tasks.
- `PassageInRange` gives the range of `state_counter` and says that a waiting analyzer is at 4 or -4.
- `BatchBacked` says that the rest of a batch is in the ring; without it the decrement of `fillSize`
  might act on an empty ring.
- `Pace` is the strengthening that `NoBufferOverflow` needs. Nothing in the code tests for a full ring
  before `fillSize++`. `Pace` says that `fillSize` is at most the threshold, and that at the threshold
  pushInBuffer sleeps longer than analyzer does (by a further round if analyzer has yet to count
  down the last element of a batch, a round that removes nothing). So analyzer always
  removes an event before the next one comes, whatever the size of the ring. A test mode, which `Counting` leaves out, may put pushInBuffer
  one event ahead, because it ends the delay of that task too; the ring of the code has 12 slots to spare.

From it follow, as theorems about `Spec`: `TypeCorrect`, `SemaphoresExclude`, `NeverAnalysesEmpty`, `MachineInRange`,
`RingNeverOverflows`, and the action properties `CountNeverWraps` and `ReportsAreConsistent`.

`PipelineImplementsPassageCounter` proves `Spec => Abstract!Spec`, where the pending events are the ring followed by
the queue. A passage is counted when analyzer takes `xAccessCount`, but its event leaves
the ring only after the backup; the mapping removes it at the count, and until then shows the machine one step back. For
the step that finishes the round one has to know that the oldest event is still the one that completed the
passage: that is `PassageKept`, a second invariant. The proof has one lemma per action, saying to
which abstract action it maps or that it stutters.

`ReceiveAppends`, `RemoveIsTail` and `OverflowForgets` say that the ring of the code, an array with `head` and `fillSize` (`EventRing`), is the
sequence that `Counting` makes of it.

### 5.2 The doorway

- `MachineInPhase`: `Spec => []InPhase`, with `PhaseInv == Levels /\ InPhase`. The
  property is inductive once it is said of the *seen* levels: an accepted edge flips `lastState` and adds an event
  (`NumberAppended`), so the machine sees what it saw before; analysing takes the event away (`NumberTaken`), which flips the
  seen level and moves the state by one (`OnePosition`). The two lemmas count events with the cardinality of a set of positions,
  for which the library has facts.
- `PassagesCounted`: `Spec => []CountsPassages`. What is inductive is that the events on their way *lead* the machine to what the
  passages at the door have made (`Agrees`). Instead of folding over the events `Leads(f, g)` says that the functions `f` and `g`
  list the states and counts that lie between; an accepted edge extends them by one, analysing drops the first.
- `EverybodyComesBack` and `NothingHappensInTestMode`, from `SwitchedInOrder`: pauseOtherTasks is always done with a prefix
  of its list, and with all of it when it returns.
- `TypeCorrect`.

### 5.3 The storage

`NvsStoreProofs` proves with `IInv == Types /\ Erasing /\ Writing /\ HandleOpenWhenUsed /\ LiveKeysHoldText` the theorems `TypeCorrect`, `HandleOpen` and
`LiveKeysKeepText`: `Erasing` says that the key a task erases exists although the other task may have gone back to the first one, `Writing` that a write that
has begun has a number for its event, also while it sends in the middle.

`SentInOrder` (`Spec => []SentOnceInOrder`), which is about the hand-overs of the counter task only (section 2.2), needs `OrderInv == Sorted(sent) /\ KeysInOrder /\ ReadBehind /\ Closed`:

- `KeysInOrder`: the live keys hold events in order, each key those behind the key before it, and all of them behind what was sent;
- `ReadBehind`: what writeToNVM has read and is about to write back is still the newest text. The text may be written back
  although the OTA task has sent and erased it meanwhile, and only
- `Closed` shows that this does no harm: the OTA task closes the handle under the counter task only when the storage is empty, and
  then does nothing but restart.

`StoreImplementsEventLog` (`Spec => ImplementsEventLog`) needs one invariant more, `Reading`: without the OTA task nobody changes a key between
the read of its text and the write-back (`ReadsHold`). The log is the concatenation of the texts of the keys `FirstKey..LastKey`, made by
`FlattenSeq`, a recursive function. What it does when a key is added behind (`LastPart`), handed over in front (`FirstPart`) or not
touched (`PartsSame`) is proved by induction over the number of keys. The library's induction theorems take an operator, so the induction is done with the
least counterexample: `NatLeast` (every set of numbers has a least one, from `WFMin` of the library) is applied to the set of the
numbers for which the claim fails. Then there is one lemma per group of actions: writing an event appends it (`LogAdd`), a new key and a key without a text
change nothing (`LogNewKey`, `LogSkip`), handing over a key takes its text from the front (`LogSend`, `SendIsSend`), what is
erased has left the log before (`LogErase`), and when the loop ends nothing is left (`LogEnd`).

### 5.4 The low-power device

`LowPowerProofs` proves `TypeCorrect`, `RingStaysInBounds`, `WakesLoseOne`, `SleepDropsOne` and `SemaphoreComes` with
`IInv == Types /\ Boots /\ Wakes /\ Signals /\ Fills`. `Fills` is the part about the ring: while the stub has not written behind it `head` and `fillSize` are within it, and otherwise it wrote one event there;
pushInBuffer found a free slot before it waits for an event, so that no outcome of the race with app_main is beyond the ring, and once analyzer has left an empty ring at most that one event is
added. The proofs leave open which variables lie behind the buffer, what the write leaves in them, and how wide the integers are; `AlarmType` is the lemma
about the product that wraps. `Signals` says who is still going to give `xInternetActive`; it is the reason why `SleepsAgain`, which TLC checks, does not fail.

### 5.5 Start-up and updates

`LifecycleProofs` assumes `MIN_HEAP <= HEAP` and `URL + HANDLE + CLIENT + OTHERS < MIN_HEAP` (`HeapAssumption`):

- `HeapNeverExhausted`, from `HeapLeft`: the heap that is left at each position of updateOTA in its round, less what other tasks' fetches lost;
- `UpdatesGoForward`, from `LoadsNewer`: the version cannot change while an image is loaded;
- `TypeCorrect`, from `Waiting`: nothing happens in the radio between a lost connection and the handler's next attempt, so that two
  events at most wait for the handler.

### 5.6 The first counter

`PatternCounterProofs` proves `TypeCorrect`, `RingNeverFull` and `SemaphoresHeldOnce` with `Inv == TypeOK /\ OneHolder /\ Pace`: the ring holds at most the
threshold, and less once analyzer has looked at it, which it does between two rounds of pushInBuffer.

`PassagesCounted` (`Spec => []CountsPassages`, for every queue, ring, limit, and threshold of at least a pattern) follows from
`EventsTellPassages` with `IInv == Inv /\ PassageWaits /\ Recognition`. `Recognition` is about the *pending* events, those in the ring and behind them those in the
queue, as long as no edge is lost:

- `Tells`: the last of them end where the person is, and begin a passage exactly if the person has come that far without turning round;
- `Results`: there is a list of counts, one for each pending event, that begins with the count, ends with the history `passages`, and
  changes exactly where the four events up to there are a passage. The list stands in for a fold over the events: a
  step that adds an event extends it (`LongerResults`), and one that drops events cuts it off in front (`DeletedResults`).

The heart of the proof is `NothingLeft`: fewer than four events contain no passage. `DeletedDirection` says why it does no harm
to drop one event when the four oldest are no passage, and to drop four when they are: no passage among the others reaches back
into what is dropped.

### 5.7 The platform client

`PlatformApiProofs` proves `TypeCorrect`, `RequestsKeepOwnParameters`, `ValuesAreOwn` and `ClientsLostByReports`. The state is a list
of calls to come (`todo`), so the invariant is about lists:

- `TodoOK`: every list that is executed is a `Sentence`: after platform_api_init come token, type and own parameters of the same endpoint, then the request, and only
  then what looks at its answer. A routine is one, its rest is one, and so is a rest with the calls of systemReport put in front of it;
- `Due`: the call that comes next finds the endpoint and the parameters that the calls before it have set;
- `QueryOwn`: between platform_api_init and the request the query *ends* with the parameters of the caller, and is equal to them when the request before did not fail;
- `ValuesAreOwn` is about the body as `request.body` has it, set by the last request, failed or not; platform_api_init and the request itself free the older one;
- `OpenClient`, `CheckBudget`: a client that is still open when the next one is about to be opened belongs to a fetch whose failure is being reported.

`ClientAssumption` says only that the bounds of the model are numbers and `NULL` is not a value.

### 5.8 The clock of sendFromNVS

`SendClockProofs` proves `TypeCorrect`, `ResetsFitWindow` (`ResetsPerWindow`) and `NoWindowMissed` (`WindowNeverMissed`) for every delay, slack, boot time, window length and pair of reset hours with

    SEND_COUNT_DELAY + SLACK + BOOT < RESET_COUNT_MIN  /\  RESET_COUNT_MIN + BOOT <= 60      (ClockAssumption)

The code has a delay of 5 minutes and a window of 15, and 2 and 1 minutes are taken for the network. The second bound says that the boot after a reset in the last minute of a window ends within the hour:
without it two windows in adjacent hours would run into each other, and a reset at the end of one would begin the next with a count that is not its own. The invariant is `TypeOK` with

- `Visited`: in an open window the task has reset the count, or the OTA task has restarted the device;
- `Spaced`: the last of *n* resets is at least *n* - 1 delays behind the beginning of its window.

`NoWindowMissed` is why a running device is restarted twice a day, unless it is left in test mode.

### 5.9 Only model-checked

- The liveness properties `NoEventStranded`, `PassageFinished`, `SleepsAgain`, `StartUpGoesOn` and `ShowsPassages`: temporal proofs
  under fairness need ENABLED and are not within the provers' reach.
- The four disagreements of section 6, which are counterexamples.

## 6. Where code and words disagree

Each is a run whose property says what a comment or report says, and which TLC finds violated. `PROJECT.json`
quotes the lines.

- **An unfinished passage may linger** (`lingering_passage`). The machine is reset when a stale ring was drained.
  If the last events of the passage were taken by a full batch, the ring is empty, nothing is drained, and
  the machine keeps its state however long the barriers are silent.
- **A reset may come too early** (`sticky_reset`). `reseted_buffer` is set when draining begins and cleared only at the next empty ring in
  between two batches. If fresh events make up a batch meanwhile, the end of that batch resets the machine although its last event is
  fresh.
- **The prediction may never be updated** (`prediction_updated`). Minutes of the hour are
  subtracted with their sign. After a refresh at minute 45 or later no difference reaches 15, and the prediction
  is not fetched again before the next restart. The comment promises 15 minutes; the property asks only that a refresh is not an hour late, and the trace is a
  refresh at minute 46 followed by an hour without one, after which the same minutes come again.
- **Stamps of the stub are late** (`deep_sleep_time`). `timeOffset` is the time of day at the last sleep
  entry, and the stub adds the slow clock, which counts from power-on and not from that sleep.

## 7. What is not modelled

- *Display drivers, fonts, REST client*: vendored, or not called. They and the generated `sdkconfig.h` make up four fifths of the
  28,900 lines of C under `src/`: about 17,600 lines are tables of fonts and 4,500 the e-paper drivers. The programs' own code has about 5,200 lines, copies and exercises included.
- *Room display*: draws, no state that anything depends on. *Power measurement*: no state.
- *Exercises*: `initial_blink` has one barrier and no shared state, `test_code` is an older copy of `nvs.c` and a driver for it.
- *Copies*: `zthe_low_power` has its own copies of the WiFi, MQTT and platform code. Its chain of waits is in `LowPower`, the
  library in `PlatformApi`.
- *Concurrent callers of the platform client*: analyzer, sendFromNVS, updateOTA and getPrediction share one query, response and client. With two of them
  inside the library, memory is used after it was freed, and nothing can be promised.
- Of the *test mode*: where in its round a suspended task is, and that resuming ends its delay early (but for sendFromNVS). A task suspended with
  a semaphore taken keeps it until it is resumed; that every task is resumed is `AllBackAtWork`.
- Of *MQTT*: the branch for received data, which the program never takes because it subscribes to nothing.
- Of the *LCD*: pixels, and that a digit of a longer number stays beside a shorter one.
- Out of reach of any model here: wear and timing of the flash, the WiFi and MQTT stacks, the platform.

In the modelled parts these are left out: wording of messages and log lines, the JSON format of an event, the length
of a string (a key is full after a number of events), allocation failures.

## 8. Plan

Done, in this order: `Counting` with `PassageCounter` and the proofs, `CountingSilence`, `NvsStore` with `EventLog`,
`PlatformApi`, `SendClock`, `LowPower`, `EventRing`, `Doorway` and `Lifecycle` with their proofs, `PatternCounter`, the connection
of `LowPower`, the proofs of `NvsStore`, `LowPower` and `PatternCounter`, those of `SendClock` and `PlatformApi`, and that `NvsStore` implements `EventLog`.

Next, most important first:

1. The nightly reset together with a passage being saved (`countingAlgo.c:393`): `Counting` has both, but
   no property says what the platform holds after the reset.
2. The test mode in `Counting`: a task suspended with `xAccessCount` or `xAccessBuffer` taken, delays that end early.
3. Concurrent callers of the platform client, as far as anything can be said of them.
