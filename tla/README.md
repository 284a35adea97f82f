# Verification of the parking desk client

This directory holds TLA+ models of `Qt_Client`, the operator's desktop client of
a parking-lot monitoring system: a Qt program that polls a Raspberry Pi over HTTP,
listens to it over MQTT, shows fire alarms the operator has to answer, and edits
the intelligent-video-analysis (IVA) areas of Hanwha WiseAI cameras. But for
the decoder threads of the videos the program is single-threaded: everything runs
as callbacks of one Qt event loop, so one TLA+ action is one callback, with every
call it makes and every signal it emits within it. What interleaves are the
callbacks: network answers, timers, posted events, clicks, and the nested event
loops that message boxes run. A decoder thread meets the GUI thread at a mutex and
two atomic flags, and there one action is what lies between two of those.

Line references are to the repository, without the leading `src/` that all have.

## 1. Inventory

| part | source | state | operations | with whom |
|---|---|---|---|---|
| Fire alarms | `src/controllers/parkingcontroller.cpp` 301–858, 1091–1138, `src/adapters/serverfireeventadapter.cpp` | channel record (alarm, active, acknowledged, revision), ledgers of revisions and deliveries, ids seen, acknowledgement keys, publications waiting for PUBACK | receive a fire message, acknowledge, PUBACK, publication failed, reload MQTT, connect, disconnect | MQTT client below, main window above (signals `fireConfirmation*`) |
| Fire popups | `src/mainwindow.cpp` 490–512, 728–762, `src/dialogs/firealarmpopup.cpp` | popup and last alarm shown per channel, posted events | show, close, Check, retry, destroy | the controller |
| WiseAI client | `src/iva/wiseaiconfigclient.cpp` | the one request in flight, the verification timer, the last configuration, the pending update | fetch, apply, delete area, cancel, change of connection | camera over HTTPS; the IVA page (signals) |
| IVA page and window | `src/pages/ivasettingspage.cpp`, `src/mainwindow.cpp` 127–211, 1111–1140 | dirty flags, save stage, request flags, saved configuration, row and fields of the editor, draft, slot, pending leave / page / close | refresh, edit, draw, save (camera, then Pi), delete, discard, leave, close | the client; the parking-ROI part of the controller |
| IVA canvas | `src/iva/ivavideocanvas.cpp` | mode, rectangle, drag, rubber band | press, move, release, set areas / modes | the page |
| Server link | `src/controllers/parkingcontroller.cpp` 1367–2263, `src/api/apiclient.cpp` | polling timer, request flags and tags, back-off delay, expiry | reconnect, rebuild, answers and failures of six kinds of request | Pi over HTTP; settings, map, evidence pages |
| Slot state | `src/controllers/parkingcontroller.cpp` 860–1089, 2014–2160, 2275–2444 | slots, alerts, banner, ids seen | snapshot, MQTT event, acknowledgement, simulation, loading message | server link, MQTT client |
| Evidence | `src/controllers/parkingcontroller.cpp` 1140–1365, 2162–2263, `src/pages/evidencepage.cpp` | session, plate and images per slot, references to events, requests under way; the page's cache, filter and event | poll, detail, images, event requests and their answers | server link, images |
| Evidence card | `src/pages/evidencepage.cpp`, `src/api/imageloader.cpp` | selection, card, loads, download | select, load, answer, replace loader, download | Evidence |
| MQTT client | `src/services/mqttserviceclient.cpp` | socket state, receive buffer, packet ids, subscriptions left, publications, timer | connect, subscribe, publish, acknowledge, abort, back-off | broker; the controller |
| Session | `src/main.cpp`, `src/auth/authclient.cpp`, `src/mainwindow.cpp` 86–125 | login in flight, window, end under way | login, logout, expiry and login again | Pi; every HTTP client |
| Notifications | `src/services/notificationcenter.cpp`, `notificationpolicy.cpp` | list of records | ingest, resolve, clear | the controller's events |
| Parking map | `src/pages/parkingmappage.cpp`, `src/models/parkingzonelayout.cpp`, `slotidmapper.cpp` | zones, overview, dirty flag, layout file | load, synchronise, validate, save, overview dialog | session, slot state |
| Video | `rtsp_legacy/RtspVideoItem.cpp` | generation, frame slot and delivery flag, timer, decoder thread | change of source, decode, deliver, fail, reconnect, destroy | FFmpeg |
| Parsers, builders, codecs | `src/iva/ivaarea*.cpp`, `src/api/parkingresponseparser.cpp`, `parkingroi.cpp` | none | pure functions | the clients |
| Other pages, settings, diagnostics, simulation | see `PROJECT.json` | views, files, test data | — | — |

What is hard here is mostly not parallelism but order: answers that come after the
state they were asked for is gone, flags that an error path forgets to reset,
handlers that run in a nested loop, messages that arrive twice or late.
What makes each part correct:

* **Fire alarms.** A channel follows the newest revision, whatever order the broker
  delivers in; one revision is recorded once; an operator's answer is not undone by
  an old message; a failed answer can be given again; an open alarm never becomes
  unanswerable.
* **Popups.** The popup the window would close is the one on the screen; every open
  alarm has a popup or an answer under way.
* **WiseAI client and IVA page.** Only what the operator asked for is written, to the
  camera it was read from, over nothing unseen; the page's "saving" ends; edits are
  not lost silently; the region the Pi gets is the one the camera verified.
* **Server link.** Polling goes on until the session expires and stops then; every
  request is answered to its caller; a saved value is reported saved only after it
  was read back.
* **Slot state.** An alarm survives a snapshot that does not mention it as long as the
  car stays; a banner that was hidden comes back; the two pictures of a slot agree.
* **Evidence.** Images stay with the slot they were taken at; the card shows the pair
  selected; a download ends.
* **MQTT.** A subscription is complete before the client says so; a command is answered
  once; bytes of an old connection are not read as the new one's; a lost broker is
  tried again.
* **Notifications.** The bell forgets a slot's alarm only when the board does.
* **Map and session.** What is shown as saved is what the next start loads; an ending
  session loses no layout unasked.
* **Video.** No picture of another stream, no frozen picture, one decoder.

## 2. Modules

```
FireAlarm ──EXTENDS── FireDesk ── MCFireDesk
    └── MCFireAlarm           └── FireAlarmProofs (TLAPS)
WiseAiClient ──EXTENDS── IvaSetup ── MCIvaSetup
                             └── IvaSetupProofs (TLAPS)
VideoCanvas ──EXTENDS── RoiEditor ── MCRoiEditor
                            └── RoiEditorProofs (TLAPS)
Poller ──INSTANCE── ServerLink ── MCServerLink
Courier ──INSTANCE── MqttLink ── MCMqttLink
                         └── MqttLinkProofs (TLAPS)
EvidenceSlots ──EXTENDS── Evidence ── MCEvidence
      └────────EXTENDS── EvidenceView ── MCEvidenceView
Evidence, EvidenceView ──EXTENDS── EvidenceProofs (TLAPS)
Notices ──EXTENDS── SlotBoard ── MCSlotBoard
ZoneFile ──EXTENDS── MapSession ── MCMapSession
RtspVideo ── MCRtspVideo
MapSession, SlotBoard ──EXTENDS── ParkingProofs (TLAPS)
ServerLink, RtspVideo ──EXTENDS── ConnectionProofs (TLAPS)
Recursion (TLAPS) ──EXTENDS── RoiEditorProofs, ParkingProofs
```

The modules meet where the code has an interface. `FireAlarm` takes from the MQTT
client the signals that `MqttLink` gives (`ConfirmPublish`, `Disconnect`,
`Connect`); that each command is answered at most once is what `Courier` promises
and `MqttLink` is checked against. `RoiEditor` reduces the camera's client, of
which `IvaSetup` has every step, and the Pi's, of which `ServerLink` has every
step, to jobs that end one way or another. `Evidence` decides which images the
page caches, `EvidenceView` what it makes of whatever is cached; both speak of the
slots of `EvidenceSlots`. `SlotBoard` is
polled for ever, which `ServerLink` is checked to do.

### FireAlarm
`alarm`, `active`, `ackKeys` and the ledgers are the controller's members of the
same purpose (`fireState` gathers those a message changes); `command` is the
publications handed to the MQTT client and not yet confirmed; `signals` is what the
last step emitted; `history` is a history variable, the revisions ever recorded.
`ReceiveFire(m)` is one call of `applyServerFireEvent`, from the adapter's
validation (`ValidMessage`) through the preflight (`Refused…`, `Applies`,
`SameKey…`) to the legacy path and its own rules. `AcknowledgeFireAlarm` is the
operator's command with its three outcomes, `ConfirmPublish`, `Disconnect`,
`Connect` and `ReloadMqtt` are what the MQTT client can tell the controller. A reload
hears of the failed publications when the old client's socket closes at once, and
does not when bytes are still unsent (`DropClient`).
A message is a record of an id, a delivery, a channel, an alarm, a revision and a
kind; its text, its times and its raw payload are left out: `canonicalPayload` is
taken for the same whenever identity and kind are.

### FireDesk
Adds the window: `ui.popup`, `ui.tracked` (`m_fireAlarmPopups`), `ui.shown`
(`m_shownFireAlarmIds`) and `ui.queue`, the events Qt has posted but not delivered:
`QTimer::singleShot(0)` of a retry and `deleteLater` of a popup. A controller step
and the slots it triggers are one action (direct connections). The retries of a lost
session are posted in the order of the client's hash of publications, which is any
(`Heard`). Posted events come in the order they were posted; controller steps may
come between, since one socket read handles many packets; clicks find the posted
events delivered. `Room` bounds the model: a step starts only while `Popups` has
names left for those it and the posted retries may open. `settled`, `underWay` and
`leaked` are history, for `UnansweredHasAWay`: whose last shown alarm was over or
answered once, whose open alarm has a command that was published and not lost with
its session, and which keys nothing removes in time (`LeavesKey`).

### WiseAiClient
The camera is a function from cameras to configurations (area to value or
nothing) that others may edit at any time. `client` is a record of the members; `client.out` lists
the signals of the step. One request is in flight or one timer runs. A request
first reaches the camera (`ServeRead`, `ServeWrite`) and is answered later, so a
write that times out may or may not have been done; what reaches the camera later
still is an edit nobody expected, which `EditCamera` covers. JSON building and
comparing become equality of configurations.

### IvaSetup
Adds the page and the part of the window that asks before leaving. Message boxes
are states (`ui.dialog`) in which the operator is blocked and the event loop is
not. `asked` and `dropped` are history: the update the operator wanted, and whether
a change of credentials stopped its verification. The window's credentials dialog, its refresh after a save, the page's
10-s timer and `showEvent` are actions of their own. The question about the map layout
at a close, which `MapSession` has in full, lets the window go or stay
(`LayoutAnswered`); rows, fields and the ROI part
of the page are in `RoiEditor`.

### ServerLink and Poller
`link` gathers the members of `ParkingController` that concern HTTP; `link.net` is
what its `ApiClient` has under way, one request of each kind at a time, which
`PendingIsUnderWay` justifies: a second one is never made. A request is sent, served
(`Serve`) and answered (`…Answered`, `RequestFailed`, `Unauthorized`) in
separate steps, so the server may change in between and answers may contradict the
request. `page` is what the Settings page and the ROI panel of the IVA page show of
it, since their busy flags decide what the operator can do next. `SaveAddress` is
`updateServerBaseUrl` through `initializeApiClient`, which replaces the `ApiClient`
and fails what was pending. `session` is `main.cpp`'s: a 401 or its timer ends it at
once or after the question about an unsaved map layout, during which the event loop
goes on.

`Poller` is the abstract specification: one request or one timer, delays that
double up to a bound and return to the base after a success, until the session
ends. `ServerLink` implements it by the mapping at the end of the module
(`PollsWhileOn`, with its fairness; `PollsSafely` without).

Abstracted: one parking slot has a ROI, and `nearlyEquals` is equality; a page
generation is the parity of `m_piRoiGeneration`, as one save is under way at a time; a
threshold outside the range and a ROI that is invalid or has no mapping are refused
before anything is sent, and are left out.

### MqttLink and Courier
The client over its socket, with the broker and the network. A packet is a record,
since of its bytes only this matters: does a read end inside it? `ReadyRead` takes
whole packets and perhaps the beginning of another; `Handle` is one turn of the
loop in `onReadyRead`, which goes on after a handler has aborted the socket, and
nothing else runs until the buffer is empty. A connection has a number, so that a
byte left from the last one can be told. The broker may refuse, answer with
garbage, be silent, or go, and the socket may refuse what is published
(`FailPublish`). `Reload` is the controller replacing its client. The
PINGREQ of the keep-alive timer is left out, because its answer is never looked at:
a half-open connection is noticed only when the socket reports it.

`Courier` is the abstract specification of publishing: a command is taken only
while the session is ready, and each one taken is confirmed once or lost with the
session. `MqttLink` implements it, counting `m_pendingPublishes` by topic
(`CommandsAnsweredOnce`), also where packets behind a fatal one are handled after
the session was dropped.

### Evidence
Sessions are numbers in the order of arrival; a session stands for its plate and
its images. The server, the controller (slots, references to events with the queue
that bounds them, requests of four kinds) and the page (cache of images and plates
by slot, timeline under a filter) are one module, since the answers of one change
all of them in one callback. `Home` says where a session really took place, so that
`PairsAreOfTheirSlot` can be stated. Requests and answers are separate steps, and
an answer carries what the server knew when it was asked.

### EvidenceView
The selection, the image card, the loads of the `ImageLoader`, which is deleted
with what it loads when the server address changes, and the download. `loads`
keeps of a request whether the page still has it as a target and whether the card
waits for it, which are two different things in the code (`m_requestTargets`, the
label's `evidenceRequestId`).

### SlotBoard and Notices
A slot is `[state, occ, alarm, acked]`: `SlotState`, from which texts and the
evidence page are made, and the visual state of the map. `ParkingEvent` is
`applyServerParkingEvent` and `recordServerEvent`; `Snapshot` replaces the board,
keeping the alarms that persist; `ClearAlarms` and `Simulate` are the buttons of
the Debug page; the banner is a state of its own, since a loading message hides it.
`Notices` is a module of functions: which events become a notification, which
remove some, by the names of their types, and how the list is bounded.

### VideoCanvas and RoiEditor
`VideoCanvas` has the drags as functions of a record: where a rectangle can be
moved or stretched to, and what each setter ends. `RoiEditor` is the page around
it: the table, the fields, the draft, the slot that is mapped to the area, and the
save in two parts. Each function of the page is a function of the record `page`
(`SelectChannel`, `PopulateEditor`, `UpdateButtons`, `SetConfiguration`, ...), and
an action composes them in the order of the handler. The picture is three by two,
the smallest in which an area can be moved, stretched and be too small.

### ZoneFile and MapSession
`ZoneFile` has the conversions as functions: what a save writes (version 3 keeps no
coordinates), what a start reads back from files of any version (missing orders,
areas and coordinates, entries that are dropped), `Synced`, the pass that derives
channel and area from the rectangles before each write, and `Valid`, the check that
may refuse it. The passes over a list of zones (`Read`, `FillMissingAreas`,
`ParkingOnly`, `Synced`) are recursive functions of how many zones have been passed,
each with its step as an operator of its own. `MapSession` runs them over the life of the program: login, the
window, the overview dialog, the questions at a close and at the end of a session,
a disk that loses a write, and a crash between the truncation of the file and the
end of its write. `asks` is the stack of open dialogs, each a nested event loop in
which the session may end. `own`, `lost` and `agreed` are history.

### RtspVideo
The GUI thread (`gui` is its place) and one decoder thread per generation
(`worker[g]`). What a critical section does is one step, and so is each store to
the flag `m_frameDeliveryQueued`, since the threads meet only there. A frame is the
generation that decoded it; `origin` is the source each thread reads; `events` the
calls queued to the item, in order. `StopWorker` and `Joined` are the two halves of
`stopWorker`, between which the old thread may still fill the slot and report.

## 3. Runs

| run | question | bound | states |
|---|---|---|---|
| `fire_alarm` | Do alarm, ledgers and answers agree under loss, duplication and reordering? | two channels, 17 messages, three revisions, seen queue of 2 | 46,379 |
| `fire_desk` | Does every open alarm keep a way to answer it, and a failed answer come back? | two channels, two alarms, three revisions, seven messages, five popups | 390,697 |
| `iva_setup` | Do saves write what was asked, where and over what was seen, and end? | two cameras, one area, one value | 1,242,240 |
| `iva_delete` | violated: a save of edits deletes nothing | as above | |
| `roi_editor` | Does the Pi get the region the camera verified, does a drag end on its own area, does a save in two parts end? | two channels, two indices, two slots, three rectangles, two edits | 343,080 |
| `server_link` | Does polling go on, does every wait of a page end, is what is reported saved confirmed? | two thresholds, two regions, back-off 2, 4, 5 | 309,308 |
| `mqtt_link` | Is every command answered once, does a ready session hold its subscriptions, is a lost broker tried again? | two subscriptions, two command topics, five packet ids, two tries to publish a connection, three packets on the wire | 140,862 |
| `evidence` | Do images stay with their slot and the references with their queue? | one slot with two sessions, one empty slot, one reference, two requests | 2,251,328 |
| `evidence_view` | Does the card show the pair selected, does a download end? | two slots, two lists of images, three loads | 9,350 |
| `slot_board` | Do alarms survive polls, do board, banner and bell agree? | one slot and one unmapped sensor, seven events, five reports, lists of 2 | 46,858 |
| `map_session` | Is what is shown as saved what the next start loads, is no layout lost unasked? | about 150 files to start from, two cameras, two slots in the overview | 836,088 |
| `rtsp_video` | Is no picture of another stream, no frame stuck, one decoder running, a lost stream tried again? | two sources, three generations, two frames a thread | 109,114 |

TLC explores everything reachable under these bounds. They are small but hold the
interesting cases:

* fire: the seen queue is shorter than the number of event ids, so eviction happens;
  two alarms and three revisions give every order of newer, equal and older;
  with five popups one can be deleted after its successor is shown, while the
  retries of both channels wait in either order.
* `iva_setup`: two cameras and one area with "value or nothing" give saves, deletes,
  conflicts, rollbacks and changes of camera in the middle of each. More areas would
  only repeat the per-area rules, as an update concerns one area.
* `roi_editor`: both slots are mapped to the first channel and the camera has the area
  of one, so that the other's can be drawn; an index or a name may be typed that is
  taken, or that belongs to the other slot.
* `server_link`: two values let an answer differ from what was asked, and the delays
  include one that is cut by the bound.
* `mqtt_link`: `MaxId` is 65535 in the code; five wraps within two connections, and
  the assumption `PublishBound + Cardinality(Topics) < MaxId` says what the code
  relies on: an id does not come back while it is in use.
* `evidence`: `RefLimit` is 512 in the code; with 1 every new reference evicts one.
  The second session is of the kind whose events carry no session id.
* `slot_board`: the events of the one slot contain each alarm, its end, and both
  parking states with and without alarm fields; lists of 2 overflow.
* `map_session`: the files have every combination of missing order, area and
  coordinates in one entry, with a second entry that collides with it or has no id,
  and one file with five entries for a channel of four.
* `rtsp_video`: three generations let a report of the first arrive after the second
  was stopped.

`iva_setup`, `server_link` and `rtsp_video` do not check deadlock: a closed window
ends the program, the end of the session ends the controller, and a destroyed item
ends its video.

### What the violated run shows
**`iva_delete`**, `src/iva/wiseaiconfigclient.cpp:191`. The operator saves
the camera's credentials while a deletion waits for its verification timer: `cancel()`
stops the timer without a signal (`:285`) and keeps `m_pendingUpdate`, and
`applyChannelConfiguration` does not reset its `deletedAreaIndex`. The next save of
edits passes its conflict check and sends a DELETE of that area, on whatever camera
is connected by then, where the page announces a PUT
(`src/pages/ivasettingspage.cpp:1539`).

### What the code does that the properties step around
The passing properties state what the code guarantees, and name the exceptions.
These are exceptions a reader should know:

* A Check fails, the retry shows a second popup of the same alarm before the first
  is deleted, and the first's `destroyed()` handler forgets the second: ACK or clear
  no longer closes it (`src/mainwindow.cpp:745`).
* An alarm that was cleared and opens again under its id counts as already shown: no
  popup (`src/mainwindow.cpp:732`). `UnansweredHasAWay` excepts it.
* A key of `m_fireAckCommandKeys` can be left behind with nothing under way: by a
  reload that drops the client before its last bytes are sent
  (`src/controllers/parkingcontroller.cpp:313`), whose publications then fail unheard,
  or by a revision that acknowledges another alarm than the open one, which removes the
  other's key only (`:730`). Every later Check of the alarm is suppressed as a
  duplicate (`:825`): the popup is dismissed and the alarm stays unanswered until the
  Pi says otherwise. `UnansweredHasAWay` excepts such keys, and no others.
* Saving the camera's credentials while a verification waits for its timer stops it
  without a signal (`src/iva/wiseaiconfigclient.cpp:285`): the page saves for ever.
  `IvaConsistent` and `SaveEnds` except it (`dropped`).
* A 401 to a request of the settings or the evidence page ends the session without
  answering the request (`src/api/apiclient.cpp:134`). `LinkConsistent` and `WaitsEnd`
  except what happens after the expiry.
* An evidence answer puts an evicted reference back without an entry in the queue, so
  that it is never evicted again (`src/controllers/parkingcontroller.cpp:1317`).
* Changing the camera while an update waits lets its rollback go to the new camera
  (`src/iva/wiseaiconfigclient.cpp:91`). `WritesWhatWasAsked` speaks of writes, not
  of rollbacks.
* `m_closeAfterIvaSave` outlives the save it belonged to, and a later close asks
  nothing (`src/mainwindow.cpp:129`).
* The evidence page labels every cached image of a slot with the plate the slot has
  now, also those of an earlier session (`src/pages/evidencepage.cpp:884`);
  images and plates are both in `Evidence`, but no property ties them.
* A layout is truncated when it is opened and the result of the write is not looked
  at: a write the disk loses is reported as saved
  (`src/models/parkingzonelayout.cpp:432`). `CleanMeansStored` and
  `EndKeepsTheLayout` except it.
* The table stays usable while the camera is written, so the region that goes to the
  Pi afterwards may be of another slot than the one confirmed
  (`src/pages/ivasettingspage.cpp:1432`). `RoiFollowsCamera` states what is left:
  it is always a region the camera has verified for that slot.
* A download whose loader is replaced never ends (`src/pages/evidencepage.cpp:1468`).
  `DownloadsEnd` excepts it.

## 4. Fairness

* `DeskSpec`: weak fairness of `RunPosted` only. Qt delivers posted events whenever
  control returns to the loop. Nothing is assumed of the broker, the Pi or the
  operator.
* `IvaSpec`: weak fairness of `Answer \/ Fail` (every request has a transfer
  timeout, `wiseaiconfigclient.cpp:410`, so it finishes one way or the other) and of
  `VerificationTimer` (a single-shot timer that is running fires). The operator and
  whoever else edits the camera are never fair.
* `EditorSpec`: weak fairness of the end of a job and of the next answer of the Pi,
  for the same reasons; which end it is, is open.
* `LinkSpec`: weak fairness of `PollTimer` (a single-shot timer that runs fires) and
  of `Ends(ch)` for each kind of request (each has a timeout timer of its own,
  `src/api/apiclient.cpp:93-100`). The server, the operator and the end of the
  session are not fair.
* `MqttSpec`: weak fairness of `Start` (the reconnect timer fires), of `Handle` (the
  loop of `onReadyRead` runs through its buffer) and of `SocketConnected \/
  ConnectFails` (the operating system ends a connection attempt). The broker and
  the network are not fair: a session may stay half-open for ever.
* `ViewSpec`: weak fairness of `DownloadArrives`: each request of the loader has a
  timer that ends it (`src/api/imageloader.cpp:121-127`).
* `BoardSpec`: weak fairness of `Polled`, which is what `PollsWhileOn` of
  `ServerLink` says of a session that lasts.
* `RtspSpec`: weak fairness of `GuiStep` and `TimerFires` (the event loop) and of
  `WorkerStep(g)`: FFmpeg's calls have time-outs of 3 s and an interrupt callback
  (`rtsp_legacy/RtspVideoItem.cpp:55`, `505-549`), so that a thread goes on or sees
  the request to stop. That a frame is ever decoded is not assumed.
* `FireSpec`, `EvidenceSpec` and `MapSpec` have no liveness property: the broker and
  the server may be silent, and the operator may leave a question open, for ever.

## 5. Proofs

Seven modules hold proofs about every specification, each for any values of the
constants that its assumptions allow, and `Recursion` has what two of them need of
recursive functions. Every safety property of the runs is proved: the invariants, the
action properties and the refinements of `Courier` and of `Poller!Safety`. Each
inductive invariant was checked by TLC on the module's run before it was proved.
`ConnectionProofs` and `ParkingProofs` are about two components each, which share
nothing but their place in the program.

`FireAlarmProofs` proves, for any sets of channels, alarms, events and deliveries,
any number of revisions and any positive limit of the seen queue, seven theorems:
`FireTypeCorrect` is the type invariant, the rest are the properties of the run
`fire_alarm` and two more. The inductive invariant is `FireInv`. The properties are
not inductive alone: that the alarm is the newest one needs the ledger to hold
nothing above the channel's revision; that a revision is recorded once needs what is
in the history to be in the ledger, since the seen queue forgets; that deliveries
agree needs every key of a channel's deliveries to be registered for that channel.
`FireInv` is their conjunction with the types. The proof has a lemma per action (the
four kinds of message, refusal, skipping, acknowledgement, publication, connection),
each showing that the action preserves the parts it touches; the theorem on the
next-state relation cites them, and the temporal step is by PTL.

The second half of the module is about `FireDesk`, for any finite sets of channels
and popups: `DeskIsConsistent` and `AlarmsStayAnswerable`. The inductive invariant is
`DeskInv`: `FireInv`, what the window needs (`WindowInv`) and what the keys need
(`KeysAccounted`). That the tracked popup is the one
shown needs that a popup waits for its deletion once, hidden, so that its name is not
in use again when the deletion comes (`DeletionsSound`). That a posted retry opens a
popup needs a free one for each (`RoomIn`): the posted retries are counted, not
looked at one by one, since a lost session posts one for each command in an order
nobody knows. And the exception of `UnansweredHasAWay` must not swallow the rule:
where it does not apply, the alarm last shown is the one that is open
(`AskedOrSettled`). For the second half of `UnansweredHasAWay` a key has to be followed
for as long as it is remembered: each key is of the alarm open on its channel, with a
command under way, or left behind (`KeyAccounted`); a key that a step adds is that of the command it publishes
(`KeyIsNew`), and one that a step keeps stays accounted for (`KeyStays`). The lemmas say what each slot of the window does to these
(`ShowDoes`, `CloseDoes`, `DestroyDoes`, `PostDoes`, ...), then what each step of the
composition keeps.

`ConnectionProofs` proves of `ServerLink`, for any thresholds, regions and back-off allowed by
`LinkConstants`, the invariants and action properties of the run `server_link`, and
that the link implements `Poller!Safety`. The inductive invariant is `LinkInv`. It
adds to the properties what the answers rely on: a request's kind matches the flag
or tag that waits for it (`OverstayKind`, `RoiKind`), there is at most one tag, and
before the expiry exactly one of request and timer is there (`PollingGoesOn`),
without which neither the refinement nor `ConnectionIsTold` is inductive. The proof
first states what each function of the controller returns (`Reconnects`,
`Schedules`, `Rebuilds`, ...), then three frame lemmas for steps on one part of the
link (`PollingStep`, `OverstayStep`, `RoiStep`), then one lemma per action, which
`NextKeeps` cites. The refinement has a lemma per kind of step (`PollingAsks`,
`PollingSucceeds`, `PollingFails`, `PollingSaved`, `PollingEnds`).

It proves of `RtspVideo`, for any sources and any number of generations and frames,
the three invariants of the run `rtsp_video`. The inductive invariant is `VInv`.
That the picture is of the source shown needs to know of which threads the frames
under way are (`Slot`) and that the current thread reads the source shown
(`Threads`); that one decoder runs needs that the next generation has no thread
while the old one is stopped (`Threads`); that the reconnection timer runs only
after a failure needs that a thread reports one thing and has ended when it does
(`Reports`). There the lemmas are by conjunct, with a step for each action, since
most actions touch few of them; `Posted`, `TakenOff`, `WorkerMoves` and `Launches`
say once what a queued call, a taken call, a step of a thread and a start do.

`IvaSetupProofs` proves, for any cameras, areas and values, `IvaConsistent`,
`WritesWhatWasAsked` and the action property `OverwritesOnlyWhatIsShown`. The
inductive invariant is `IvaInv`. That a save sends what was asked for needs that the
operator cannot ask for another meanwhile, so that no question is open then
(`DialogOk`); that a deletion left over from an earlier update does not turn a save
into a DELETE, except where `iva_delete` shows it, needs that an update nobody pursues
was dropped (`UpdateOk`). A step is proved in two halves: what the client becomes and
which signals it emits, and that the page that hears them agrees with it again. No
step emits more than two signals (`HearsThem`), which is why `Heard` can be a
recursive function in the model and still be expanded in the proofs.

`MqttLinkProofs` proves, for any topics, commands and width of a packet id allowed by
the assumptions of `MqttLink`, `MqttConsistent`, `FramingIsKept` and that the link
implements `Courier` (`ImplementsCourier`). The inductive invariant is `MqttInv`: what the
client counts agrees with the broker because of what is on its way between them.
Before a session there is one greeting in one place (`Greeting`), behind it none, also
in what is handled after an abort (`Greeted`); what travels under a pending id is of
the topic pending (`Agreed`); ids come round again, but not while one is in flight
(`Recent`). The refinement counts the commands in flight by topic, so each of its
steps is about the cardinality of what an answer or a lost session takes away.

`EvidenceProofs` proves, for any slots, sessions, events and limit of the references,
`PairsAreOfTheirSlot` and `EvidenceConsistent`. What the page shows comes from three
places, and `EvidenceInv` says of each that its sessions arrived at the slot they are
filed under: the slots of the controller, the answers under way whatever has changed
since they were asked, and the references of events, kept or put back after they were
evicted. The assumption on `None` is only that it is no slot, event or pair.

It also proves `ViewConsistent` of `EvidenceView` for any finite set of slots and any lists.
`ViewInv` adds what the card is labelled with before it has a picture, and that the
request awaited was sent for that label. The latest pair of the timeline exists because a
finite set of numbers has a greatest element (`LatestExists`), an instance of the
library's facts about well-founded orders: no induction of its own.

`ParkingProofs` proves of `SlotBoard`, for any slots, events, reports and limits, `BoardConsistent`
and the action properties `AlarmsSurvivePolls` and `NoticeGoesWithAlarm`. The
assumption `BoardConstants` is the contract of the Pi's messages the parser enforces:
the texts the client knows. The list behind the bell is filtered by `Without`, which
is defined by the ranks of what is kept, so that its length and its members can be
proved (`WithoutLeaves`), which they could not be of a fold.

It proves of `MapSession`, for any cameras and slot counts and any files found at the
first start, with any number of entries, all four properties of `map_session`.
`MapInv` adds to them that the overviews of the page and of the dialog are fixed
points of the bounds that writing and reading apply (`Neat`), and that no question
about the end of the session is below another (`AskInv`). `CleanMeansStored` needs
that what is written of a valid layout is loaded as it was (`StoredIsLoaded`): each
pass over the zones leaves a valid layout alone. Each pass is shown to be
a recursive function that exists (`ReadRuns`, `FillRuns`, `ShowRuns`, `SettleRuns`). The assumptions are that there is
a camera and a slot count of at least 1 (`OverviewAssumption`), that ids may begin as
the default layout's do (`IdAssumption`), and that the files found have the shape of
such files, with any contents (`FoundAssumption`).

`RoiEditorProofs` proves, for a picture of any size and any channels, indices, slots
and configurations, `EditorTypeOK` and the action properties `RoiFollowsCamera` and
`DragKeepsItsRow`. The inductive invariant is `EditorInv`. That a drag stays in the
picture needs that a drag that edits has a rectangle at all (`DragOk`); that it ends
on its own row needs that none goes on while a request runs, when a load may replace
the table. The geometry comes first: what is moved keeps its size (`MovedStays`), a
corner that is stretched stops at the border and at the shortest side
(`StretchedStays`). Then there is a lemma for each function of the page, which says
of which type its result is, which fields it leaves alone (the frames `SameSave`,
`SameConfig`, `SameEdits`, `SameRequest`, `SameEditor`) and that it ends every drag
(`Quiet`); each action composes a few of them. That the region sent is the verified
one is proved where the camera's answer is applied (`LoadedIsVerified`): the answer
is the configuration that was read back, and the row for the Pi is found in it by the
mapping of the slot. The assumptions are that what stands for no rectangle is none
(`MarkersAssumption`) and that the parking map has zones and each slot once
(`EditorAssumption`), as every map that the program has saved does; a map edited by
hand is not checked on reading.

`Recursion` makes up for the library's induction theorems, which cannot be
instantiated here. Induction is a lemma about sets (`UpTo`: a set that has 0 and with
each number the next has all numbers up to n), from the well-foundedness of finite
sets under inclusion. That a function defined by steps exists follows from it once
(`RecursionRuns`), and that a bounded set of numbers has a greatest element
(`GreatestExists`). In `RoiEditor` the areas of all channels (`All`) and the rows
that are kept (`Only`) are such functions.

Only model-checked:

* The liveness properties (`WaitsEnd`, the fairness in `PollsWhileOn`,
  `RetryComesBack`, `SaveEnds`, `SavesEnd`, `TriesAgain`, `DownloadsEnd`,
  `BannerComesBack`, `KeepsTrying`): fairness and ENABLED are beyond this prover.

## 6. Plan

Done, in this order: `FireAlarm` and its proofs, `FireDesk`, `WiseAiClient`,
`IvaSetup`, `Poller`, `ServerLink` and its proofs, `MqttLink` over `Courier`,
`Evidence`, `EvidenceView`, `SlotBoard` with `Notices`, `VideoCanvas` and
`RoiEditor`, `ZoneFile` and `MapSession`, `RtspVideo` and its proofs; then the proofs
of `Evidence`, `EvidenceView`, `MqttLink`, `SlotBoard`, `IvaSetup`, `FireDesk`,
`MapSession` and `RoiEditor`.

To come: the session's end over open saves, across `MapSession`, `ServerLink` and
`IvaSetup`.

## 7. Not modelled

* Painting, geometry, layout and text; JSON parsing and building, whose result is a
  value that is valid or not, equal or not.
* The zone editor of the map with its undo stack: its toolbar is hidden and disabled
  in this version, so no operator reaches it.
* The dashboard, events and debug pages and the slot dialog, which paint the
  controller's state and keep none that a property could concern; of the Debug page,
  the buttons that change alarms are in `SlotBoard`.
* Settings files, the camera's login form and developer diagnostics: each one is a
  synchronous call without a state of its own.
* In the modules: detection modes, filters and durations of an area, which are edited
  like a name; texts, severities and read marks of notifications; the startup delay
  and the sizes of a frame; tokens, which are not told apart; the synonyms of a status text
(`CLEAR`, `CLOSED`, `RESOLVED`; any `..._ERROR` for `FAILED`), which `Status` of
`SlotBoard` has once each; and which texts of the editor's fields are refused, of which
`RoiEditor` has the outcome (`Redrawn` after a drag; a save does not begin).

The table in `PROJECT.json` gives the reason for each part.

## 8. Running

`tlc -config MCFireAlarm.cfg MCFireAlarm` and likewise for the others; the
configuration of the violated run is `MCIvaSetupDelete` (module `MCIvaSetup`).
`tlapm FireAlarmProofs.tla` and likewise `IvaSetupProofs`, `MqttLinkProofs`,
`EvidenceProofs`, `RoiEditorProofs`, `ConnectionProofs`, `ParkingProofs` and
`Recursion` check the proofs.
