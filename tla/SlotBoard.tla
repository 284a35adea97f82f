------------------------------ MODULE SlotBoard ------------------------------
(***************************************************************************)
(* The parking slots of the controller and the two ways they change, MQTT   *)
(* events (applyServerParkingEvent) and server snapshots                    *)
(* (applyParkingSnapshot), with the alarms they carry, the operator's       *)
(* acknowledgement of all of them, the banner of the main window and the    *)
(* notifications behind its bell.                                           *)
(*                                                                          *)
(* A slot that the controller holds is [state, occ, alarm, acked]: the      *)
(* SlotState that texts and the evidence page use, and the visual state of  *)
(* the map. Plates, times, OCR and vehicle classes are left out; images and *)
(* sessions are in Evidence, fire alarms in FireAlarm (here only whether    *)
(* there is one), polling in ServerLink.                                    *)
(***************************************************************************)
EXTENDS Notices

CONSTANTS
    Slots,       \* the mapped slots; an event may name another one
    Events,      \* the parking events the Pi sends, as their payloads
    Reports,     \* what a snapshot may say of a slot: [text, alarm]
    SeenLimit,   \* kSeenServerEventLimit
    None

Alarms == {"NonEv", "Overstay", "Sensor"}
SlotType == [state : {"Vacant", "Occupied", "Acked"} \cup Alarms,
             occ : {"Unknown", "Vacant", "Occupied"},
             alarm : Alarms \cup {"None"}, acked : BOOLEAN]

\* No slot has the name of another source. Fire events come by another adapter and
\* the acknowledgement of all alarms from the client; the Pi clears what a recovered
\* sensor had open (SENSOR_RECOVERED in src/tests/parkingeventflow_test.cpp:101).
ASSUME BoardConstants ==
    /\ SeenLimit \in Nat \ {0} /\ None \notin SlotType
    /\ {"ALL", "SYSTEM", "CH"} \cap Slots = {}
    /\ \A r \in Reports : /\ r.text \in {"Vacant", "Occupied", "Acked"} \cup Alarms
                           /\ r.alarm \in Alarms \cup {"None"}
    /\ None \notin Reports
    /\ \A e \in Events :
         /\ e.parking \in {"", "Vacant", "Occupied"} /\ e.alarm \in Alarms \cup {"", "None"}
         /\ e.type \notin Fire \cup {"ALARM_ACK"}
         /\ e.type = "HALL_SENSOR_CLEAR" => e.alarmState = "CLEARED"

VARIABLES
    slots,       \* m_state.evSlots and parkingSlots: [Slots -> slot or None]
    fire,        \* whether a channel has a fire alarm
    banner,      \* what the main window's banner shows
    seen,        \* m_seenServerEventOrder
    notices      \* NotificationCenter::m_notifications

boardVars == <<slots, fire, banner, seen, notices>>

Unknown == [state |-> "Vacant", occ |-> "Unknown", alarm |-> "None", acked |-> FALSE]
Held == {s \in Slots : slots[s] # None}

----------------------------------------------------------------------------
(* The texts of the Pi and of the server.                                  *)

\* ServerParkingEventAdapter::effectiveAlarmKind; alarm is alarm_kind, "" if
\* the payload has none.
EffectiveAlarm(e) ==
    IF e.alarm \notin {"", "None"} THEN e.alarm
    ELSE CASE e.type = "NON_EV_ALERT" -> "NonEv"
           [] e.type = "OVERTIME_ALERT" -> "Overstay"
           [] e.type = "HALL_SENSOR_ERROR" -> "Sensor"
           [] OTHER -> "None"

Status(e) ==
    IF e.alarmState \in {"OPEN", "CLEARED"} THEN e.alarmState
    ELSE IF EffectiveAlarm(e) # "None" THEN "OPEN"
    ELSE IF e.type = "SLOT_VACATED" THEN "CLEARED" ELSE "RECORDED"

StateOf(alarm, occ) ==
    IF alarm # "None" THEN alarm ELSE IF occ = "Occupied" THEN "Occupied" ELSE "Vacant"

\* slotAlarmKindFromText and deriveSlotVisualState: an alarm named by the text
\* goes before the state, and a slot with an alarm of a car is occupied.
Derived(text, alarm) ==
    LET kind == IF alarm # "None" THEN alarm
                ELSE IF text \in Alarms THEN text ELSE "None"
        state == IF kind # "None" THEN kind ELSE text
    IN  [state |-> state, alarm |-> kind, acked |-> state = "Acked",
         occ |-> CASE state = "Vacant" -> "Vacant"
                   [] state = "Sensor" -> "Unknown"
                   [] OTHER -> "Occupied"]

----------------------------------------------------------------------------
(* The banner and the event list.                                          *)

Unanswered(board) ==
    {s \in Slots : board[s] # None /\ board[s].alarm # "None" /\ ~board[s].acked}

\* Mistake: only fires are alerts.
RefreshedForFire(board, f) == IF f THEN "alarms" ELSE "hidden"

Refreshed(board, f) == IF f \/ Unanswered(board) # {} THEN "alarms" ELSE "hidden"

Log(type, src, status) ==
    notices' = Ingest(notices, [src |-> src, type |-> type, status |-> status])

\* recordServerEvent with rememberServerEventId: a redelivered event is neither
\* listed nor notified, whatever it did to the slot.
RecordServerEvent(e, src) ==
    LET known == \E i \in DOMAIN seen : seen[i] = e.id
        ids == Append(seen, e.id)
    IN  IF known THEN UNCHANGED <<seen, notices>>
        ELSE /\ seen' = IF Len(ids) > SeenLimit THEN Tail(ids) ELSE ids
             /\ Log(e.type, src, Status(e))

----------------------------------------------------------------------------
(* Parking events.                                                         *)

Opens(e) == Status(e) = "OPEN" /\ EffectiveAlarm(e) # "None"
Closes(e) ==
    \/ Status(e) = "CLEARED" \/ e.parking = "Vacant"
    \/ e.onState /\ e.alarmState = "NONE" /\ ~Opens(e)
HasMeaning(e) ==
    e.parking # "" \/ Opens(e) \/ Status(e) = "CLEARED" \/ e.type = "OCR_COMPLETED"

\* A slot of which nothing but a cleared alarm was ever known is dropped.
Forgets(e, slot) ==
    e.parking = "" /\ Status(e) = "CLEARED" /\ (slot = None \/ slot.occ = "Unknown")

SlotAfter(e, slot) ==
    LET old == IF slot = None THEN Unknown ELSE slot
        occ == IF e.parking # "" THEN e.parking ELSE old.occ
        vacated == e.parking = "Vacant"
        alarm == CASE Opens(e) -> EffectiveAlarm(e)
                   [] Closes(e) /\ ~Opens(e) -> "None"
                   [] OTHER -> old.alarm
    IN  [occ |-> occ, alarm |-> alarm, state |-> StateOf(alarm, occ),
         acked |-> old.acked /\ ~Opens(e) /\ ~Closes(e)]

\* Mistake: the alarm changes and the SlotState is left as it was.
NextSlotInVisualOnly(e, slot) ==
    IF Forgets(e, slot) THEN None
    ELSE [SlotAfter(e, slot) EXCEPT !.state = IF slot = None THEN "Vacant" ELSE slot.state]

NextSlot(e, slot) == IF Forgets(e, slot) THEN None ELSE SlotAfter(e, slot)

ParkingEvent(e) ==
    /\ e.slot \in Slots /\ HasMeaning(e)
    /\ slots' = [slots EXCEPT ![e.slot] = NextSlot(e, @)]
    /\ banner' = Refreshed(slots', fire)
    /\ RecordServerEvent(e, e.slot)
    /\ UNCHANGED fire

\* A sensor event of a slot that has no mapping is listed under SYSTEM; every
\* other event of such a slot is refused.
UnmappedSensor(e) ==
    /\ e.slot \notin Slots /\ e.type \in Hall
    /\ RecordServerEvent(e, "SYSTEM")
    /\ UNCHANGED <<slots, fire, banner>>

----------------------------------------------------------------------------
(* Snapshots.                                                              *)

\* The alarm of a slot that stays occupied outlives the poll, with its
\* acknowledgement; that of a sensor outlives every poll.
Persists(old, new) ==
    old # None /\ (old.alarm = "Sensor" \/ (new.occ = "Occupied" /\ old.alarm # "None"))

\* Mistake: the poll keeps the alarm and takes the server's acknowledgement.
AppliedWithoutAck(old, r) ==
    LET new == Derived(r.text, r.alarm)
    IN  IF Persists(old, new)
        THEN [new EXCEPT !.alarm = old.alarm, !.state = StateOf(old.alarm, new.occ)]
        ELSE new

Applied(old, r) ==
    LET new == Derived(r.text, r.alarm)
        kept == IF Persists(old, new)
                THEN [new EXCEPT !.alarm = old.alarm, !.acked = old.acked,
                                 !.state = StateOf(old.alarm, new.occ)]
                ELSE new
    IN  [kept EXCEPT !.acked = @ \/ r.text = "Acked"]

\* The snapshot replaces the board: a slot it does not name is dropped.
Snapshot ==
    \E said \in [Slots -> Reports \cup {None}] :
        /\ slots' = [s \in Slots |-> IF said[s] = None THEN None
                                     ELSE Applied(slots[s], said[s])]
        /\ banner' = Refreshed(slots', fire)
        /\ Log("API_SYNC", "SYSTEM", "DONE")
        /\ UNCHANGED <<fire, seen>>

PollFails ==
    /\ banner' = "server"
    /\ Log("API_ERROR", "SYSTEM", "FAILED")
    /\ UNCHANGED <<slots, fire, seen>>

----------------------------------------------------------------------------
(* The operator, fires and requests for details.                           *)

\* clearAlarms (Debug page): every open alarm is acknowledged, none is closed,
\* and every notification goes.
ClearAlarms ==
    /\ slots' = [s \in Slots |-> IF s \in Unanswered(slots)
                                 THEN [slots[s] EXCEPT !.state = "Acked", !.acked = TRUE]
                                 ELSE slots[s]]
    /\ banner' = Refreshed(slots', fire)
    /\ Log("ALARM_ACK", "ALL", "ACKED")
    /\ UNCHANGED <<fire, seen>>

\* The alarm buttons of the Debug page (ParkingSimulationService).
Simulate(s, kind) ==
    /\ slots' = [slots EXCEPT ![s] = Derived(kind, kind)]
    /\ banner' = Refreshed(slots', fire)
    /\ Log(IF kind = "NonEv" THEN "NON_EV_ALERT" ELSE "OVERTIME_ALERT", s, "OPEN")
    /\ UNCHANGED <<fire, seen>>

\* A fire alarm opens or ends, and what the controller records of it meanwhile.
FireChange ==
    /\ fire' = ~fire
    /\ banner' = Refreshed(slots, fire')
    /\ Log(IF fire' THEN "FIRE_SUSPECTED" ELSE "FIRE_CLEARED", "CH",
           IF fire' THEN "OPEN" ELSE "CLEARED")
    /\ UNCHANGED <<slots, seen>>

FireAnswer ==
    /\ fire
    /\ \/ Log("FIRE_ACK_REQUESTED", "CH", "PENDING")
       \/ Log("FIRE_ACK_PUBLISH_FAILED", "CH", "FAILED")
    /\ UNCHANGED <<slots, fire, seen, banner>>

\* A request for a slot's or an event's evidence says "Loading ..." with
\* hasAlert false, which hides the banner, alarms or not.
RequestDetails == banner' = "hidden" /\ UNCHANGED <<slots, fire, seen, notices>>

\* Its answer, when it is one that refreshes the alert (refreshAlert).
DetailsAnswered ==
    banner' = Refreshed(slots, fire) /\ UNCHANGED <<slots, fire, seen, notices>>

----------------------------------------------------------------------------
BoardInit ==
    /\ slots = [s \in Slots |-> None] /\ fire = FALSE /\ banner = "hidden"
    /\ seen = << >> /\ notices = << >>

Polled == Snapshot \/ PollFails

BoardNext ==
    \/ \E e \in Events : ParkingEvent(e) \/ UnmappedSensor(e)
    \/ Polled
    \/ ClearAlarms
    \/ \E s \in Slots, k \in {"NonEv", "Overstay"} : Simulate(s, k)
    \/ FireChange \/ FireAnswer
    \/ RequestDetails \/ DetailsAnswered

\* Polling goes on while the session lasts (ServerLink, PollsWhileOn).
BoardSpec == BoardInit /\ [][BoardNext]_boardVars /\ WF_boardVars(Polled)

----------------------------------------------------------------------------
BoardTypeOK ==
    /\ slots \in [Slots -> SlotType \cup {None}]
    /\ fire \in BOOLEAN /\ banner \in {"hidden", "alarms", "server"}
    /\ Len(seen) <= SeenLimit /\ Len(notices) <= NoticeLimit
    /\ \A i, j \in DOMAIN notices : notices[i] = notices[j] => i = j

\* The SlotState, which the evidence page and the texts use, tells the same as
\* the visual state, which the map and the alerts use, over events, polls that
\* carry old alarms over, acknowledgements and simulations.
StateTellsVisual ==
    \A s \in Held :
        \/ slots[s].state = StateOf(slots[s].alarm, slots[s].occ)
        \/ slots[s].state = "Acked" /\ slots[s].acked

\* Both, with a list of notices that names no event twice.
BoardConsistent == BoardTypeOK /\ StateTellsVisual

\* A poll neither ends nor reopens an alarm of a slot that stays occupied: only
\* an event that opens it undoes the operator's acknowledgement, and only one
\* that closes it, or the car's leaving, ends it (persistentAlarm).
AlarmsSurvivePolls ==
    [][Snapshot =>
          \A s \in Held :
              slots'[s] # None /\ slots'[s].occ = "Occupied" /\ slots[s].alarm # "None"
                 => /\ slots'[s].alarm = slots[s].alarm
                    /\ slots[s].acked => slots'[s].acked]_boardVars

\* A notification about a slot goes only when the slot has no alarm any more, or
\* the operator acknowledged it, or the list is full: what the bell resolves by
\* the names of events agrees with what the board does with their fields.
NoticeGoesWithAlarm ==
    [][\A n \in NoticeOf(notices) \ NoticeOf(notices') :
          \/ n.src \notin Slots
          \/ slots'[n.src] = None
          \/ slots'[n.src].alarm = "None" \/ slots'[n.src].acked
          \/ Len(notices') = NoticeLimit]_boardVars

\* A banner that a request for details hid over an open alarm comes back.
Hidden == banner = "hidden" /\ (fire \/ Unanswered(slots) # {})
BannerComesBack == Hidden ~> ~Hidden
=============================================================================
