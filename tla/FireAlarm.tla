------------------------------ MODULE FireAlarm ------------------------------
(***************************************************************************)
(* The fire-alarm half of ParkingController (src/src/controllers/          *)
(* parkingcontroller.cpp): one alarm per camera channel, driven by MQTT    *)
(* messages that are delivered twice (a retained state topic and a         *)
(* lifecycle topic), repeated, reordered, and mixed with the payloads of   *)
(* an older protocol without revisions; and the ALARM_ACK command that the *)
(* operator sends back through the MQTT client.                            *)
(*                                                                         *)
(* One step is one slot of the Qt event loop run to completion.  A message *)
(* is what ServerFireEventAdapter::parse leaves of a valid fire payload;   *)
(* the payloads it rejects change nothing here.  Left out: texts, times,   *)
(* severities, the monitoring events that only report what happened, and   *)
(* the free-text ack_state of an activation, which no decision reads.      *)
(***************************************************************************)
EXTENDS Naturals, FiniteSets, Sequences

CONSTANTS
    Channels,      \* camera channels, CH1..CH4 in the code
    Alarms,        \* alarm_id values
    Events,        \* event_id values
    Deliveries,    \* delivery_id values
    Revisions,     \* fire_revision values
    ForeignEvents, \* event ids of parking events, which share the seen queue
    Messages,      \* the fire messages that can arrive
    SeenLimit,     \* kSeenServerEventLimit, 256 in the code
    PendingLimit,  \* bound of the model: publishes in flight per channel
    NoId           \* the empty string

Actions == {"Activate", "Acknowledge", "Clear"}
Topics == {"fire", "events", "state", "manual"}
Sinks == {"RETAINED_STATE", "LIFECYCLE_EVENT", "MANUAL_OR_EVENT"}

\* fireStateFingerprint: what a revision of a channel's fire state says.
Identities == [event : Events \cup {NoId}, alarm : Alarms, act : Actions]

\* A valid fire payload with the topic, and the channel in the topic, it came
\* on; rev = 0 stands for a payload without fire_revision.
MessageType ==
    [ch : Channels, topic : Topics, topicCh : Channels, retained : BOOLEAN,
     id : Identities, rev : Revisions \cup {0}, delivery : Deliveries \cup {NoId}]

\* ServerFireEventAdapter::parse: a revision comes with a delivery_id and an
\* event_id, an activation always with an event_id, and a message injected by
\* applyManualJsonMessage is never retained.
ValidMessage(m) ==
    /\ m.rev # 0 => m.delivery # NoId /\ m.id.event # NoId
    /\ m.rev = 0 => m.delivery = NoId
    /\ m.id.act = "Activate" => m.id.event # NoId
    /\ m.topic = "manual" => ~m.retained

ASSUME FireConstants ==
    /\ Revisions \subseteq Nat \ {0}
    /\ SeenLimit \in Nat \ {0}
    /\ PendingLimit \in Nat
    /\ NoId \notin Alarms \cup Events \cup Deliveries
    /\ Messages \subseteq MessageType
    /\ \A m \in Messages : ValidMessage(m)

VARIABLES
    fireChannels,   \* m_state.fireChannels
    alarm,          \* m_state.fireAlarms, Silent where the hash has no entry
    ledger,         \* m_fireRevisionLedgers
    deliveries,     \* m_fireDeliveryFingerprints, a relation key -> identity
    seen,           \* m_seenServerEventOrder (the set holds the same ids)
    ackKeys,        \* m_fireAckCommandKeys
    pending,        \* ALARM_ACK publishes that wait for PUBACK, by channel
    ready,          \* the MQTT client exists and its session is ready
    timesRecorded,  \* how often eventLogged carried (channel, revision)
    signals         \* fireConfirmation* signals emitted by the last step

fireState == <<fireChannels, alarm, ledger, deliveries>>
history == <<seen, timesRecorded>>
command == <<ackKeys, pending, ready>>
fireVars == <<fireState, history, command, signals>>

Silent == [id |-> NoId, active |-> FALSE, acked |-> FALSE]
Open(a) == [id |-> a, active |-> TRUE, acked |-> FALSE]
Acked(a) == [id |-> a, active |-> TRUE, acked |-> TRUE]
AlarmType == [id : Alarms \cup {NoId}, active : BOOLEAN, acked : BOOLEAN]

NoIdentity == [event |-> NoId, alarm |-> NoId, act |-> "Clear"]
EmptyLedger ==
    [versionedSeen |-> FALSE, last |-> 0, state |-> NoIdentity, events |-> {},
     sinks |-> [s \in Sinks |-> NoId], recorded |-> FALSE]
LedgerType ==
    [versionedSeen : BOOLEAN, last : Revisions \cup {0},
     state : Identities \cup {NoIdentity},
     events : SUBSET (Revisions \X Identities),
     sinks : [Sinks -> Deliveries \cup {NoId}], recorded : BOOLEAN]

DeliveryType ==
    [sink : Sinks, delivery : Deliveries, rev : Revisions,
     ch : Channels, id : Identities]

Signal(k, ch, a) == [kind |-> k, ch |-> ch, alarm |-> a]
Signals == [kind : {"requested", "retry", "closed"}, ch : Channels,
            alarm : Alarms \cup {NoId}]

FireInit ==
    /\ fireChannels = {}
    /\ alarm = [c \in Channels |-> Silent]
    /\ ledger = [c \in Channels |-> EmptyLedger]
    /\ deliveries = {}
    /\ seen = << >>
    /\ ackKeys = {}
    /\ pending = [c \in Channels |-> 0]
    /\ ready = FALSE
    /\ timesRecorded = [k \in Channels \X Revisions |-> 0]
    /\ signals = {}

----------------------------------------------------------------------------
(* Preflight: what the revision ledger lets a message do.                  *)

\* handleMqttMessageWithMetadata: a fire message is taken from the two fire
\* topics, whose channel must be the payload's; manual ones skip the check.
Routed(m) ==
    \/ m.topic = "manual"
    \/ m.topic \in {"fire", "events"} /\ m.topicCh = m.ch

StateOnly(m) == m.retained \/ m.topic = "fire"

Sink(m) ==
    CASE m.topic = "fire" -> "RETAINED_STATE"
      [] m.topic = "events" -> "LIFECYCLE_EVENT"
      [] OTHER -> IF m.retained THEN "RETAINED_STATE" ELSE "MANUAL_OR_EVENT"

SameDeliveryKey(d, m) ==
    d.sink = Sink(m) /\ d.delivery = m.delivery /\ d.rev = m.rev

DeliveryConflict(m) ==
    \E d \in deliveries : SameDeliveryKey(d, m) /\ (d.ch # m.ch \/ d.id # m.id)

EventConflict(m) ==
    \E e \in ledger[m.ch].events : e[2].event = m.id.event /\ e # <<m.rev, m.id>>

RevisionConflict(m) ==
    /\ m.rev = ledger[m.ch].last
    /\ \/ ledger[m.ch].state # m.id
       \/ ledger[m.ch].sinks[Sink(m)] \notin {NoId, m.delivery}

\* Mistake: the old protocol is still believed after the first revision.
RefusedByRevision(m) ==
    /\ m.rev # 0
    /\ \/ DeliveryConflict(m)
       \/ ledger[m.ch].versionedSeen /\ (EventConflict(m) \/ RevisionConflict(m))

Refused(m) ==
    IF m.rev = 0
    THEN ledger[m.ch].versionedSeen
    ELSE \/ DeliveryConflict(m)
         \/ ledger[m.ch].versionedSeen /\ (EventConflict(m) \/ RevisionConflict(m))

\* The message says something new: it has no revision, is the channel's first
\* with one, or has a higher one than any applied.
Applies(m) ==
    /\ ~Refused(m)
    /\ m.rev = 0 \/ ~ledger[m.ch].versionedSeen \/ m.rev > ledger[m.ch].last

\* Another copy of the revision in force.
Repeats(m) ==
    /\ ~Refused(m)
    /\ m.rev # 0 /\ ledger[m.ch].versionedSeen /\ m.rev = ledger[m.ch].last

\* deliveries once m's key is in it.
WithDelivery(m) ==
    IF \E d \in deliveries : SameDeliveryKey(d, m)
    THEN deliveries
    ELSE deliveries \cup
           {[sink |-> Sink(m), delivery |-> m.delivery, rev |-> m.rev,
             ch |-> m.ch, id |-> m.id]}

\* Mistake: a new revision forgets that its lifecycle copy came first.
NextLedgerUnrecorded(m) ==
    [versionedSeen |-> TRUE, last |-> m.rev, state |-> m.id,
     events |-> ledger[m.ch].events \cup {<<m.rev, m.id>>},
     sinks |-> [EmptyLedger.sinks EXCEPT ![Sink(m)] = m.delivery],
     recorded |-> FALSE]

NextLedger(m) ==
    [versionedSeen |-> TRUE, last |-> m.rev, state |-> m.id,
     events |-> ledger[m.ch].events \cup {<<m.rev, m.id>>},
     sinks |-> [EmptyLedger.sinks EXCEPT ![Sink(m)] = m.delivery],
     recorded |-> ~StateOnly(m)]

\* The revision in force came again: its sink has a delivery now, and its
\* lifecycle copy is known.
RepeatedLedger(m) ==
    [ledger[m.ch] EXCEPT !.sinks[Sink(m)] = m.delivery,
                         !.recorded = @ \/ ~StateOnly(m)]

\* The ledger's part of applying m.
EnterRevision(m) ==
    IF m.rev = 0
    THEN UNCHANGED <<ledger, deliveries>>
    ELSE /\ ledger' = [ledger EXCEPT ![m.ch] = NextLedger(m)]
         /\ deliveries' = WithDelivery(m)

----------------------------------------------------------------------------
(* History: rememberServerEventId and recordChannelFireEvent.              *)

\* The ids in the queue, whose front is evicted at the limit.
Seen(q) == {q[i] : i \in DOMAIN q}

Remember(q, e) ==
    IF Len(q) < SeenLimit THEN Append(q, e) ELSE Append(Tail(q), e)

\* An event without an id is known by what it says.
EffectiveId(m) ==
    IF m.id.event = NoId THEN <<m.ch, m.id.alarm, m.id.act>> ELSE <<m.id.event>>

RecordEvent(m) ==
    IF EffectiveId(m) \in Seen(seen)
    THEN UNCHANGED history
    ELSE /\ seen' = Remember(seen, EffectiveId(m))
         /\ timesRecorded' =
              IF m.rev = 0 THEN timesRecorded
              ELSE [timesRecorded EXCEPT ![<<m.ch, m.rev>>] = @ + 1]

RecordApplied(m) == IF StateOnly(m) THEN UNCHANGED history ELSE RecordEvent(m)

\* A parking event remembers its id in the same queue.
SeeForeignEvent(e) ==
    /\ <<e>> \notin Seen(seen)
    /\ seen' = Remember(seen, <<e>>)
    /\ signals' = {}
    /\ UNCHANGED <<fireState, command, timesRecorded>>

----------------------------------------------------------------------------
(* A fire message arrives: handleMqttMessageWithMetadata,                  *)
(* applyManualJsonMessage and applyChannelFireEvent.                       *)

AckKey(c, a) == <<c, a>>

\* Mistake: only a clear is held against the active alarm.
ClearMismatch(m) ==
    /\ m.rev = 0 /\ m.id.act = "Clear"
    /\ alarm[m.ch].active /\ alarm[m.ch].id # m.id.alarm

\* A payload without revision must name the alarm that is active.
LegacyMismatch(m) ==
    /\ m.rev = 0
    /\ \/ alarm[m.ch].active /\ alarm[m.ch].id # m.id.alarm
       \/ m.id.act = "Acknowledge" /\ ~m.retained /\ ~alarm[m.ch].active

DiscardFire(m) ==
    /\ \/ ~Routed(m)
       \/ Refused(m)
       \/ ~Applies(m) /\ ~Repeats(m)
    /\ signals' = {}
    /\ UNCHANGED <<fireState, history, command>>

\* The revision in force again: its sink and delivery are registered, and the
\* lifecycle copy is recorded if only the state copy had come so far.
RepeatFire(m) ==
    /\ Routed(m) /\ Repeats(m)
    /\ ledger' = [ledger EXCEPT ![m.ch] = RepeatedLedger(m)]
    /\ deliveries' = WithDelivery(m)
    /\ IF ~StateOnly(m) /\ ~ledger[m.ch].recorded
       THEN RecordEvent(m) ELSE UNCHANGED history
    /\ signals' = {}
    /\ UNCHANGED <<fireChannels, alarm, command>>

\* fireChannels and fireAlarms change together.
EnterAlarm(c, a) ==
    /\ fireChannels' = IF a.active THEN fireChannels \cup {c} ELSE fireChannels \ {c}
    /\ alarm' = [alarm EXCEPT ![c] = a]

\* The message activates the alarm that is active already.
Renews(m) == alarm[m.ch].active /\ alarm[m.ch].id = m.id.alarm

\* Mistake: every activation opens its alarm anew.
NeverKeepsAck(m) == FALSE

KeepsAck(m) == m.rev = 0 /\ Renews(m) /\ alarm[m.ch].acked

ActivateFire(m) ==
    LET previous == alarm[m.ch]
        request == ~Renews(m) \/ (m.rev # 0 /\ previous.acked)
    IN
    /\ Routed(m) /\ Applies(m) /\ m.id.act = "Activate"
    /\ EnterRevision(m)
    /\ EnterAlarm(m.ch, IF KeepsAck(m) THEN previous ELSE Open(m.id.alarm))
    /\ ackKeys' = IF previous.active /\ ~Renews(m)
                  THEN ackKeys \ {AckKey(m.ch, previous.id)} ELSE ackKeys
    /\ signals' = IF request THEN {Signal("requested", m.ch, m.id.alarm)} ELSE {}
    /\ RecordApplied(m)
    /\ UNCHANGED <<pending, ready>>

AcknowledgeFire(m) ==
    /\ Routed(m) /\ Applies(m) /\ m.id.act = "Acknowledge" /\ ~LegacyMismatch(m)
    /\ EnterRevision(m)
    /\ EnterAlarm(m.ch, Acked(m.id.alarm))
    /\ ackKeys' = ackKeys \ {AckKey(m.ch, m.id.alarm)}
    /\ signals' = {Signal("closed", m.ch, NoId)}
    /\ RecordApplied(m)
    /\ UNCHANGED <<pending, ready>>

ClearFire(m) ==
    /\ Routed(m) /\ Applies(m) /\ m.id.act = "Clear" /\ ~LegacyMismatch(m)
    /\ EnterRevision(m)
    /\ EnterAlarm(m.ch, Silent)
    /\ ackKeys' = ackKeys \ {AckKey(m.ch, alarm[m.ch].id), AckKey(m.ch, m.id.alarm)}
    /\ signals' = {Signal("closed", m.ch, NoId)}
    /\ RecordApplied(m)
    /\ UNCHANGED <<pending, ready>>

\* An ACK or a clear of the old protocol for an alarm that is not the active one.
RejectLegacyFire(m) ==
    /\ Routed(m) /\ Applies(m) /\ m.id.act # "Activate" /\ LegacyMismatch(m)
    /\ signals' = {}
    /\ UNCHANGED <<fireState, history, command>>

ReceiveFire(m) ==
    \/ DiscardFire(m)
    \/ RepeatFire(m)
    \/ ActivateFire(m)
    \/ AcknowledgeFire(m)
    \/ ClearFire(m)
    \/ RejectLegacyFire(m)

----------------------------------------------------------------------------
(* The operator's ALARM_ACK and what becomes of its publish.               *)

Unanswered(c) == alarm[c].active /\ ~alarm[c].acked
CommandKey(c) == AckKey(c, alarm[c].id)

\* acknowledgeFireAlarm with nothing to acknowledge, or a command already sent.
SkipAck(c) ==
    /\ ~Unanswered(c) \/ CommandKey(c) \in ackKeys
    /\ signals' = {}
    /\ UNCHANGED <<fireState, history, command>>

\* No client, no session, or a failing write: the key inserted before publish()
\* is removed again by the publishFailed handler, which asks for a retry.
FailAck(c) ==
    /\ Unanswered(c) /\ CommandKey(c) \notin ackKeys
    /\ signals' = {Signal("retry", c, alarm[c].id)}
    /\ UNCHANGED <<fireState, history, command>>

PublishAck(c) ==
    /\ Unanswered(c) /\ CommandKey(c) \notin ackKeys
    /\ ready /\ pending[c] < PendingLimit
    /\ ackKeys' = ackKeys \cup {CommandKey(c)}
    /\ pending' = [pending EXCEPT ![c] = @ + 1]
    /\ signals' = {}
    /\ UNCHANGED <<fireState, history, ready>>

AcknowledgeFireAlarm(c) == SkipAck(c) \/ FailAck(c) \/ PublishAck(c)

\* publishConfirmed only reports; the key stays until the Pi answers.
ConfirmPublish(c) ==
    /\ pending[c] > 0
    /\ pending' = [pending EXCEPT ![c] = @ - 1]
    /\ signals' = {}
    /\ UNCHANGED <<fireState, history, ackKeys, ready>>

\* The publishFailed handler: it knows the channel of the failed command, not
\* its alarm, and takes the alarm now in force.
Retryable == {c \in Channels : pending[c] > 0 /\ Unanswered(c) /\ CommandKey(c) \in ackKeys}

\* Mistake: the key of a failed command is kept.
FailPendingKeepingKeys ==
    /\ ready' = FALSE
    /\ pending' = [c \in Channels |-> 0]
    /\ signals' = {Signal("retry", c, alarm[c].id) : c \in Retryable}
    /\ UNCHANGED <<fireState, history, ackKeys>>

FailPending ==
    /\ ready' = FALSE
    /\ pending' = [c \in Channels |-> 0]
    /\ ackKeys' = ackKeys \ {CommandKey(c) : c \in Retryable}
    /\ signals' = {Signal("retry", c, alarm[c].id) : c \in Retryable}
    /\ UNCHANGED <<fireState, history>>

Disconnect == ready /\ FailPending

Connect ==
    /\ ~ready
    /\ ready' = TRUE
    /\ signals' = {}
    /\ UNCHANGED <<fireState, history, ackKeys, pending>>

\* The old client is disconnected from its slots before its socket has sent its
\* last bytes and closed: the failures of its publications are never heard of.
DropClient ==
    /\ ready' = FALSE
    /\ pending' = [c \in Channels |-> 0]
    /\ signals' = {}
    /\ UNCHANGED <<fireState, history, ackKeys>>

\* initializeMqttClient replaces the client.  stop() reports the disconnect at
\* once when the socket has nothing left to send.
ReloadMqtt == ready /\ (FailPending \/ DropClient)

----------------------------------------------------------------------------
FireNext ==
    \/ \E m \in Messages : ReceiveFire(m)
    \/ \E e \in ForeignEvents : SeeForeignEvent(e)
    \/ \E c \in Channels : AcknowledgeFireAlarm(c) \/ ConfirmPublish(c)
    \/ Disconnect
    \/ Connect
    \/ ReloadMqtt

FireSpec == FireInit /\ [][FireNext]_fireVars

----------------------------------------------------------------------------
(* What the controller promises.                                           *)

\* Types of all variables; the two containers of a fire name the same channels;
\* the seen queue never exceeds its limit and holds no id twice, so the queue and
\* the set the code keeps beside it stay in step.
FireTypeOK ==
    /\ fireChannels \subseteq Channels
    /\ alarm \in [Channels -> AlarmType]
    /\ ledger \in [Channels -> LedgerType]
    /\ deliveries \subseteq DeliveryType
    /\ ackKeys \subseteq Channels \X Alarms
    /\ pending \in [Channels -> Nat]
    /\ ready \in BOOLEAN
    /\ timesRecorded \in [Channels \X Revisions -> Nat]
    /\ signals \subseteq Signals
    /\ fireChannels = {c \in Channels : alarm[c].active}
    /\ Len(seen) <= SeenLimit
    /\ \A i, j \in DOMAIN seen : seen[i] = seen[j] => i = j

\* What a channel's alarm must be when the identity s is in force.
AlarmOf(s) ==
    CASE s.act = "Activate" -> Open(s.alarm)
      [] s.act = "Acknowledge" -> Acked(s.alarm)
      [] OTHER -> Silent

\* Once a channel has received a revision, its alarm is the one the highest
\* applied revision describes, whatever copies, stale revisions, old-protocol
\* payloads and operator commands came in between (applyChannelFireEvent).
AlarmFollowsNewestRevision ==
    \A c \in Channels :
        ledger[c].versionedSeen => alarm[c] = AlarmOf(ledger[c].state)

\* Two copies of a revision, on the state and the lifecycle topic in either
\* order and repeated at will, put the event into the history at most once,
\* even after its id was evicted from the seen queue.
RevisionRecordedOnce ==
    \A c \in Channels, r \in Revisions : timesRecorded[<<c, r>>] <= 1

\* Before a channel speaks the revisioned protocol, a remembered ALARM_ACK
\* command belongs to the alarm that is open on its channel, so that a later
\* alarm's command is never taken for a duplicate (acknowledgeFireAlarm).
LegacyAckKeysAreCurrent ==
    \A k \in ackKeys :
        ledger[k[1]].versionedSeen \/ alarm[k[1]] = Open(k[2])

\* A delivery id names one payload per topic kind and revision, over all
\* channels (m_fireDeliveryFingerprints).
OneDeliveryOnePayload ==
    \A d, e \in deliveries :
        d.sink = e.sink /\ d.delivery = e.delivery /\ d.rev = e.rev => d = e

\* A channel that has received a revision changes its alarm only by a higher
\* one, never by a stale, repeated or revisionless message (preflightFireEvent).
ChangesByRevision ==
    \A c \in Channels :
        ledger[c].versionedSeen =>
           /\ ledger'[c].versionedSeen
           /\ ledger'[c].last >= ledger[c].last
           /\ alarm'[c] # alarm[c] => ledger'[c].last > ledger[c].last

ChangesNeedNewRevision == [][ChangesByRevision]_fireVars

\* "A repeated DETECTED for the same active alarm must never undo ACK": an
\* acknowledged alarm that stays active under its id stays acknowledged unless
\* a new revision reopens it.
AckStands ==
    \A c \in Channels :
        alarm[c].acked /\ alarm'[c].active /\ alarm'[c].id = alarm[c].id =>
           alarm'[c].acked \/ ledger'[c].last > ledger[c].last

OnlyNewRevisionUndoesAck == [][AckStands]_fireVars
=============================================================================
