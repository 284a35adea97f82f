------------------------------- MODULE MqttLink -------------------------------
(***************************************************************************)
(* MqttServiceClient (src/src/services/mqttserviceclient.cpp), the MQTT    *)
(* 3.1.1 client written over a QTcpSocket, with the broker and the network *)
(* it talks to, and the controller that replaces it when the settings are  *)
(* reloaded.                                                               *)
(*                                                                         *)
(* A packet is a record; what matters of its bytes is whether a read ends  *)
(* inside one.  ReadyRead takes whole packets from the wire into `buffer', *)
(* and Handle is one turn of its loop: until the buffer is empty nothing   *)
(* else runs.  `tail' is a piece of a packet, or the packets behind a      *)
(* broken one, left in m_readBuffer.  A connection has a number, to tell   *)
(* the bytes of one connection from those of the next.  Left out: PINGREQ, *)
(* whose answer the client never looks at, and the PUBACK of the client,   *)
(* which ends with the session since the session is clean.                 *)
(***************************************************************************)
EXTENDS Naturals, FiniteSets, Sequences, SequencesExt

CONSTANTS
    Topics,        \* the configured subscriptions, normalized
    Commands,      \* topics the operator's commands are published on
    MaxId,         \* the largest packet id, 65535 in the code
    PublishBound,  \* bound of the model: commands tried on one connection
    WireBound,     \* bound of the model: packets on their way to the client
    NoTail

ASSUME MqttConstants ==
    /\ MaxId \in Nat /\ PublishBound \in Nat /\ WireBound \in Nat
    /\ IsFiniteSet(Topics)
    /\ PublishBound + Cardinality(Topics) < MaxId
    /\ NoTail \notin 0..1

Ids == 1..MaxId

VARIABLES
    sock,      \* QTcpSocket: "none" (no client), "closed", "connecting", "connected"
    con,       \* the number of the connection, modulo 2
    ready,     \* m_sessionReady
    subs,      \* m_pendingSubscriptions: packet id to topic
    active,    \* m_activeSubscriptionCount
    expected,  \* m_expectedSubscriptionCount
    pubs,      \* m_pendingPublishes: packet id to command
    nextId,    \* m_nextPacketId
    timer,     \* m_reconnectTimer is active
    buffer,    \* the whole packets of m_readBuffer that its loop has still to handle
    tail,      \* the connection of the rest of m_readBuffer, or NoTail
    published, \* commands tried on this connection, for PublishBound
    wire,      \* packets from the broker, in order
    up,        \* packets to the broker, in order
    held       \* the topics the broker has subscribed this client to

mqttVars == <<sock, con, ready, subs, active, expected, pubs, nextId, timer, buffer,
              tail, published, wire, up, held>>
brokerVars == <<wire, up, held>>
sessionVars == <<ready, subs, active, expected, pubs>>

Empty == [i \in {} |-> {}]
Without(f, i) == [j \in DOMAIN f \ {i} |-> f[j]]
With(f, i, v) == [j \in DOMAIN f \cup {i} |-> IF j = i THEN v ELSE f[j]]

Grants == {"granted", "refused", "malformed"}

FromBroker ==
    [kind : {"connack"}, ok : BOOLEAN] \cup [kind : {"suback"}, id : Ids, grant : Grants]
    \cup [kind : {"puback"}, id : Ids] \cup [kind : {"publish", "broken"}]

ToBroker ==
    [kind : {"connect"}] \cup [kind : {"subscribe"}, id : Ids, topic : Topics]
    \cup [kind : {"publish"}, id : Ids, topic : Commands]

MqttInit ==
    /\ sock = "connecting" /\ con = 0 /\ ready = FALSE
    /\ subs = Empty /\ active = 0 /\ expected = 0 /\ pubs = Empty
    /\ nextId = 1 /\ timer = FALSE /\ buffer = <<>> /\ tail = NoTail
    /\ published = 0 /\ wire = <<>> /\ up = <<>> /\ held = {}

----------------------------------------------------------------------------
(* Connecting.                                                             *)

Idle == buffer = <<>>

After(i) == IF i = MaxId THEN 1 ELSE i + 1

\* Mistake: a timer that is not started.
ForgetReconnect == UNCHANGED timer
ScheduleReconnect == timer' = TRUE

\* Mistake: the read buffer survives into the next connection.
StartUnclean ==
    /\ Idle /\ timer
    /\ timer' = FALSE
    /\ sock' = IF sock = "closed" THEN "connecting" ELSE sock
    /\ UNCHANGED <<con, sessionVars, nextId, buffer, tail, published, brokerVars>>

\* start(), from the reconnect timer: it does nothing unless the socket is closed.
Start ==
    /\ Idle /\ timer
    /\ timer' = FALSE
    /\ IF sock = "closed"
       THEN sock' = "connecting" /\ tail' = NoTail
       ELSE UNCHANGED <<sock, tail>>
    /\ UNCHANGED <<con, sessionVars, nextId, buffer, published, brokerVars>>

\* onSocketConnected writes CONNECT.
SocketConnected ==
    /\ Idle /\ sock = "connecting"
    /\ sock' = "connected" /\ con' = 1 - con /\ published' = 0
    /\ up' = <<[kind |-> "connect"]>> /\ wire' = <<>>
    /\ UNCHANGED <<sessionVars, nextId, timer, buffer, tail, held>>

\* onSocketError of a connection that could not be made.
ConnectFails ==
    /\ Idle /\ sock = "connecting"
    /\ sock' = "closed"
    /\ ScheduleReconnect
    /\ UNCHANGED <<con, sessionVars, nextId, buffer, tail, published, brokerVars>>

\* Mistake: the commands in flight are kept for the next session.
DroppedKeepingCommands ==
    /\ sock' = "closed" /\ ready' = FALSE
    /\ subs' = Empty /\ expected' = 0 /\ active' = 0
    /\ ScheduleReconnect
    /\ wire' = <<>> /\ up' = <<>> /\ held' = {}
    /\ UNCHANGED <<con, pubs, nextId, published>>

\* onSocketDisconnected, with the packets under way lost; every command in
\* m_pendingPublishes is reported failed.
Dropped ==
    /\ sock' = "closed" /\ ready' = FALSE
    /\ subs' = Empty /\ pubs' = Empty /\ expected' = 0 /\ active' = 0
    /\ ScheduleReconnect
    /\ wire' = <<>> /\ up' = <<>> /\ held' = {}
    /\ UNCHANGED <<con, nextId, published>>

ConnectionLost == Idle /\ sock = "connected" /\ Dropped /\ UNCHANGED <<buffer, tail>>

----------------------------------------------------------------------------
(* Reading.                                                                *)

\* onReadyRead: some whole packets, and perhaps the beginning of another.
ReadyRead ==
    /\ Idle /\ sock = "connected" /\ wire # <<>>
    /\ \E n \in 0..Len(wire) :
         /\ buffer' = SubSeq(wire, 1, n)
         /\ wire' = SubSeq(wire, n + 1, Len(wire))
         /\ tail' \in {NoTail} \cup (IF n < Len(wire) THEN {con} ELSE {})
         /\ n = 0 => tail' # tail
    /\ UNCHANGED <<sock, con, sessionVars, nextId, timer, published, up, held>>

\* QAbstractSocket::abort: disconnected() is emitted before it returns.  A
\* socket that is already closed is not dropped again.
Abort ==
    IF sock = "connected" THEN Dropped
    ELSE UNCHANGED <<sock, con, sessionVars, nextId, timer, published, brokerVars>>

\* One SUBSCRIBE per topic, each with the next packet id.
SubscriptionId(topics, i) == ((nextId - 1 + i - 1) % MaxId) + 1

\* handleConnAck: subscribeAll and the keep-alive timer.
ConnAck(p) ==
    IF ~p.ok THEN Abort
    ELSE LET topics == SetToSeq(Topics)
             ids == {SubscriptionId(topics, i) : i \in DOMAIN topics}
         IN  /\ ready' = TRUE
             /\ subs' = [id \in ids |->
                           topics[CHOOSE i \in DOMAIN topics : SubscriptionId(topics, i) = id]]
             /\ expected' = Len(topics) /\ active' = 0
             /\ nextId' = SubscriptionId(topics, Len(topics) + 1)
             /\ up' = IF sock # "connected" THEN up
                      ELSE up \o [i \in DOMAIN topics |->
                                    [kind |-> "subscribe", id |-> SubscriptionId(topics, i),
                                     topic |-> topics[i]]]
             /\ UNCHANGED <<sock, con, pubs, timer, published, wire, held>>

\* handlePubAck: publishConfirmed for a command that is still pending.
PubAck(p) ==
    /\ pubs' = Without(pubs, p.id)
    /\ UNCHANGED <<sock, con, ready, subs, active, expected, nextId, timer, published, brokerVars>>

\* Mistake: the granted QoS is not looked at.
SubAckUnread(p) ==
    IF p.grant = "malformed" THEN Abort
    ELSE /\ subs' = Without(subs, p.id)
         /\ active' = IF p.id \in DOMAIN subs THEN active + 1 ELSE active
         /\ UNCHANGED <<sock, con, ready, expected, pubs, nextId, timer, published, brokerVars>>

\* handleSubAck: an id that is not pending is only reported; a malformed packet,
\* a refusal or a bad QoS ends the connection.
SubAck(p) ==
    IF p.grant = "malformed" \/ (p.grant = "refused" /\ p.id \in DOMAIN subs) THEN Abort
    ELSE /\ subs' = Without(subs, p.id)
         /\ active' = IF p.id \in DOMAIN subs THEN active + 1 ELSE active
         /\ UNCHANGED <<sock, con, ready, expected, pubs, nextId, timer, published, brokerVars>>

\* handlePublish: messageReceived, after a PUBACK that the broker takes as such.
Publish == UNCHANGED <<sock, con, sessionVars, nextId, timer, published, brokerVars>>

\* handlePacket, in the loop of onReadyRead, which goes on after an abort; only
\* a broken length ends it, and leaves what is behind in m_readBuffer.
Handle ==
    /\ buffer # <<>>
    /\ LET p == Head(buffer) IN
         /\ CASE p.kind = "connack" -> ConnAck(p)
              [] p.kind = "puback"  -> PubAck(p)
              [] p.kind = "suback"  -> SubAck(p)
              [] p.kind = "publish" -> Publish
              [] p.kind = "broken"  -> Abort
         /\ IF p.kind = "broken"
            THEN buffer' = <<>> /\ tail' = con
            ELSE buffer' = Tail(buffer) /\ UNCHANGED tail

----------------------------------------------------------------------------
(* The controller.                                                         *)

\* publish() of a valid topic.
PublishCommand(c) ==
    /\ Idle /\ sock = "connected" /\ ready /\ published < PublishBound
    /\ pubs' = With(pubs, nextId, c)
    /\ nextId' = After(nextId)
    /\ up' = Append(up, [kind |-> "publish", id |-> nextId, topic |-> c])
    /\ published' = published + 1
    /\ UNCHANGED <<sock, con, ready, subs, active, expected, timer, buffer, tail, wire, held>>

\* publish() whose write the socket refuses: publishFailed, and an id is used up.
FailPublish ==
    /\ Idle /\ sock = "connected" /\ ready /\ published < PublishBound
    /\ nextId' = After(nextId)
    /\ published' = published + 1
    /\ UNCHANGED <<sock, con, sessionVars, timer, buffer, tail, brokerVars>>

\* initializeMqttClient: stop() the client there is, which is then deleted, and
\* start() a new one unless the settings disable it.
Reload ==
    /\ Idle
    /\ sock' \in {"none", "connecting"}
    /\ ready' = FALSE /\ subs' = Empty /\ pubs' = Empty /\ active' = 0 /\ expected' = 0
    /\ nextId' = 1 /\ timer' = FALSE /\ tail' = NoTail /\ published' = 0
    /\ wire' = <<>> /\ up' = <<>> /\ held' = {}
    /\ UNCHANGED <<con, buffer>>

----------------------------------------------------------------------------
(* The broker: it takes packets in order, may refuse, and may be silent.   *)

Replies(p) ==
    CASE p.kind = "connect"   -> {<<[kind |-> "connack", ok |-> ok]>> : ok \in BOOLEAN}
      [] p.kind = "subscribe" -> {<<[kind |-> "suback", id |-> p.id, grant |-> g]>> : g \in Grants}
      [] p.kind = "publish"   -> {<<[kind |-> "puback", id |-> p.id]>>}
      [] OTHER -> {<<>>}

BrokerTakes ==
    /\ Idle /\ sock = "connected" /\ up # <<>> /\ Len(wire) < WireBound
    /\ \E reply \in Replies(Head(up)) :
         /\ wire' = wire \o reply
         /\ up' = Tail(up)
         /\ held' = IF Head(up).kind = "subscribe" /\ reply[1].grant # "refused"
                    THEN held \cup {Head(up).topic} ELSE held
    /\ UNCHANGED <<sock, con, sessionVars, nextId, timer, buffer, tail, published>>

\* An event of a subscribed topic, or bytes that are no packet.
BrokerSends ==
    /\ Idle /\ sock = "connected" /\ held # {} /\ Len(wire) < WireBound
    /\ \E kind \in {"publish", "broken"} : wire' = Append(wire, [kind |-> kind])
    /\ UNCHANGED <<sock, con, sessionVars, nextId, timer, buffer, tail, published, up, held>>

----------------------------------------------------------------------------
MqttNext ==
    \/ Start
    \/ SocketConnected
    \/ ConnectFails
    \/ ConnectionLost
    \/ ReadyRead
    \/ Handle
    \/ \E c \in Commands : PublishCommand(c)
    \/ FailPublish
    \/ Reload
    \/ BrokerTakes
    \/ BrokerSends

MqttSpec ==
    MqttInit /\ [][MqttNext]_mqttVars
    /\ WF_mqttVars(Start) /\ WF_mqttVars(Handle) /\ WF_mqttVars(SocketConnected \/ ConnectFails)

----------------------------------------------------------------------------
(* What the client promises.                                               *)

\* Types, and the bounds of the counters.
MqttTypeOK ==
    /\ sock \in {"none", "closed", "connecting", "connected"}
    /\ con \in 0..1 /\ ready \in BOOLEAN /\ timer \in BOOLEAN
    /\ DOMAIN subs \subseteq Ids /\ \A i \in DOMAIN subs : subs[i] \in Topics
    /\ DOMAIN pubs \subseteq Ids /\ \A i \in DOMAIN pubs : pubs[i] \in Commands
    /\ expected \in Nat /\ active \in 0..expected
    /\ nextId \in Ids /\ published \in 0..PublishBound
    /\ buffer \in Seq(FromBroker) /\ wire \in Seq(FromBroker) /\ up \in Seq(ToBroker)
    /\ tail \in {NoTail, 0, 1} /\ held \subseteq Topics

\* A session that counts all its subscriptions active is one the broker serves on
\* all topics, over this very connection; what the client counts (handleSubAck)
\* and what the broker granted never part, whatever was lost before.
ReadyMeansSubscribed ==
    /\ ready => sock = "connected"
    /\ ready /\ subs = Empty /\ active = expected => held = Topics
    /\ sock = "connected" /\ ready => active + Cardinality(DOMAIN subs) = expected

\* Both: the session's count, its socket and its timer agree.
MqttConsistent == MqttTypeOK /\ ReadyMeansSubscribed

\* No byte of an earlier connection is taken for the beginning of a packet of
\* this one: m_readBuffer is emptied before the socket connects (start).
FramingIsKept == sock = "connected" /\ tail # NoTail => tail = con

\* The socket is closed only until the timer tries again: the client never gives
\* up on a broker, whether it was refused, lost or aborted (scheduleReconnect).
TriesAgain == (sock = "closed") ~> (sock # "closed")

\* publish() and its two signals keep the promise of Courier: a command is answered
\* at most once, never as both confirmed and failed, even when the packets behind a
\* fatal one are handled after the session they belonged to was dropped.
CourierReady == ready
CourierOutstanding == [c \in Commands |-> Cardinality({i \in DOMAIN pubs : pubs[i] = c})]
Sent == INSTANCE Courier WITH ready <- CourierReady, outstanding <- CourierOutstanding
CommandsAnsweredOnce == Sent!Spec
=============================================================================
