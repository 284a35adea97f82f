--------------------------- MODULE FireAlarmProofs ---------------------------
(***************************************************************************)
(* The safety of FireAlarm for every set of channels, alarms, deliveries,  *)
(* revisions and messages, and every limit of the seen queue, and of       *)
(* FireDesk for every finite set of channels and of popups.                *)
(*                                                                         *)
(* FireInv is the inductive invariant.  It adds to the properties of       *)
(* FireAlarm what their proofs need: the shape of an alarm and of a ledger *)
(* that has seen no revision, and when a revision can have been recorded.  *)
(***************************************************************************)
EXTENDS FireDesk, FiniteSetTheorems, SequenceTheorems, TLAPS

SeenIds == {<<e>> : e \in Events \cup ForeignEvents}
           \cup {<<c, a, x>> : c \in Channels, a \in Alarms, x \in Actions}

Unique(q) == \A i, j \in DOMAIN q : q[i] = q[j] => i = j

\* FireTypeOK by component, with the shape of an alarm, of the seen ids and of a
\* ledger that has seen no revision.
AlarmTyped ==
    /\ fireChannels \subseteq Channels
    /\ alarm \in [Channels -> AlarmType]
    /\ fireChannels = {c \in Channels : alarm[c].active}
    /\ \A c \in Channels : alarm[c] = Silent \/ (alarm[c].active /\ alarm[c].id \in Alarms)
LedgerTyped ==
    /\ ledger \in [Channels -> LedgerType]
    /\ deliveries \subseteq DeliveryType
    /\ \A c \in Channels : ~ledger[c].versionedSeen => ledger[c].last = 0
HistoryTyped ==
    /\ seen \in Seq(SeenIds)
    /\ Len(seen) <= SeenLimit
    /\ Unique(seen)
    /\ timesRecorded \in [Channels \X Revisions -> Nat]
CommandTyped ==
    /\ ackKeys \subseteq Channels \X Alarms
    /\ pending \in [Channels -> Nat]
    /\ ready \in BOOLEAN
SignalsTyped == signals \subseteq Signals

Typed == AlarmTyped /\ LedgerTyped /\ HistoryTyped /\ CommandTyped /\ SignalsTyped

\* A recorded revision is an older one of its channel, or the one in force with
\* its recorded flag set.
RecordedIsKnown ==
    \A c \in Channels, r \in Revisions :
        timesRecorded[<<c, r>>] # 0 =>
            /\ timesRecorded[<<c, r>>] = 1
            /\ ledger[c].versionedSeen
            /\ \/ r < ledger[c].last
               \/ r = ledger[c].last /\ ledger[c].recorded

----------------------------------------------------------------------------
(* What the helpers return.                                                *)

LEMMA MessageTyped ==
    ASSUME NEW m \in Messages
    PROVE  /\ m.ch \in Channels
           /\ m.retained \in BOOLEAN
           /\ m.id \in Identities
           /\ m.id.alarm \in Alarms /\ m.id.act \in Actions
           /\ m.id.event \in Events \cup {NoId}
           /\ m.rev \in Nat
           /\ m.rev # 0 => m.rev \in Revisions /\ m.delivery \in Deliveries
           /\ Sink(m) \in Sinks
           /\ EffectiveId(m) \in SeenIds
<1>1. m \in MessageType /\ ValidMessage(m)
  BY FireConstants
<1>2. /\ m.ch \in Channels /\ m.retained \in BOOLEAN /\ m.id \in Identities
      /\ m.rev \in Revisions \cup {0} /\ m.delivery \in Deliveries \cup {NoId}
  BY <1>1 DEF MessageType
<1>3. /\ m.id.alarm \in Alarms /\ m.id.act \in Actions
      /\ m.id.event \in Events \cup {NoId}
  BY <1>2 DEF Identities
<1>3a. \A r \in Revisions : r \in Nat
  BY FireConstants
<1>4. m.rev \in Nat
  <2>1. m.rev \in Revisions \cup {0}
    BY <1>2
  <2> QED
    BY <1>3a, <2>1
<1>7. m.rev # 0 => m.delivery # NoId
  BY <1>1, Zenon DEF ValidMessage
<1>5. Sink(m) \in Sinks
  BY DEF Sink, Sinks
<1>6. EffectiveId(m) \in SeenIds
  BY <1>2, <1>3 DEF EffectiveId, SeenIds
<1> QED
  BY <1>2, <1>3, <1>4, <1>5, <1>6, <1>7

LEMMA RememberKeeps ==
    ASSUME NEW q \in Seq(SeenIds), NEW e \in SeenIds, e \notin Seen(q),
           Unique(q), Len(q) <= SeenLimit
    PROVE  /\ Remember(q, e) \in Seq(SeenIds)
           /\ Len(Remember(q, e)) <= SeenLimit
           /\ Unique(Remember(q, e))
<1>0. SeenLimit \in Nat /\ SeenLimit # 0 /\ Len(q) \in Nat /\ DOMAIN q = 1 .. Len(q)
  BY FireConstants
<1>1. \A i \in 1 .. Len(q) : q[i] # e
  BY <1>0 DEF Seen
<1>2. CASE Len(q) < SeenLimit
  <2>1. Remember(q, e) = Append(q, e)
    BY <1>2 DEF Remember
  <2>2. /\ Len(Append(q, e)) = Len(q) + 1 /\ Append(q, e) \in Seq(SeenIds)
        /\ \A i \in 1 .. Len(q) : Append(q, e)[i] = q[i]
        /\ Append(q, e)[Len(q) + 1] = e
    OBVIOUS
  <2>3. Unique(Append(q, e))
    BY <1>0, <1>1, <2>2 DEF Unique
  <2> QED
    BY <1>0, <1>2, <2>1, <2>2, <2>3
<1>3. CASE ~(Len(q) < SeenLimit)
  <2> DEFINE t == Tail(q)
  <2>1. Remember(q, e) = Append(t, e)
    BY <1>3 DEF Remember
  <2>8. Len(q) = SeenLimit
    <3>1. SeenLimit \in Nat /\ Len(q) \in Nat /\ Len(q) <= SeenLimit
      BY <1>0
    <3> QED
      BY <3>1, <1>3
  <2>9. q # << >>
    BY <1>0, <2>8
  <2>2. /\ t \in Seq(SeenIds) /\ Len(t) = Len(q) - 1
        /\ \A i \in 1 .. Len(t) : t[i] = q[i + 1]
    BY <1>0, <2>8, <2>9
  <2> HIDE DEF t
  <2>3. /\ Len(Append(t, e)) = Len(t) + 1 /\ Append(t, e) \in Seq(SeenIds)
        /\ \A i \in 1 .. Len(t) : Append(t, e)[i] = t[i]
        /\ Append(t, e)[Len(t) + 1] = e
    BY <2>2
  <2>4. \A i \in 1 .. Len(t) : i + 1 \in 1 .. Len(q)
    BY <1>0, <2>2
  <2>5. \A i, j \in 1 .. Len(t) : t[i] = t[j] => i = j
    <3> SUFFICES ASSUME NEW i \in 1 .. Len(t), NEW j \in 1 .. Len(t), t[i] = t[j]
                 PROVE  i = j
      OBVIOUS
    <3>1. q[i + 1] = q[j + 1] /\ i + 1 \in DOMAIN q /\ j + 1 \in DOMAIN q
      BY <1>0, <2>2, <2>4
    <3>2. i + 1 = j + 1
      BY <3>1 DEF Unique
    <3>3. i \in Nat /\ j \in Nat
      BY <2>2
    <3> QED
      BY <3>2, <3>3
  <2>6. \A i \in 1 .. Len(t) : t[i] # e
    BY <1>1, <2>2, <2>4
  <2>7. Unique(Append(t, e))
    <3>1. DOMAIN Append(t, e) = 1 .. Len(t) + 1 /\ Len(t) \in Nat
      BY <2>2, <2>3
    <3> QED
      BY <3>1, <2>3, <2>5, <2>6 DEF Unique
  <2> QED
    BY <1>0, <2>1, <2>2, <2>3, <2>7
<1> QED
  BY <1>2, <1>3

LEMMA LedgersTyped ==
    ASSUME NEW m \in Messages, m.rev # 0, ledger \in [Channels -> LedgerType]
    PROVE  NextLedger(m) \in LedgerType /\ RepeatedLedger(m) \in LedgerType
<1>1. /\ m.ch \in Channels /\ m.id \in Identities /\ m.rev \in Revisions
      /\ m.delivery \in Deliveries /\ Sink(m) \in Sinks /\ m.retained \in BOOLEAN
  BY MessageTyped
<1>2. ledger[m.ch] \in LedgerType
  BY <1>1
<1>3. StateOnly(m) \in BOOLEAN
  BY DEF StateOnly
<1>4. [EmptyLedger.sinks EXCEPT ![Sink(m)] = m.delivery] \in [Sinks -> Deliveries \cup {NoId}]
  BY <1>1 DEF EmptyLedger
<1>5. NextLedger(m) \in LedgerType
  BY <1>1, <1>2, <1>3, <1>4 DEF NextLedger, LedgerType
<1>6. RepeatedLedger(m) \in LedgerType
  BY <1>1, <1>2, <1>3 DEF RepeatedLedger, LedgerType
<1> QED
  BY <1>5, <1>6

----------------------------------------------------------------------------
(* Types: what each part of a step keeps.                                  *)

LEMMA RecordEventTyped ==
    ASSUME NEW m \in Messages, HistoryTyped, RecordEvent(m)
    PROVE  HistoryTyped'
<1>1. /\ m.ch \in Channels /\ m.rev \in Nat /\ (m.rev # 0 => m.rev \in Revisions)
      /\ EffectiveId(m) \in SeenIds
  BY MessageTyped
<1>2. CASE EffectiveId(m) \in Seen(seen)
  BY <1>2 DEF RecordEvent, history, HistoryTyped, Unique
<1>3. CASE EffectiveId(m) \notin Seen(seen)
  <2>1. /\ seen' = Remember(seen, EffectiveId(m))
        /\ timesRecorded' = IF m.rev = 0 THEN timesRecorded
                            ELSE [timesRecorded EXCEPT ![<<m.ch, m.rev>>] = @ + 1]
    BY <1>3 DEF RecordEvent
  <2>2. seen' \in Seq(SeenIds) /\ Len(seen') <= SeenLimit /\ Unique(seen')
    BY <1>1, <1>3, <2>1, RememberKeeps DEF HistoryTyped
  <2>3. timesRecorded' \in [Channels \X Revisions -> Nat]
    BY <1>1, <2>1 DEF HistoryTyped
  <2> QED
    BY <2>2, <2>3 DEF HistoryTyped, Unique
<1> QED
  BY <1>2, <1>3

LEMMA RecordAppliedTyped ==
    ASSUME NEW m \in Messages, HistoryTyped, RecordApplied(m)
    PROVE  HistoryTyped'
<1>1. CASE StateOnly(m)
  BY <1>1 DEF RecordApplied, history, HistoryTyped, Unique
<1>2. CASE ~StateOnly(m)
  BY <1>2, RecordEventTyped DEF RecordApplied
<1> QED
  BY <1>1, <1>2

LEMMA DeliveriesTyped ==
    ASSUME NEW m \in Messages, m.rev # 0, deliveries \subseteq DeliveryType
    PROVE  WithDelivery(m) \subseteq DeliveryType
BY MessageTyped DEF WithDelivery, DeliveryType

LEMMA EnterRevisionTyped ==
    ASSUME NEW m \in Messages, LedgerTyped, EnterRevision(m)
    PROVE  LedgerTyped'
<1>1. CASE m.rev = 0
  BY <1>1 DEF EnterRevision, LedgerTyped
<1>2. CASE m.rev # 0
  <2>1. /\ ledger' = [ledger EXCEPT ![m.ch] = NextLedger(m)]
        /\ deliveries' = WithDelivery(m)
    BY <1>2 DEF EnterRevision
  <2>2. m.ch \in Channels
    BY MessageTyped
  <2>3. ledger' \in [Channels -> LedgerType] /\ deliveries' \subseteq DeliveryType
    BY <1>2, <2>1, LedgersTyped, DeliveriesTyped DEF LedgerTyped
  <2>4. NextLedger(m).versionedSeen
    BY DEF NextLedger
  <2> QED
    BY <2>1, <2>2, <2>3, <2>4 DEF LedgerTyped
<1> QED
  BY <1>1, <1>2

LEMMA EnterAlarmTyped ==
    ASSUME AlarmTyped, NEW c \in Channels, NEW a \in AlarmType,
           a = Silent \/ (a.active /\ a.id \in Alarms), EnterAlarm(c, a)
    PROVE  AlarmTyped'
<1>1. /\ fireChannels' = IF a.active THEN fireChannels \cup {c} ELSE fireChannels \ {c}
      /\ alarm' = [alarm EXCEPT ![c] = a]
  BY DEF EnterAlarm
<1>2. alarm' \in [Channels -> AlarmType] /\ fireChannels' \subseteq Channels
  BY <1>1 DEF AlarmTyped
<1>3. fireChannels' = {k \in Channels : alarm'[k].active}
  BY <1>1 DEF AlarmTyped
<1>4. \A k \in Channels : alarm'[k] = Silent \/ (alarm'[k].active /\ alarm'[k].id \in Alarms)
  BY <1>1 DEF AlarmTyped
<1> QED
  BY <1>2, <1>3, <1>4 DEF AlarmTyped

LEMMA AlarmsTyped ==
    ASSUME NEW a \in Alarms
    PROVE  /\ Open(a) \in AlarmType /\ Open(a).active /\ Open(a).id = a /\ ~Open(a).acked
           /\ Acked(a) \in AlarmType /\ Acked(a).active /\ Acked(a).id = a /\ Acked(a).acked
           /\ Silent \in AlarmType /\ ~Silent.active /\ ~Silent.acked
BY DEF Open, Acked, Silent, AlarmType

----------------------------------------------------------------------------
(* Types: the actions.                                                     *)

LEMMA InitTyped == FireInit => Typed
<1> SUFFICES ASSUME FireInit PROVE Typed
  OBVIOUS
<1>1. AlarmTyped
  BY DEF FireInit, AlarmTyped, Silent, AlarmType
<1>2. LedgerTyped
  BY DEF FireInit, LedgerTyped, EmptyLedger, LedgerType
<1>3. HistoryTyped
  BY FireConstants DEF FireInit, HistoryTyped, Unique
<1>4. CommandTyped /\ SignalsTyped
  BY DEF FireInit, CommandTyped, SignalsTyped
<1> QED
  BY <1>1, <1>2, <1>3, <1>4 DEF Typed

\* A step that leaves a component's variables alone keeps its types.
LEMMA FireStateUnchanged ==
    ASSUME AlarmTyped, LedgerTyped, UNCHANGED fireState
    PROVE  AlarmTyped' /\ LedgerTyped'
BY DEF fireState, AlarmTyped, LedgerTyped

LEMMA HistoryUnchanged ==
    ASSUME HistoryTyped, UNCHANGED history
    PROVE  HistoryTyped'
BY DEF history, HistoryTyped, Unique

LEMMA CommandUnchanged ==
    ASSUME CommandTyped, UNCHANGED command
    PROVE  CommandTyped'
BY DEF command, CommandTyped

LEMMA NoSignals == ASSUME signals' = {} PROVE SignalsTyped'
BY DEF SignalsTyped

LEMMA ReceiveTyped ==
    ASSUME Typed, NEW m \in Messages, ReceiveFire(m)
    PROVE  Typed'
<1>0. AlarmTyped /\ LedgerTyped /\ HistoryTyped /\ CommandTyped
  BY DEF Typed
<1>m. m.ch \in Channels /\ m.id.alarm \in Alarms
  BY MessageTyped
<1>1. CASE DiscardFire(m) \/ RejectLegacyFire(m)
  <2>1. UNCHANGED <<fireState, history, command>> /\ signals' = {}
    BY <1>1 DEF DiscardFire, RejectLegacyFire
  <2> QED
    BY <1>0, <2>1, FireStateUnchanged, HistoryUnchanged, CommandUnchanged, NoSignals
    DEF Typed
<1>2. CASE RepeatFire(m)
  <2>1. m.rev # 0 /\ ledger[m.ch].versionedSeen
    BY <1>2 DEF RepeatFire, Repeats
  <2>2. /\ ledger' = [ledger EXCEPT ![m.ch] = RepeatedLedger(m)]
        /\ deliveries' = WithDelivery(m)
    BY <1>2 DEF RepeatFire
  <2>3. ledger' \in [Channels -> LedgerType] /\ deliveries' \subseteq DeliveryType
    BY <1>0, <1>m, <2>1, <2>2, LedgersTyped, DeliveriesTyped DEF LedgerTyped
  <2>4. RepeatedLedger(m).versionedSeen
    <3>1. ledger[m.ch] \in LedgerType
      BY <1>0, <1>m DEF LedgerTyped
    <3> QED
      BY <2>1, <3>1 DEF RepeatedLedger, LedgerType
  <2>5. LedgerTyped'
    BY <1>0, <1>m, <2>2, <2>3, <2>4 DEF LedgerTyped
  <2>6. HistoryTyped'
    BY <1>0, <1>2, RecordEventTyped, HistoryUnchanged DEF RepeatFire
  <2>7. AlarmTyped'
    BY <1>0, <1>2 DEF RepeatFire, AlarmTyped
  <2>8. CommandTyped' /\ SignalsTyped'
    BY <1>0, <1>2, CommandUnchanged, NoSignals DEF RepeatFire
  <2> QED
    BY <2>5, <2>6, <2>7, <2>8 DEF Typed
<1>3. CASE ActivateFire(m)
  <2>1. LedgerTyped' /\ HistoryTyped'
    BY <1>0, <1>3, EnterRevisionTyped, RecordAppliedTyped DEF ActivateFire
  <2> DEFINE a == IF KeepsAck(m) THEN alarm[m.ch] ELSE Open(m.id.alarm)
  <2>2. EnterAlarm(m.ch, a)
    BY <1>3 DEF ActivateFire
  <2>3. alarm[m.ch] \in AlarmType /\ (alarm[m.ch] = Silent \/ alarm[m.ch].id \in Alarms)
    BY <1>0, <1>m DEF AlarmTyped
  <2>4. KeepsAck(m) => alarm[m.ch].active
    BY DEF KeepsAck, Renews
  <2>5. a \in AlarmType /\ a.active /\ a.id \in Alarms
    BY <1>m, <2>3, <2>4, AlarmsTyped
  <2> HIDE DEF a
  <2>6. AlarmTyped'
    BY <1>0, <1>m, <2>2, <2>5, EnterAlarmTyped
  <2>7. ackKeys' \subseteq ackKeys /\ UNCHANGED <<pending, ready>>
    BY <1>3 DEF ActivateFire
  <2>8. CommandTyped'
    BY <1>0, <2>7 DEF CommandTyped
  <2>9. signals' \subseteq {Signal("requested", m.ch, m.id.alarm)}
    BY <1>3 DEF ActivateFire
  <2>10. SignalsTyped'
    BY <1>m, <2>9 DEF SignalsTyped, Signals, Signal
  <2> QED
    BY <2>1, <2>6, <2>8, <2>10 DEF Typed
<1>4. CASE AcknowledgeFire(m) \/ ClearFire(m)
  <2>1. LedgerTyped' /\ HistoryTyped'
    BY <1>0, <1>4, EnterRevisionTyped, RecordAppliedTyped DEF AcknowledgeFire, ClearFire
  <2>2. EnterAlarm(m.ch, Acked(m.id.alarm)) \/ EnterAlarm(m.ch, Silent)
    BY <1>4 DEF AcknowledgeFire, ClearFire
  <2>3. AlarmTyped'
    BY <1>0, <1>m, <2>2, AlarmsTyped, EnterAlarmTyped
  <2>4. /\ ackKeys' \subseteq ackKeys /\ UNCHANGED <<pending, ready>>
        /\ signals' = {Signal("closed", m.ch, NoId)}
    BY <1>4 DEF AcknowledgeFire, ClearFire
  <2>5. CommandTyped' /\ SignalsTyped'
    BY <1>0, <1>m, <2>4 DEF CommandTyped, SignalsTyped, Signals, Signal
  <2> QED
    BY <2>1, <2>3, <2>5 DEF Typed
<1> QED
  BY <1>1, <1>2, <1>3, <1>4 DEF ReceiveFire

LEMMA ForeignTyped ==
    ASSUME Typed, NEW e \in ForeignEvents, SeeForeignEvent(e)
    PROVE  Typed'
<1>0. AlarmTyped /\ LedgerTyped /\ HistoryTyped /\ CommandTyped
  BY DEF Typed
<1>1. <<e>> \in SeenIds
  BY DEF SeenIds
<1>2. seen' \in Seq(SeenIds) /\ Len(seen') <= SeenLimit /\ Unique(seen')
  BY <1>0, <1>1, RememberKeeps DEF SeeForeignEvent, HistoryTyped
<1>3. HistoryTyped'
  BY <1>0, <1>2 DEF SeeForeignEvent, HistoryTyped, Unique
<1> QED
  BY <1>0, <1>3, FireStateUnchanged, CommandUnchanged, NoSignals
  DEF SeeForeignEvent, Typed

LEMMA CommandStepTyped ==
    ASSUME Typed,
           \/ \E c \in Channels : AcknowledgeFireAlarm(c) \/ ConfirmPublish(c)
           \/ Disconnect \/ Connect \/ ReloadMqtt
    PROVE  Typed'
<1>0. AlarmTyped /\ LedgerTyped /\ HistoryTyped /\ CommandTyped
  BY DEF Typed
<1>1. UNCHANGED <<fireState, history>>
  BY DEF AcknowledgeFireAlarm, SkipAck, FailAck, PublishAck, ConfirmPublish,
         Disconnect, FailPending, Connect, ReloadMqtt, DropClient
<1>2. AlarmTyped' /\ LedgerTyped' /\ HistoryTyped'
  BY <1>0, <1>1, FireStateUnchanged, HistoryUnchanged
<1>3. \A c \in Channels : alarm[c].id \in Alarms \cup {NoId}
  BY <1>0 DEF AlarmTyped, AlarmType
<1>4. CommandTyped' /\ SignalsTyped'
  <2>1. CASE \E c \in Channels : SkipAck(c)
    BY <1>0, <2>1, CommandUnchanged, NoSignals DEF SkipAck
  <2>2. CASE \E c \in Channels : FailAck(c)
    BY <1>0, <1>3, <2>2, CommandUnchanged
    DEF FailAck, SignalsTyped, Signals, Signal
  <2>3. CASE \E c \in Channels : PublishAck(c)
    <3> PICK c \in Channels : PublishAck(c)
      BY <2>3
    <3>1. alarm[c].active
      BY DEF PublishAck, Unanswered
    <3>2. CommandKey(c) \in Channels \X Alarms
      BY <1>0, <3>1 DEF AlarmTyped, Silent, CommandKey, AckKey
    <3>3. ackKeys' = ackKeys \cup {CommandKey(c)} /\ ready' = ready /\ signals' = {}
      BY DEF PublishAck
    <3>4. pending' \in [Channels -> Nat]
      BY <1>0 DEF PublishAck, CommandTyped
    <3> QED
      BY <1>0, <3>2, <3>3, <3>4 DEF CommandTyped, SignalsTyped
  <2>4. CASE \E c \in Channels : ConfirmPublish(c)
    <3>1. pending' \in [Channels -> Nat]
      BY <1>0, <2>4 DEF ConfirmPublish, CommandTyped
    <3> QED
      BY <1>0, <2>4, <3>1 DEF ConfirmPublish, CommandTyped, SignalsTyped
  <2>5. CASE FailPending
    <3>1. ackKeys' \subseteq ackKeys /\ ready' = FALSE /\ pending' \in [Channels -> Nat]
      BY <2>5 DEF FailPending
    <3>2. signals' \subseteq Signals
      BY <1>3, <2>5 DEF FailPending, Retryable, Signals, Signal
    <3> QED
      BY <1>0, <3>1, <3>2 DEF CommandTyped, SignalsTyped
  <2>6. CASE Connect
    BY <1>0, <2>6 DEF Connect, CommandTyped, SignalsTyped
  <2>7. CASE ReloadMqtt /\ ~FailPending
    <3>1. ackKeys' = ackKeys /\ ready' = FALSE /\ pending' = [c \in Channels |-> 0]
          /\ signals' = {}
      BY <2>7 DEF ReloadMqtt, DropClient
    <3> QED
      BY <1>0, <3>1 DEF CommandTyped, SignalsTyped
  <2> QED
    BY <2>1, <2>2, <2>3, <2>4, <2>5, <2>6, <2>7
    DEF AcknowledgeFireAlarm, Disconnect, ReloadMqtt
<1> QED
  BY <1>2, <1>4 DEF Typed

LEMMA StutterTyped == ASSUME Typed, UNCHANGED fireVars PROVE Typed'
<1>1. AlarmTyped' /\ LedgerTyped' /\ HistoryTyped' /\ CommandTyped'
  BY FireStateUnchanged, HistoryUnchanged, CommandUnchanged DEF Typed, fireVars
<1>2. SignalsTyped'
  BY DEF Typed, fireVars, SignalsTyped
<1> QED
  BY <1>1, <1>2 DEF Typed

LEMMA TypedIsTypeOK == Typed => FireTypeOK
BY DEF Typed, AlarmTyped, LedgerTyped, HistoryTyped, CommandTyped, SignalsTyped,
       FireTypeOK, Unique

\* Every reachable state of the controller has the types of FireTypeOK: the two
\* fire containers agree, and the seen queue stays within its limit, whatever
\* the limit, without a duplicate.
THEOREM FireTypeCorrect == FireSpec => []FireTypeOK
<1>1. Typed /\ [FireNext]_fireVars => Typed'
  BY ReceiveTyped, ForeignTyped, CommandStepTyped, StutterTyped DEF FireNext
<1> QED
  BY InitTyped, <1>1, TypedIsTypeOK, PTL DEF FireSpec

----------------------------------------------------------------------------
(* What a message does to the ledgers, the alarms and the keys.            *)

\* The ledger of a channel after an applied or a repeated message.
LEMMA LedgerAfter ==
    ASSUME Typed, NEW m \in Messages
    PROVE  /\ NextLedger(m).versionedSeen /\ NextLedger(m).last = m.rev
           /\ NextLedger(m).state = m.id /\ NextLedger(m).recorded = ~StateOnly(m)
           /\ RepeatedLedger(m).versionedSeen = ledger[m.ch].versionedSeen
           /\ RepeatedLedger(m).last = ledger[m.ch].last
           /\ RepeatedLedger(m).state = ledger[m.ch].state
           /\ RepeatedLedger(m).recorded = (ledger[m.ch].recorded \/ ~StateOnly(m))
<1>1. ledger[m.ch] \in LedgerType
  BY MessageTyped DEF Typed, LedgerTyped
<1>2. /\ NextLedger(m).versionedSeen /\ NextLedger(m).last = m.rev
      /\ NextLedger(m).state = m.id /\ NextLedger(m).recorded = ~StateOnly(m)
  BY DEF NextLedger
<1>3. /\ RepeatedLedger(m).versionedSeen = ledger[m.ch].versionedSeen
      /\ RepeatedLedger(m).last = ledger[m.ch].last
      /\ RepeatedLedger(m).state = ledger[m.ch].state
      /\ RepeatedLedger(m).recorded = (ledger[m.ch].recorded \/ ~StateOnly(m))
  BY <1>1 DEF RepeatedLedger, LedgerType
<1> QED
  BY <1>2, <1>3

\* A message that applies to a channel with a ledger has a higher revision.
LEMMA AppliedIsNew ==
    ASSUME NEW m \in Messages, Applies(m), ledger[m.ch].versionedSeen
    PROVE  m.rev # 0 /\ m.rev > ledger[m.ch].last
BY DEF Applies, Refused

\* Every step is one of four kinds: it applies a message, repeats the revision
\* in force, only moves the operator's command, or leaves alarms, ledgers and
\* the command keys alone.
Applied(m) ==
    /\ Routed(m) /\ Applies(m)
    /\ ActivateFire(m) \/ AcknowledgeFire(m) \/ ClearFire(m)

Commanded ==
    /\ UNCHANGED <<fireState, history>>
    /\ \/ ackKeys' \subseteq ackKeys
       \/ \E c \in Channels : Unanswered(c) /\ ackKeys' = ackKeys \cup {CommandKey(c)}

LEMMA StepKinds ==
    ASSUME [FireNext]_fireVars
    PROVE  \/ \E m \in Messages : Applied(m)
           \/ \E m \in Messages : RepeatFire(m)
           \/ Commanded
           \/ UNCHANGED <<fireState, timesRecorded, ackKeys>>
<1>1. CASE \E m \in Messages : ReceiveFire(m)
  <2> PICK m \in Messages : ReceiveFire(m)
    BY <1>1
  <2>1. CASE DiscardFire(m) \/ RejectLegacyFire(m)
    BY <2>1 DEF DiscardFire, RejectLegacyFire, history, command
  <2>2. CASE RepeatFire(m)
    BY <2>2
  <2>3. CASE ActivateFire(m) \/ AcknowledgeFire(m) \/ ClearFire(m)
    BY <2>3 DEF Applied, ActivateFire, AcknowledgeFire, ClearFire
  <2> QED
    BY <2>1, <2>2, <2>3 DEF ReceiveFire
<1>2. CASE \E e \in ForeignEvents : SeeForeignEvent(e)
  BY <1>2 DEF SeeForeignEvent, command
<1>3. CASE \E c \in Channels : AcknowledgeFireAlarm(c) \/ ConfirmPublish(c)
  BY <1>3 DEF AcknowledgeFireAlarm, SkipAck, FailAck, PublishAck, ConfirmPublish,
              history, command, Commanded
<1>4. CASE Disconnect \/ Connect \/ ReloadMqtt
  BY <1>4 DEF Disconnect, Connect, ReloadMqtt, FailPending, DropClient, history, Commanded
<1>5. CASE UNCHANGED fireVars
  BY <1>5 DEF fireVars, history, command
<1> QED
  BY <1>1, <1>2, <1>3, <1>4, <1>5 DEF FireNext

\* An applied message sets its channel's alarm, and its ledger if it has a
\* revision.
LEMMA AppliedEffect ==
    ASSUME Typed, NEW m \in Messages, Applied(m)
    PROVE  /\ EnterRevision(m)
           /\ \E a \in AlarmType : alarm' = [alarm EXCEPT ![m.ch] = a]
           /\ m.rev # 0 => alarm' = [alarm EXCEPT ![m.ch] = AlarmOf(m.id)]
<1>1. EnterRevision(m)
  BY DEF Applied, ActivateFire, AcknowledgeFire, ClearFire
<1>m. m.ch \in Channels /\ m.id.alarm \in Alarms /\ alarm[m.ch] \in AlarmType
  BY MessageTyped DEF Typed, AlarmTyped
<1>2. CASE ActivateFire(m)
  <2>1. alarm' = [alarm EXCEPT ![m.ch] = IF KeepsAck(m) THEN alarm[m.ch] ELSE Open(m.id.alarm)]
    BY <1>2 DEF ActivateFire, EnterAlarm
  <2>2. m.rev # 0 => ~KeepsAck(m)
    BY DEF KeepsAck
  <2>3. AlarmOf(m.id) = Open(m.id.alarm)
    BY <1>2 DEF ActivateFire, AlarmOf
  <2> QED
    BY <1>1, <1>m, <2>1, <2>2, <2>3, AlarmsTyped
<1>3. CASE AcknowledgeFire(m)
  <2>1. alarm' = [alarm EXCEPT ![m.ch] = Acked(m.id.alarm)]
    BY <1>3 DEF AcknowledgeFire, EnterAlarm
  <2>2. AlarmOf(m.id) = Acked(m.id.alarm)
    BY <1>3 DEF AcknowledgeFire, AlarmOf
  <2> QED
    BY <1>1, <1>m, <2>1, <2>2, AlarmsTyped
<1>4. CASE ClearFire(m)
  <2>1. alarm' = [alarm EXCEPT ![m.ch] = Silent]
    BY <1>4 DEF ClearFire, EnterAlarm
  <2>2. AlarmOf(m.id) = Silent
    BY <1>4 DEF ClearFire, AlarmOf
  <2> QED
    BY <1>1, <1>m, <2>1, <2>2, AlarmsTyped
<1> QED
  BY <1>2, <1>3, <1>4 DEF Applied

----------------------------------------------------------------------------
(* The invariants, one lemma each.                                         *)

LEMMA FollowsKept ==
    ASSUME Typed, AlarmFollowsNewestRevision, [FireNext]_fireVars
    PROVE  AlarmFollowsNewestRevision'
<1>0. alarm \in [Channels -> AlarmType] /\ ledger \in [Channels -> LedgerType]
  BY DEF Typed, AlarmTyped, LedgerTyped
<1>1. CASE \E m \in Messages : Applied(m)
  <2> PICK m \in Messages : Applied(m)
    BY <1>1
  <2>m. m.ch \in Channels /\ Applies(m) /\ EnterRevision(m)
    BY MessageTyped, AppliedEffect DEF Applied
  <2>1. CASE m.rev = 0
    <3>1. ledger' = ledger /\ ~ledger[m.ch].versionedSeen
      BY <2>m, <2>1, AppliedIsNew DEF EnterRevision
    <3>2. \A c \in Channels : c # m.ch => alarm'[c] = alarm[c]
      BY <1>0, AppliedEffect
    <3> QED
      BY <3>1, <3>2 DEF AlarmFollowsNewestRevision, AlarmOf, Open, Acked, Silent
  <2>2. CASE m.rev # 0
    <3>1. /\ ledger' = [ledger EXCEPT ![m.ch] = NextLedger(m)]
          /\ alarm' = [alarm EXCEPT ![m.ch] = AlarmOf(m.id)]
          /\ NextLedger(m).state = m.id
      BY <2>m, <2>2, AppliedEffect, LedgerAfter DEF EnterRevision
    <3>2. alarm'[m.ch] = AlarmOf(ledger'[m.ch].state)
      BY <1>0, <2>m, <3>1
    <3>3. \A c \in Channels : c # m.ch => alarm'[c] = alarm[c] /\ ledger'[c] = ledger[c]
      BY <1>0, <3>1
    <3> QED
      BY <3>2, <3>3 DEF AlarmFollowsNewestRevision, AlarmOf, Open, Acked, Silent
  <2> QED
    BY <2>1, <2>2
<1>2. CASE \E m \in Messages : RepeatFire(m)
  <2> PICK m \in Messages : RepeatFire(m)
    BY <1>2
  <2>1. /\ ledger' = [ledger EXCEPT ![m.ch] = RepeatedLedger(m)] /\ alarm' = alarm
        /\ RepeatedLedger(m).state = ledger[m.ch].state
        /\ ledger[m.ch].versionedSeen /\ m.ch \in Channels
    BY LedgerAfter, MessageTyped DEF RepeatFire, Repeats
  <2>2. \A c \in Channels : ledger'[c].state = ledger[c].state
                           /\ (ledger'[c].versionedSeen => ledger[c].versionedSeen)
    BY <1>0, <2>1
  <2> QED
    BY <2>1, <2>2 DEF AlarmFollowsNewestRevision, AlarmOf, Open, Acked, Silent
<1>3. CASE UNCHANGED fireState
  BY <1>3 DEF fireState, AlarmFollowsNewestRevision, AlarmOf, Open, Acked, Silent
<1> QED
  BY <1>1, <1>2, <1>3, StepKinds DEF Commanded

LEMMA RecordedKept ==
    ASSUME Typed, RecordedIsKnown, [FireNext]_fireVars
    PROVE  RecordedIsKnown'
<1>0. /\ ledger \in [Channels -> LedgerType]
      /\ timesRecorded \in [Channels \X Revisions -> Nat]
      /\ \A r \in Revisions : r \in Nat
  BY FireConstants DEF Typed, LedgerTyped, HistoryTyped
<1>1. CASE \E m \in Messages : Applied(m)
  <2> PICK m \in Messages : Applied(m)
    BY <1>1
  <2>m. /\ m.ch \in Channels /\ (m.rev # 0 => m.rev \in Revisions)
        /\ Applies(m) /\ EnterRevision(m)
    BY MessageTyped, AppliedEffect DEF Applied
  <2>r. RecordApplied(m)
    BY DEF Applied, ActivateFire, AcknowledgeFire, ClearFire
  <2>1. CASE m.rev = 0
    <3>1. ledger' = ledger /\ timesRecorded' = timesRecorded
      BY <2>m, <2>1, <2>r DEF EnterRevision, RecordApplied, RecordEvent, history
    <3> QED
      BY <3>1 DEF RecordedIsKnown
  <2>2. CASE m.rev # 0
    <3>1. /\ ledger' = [ledger EXCEPT ![m.ch] = NextLedger(m)]
          /\ NextLedger(m).last = m.rev /\ NextLedger(m).versionedSeen
          /\ NextLedger(m).recorded = ~StateOnly(m)
      BY <2>m, <2>2, LedgerAfter DEF EnterRevision
    <3>2. \A r \in Revisions : timesRecorded[<<m.ch, r>>] # 0 => r < m.rev
      BY <1>0, <2>m, <2>2, AppliedIsNew DEF RecordedIsKnown, LedgerType
    <3>3. timesRecorded[<<m.ch, m.rev>>] = 0
      BY <1>0, <2>m, <2>2, <3>2
    <3>4. \/ timesRecorded' = timesRecorded
          \/ /\ ~StateOnly(m)
             /\ timesRecorded' = [timesRecorded EXCEPT ![<<m.ch, m.rev>>] = 1]
      BY <1>0, <2>m, <2>2, <2>r, <3>3 DEF RecordApplied, RecordEvent, history
    <3> SUFFICES ASSUME NEW c \in Channels, NEW r \in Revisions,
                        timesRecorded'[<<c, r>>] # 0
                 PROVE  /\ timesRecorded'[<<c, r>>] = 1
                        /\ ledger'[c].versionedSeen
                        /\ \/ r < ledger'[c].last
                           \/ r = ledger'[c].last /\ ledger'[c].recorded
      BY DEF RecordedIsKnown
    <3>5. CASE c # m.ch
      BY <1>0, <3>1, <3>4, <3>5 DEF RecordedIsKnown
    <3>6. CASE c = m.ch /\ r # m.rev
      <4>1. timesRecorded'[<<c, r>>] = timesRecorded[<<c, r>>]
        BY <1>0, <3>4, <3>6
      <4>2. timesRecorded[<<c, r>>] = 1 /\ r < m.rev
        BY <3>2, <3>6, <4>1 DEF RecordedIsKnown
      <4>3. ledger'[c] = NextLedger(m)
        BY <1>0, <2>m, <3>1, <3>6
      <4> QED
        BY <3>1, <4>1, <4>2, <4>3
    <3>7. CASE c = m.ch /\ r = m.rev
      <4>1. timesRecorded'[<<c, r>>] = 1 /\ ~StateOnly(m)
        BY <1>0, <3>3, <3>4, <3>7
      <4>2. ledger'[c] = NextLedger(m)
        BY <1>0, <2>m, <3>1, <3>7
      <4> QED
        BY <3>1, <3>7, <4>1, <4>2
    <3> QED
      BY <3>5, <3>6, <3>7
  <2> QED
    BY <2>1, <2>2
<1>2. CASE \E m \in Messages : RepeatFire(m)
  <2> PICK m \in Messages : RepeatFire(m)
    BY <1>2
  <2>1. /\ ledger' = [ledger EXCEPT ![m.ch] = RepeatedLedger(m)]
        /\ RepeatedLedger(m).versionedSeen = ledger[m.ch].versionedSeen
        /\ RepeatedLedger(m).last = ledger[m.ch].last
        /\ RepeatedLedger(m).recorded = (ledger[m.ch].recorded \/ ~StateOnly(m))
        /\ ledger[m.ch].versionedSeen /\ m.rev = ledger[m.ch].last
        /\ m.ch \in Channels /\ m.rev \in Revisions
    BY LedgerAfter, MessageTyped DEF RepeatFire, Repeats
  <2>2. ledger[m.ch].recorded \/ timesRecorded[<<m.ch, m.rev>>] = 0
    BY <1>0, <2>1 DEF RecordedIsKnown
  <2>3. \/ timesRecorded' = timesRecorded
        \/ /\ ~StateOnly(m) /\ ~ledger[m.ch].recorded
           /\ timesRecorded' = [timesRecorded EXCEPT ![<<m.ch, m.rev>>] = 1]
    <3>1. CASE ~StateOnly(m) /\ ~ledger[m.ch].recorded
      BY <1>0, <2>1, <2>2, <3>1 DEF RepeatFire, RecordEvent, history
    <3>2. CASE ~(~StateOnly(m) /\ ~ledger[m.ch].recorded)
      BY <3>2 DEF RepeatFire, history
    <3> QED
      BY <3>1, <3>2
  <2> SUFFICES ASSUME NEW c \in Channels, NEW r \in Revisions,
                      timesRecorded'[<<c, r>>] # 0
               PROVE  /\ timesRecorded'[<<c, r>>] = 1
                      /\ ledger'[c].versionedSeen
                      /\ \/ r < ledger'[c].last
                         \/ r = ledger'[c].last /\ ledger'[c].recorded
    BY DEF RecordedIsKnown
  <2>4. /\ ledger'[c].versionedSeen = ledger[c].versionedSeen
        /\ ledger'[c].last = ledger[c].last
        /\ ledger[c].recorded => ledger'[c].recorded
    BY <1>0, <2>1
  <2>5. CASE c = m.ch /\ r = m.rev /\ timesRecorded' # timesRecorded
    <3>1. timesRecorded'[<<c, r>>] = 1 /\ ~StateOnly(m)
      BY <1>0, <2>1, <2>3, <2>5
    <3>2. ledger'[c].recorded
      BY <1>0, <2>1, <2>5, <3>1
    <3> QED
      BY <2>1, <2>4, <2>5, <3>1, <3>2
  <2>6. CASE ~(c = m.ch /\ r = m.rev /\ timesRecorded' # timesRecorded)
    <3>1. timesRecorded'[<<c, r>>] = timesRecorded[<<c, r>>]
      BY <1>0, <2>3, <2>6
    <3> QED
      BY <2>4, <3>1 DEF RecordedIsKnown
  <2> QED
    BY <2>5, <2>6
<1>3. CASE UNCHANGED <<fireState, timesRecorded>>
  BY <1>3 DEF fireState, RecordedIsKnown
<1> QED
  BY <1>1, <1>2, <1>3, StepKinds DEF Commanded, history

LEMMA KeysKept ==
    ASSUME Typed, LegacyAckKeysAreCurrent, [FireNext]_fireVars
    PROVE  LegacyAckKeysAreCurrent'
<1>0. /\ alarm \in [Channels -> AlarmType] /\ ledger \in [Channels -> LedgerType]
      /\ ackKeys \subseteq Channels \X Alarms
  BY DEF Typed, AlarmTyped, LedgerTyped, CommandTyped
<1>s. ASSUME NEW c \in Channels, Unanswered(c) PROVE alarm[c] = Open(alarm[c].id)
  <2>1. alarm[c] \in AlarmType
    BY <1>0
  <2>2. alarm[c].active /\ ~alarm[c].acked
    BY <1>s DEF Unanswered
  <2>3. alarm[c] = [id |-> alarm[c].id, active |-> TRUE, acked |-> FALSE]
    BY <2>1, <2>2 DEF AlarmType
  <2> QED
    BY <2>3 DEF Open
<1>1. CASE \E m \in Messages : Applied(m)
  <2> PICK m \in Messages : Applied(m)
    BY <1>1
  <2>m. m.ch \in Channels /\ m.id.alarm \in Alarms /\ Applies(m) /\ EnterRevision(m)
    BY MessageTyped, AppliedEffect DEF Applied
  <2>k. ackKeys' \subseteq ackKeys
    BY DEF Applied, ActivateFire, AcknowledgeFire, ClearFire
  <2>o. \A c \in Channels : c # m.ch => /\ alarm'[c] = alarm[c]
                                       /\ ledger'[c] = ledger[c]
    BY <1>0, <2>m, AppliedEffect DEF EnterRevision
  <2>1. CASE m.rev # 0
    <3>1. ledger'[m.ch].versionedSeen
      BY <1>0, <2>m, <2>1, LedgerAfter DEF EnterRevision
    <3> QED
      BY <1>0, <2>k, <2>o, <3>1 DEF LegacyAckKeysAreCurrent, Open
  <2>2. CASE m.rev = 0
    <3>1. ledger' = ledger /\ ~ledger[m.ch].versionedSeen
      BY <2>m, <2>2, AppliedIsNew DEF EnterRevision
    <3> SUFFICES ASSUME NEW a \in Alarms, <<m.ch, a>> \in ackKeys'
                 PROVE  alarm'[m.ch] = Open(a)
      <4> SUFFICES ASSUME NEW k \in ackKeys'
                   PROVE  ledger'[k[1]].versionedSeen \/ alarm'[k[1]] = Open(k[2])
        BY DEF LegacyAckKeysAreCurrent, Open
      <4>1. k \in ackKeys /\ k[1] \in Channels /\ k[2] \in Alarms /\ k = <<k[1], k[2]>>
        BY <1>0, <2>k
      <4>2. ledger[k[1]].versionedSeen \/ alarm[k[1]] = Open(k[2])
        BY <4>1 DEF LegacyAckKeysAreCurrent
      <4>3. CASE k[1] = m.ch
        BY <4>1, <4>3
      <4>4. CASE k[1] # m.ch
        BY <2>o, <4>1, <4>2, <4>4
      <4> QED
        BY <4>3, <4>4
    <3>2. alarm[m.ch] = Open(a) /\ <<m.ch, a>> \in ackKeys
      BY <2>k, <3>1 DEF LegacyAckKeysAreCurrent
    <3>3. alarm[m.ch].active /\ alarm[m.ch].id = a /\ ~alarm[m.ch].acked
      BY <3>2, AlarmsTyped
    <3>4. CASE ActivateFire(m)
      <4>1. Renews(m)
        BY <3>3, <3>4 DEF ActivateFire, AckKey
      <4>2. ~KeepsAck(m) /\ m.id.alarm = a
        BY <3>3, <4>1 DEF KeepsAck, Renews
      <4> QED
        BY <1>0, <2>m, <3>4, <4>2 DEF ActivateFire, EnterAlarm
    <3>5. CASE AcknowledgeFire(m)
      <4>1. m.id.alarm = a
        BY <2>2, <3>3, <3>5 DEF AcknowledgeFire, LegacyMismatch
      <4> QED
        BY <3>5, <4>1 DEF AcknowledgeFire, AckKey
    <3>6. CASE ClearFire(m)
      BY <3>3, <3>6 DEF ClearFire, AckKey
    <3> QED
      BY <3>4, <3>5, <3>6 DEF Applied
  <2> QED
    BY <2>1, <2>2
<1>2. CASE \E m \in Messages : RepeatFire(m)
  <2> PICK m \in Messages : RepeatFire(m)
    BY <1>2
  <2>1. /\ ledger' = [ledger EXCEPT ![m.ch] = RepeatedLedger(m)] /\ alarm' = alarm
        /\ ackKeys' = ackKeys
        /\ RepeatedLedger(m).versionedSeen = ledger[m.ch].versionedSeen
    BY LedgerAfter DEF RepeatFire, command
  <2>2. \A c \in Channels : ledger'[c].versionedSeen = ledger[c].versionedSeen
    BY <1>0, <2>1
  <2> QED
    BY <1>0, <2>1, <2>2 DEF LegacyAckKeysAreCurrent, Open
<1>3. CASE Commanded
  <2>1. ledger' = ledger /\ alarm' = alarm
    BY <1>3 DEF Commanded, fireState
  <2>2. \A k \in ackKeys' : k \in ackKeys \/ alarm[k[1]] = Open(k[2])
    BY <1>3, <1>s DEF Commanded, CommandKey, AckKey
  <2> QED
    BY <2>1, <2>2 DEF LegacyAckKeysAreCurrent, Open
<1>4. CASE UNCHANGED <<fireState, ackKeys>>
  BY <1>4 DEF fireState, LegacyAckKeysAreCurrent, Open
<1> QED
  BY <1>1, <1>2, <1>3, <1>4, StepKinds

LEMMA DeliveriesKept ==
    ASSUME OneDeliveryOnePayload, [FireNext]_fireVars
    PROVE  OneDeliveryOnePayload'
<1>1. ASSUME NEW m \in Messages, deliveries' = WithDelivery(m)
      PROVE  OneDeliveryOnePayload'
  BY <1>1 DEF WithDelivery, SameDeliveryKey, OneDeliveryOnePayload
<1>2. CASE \E m \in Messages : Applied(m)
  <2> PICK m \in Messages : Applied(m)
    BY <1>2
  <2>1. EnterRevision(m)
    BY DEF Applied, ActivateFire, AcknowledgeFire, ClearFire
  <2>2. deliveries' = deliveries \/ deliveries' = WithDelivery(m)
    BY <2>1 DEF EnterRevision
  <2> QED
    BY <1>1, <2>2 DEF OneDeliveryOnePayload
<1>3. CASE \E m \in Messages : RepeatFire(m)
  BY <1>1, <1>3 DEF RepeatFire
<1>4. CASE UNCHANGED fireState
  BY <1>4 DEF fireState, OneDeliveryOnePayload
<1> QED
  BY <1>2, <1>3, <1>4, StepKinds DEF Commanded

\* The inductive invariant.
FireInv ==
    /\ Typed
    /\ AlarmFollowsNewestRevision
    /\ RecordedIsKnown
    /\ LegacyAckKeysAreCurrent
    /\ OneDeliveryOnePayload

LEMMA FireInvStarts == FireInit => FireInv
<1> SUFFICES ASSUME FireInit PROVE FireInv
  OBVIOUS
<1>1. AlarmFollowsNewestRevision
  BY DEF FireInit, EmptyLedger, AlarmFollowsNewestRevision
<1>2. RecordedIsKnown
  BY DEF FireInit, RecordedIsKnown
<1>3. LegacyAckKeysAreCurrent /\ OneDeliveryOnePayload
  BY DEF FireInit, LegacyAckKeysAreCurrent, OneDeliveryOnePayload
<1> QED
  BY InitTyped, <1>1, <1>2, <1>3 DEF FireInv

LEMMA FireInvKept == ASSUME FireInv, [FireNext]_fireVars PROVE FireInv'
<1>1. Typed'
  BY ReceiveTyped, ForeignTyped, CommandStepTyped, StutterTyped DEF FireNext, FireInv
<1> QED
  BY <1>1, FollowsKept, RecordedKept, KeysKept, DeliveriesKept DEF FireInv

LEMMA FireInvInductive == FireSpec => []FireInv
BY FireInvStarts, FireInvKept, PTL DEF FireSpec

\* The alarm of every channel is the one its highest applied revision describes,
\* for every number of channels and revisions and every order of arrival.
THEOREM AlarmIsNewest == FireSpec => []AlarmFollowsNewestRevision
<1>1. FireInv => AlarmFollowsNewestRevision
  BY DEF FireInv
<1> QED
  BY FireInvInductive, <1>1, PTL

\* However many copies of a revision arrive and however small the seen queue is,
\* the history holds the revision at most once.
THEOREM RecordedOnce == FireSpec => []RevisionRecordedOnce
<1>1. FireInv => RevisionRecordedOnce
  <2> SUFFICES ASSUME FireInv, NEW c \in Channels, NEW r \in Revisions
               PROVE  timesRecorded[<<c, r>>] <= 1
    BY DEF RevisionRecordedOnce
  <2>1. timesRecorded[<<c, r>>] = 0 \/ timesRecorded[<<c, r>>] = 1
    BY DEF FireInv, RecordedIsKnown
  <2> QED
    BY <2>1
<1> QED
  BY FireInvInductive, <1>1, PTL

\* In the protocol without revisions no remembered command outlives its alarm.
THEOREM AckKeysAreCurrent == FireSpec => []LegacyAckKeysAreCurrent
<1>1. FireInv => LegacyAckKeysAreCurrent
  BY DEF FireInv
<1> QED
  BY FireInvInductive, <1>1, PTL

\* No delivery id is ever registered for two payloads.
THEOREM DeliveriesAgree == FireSpec => []OneDeliveryOnePayload
<1>1. FireInv => OneDeliveryOnePayload
  BY DEF FireInv
<1> QED
  BY FireInvInductive, <1>1, PTL

\* Nothing but a higher revision moves the alarm of a channel that has one.
THEOREM OnlyRevisionsMoveAlarms == FireSpec => ChangesNeedNewRevision
<1>1. FireInv /\ [FireNext]_fireVars => [ChangesByRevision]_fireVars
  <2> SUFFICES ASSUME Typed, [FireNext]_fireVars, NEW c \in Channels, ledger[c].versionedSeen
               PROVE  /\ ledger'[c].versionedSeen
                      /\ ledger'[c].last >= ledger[c].last
                      /\ alarm'[c] # alarm[c] => ledger'[c].last > ledger[c].last
    BY DEF FireInv, ChangesByRevision
  <2>0. /\ alarm \in [Channels -> AlarmType] /\ ledger \in [Channels -> LedgerType]
        /\ ledger[c].last \in Nat
    <3>1. alarm \in [Channels -> AlarmType] /\ ledger \in [Channels -> LedgerType]
      BY DEF Typed, AlarmTyped, LedgerTyped
    <3>2. ledger[c].last \in Revisions \cup {0}
      BY <3>1 DEF LedgerType
    <3>3. \A r \in Revisions : r \in Nat
      BY FireConstants
    <3> QED
      BY <3>1, <3>2, <3>3
  <2>1. CASE \E m \in Messages : Applied(m)
    <3> PICK m \in Messages : Applied(m)
      BY <2>1
    <3>m. m.ch \in Channels /\ m.rev \in Nat /\ Applies(m) /\ EnterRevision(m)
      BY MessageTyped, AppliedEffect DEF Applied
    <3>1. CASE c = m.ch
      <4>1. m.rev # 0 /\ m.rev > ledger[c].last
        BY <3>m, <3>1, AppliedIsNew
      <4>2. ledger'[c].versionedSeen /\ ledger'[c].last = m.rev
        BY <2>0, <3>m, <3>1, <4>1, LedgerAfter DEF EnterRevision
      <4> QED
        BY <2>0, <3>m, <4>1, <4>2
    <3>2. CASE c # m.ch
      <4>1. alarm'[c] = alarm[c] /\ ledger'[c] = ledger[c]
        BY <2>0, <3>m, <3>2, AppliedEffect DEF EnterRevision
      <4> QED
        BY <2>0, <4>1
    <3> QED
      BY <3>1, <3>2
  <2>2. CASE \E m \in Messages : RepeatFire(m)
    <3> PICK m \in Messages : RepeatFire(m)
      BY <2>2
    <3>1. /\ ledger' = [ledger EXCEPT ![m.ch] = RepeatedLedger(m)] /\ alarm' = alarm
          /\ RepeatedLedger(m).versionedSeen = ledger[m.ch].versionedSeen
          /\ RepeatedLedger(m).last = ledger[m.ch].last
      BY LedgerAfter DEF RepeatFire
    <3>2. ledger'[c].versionedSeen = ledger[c].versionedSeen /\ ledger'[c].last = ledger[c].last
      BY <2>0, <3>1
    <3> QED
      BY <2>0, <3>1, <3>2
  <2>3. CASE UNCHANGED fireState
    BY <2>0, <2>3 DEF fireState
  <2> QED
    BY <2>1, <2>2, <2>3, StepKinds DEF Commanded
<1> QED
  BY FireInvInductive, <1>1, PTL DEF FireSpec, ChangesNeedNewRevision

\* Only a higher revision reopens an acknowledged alarm that stays active.
THEOREM AckIsNotUndone == FireSpec => OnlyNewRevisionUndoesAck
<1>1. FireInv /\ [FireNext]_fireVars => [AckStands]_fireVars
  <2> SUFFICES ASSUME Typed, [FireNext]_fireVars, NEW c \in Channels,
                      alarm[c].acked, alarm'[c].active, alarm'[c].id = alarm[c].id
               PROVE  alarm'[c].acked \/ ledger'[c].last > ledger[c].last
    BY DEF FireInv, AckStands
  <2>0. /\ alarm \in [Channels -> AlarmType] /\ ledger \in [Channels -> LedgerType]
        /\ alarm[c].active /\ alarm[c].id \in Alarms
        /\ ~ledger[c].versionedSeen => ledger[c].last = 0
    BY DEF Typed, AlarmTyped, LedgerTyped, Silent
  <2>1. CASE \E m \in Messages : Applied(m)
    <3> PICK m \in Messages : Applied(m)
      BY <2>1
    <3>m. m.ch \in Channels /\ m.rev \in Nat /\ Applies(m) /\ EnterRevision(m)
      BY MessageTyped, AppliedEffect DEF Applied
    <3>1. CASE c # m.ch
      BY <2>0, <3>1, AppliedEffect
    <3>2. CASE c = m.ch /\ m.rev # 0
      <4>1. m.rev > ledger[c].last
        BY <2>0, <3>m, <3>2, AppliedIsNew
      <4>2. ledger'[c].last = m.rev
        BY <2>0, <3>m, <3>2, LedgerAfter DEF EnterRevision
      <4> QED
        BY <4>1, <4>2
    <3>3. CASE c = m.ch /\ m.rev = 0
      <4>1. CASE ActivateFire(m)
        <5>1. alarm'[c] = IF KeepsAck(m) THEN alarm[c] ELSE Open(m.id.alarm)
          BY <2>0, <3>3, <4>1 DEF ActivateFire, EnterAlarm
        <5>2. KeepsAck(m)
          BY <2>0, <3>3, <5>1, MessageTyped, AlarmsTyped DEF KeepsAck, Renews
        <5> QED
          BY <5>1, <5>2
      <4>2. CASE AcknowledgeFire(m)
        BY <2>0, <3>3, <4>2, MessageTyped, AlarmsTyped DEF AcknowledgeFire, EnterAlarm
      <4>3. CASE ClearFire(m)
        BY <2>0, <3>3, <4>3, AlarmsTyped DEF ClearFire, EnterAlarm, Silent
      <4> QED
        BY <4>1, <4>2, <4>3 DEF Applied
    <3> QED
      BY <3>1, <3>2, <3>3
  <2>2. CASE alarm' = alarm
    BY <2>2
  <2> QED
    BY <2>1, <2>2, StepKinds DEF Commanded, RepeatFire, fireState
<1> QED
  BY FireInvInductive, <1>1, PTL DEF FireSpec, OnlyNewRevisionUndoesAck

----------------------------------------------------------------------------
(* The desk: the controller with the main window and its popups.  DeskInv   *)
(* adds to FireInv what the window owes: it is Sound, that is typed, every  *)
(* tracked popup exists, is its channel's and shows what was last shown     *)
(* there, and a popup posted for deletion is hidden and posted once; every  *)
(* posted retry finds a free popup (RoomIn); the alarm last shown on a      *)
(* channel, unless settled, is the one open there (AskedOrSettled); and     *)
(* every remembered key was left behind, or is the open alarm's with a      *)
(* command under way (KeysAccounted).                                       *)

UiType ==
    [popup : [Popups -> PopupType], tracked : [Channels -> Popups \cup {NoPopup}],
     shown : [Channels -> Alarms \cup {NoId}], queue : Seq(Posted)]

\* What TrackedPopupIsShown says of a channel, in two parts: a click may come
\* between them.
Owned(u) ==
    \A c \in Channels :
        u.tracked[c] # NoPopup =>
            u.popup[u.tracked[c]] # Unused /\ u.popup[u.tracked[c]].ch = c
ShownOn(u, c) ==
    u.tracked[c] # NoPopup => u.popup[u.tracked[c]].alarm = u.shown[c]

\* A popup is deleted once, and neither seen nor used again before it is.
DeletionsSound(u) ==
    \A p \in Popups : \A i \in DOMAIN u.queue :
        u.queue[i] = Deletion(p) =>
            /\ u.popup[p] # Unused /\ ~u.popup[p].visible
            /\ \A j \in DOMAIN u.queue : u.queue[j] = Deletion(p) => j = i

Sound(u) ==
    /\ u \in UiType /\ Owned(u) /\ DeletionsSound(u)
    /\ \A c \in Channels : ShownOn(u, c)

VisibleIn(u, c) == \E p \in Popups : u.popup[p].visible /\ u.popup[p].ch = c
RetryIn(u, c) == \E i \in Retries(u) : u.queue[i].ch = c

\* The posted retries find a free popup each.
RoomIn(u) == Cardinality(FreePopups(u)) >= Cardinality(Retries(u))

----------------------------------------------------------------------------
\* The fields of a window and what its queue holds.
LEMMA UiFields ==
    ASSUME NEW u \in UiType
    PROVE  /\ u.popup \in [Popups -> PopupType]
           /\ u.tracked \in [Channels -> Popups \cup {NoPopup}]
           /\ u.shown \in [Channels -> Alarms \cup {NoId}]
           /\ u.queue \in Seq(Posted)
           /\ DOMAIN u.queue = 1 .. Len(u.queue) /\ Len(u.queue) \in Nat
           /\ \A i \in DOMAIN u.queue : u.queue[i] \in Posted
<1>1. /\ u.popup \in [Popups -> PopupType]
      /\ u.tracked \in [Channels -> Popups \cup {NoPopup}]
      /\ u.shown \in [Channels -> Alarms \cup {NoId}]
      /\ u.queue \in Seq(Posted)
  BY DEF UiType
<1>2. \A q \in Seq(Posted) : /\ DOMAIN q = 1 .. Len(q) /\ Len(q) \in Nat
                             /\ \A i \in DOMAIN q : q[i] \in Posted
  OBVIOUS
<1> QED
  BY <1>1, <1>2

\* A popup is unused or shows an alarm of a channel.
LEMMA PopupKinds ==
    ASSUME NEW x \in PopupType
    PROVE  /\ x.visible \in BOOLEAN
           /\ x = Unused \/ (x.ch \in Channels /\ x.alarm \in Alarms)
           /\ x.visible => x # Unused
           /\ x = Unused <=> x.alarm = NoId
<1>1. CASE x = Unused
  BY <1>1 DEF Unused
<1>2. CASE x # Unused
  <2>1. x \in [ch : Channels, alarm : Alarms, visible : BOOLEAN]
    BY <1>2 DEF PopupType
  <2>2. x.ch \in Channels /\ x.alarm \in Alarms /\ x.visible \in BOOLEAN
    BY <2>1
  <2>3. NoId \notin Alarms
    BY FireConstants
  <2> QED
    BY <1>2, <2>2, <2>3
<1> QED
  BY <1>1, <1>2

\* A posted event is a retry or a deletion, and holds what it was made of.
LEMMA PostedKinds ==
    /\ \A e \in Posted :
          \/ e.kind = "retry" /\ e.ch \in Channels /\ e.alarm \in Alarms
          \/ e.kind = "delete" /\ e.popup \in Popups /\ e = Deletion(e.popup)
    /\ \A p \in Popups : Deletion(p) \in Posted /\ Deletion(p).kind = "delete"
                         /\ Deletion(p).popup = p
    /\ \A c \in Channels, a \in Alarms :
          /\ Retry(c, a) \in Posted /\ Retry(c, a).kind = "retry"
          /\ Retry(c, a).ch = c /\ Retry(c, a).alarm = a
<1>1. ASSUME NEW p \in Popups
      PROVE  /\ Deletion(p) \in Posted /\ Deletion(p).kind = "delete"
             /\ Deletion(p).popup = p
  BY DEF Posted, Deletion
<1>2. ASSUME NEW c \in Channels, NEW a \in Alarms
      PROVE  /\ Retry(c, a) \in Posted /\ Retry(c, a).kind = "retry"
             /\ Retry(c, a).ch = c /\ Retry(c, a).alarm = a
  BY DEF Posted, Retry
<1>3. ASSUME NEW e \in Posted
      PROVE  \/ e.kind = "retry" /\ e.ch \in Channels /\ e.alarm \in Alarms
             \/ e.kind = "delete" /\ e.popup \in Popups /\ e = Deletion(e.popup)
  <2>1. \/ \E c \in Channels, a \in Alarms : e = Retry(c, a)
        \/ \E p \in Popups : e = Deletion(p)
    BY DEF Posted
  <2>2. CASE \E c \in Channels, a \in Alarms : e = Retry(c, a)
    BY <1>2, <2>2
  <2>3. CASE \E p \in Popups : e = Deletion(p)
    BY <1>1, <2>3
  <2> QED
    BY <2>1, <2>2, <2>3
<1> QED
  BY <1>1, <1>2, <1>3

\* The posted retries and the free popups can be counted.
LEMMA RetriesAreFinite ==
    ASSUME NEW u \in UiType
    PROVE  /\ IsFiniteSet(Retries(u)) /\ Cardinality(Retries(u)) \in Nat
           /\ IsFiniteSet(FreePopups(u)) /\ Cardinality(FreePopups(u)) \in Nat
           /\ Retries(u) \subseteq 1 .. Len(u.queue) /\ Retries(u) \subseteq Nat
<1>1. Retries(u) \subseteq 1 .. Len(u.queue) /\ Len(u.queue) \in Nat
  BY UiFields DEF Retries
<1>2. IsFiniteSet(1 .. Len(u.queue))
  BY <1>1, FS_Interval
<1>3. IsFiniteSet(Retries(u))
  BY <1>1, <1>2, FS_Subset
<1>4. IsFiniteSet(FreePopups(u))
  BY FS_Subset, DeskConstants DEF FreePopups
<1>5. Retries(u) \subseteq Nat
  BY <1>1
<1> QED
  BY <1>1, <1>3, <1>4, <1>5, FS_CardinalityType

\* A window is a record: what an update of one of its fields leaves.
LEMMA QueueUpdated ==
    ASSUME NEW u \in UiType, NEW q \in Seq(Posted), NEW v, v = [u EXCEPT !.queue = q]
    PROVE  /\ v \in UiType /\ v.queue = q
           /\ v.popup = u.popup /\ v.tracked = u.tracked /\ v.shown = u.shown
BY DEF UiType

\* Hiding a popup changes nothing else of it, nor of another.
LEMMA Hidden ==
    ASSUME NEW f \in [Popups -> PopupType], NEW p \in Popups, f[p] # Unused,
           NEW g, g = Hide(f, p)
    PROVE  /\ g \in [Popups -> PopupType]
           /\ \A r \in Popups : g[r].ch = f[r].ch
           /\ \A r \in Popups : g[r].alarm = f[r].alarm
           /\ \A r \in Popups : g[r].visible <=> f[r].visible /\ r # p
           /\ \A r \in Popups : r # p => g[r] = f[r]
<1>1. f[p] \in [ch : Channels, alarm : Alarms, visible : BOOLEAN]
  BY DEF PopupType
<1>2. /\ g[p] = [f[p] EXCEPT !.visible = FALSE] /\ \A r \in Popups : r # p => g[r] = f[r]
      /\ g = [f EXCEPT ![p] = g[p]]
  BY DEF Hide
<1>3. /\ g[p] \in [ch : Channels, alarm : Alarms, visible : BOOLEAN]
      /\ g[p].ch = f[p].ch /\ g[p].alarm = f[p].alarm /\ ~g[p].visible
  BY <1>1, <1>2
<1>4. g[p] \in PopupType
  BY <1>3 DEF PopupType
<1>6. g \in [Popups -> PopupType]
  BY <1>2, <1>4
<1>7. \A r \in Popups : f[r].visible \in BOOLEAN /\ g[r].visible \in BOOLEAN
  BY <1>6, PopupKinds
<1> QED
  BY <1>2, <1>3, <1>6, <1>7

----------------------------------------------------------------------------
(* What the functions of the window do.                                    *)

\* A hidden popup is posted for deletion once.
LEMMA DeleteLaterDoes ==
    ASSUME NEW u \in UiType, NEW p \in Popups, u.popup[p] # Unused, ~u.popup[p].visible,
           DeletionsSound(u), NEW v, v = DeleteLater(u, p)
    PROVE  /\ v \in UiType /\ DeletionsSound(v)
           /\ v.popup = u.popup /\ v.tracked = u.tracked /\ v.shown = u.shown
           /\ Retries(v) = Retries(u)
           /\ \A c \in Channels : RetryIn(u, c) => RetryIn(v, c)
<1>1. CASE \E i \in DOMAIN u.queue : u.queue[i] = Deletion(p)
  BY <1>1 DEF DeleteLater
<1>2. CASE ~\E i \in DOMAIN u.queue : u.queue[i] = Deletion(p)
  <2> DEFINE q == Append(u.queue, Deletion(p))
  <2>1. /\ u.queue \in Seq(Posted) /\ Deletion(p) \in Posted
        /\ DOMAIN u.queue = 1 .. Len(u.queue) /\ Len(u.queue) \in Nat
    BY UiFields, PostedKinds
  <2>2. /\ q \in Seq(Posted) /\ Len(q) = Len(u.queue) + 1
        /\ \A i \in 1 .. Len(u.queue) : q[i] = u.queue[i]
        /\ q[Len(u.queue) + 1] = Deletion(p)
        /\ DOMAIN q = 1 .. Len(u.queue) + 1
    BY <2>1
  <2>3. v = [u EXCEPT !.queue = q]
    BY <1>2 DEF DeleteLater
  <2> HIDE DEF q
  <2>4. /\ v \in UiType /\ v.queue = q
        /\ v.popup = u.popup /\ v.tracked = u.tracked /\ v.shown = u.shown
    BY <2>2, <2>3, QueueUpdated
  <2>5. \A i \in DOMAIN q : i \in DOMAIN u.queue \/ i = Len(u.queue) + 1
    BY <2>1, <2>2
  <2>6. DOMAIN u.queue \subseteq DOMAIN q
    BY <2>1, <2>2
  <2>7. Deletion(p).kind # "retry"
    BY PostedKinds
  <2>8. Retries(v) = Retries(u)
    BY <2>1, <2>2, <2>4, <2>5, <2>6, <2>7 DEF Retries
  <2>9. \A c \in Channels : RetryIn(u, c) => RetryIn(v, c)
    BY <2>1, <2>2, <2>4, <2>8 DEF RetryIn, Retries
  <2>10. DeletionsSound(v)
    <3> SUFFICES ASSUME NEW r \in Popups, NEW i \in DOMAIN q, q[i] = Deletion(r)
                 PROVE  /\ u.popup[r] # Unused /\ ~u.popup[r].visible
                        /\ \A j \in DOMAIN q : q[j] = Deletion(r) => j = i
      BY <2>4 DEF DeletionsSound
    <3>1. CASE r = p
      <4>1. \A j \in DOMAIN q : q[j] = Deletion(p) => j = Len(u.queue) + 1
        BY <1>2, <2>1, <2>2, <2>5
      <4> QED
        BY <3>1, <4>1
    <3>2. CASE r # p
      <4>1. Deletion(r) # Deletion(p)
        BY <3>2, PostedKinds
      <4>2. \A j \in DOMAIN q : q[j] = Deletion(r) => j \in DOMAIN u.queue /\ u.queue[j] = Deletion(r)
        BY <2>1, <2>2, <2>5, <4>1
      <4> QED
        BY <4>2 DEF DeletionsSound
    <3> QED
      BY <3>1, <3>2
  <2> QED
    BY <2>4, <2>8, <2>9, <2>10
<1> QED
  BY <1>1, <1>2

\* A window with a popup hidden, its pointers untouched.
LEMMA HideDoes ==
    ASSUME NEW u \in UiType, DeletionsSound(u), NEW p \in Popups, u.popup[p] # Unused,
           NEW w, w.popup = Hide(u.popup, p), w.queue = u.queue
    PROVE  /\ w.popup \in [Popups -> PopupType] /\ DeletionsSound(w)
           /\ \A r \in Popups : r # p => w.popup[r] = u.popup[r]
           /\ \A r \in Popups : w.popup[r].ch = u.popup[r].ch
           /\ \A r \in Popups : w.popup[r].alarm = u.popup[r].alarm
           /\ \A r \in Popups : w.popup[r] = Unused <=> u.popup[r] = Unused
           /\ \A r \in Popups : w.popup[r].visible <=> u.popup[r].visible /\ r # p
           /\ Retries(w) = Retries(u)
           /\ \A c \in Channels : RetryIn(w, c) <=> RetryIn(u, c)
<1>2. u.popup \in [Popups -> PopupType]
  BY UiFields
<1>3. /\ w.popup \in [Popups -> PopupType]
      /\ \A r \in Popups : r # p => w.popup[r] = u.popup[r]
      /\ \A r \in Popups : w.popup[r].ch = u.popup[r].ch
      /\ \A r \in Popups : w.popup[r].alarm = u.popup[r].alarm
      /\ \A r \in Popups : w.popup[r].visible <=> u.popup[r].visible /\ r # p
  BY <1>2, Hidden
<1>4. \A r \in Popups : w.popup[r] = Unused <=> u.popup[r] = Unused
  BY <1>2, <1>3, PopupKinds
<1>5. Retries(w) = Retries(u) /\ \A c \in Channels : RetryIn(w, c) <=> RetryIn(u, c)
  BY DEF Retries, RetryIn
<1>6. DeletionsSound(w)
  BY <1>3, <1>4 DEF DeletionsSound
<1> QED
  BY <1>3, <1>4, <1>5, <1>6

\* A close leaves no pointer at the popup it hides.
LEMMA CloseDoes ==
    ASSUME NEW u \in UiType, Owned(u), DeletionsSound(u), NEW c \in Channels,
           NEW v, v = Close(u, c)
    PROVE  /\ v \in UiType /\ DeletionsSound(v)
           /\ v.tracked = [u.tracked EXCEPT ![c] = NoPopup] /\ v.shown = u.shown
           /\ \A r \in Popups : u.popup[r].ch # c => v.popup[r] = u.popup[r]
           /\ \A r \in Popups : v.popup[r].ch = u.popup[r].ch
           /\ \A r \in Popups : v.popup[r].alarm = u.popup[r].alarm
           /\ \A r \in Popups : v.popup[r] = Unused <=> u.popup[r] = Unused
           /\ Retries(v) = Retries(u)
           /\ \A d \in Channels : RetryIn(u, d) => RetryIn(v, d)
<1>1. /\ u.popup \in [Popups -> PopupType]
      /\ u.tracked \in [Channels -> Popups \cup {NoPopup}]
  BY UiFields
<1>t. PICK t : t = [u.tracked EXCEPT ![c] = NoPopup]
  OBVIOUS
<1>2. CASE u.tracked[c] = NoPopup
  <2>1. v = u
    BY <1>2 DEF Close
  <2>2. u.tracked = t
    BY <1>1, <1>2, <1>t
  <2> QED
    BY <1>t, <2>1, <2>2
<1>3. CASE u.tracked[c] # NoPopup
  <2>1. u.tracked[c] \in Popups /\ u.popup[u.tracked[c]] # Unused /\ u.popup[u.tracked[c]].ch = c
    BY <1>1, <1>3 DEF Owned
  <2>2. PICK p \in Popups : p = u.tracked[c]
    BY <2>1
  <2>3. PICK w : w = [u EXCEPT !.popup = Hide(u.popup, p), !.tracked[c] = NoPopup]
    OBVIOUS
  <2>4. v = DeleteLater(w, p)
    BY <1>3, <2>2, <2>3 DEF Close
  <2>5. /\ w.popup = Hide(u.popup, p) /\ w.tracked = t
        /\ w.shown = u.shown /\ w.queue = u.queue
        /\ w = [u EXCEPT !.popup = w.popup, !.tracked = t]
    BY <1>t, <2>3 DEF UiType
  <2>6. t \in [Channels -> Popups \cup {NoPopup}] /\ u.popup[p] # Unused
    BY <1>1, <1>t, <2>1, <2>2
  <2>7. /\ w.popup \in [Popups -> PopupType] /\ DeletionsSound(w)
        /\ \A r \in Popups : r # p => w.popup[r] = u.popup[r]
        /\ \A r \in Popups : w.popup[r].ch = u.popup[r].ch
        /\ \A r \in Popups : w.popup[r].alarm = u.popup[r].alarm
        /\ \A r \in Popups : w.popup[r] = Unused <=> u.popup[r] = Unused
        /\ \A r \in Popups : w.popup[r].visible <=> u.popup[r].visible /\ r # p
        /\ Retries(w) = Retries(u)
        /\ \A d \in Channels : RetryIn(w, d) <=> RetryIn(u, d)
    BY <2>5, <2>6, HideDoes
  <2>7a. w \in UiType
    BY <2>5, <2>6, <2>7 DEF UiType
  <2>8. w.popup[p] # Unused /\ ~w.popup[p].visible
    BY <2>6, <2>7
  <2>9. /\ v \in UiType /\ DeletionsSound(v)
        /\ v.popup = w.popup /\ v.tracked = w.tracked /\ v.shown = w.shown
        /\ Retries(v) = Retries(w)
        /\ \A d \in Channels : RetryIn(w, d) => RetryIn(v, d)
    BY <2>4, <2>7, <2>7a, <2>8, DeleteLaterDoes
  <2>11. \A r \in Popups : u.popup[r].ch # c => w.popup[r] = u.popup[r]
    BY <2>1, <2>2, <2>7
  <2> QED
    BY <1>t, <2>5, <2>7, <2>9, <2>11
<1> QED
  BY <1>2, <1>3

\* A request opens one popup for its channel and hides the one before it, unless
\* it asks for the alarm last shown.
LEMMA ShowDoes ==
    ASSUME NEW u \in UiType, Owned(u), DeletionsSound(u), FreePopups(u) # {},
           NEW c \in Channels, NEW a \in Alarms, u.shown[c] # a,
           NEW v, v = Show(u, c, a)
    PROVE  /\ v \in UiType /\ Owned(v) /\ DeletionsSound(v)
           /\ v.shown = [u.shown EXCEPT ![c] = a]
           /\ ShownOn(v, c) /\ VisibleIn(v, c)
           /\ \A d \in Channels : d # c /\ ShownOn(u, d) => ShownOn(v, d)
           /\ \A d \in Channels : d # c /\ VisibleIn(u, d) => VisibleIn(v, d)
           /\ Retries(v) = Retries(u)
           /\ \A d \in Channels : RetryIn(u, d) => RetryIn(v, d)
           /\ \E p \in FreePopups(u) : FreePopups(v) = FreePopups(u) \ {p}
<1>1. PICK w : w = Close(u, c)
  OBVIOUS
<1>2. /\ w \in UiType /\ DeletionsSound(w)
      /\ w.tracked = [u.tracked EXCEPT ![c] = NoPopup] /\ w.shown = u.shown
      /\ \A r \in Popups : u.popup[r].ch # c => w.popup[r] = u.popup[r]
      /\ \A r \in Popups : w.popup[r].ch = u.popup[r].ch
      /\ \A r \in Popups : w.popup[r].alarm = u.popup[r].alarm
      /\ \A r \in Popups : w.popup[r] = Unused <=> u.popup[r] = Unused
      /\ Retries(w) = Retries(u)
      /\ \A d \in Channels : RetryIn(u, d) => RetryIn(w, d)
  BY <1>1, CloseDoes
<1>3. FreePopups(w) = FreePopups(u)
  BY <1>2 DEF FreePopups
<1>4. PICK p \in FreePopups(w) : p = CHOOSE r \in FreePopups(w) : TRUE
  BY <1>3
<1>5. PICK x : x = [ch |-> c, alarm |-> a, visible |-> TRUE]
  OBVIOUS
<1>6. v = [w EXCEPT !.shown[c] = a, !.tracked[c] = p, !.popup[p] = x]
  BY <1>1, <1>4, <1>5 DEF Show
<1>7. /\ v.shown = [w.shown EXCEPT ![c] = a] /\ v.tracked = [w.tracked EXCEPT ![c] = p]
      /\ v.popup = [w.popup EXCEPT ![p] = x] /\ v.queue = w.queue
      /\ v = [w EXCEPT !.shown = v.shown, !.tracked = v.tracked, !.popup = v.popup]
  BY <1>2, <1>6 DEF UiType
<1>8. /\ p \in Popups /\ w.popup[p] = Unused /\ u.popup[p] = Unused
  BY <1>2, <1>4 DEF FreePopups
<1>9. /\ w.popup \in [Popups -> PopupType] /\ u.popup \in [Popups -> PopupType]
      /\ w.tracked \in [Channels -> Popups \cup {NoPopup}]
      /\ u.tracked \in [Channels -> Popups \cup {NoPopup}]
      /\ w.shown \in [Channels -> Alarms \cup {NoId}]
      /\ u.shown \in [Channels -> Alarms \cup {NoId}]
  BY <1>2, UiFields
<1>10. /\ x \in PopupType /\ x.ch = c /\ x.alarm = a /\ x.visible
  BY <1>5 DEF PopupType
<1>11. x # Unused
  BY <1>10, FireConstants DEF Unused
<1>12. /\ v.popup \in [Popups -> PopupType] /\ v.popup[p] = x
       /\ \A r \in Popups : r # p => v.popup[r] = w.popup[r]
  BY <1>7, <1>8, <1>9, <1>10
<1>13. /\ v.tracked \in [Channels -> Popups \cup {NoPopup}] /\ v.tracked[c] = p
       /\ \A d \in Channels : d # c => v.tracked[d] = u.tracked[d]
  BY <1>2, <1>7, <1>8, <1>9
<1>14. /\ v.shown \in [Channels -> Alarms \cup {NoId}] /\ v.shown[c] = a
       /\ v.shown = [u.shown EXCEPT ![c] = a]
       /\ \A d \in Channels : d # c => v.shown[d] = u.shown[d]
  BY <1>2, <1>7, <1>9
<1>15. v \in UiType
  BY <1>2, <1>7, <1>12, <1>13, <1>14 DEF UiType
<1>16. \A d \in Channels : d # c /\ v.tracked[d] # NoPopup =>
          /\ v.tracked[d] \in Popups /\ v.tracked[d] # p
          /\ v.popup[v.tracked[d]] # Unused /\ v.popup[v.tracked[d]].ch = d
          /\ v.popup[v.tracked[d]].alarm = u.popup[u.tracked[d]].alarm
  <2> SUFFICES ASSUME NEW d \in Channels, d # c, v.tracked[d] # NoPopup
               PROVE  /\ v.tracked[d] \in Popups /\ v.tracked[d] # p
                      /\ v.popup[v.tracked[d]] # Unused /\ v.popup[v.tracked[d]].ch = d
                      /\ v.popup[v.tracked[d]].alarm = u.popup[u.tracked[d]].alarm
    OBVIOUS
  <2>1. v.tracked[d] = u.tracked[d] /\ u.tracked[d] \in Popups
    BY <1>9, <1>13
  <2>2. u.popup[u.tracked[d]] # Unused /\ u.popup[u.tracked[d]].ch = d
    BY <2>1 DEF Owned
  <2>3. u.tracked[d] # p
    BY <1>8, <2>2
  <2> QED
    BY <1>2, <1>12, <2>1, <2>2, <2>3
<1>17. Owned(v)
  BY <1>8, <1>10, <1>11, <1>12, <1>13, <1>16 DEF Owned
<1>18. ShownOn(v, c)
  BY <1>10, <1>12, <1>13, <1>14 DEF ShownOn
<1>19. \A d \in Channels : d # c /\ ShownOn(u, d) => ShownOn(v, d)
  BY <1>13, <1>14, <1>16 DEF ShownOn
<1>20. VisibleIn(v, c)
  BY <1>8, <1>10, <1>12 DEF VisibleIn
<1>21. \A d \in Channels : d # c /\ VisibleIn(u, d) => VisibleIn(v, d)
  <2> SUFFICES ASSUME NEW d \in Channels, d # c, NEW r \in Popups,
                      u.popup[r].visible, u.popup[r].ch = d
               PROVE  v.popup[r].visible /\ v.popup[r].ch = d
    BY DEF VisibleIn
  <2>1. w.popup[r] = u.popup[r]
    BY <1>2
  <2>2. r # p
    BY <1>8, <1>9, PopupKinds
  <2> QED
    BY <1>12, <2>1, <2>2
<1>22. Retries(v) = Retries(u) /\ \A d \in Channels : RetryIn(u, d) => RetryIn(v, d)
  BY <1>2, <1>7 DEF Retries, RetryIn
<1>23. FreePopups(v) = FreePopups(u) \ {p}
  BY <1>2, <1>11, <1>12 DEF FreePopups
<1>24. DeletionsSound(v)
  <2> SUFFICES ASSUME NEW r \in Popups, NEW i \in DOMAIN v.queue, v.queue[i] = Deletion(r)
               PROVE  /\ v.popup[r] # Unused /\ ~v.popup[r].visible
                      /\ \A j \in DOMAIN v.queue : v.queue[j] = Deletion(r) => j = i
    BY DEF DeletionsSound
  <2>1. /\ w.popup[r] # Unused /\ ~w.popup[r].visible
        /\ \A j \in DOMAIN v.queue : v.queue[j] = Deletion(r) => j = i
    BY <1>2, <1>7 DEF DeletionsSound
  <2> QED
    BY <1>8, <1>12, <2>1
<1> QED
  BY <1>3, <1>4, <1>14, <1>15, <1>17, <1>18, <1>19, <1>20, <1>21, <1>22, <1>23, <1>24

\* The first of the posted events is taken.
\* v is u with its first posted event taken out to be run.
IsRest(v, u) == v = [u EXCEPT !.queue = Tail(u.queue)]
IsFirst(e, u) == e = Head(u.queue)

LEMMA TailDoes ==
    ASSUME NEW u \in UiType, u.queue # << >>, DeletionsSound(u),
           NEW e, IsFirst(e, u),
           NEW v, IsRest(v, u)
    PROVE  /\ v \in UiType /\ DeletionsSound(v)
           /\ v.popup = u.popup /\ v.tracked = u.tracked /\ v.shown = u.shown
           /\ e \in Posted
           /\ \A p \in Popups : e = Deletion(p) =>
                 /\ u.popup[p] # Unused /\ ~u.popup[p].visible
                 /\ \A i \in DOMAIN v.queue : v.queue[i] # Deletion(p)
           /\ \A c \in Channels :
                 RetryIn(u, c) /\ ~(e.kind = "retry" /\ e.ch = c)
                 => RetryIn(v, c)
           /\ Cardinality(Retries(v)) <= Cardinality(Retries(u))
           /\ e.kind = "retry" => Cardinality(Retries(v)) < Cardinality(Retries(u))
<1>0. e = Head(u.queue) /\ v = [u EXCEPT !.queue = Tail(u.queue)]
  BY DEF IsFirst, IsRest
<1> DEFINE q == u.queue
           n == Len(u.queue)
<1>1. /\ q \in Seq(Posted) /\ n \in Nat /\ n # 0 /\ DOMAIN q = 1 .. n
      /\ \A i \in DOMAIN q : q[i] \in Posted
  <2>1. q \in Seq(Posted) /\ n \in Nat /\ DOMAIN q = 1 .. n /\ \A i \in DOMAIN q : q[i] \in Posted
    BY UiFields
  <2>2. n # 0
    BY <2>1
  <2> QED
    BY <2>1, <2>2
<1>2. /\ Tail(q) \in Seq(Posted) /\ Len(Tail(q)) = n - 1 /\ DOMAIN Tail(q) = 1 .. n - 1
      /\ \A i \in 1 .. n - 1 : Tail(q)[i] = q[i + 1]
      /\ Head(q) = q[1]
  BY <1>1
<1>3. /\ v \in UiType /\ v.queue = Tail(q)
      /\ v.popup = u.popup /\ v.tracked = u.tracked /\ v.shown = u.shown
  BY <1>0, <1>2 DEF UiType
<1>4. \A i \in 1 .. n - 1 : i + 1 \in DOMAIN q /\ i + 1 # 1
  BY <1>1
<1>5. \A i \in DOMAIN q : i # 1 => i - 1 \in 1 .. n - 1 /\ (i - 1) + 1 = i
  BY <1>1
<1>6. 1 \in DOMAIN q /\ Head(q) \in Posted
  BY <1>1, <1>2
<1>7. DeletionsSound(v)
  <2> SUFFICES ASSUME NEW p \in Popups, NEW i \in 1 .. n - 1, Tail(q)[i] = Deletion(p)
               PROVE  /\ u.popup[p] # Unused /\ ~u.popup[p].visible
                      /\ \A j \in 1 .. n - 1 : Tail(q)[j] = Deletion(p) => j = i
    BY <1>2, <1>3 DEF DeletionsSound
  <2>1. q[i + 1] = Deletion(p) /\ i + 1 \in DOMAIN q
    BY <1>2, <1>4
  <2>2. /\ u.popup[p] # Unused /\ ~u.popup[p].visible
        /\ \A j \in DOMAIN q : q[j] = Deletion(p) => j = i + 1
    BY <2>1 DEF DeletionsSound
  <2>3. \A j \in 1 .. n - 1 : Tail(q)[j] = Deletion(p) => j + 1 = i + 1
    BY <1>2, <1>4, <2>2
  <2>4. \A j \in 1 .. n - 1 : j + 1 = i + 1 => j = i
    BY <1>1
  <2> QED
    BY <2>2, <2>3, <2>4
<1>8. ASSUME NEW p \in Popups, Head(q) = Deletion(p)
      PROVE  /\ u.popup[p] # Unused /\ ~u.popup[p].visible
             /\ \A i \in DOMAIN v.queue : v.queue[i] # Deletion(p)
  <2>1. /\ u.popup[p] # Unused /\ ~u.popup[p].visible
        /\ \A j \in DOMAIN q : q[j] = Deletion(p) => j = 1
    BY <1>2, <1>6, <1>8 DEF DeletionsSound
  <2>2. \A i \in 1 .. n - 1 : Tail(q)[i] # Deletion(p)
    BY <1>2, <1>4, <2>1
  <2> QED
    BY <1>2, <1>3, <2>1, <2>2
<1>9. \A i \in Retries(v) : i \in 1 .. n - 1 /\ i + 1 \in Retries(u) \ {1}
  BY <1>2, <1>3, <1>4 DEF Retries
<1>10. ASSUME NEW c \in Channels, RetryIn(u, c), ~(Head(q).kind = "retry" /\ Head(q).ch = c)
       PROVE  RetryIn(v, c)
  <2>1. PICK i \in DOMAIN q : q[i].kind = "retry" /\ q[i].ch = c
    BY <1>10 DEF RetryIn, Retries
  <2>2. i # 1
    BY <1>2, <1>10, <2>1
  <2>3. i - 1 \in DOMAIN Tail(q) /\ Tail(q)[i - 1] = q[i]
    BY <1>2, <1>5, <2>2
  <2> QED
    BY <1>3, <2>1, <2>3 DEF RetryIn, Retries
<1>11. Cardinality(Retries(v)) <= Cardinality(Retries(u) \ {1})
  <2> DEFINE f == [i \in Retries(v) |-> i + 1]
  <2>1. f \in [Retries(v) -> Retries(u) \ {1}]
    BY <1>9
  <2>2. \A i, j \in Retries(v) : f[i] = f[j] => i = j
    <3> SUFFICES ASSUME NEW i \in Retries(v), NEW j \in Retries(v), i + 1 = j + 1
                 PROVE  i = j
      OBVIOUS
    <3>1. i \in 1 .. n - 1 /\ j \in 1 .. n - 1
      BY <1>9
    <3> QED
      BY <1>1, <3>1
  <2>3. f \in Injection(Retries(v), Retries(u) \ {1})
    BY <2>1, <2>2 DEF Injection, IsInjective
  <2>4. IsFiniteSet(Retries(u) \ {1})
    BY RetriesAreFinite, FS_RemoveElement
  <2> HIDE DEF f
  <2> QED
    BY <2>3, <2>4, FS_Injection
<1>12. /\ Cardinality(Retries(u)) \in Nat /\ Cardinality(Retries(v)) \in Nat
       /\ Cardinality(Retries(u) \ {1}) =
            IF 1 \in Retries(u) THEN Cardinality(Retries(u)) - 1 ELSE Cardinality(Retries(u))
  BY <1>3, RetriesAreFinite, FS_RemoveElement
<1>13. Head(q).kind = "retry" => 1 \in Retries(u)
  BY <1>2, <1>6 DEF Retries
<1>14. /\ Cardinality(Retries(v)) <= Cardinality(Retries(u))
       /\ Head(q).kind = "retry" => Cardinality(Retries(v)) < Cardinality(Retries(u))
  BY <1>11, <1>12, <1>13
<1> QED
  BY <1>0, <1>3, <1>6, <1>7, <1>8, <1>10, <1>14

\* The retries of one step are posted behind what is posted already.
LEMMA PostDoes ==
    ASSUME NEW u \in UiType, DeletionsSound(u), NEW S, IsFiniteSet(S),
           \A x \in S : x \in Posted /\ x.kind = "retry",
           NEW q \in Orders(S), NEW v, v = [u EXCEPT !.queue = u.queue \o q]
    PROVE  /\ v \in UiType /\ DeletionsSound(v)
           /\ v.popup = u.popup /\ v.tracked = u.tracked /\ v.shown = u.shown
           /\ \A c \in Channels : RetryIn(u, c) => RetryIn(v, c)
           /\ \A x \in S : x.ch \in Channels => RetryIn(v, x.ch)
           /\ Cardinality(Retries(v)) <= Cardinality(Retries(u)) + Cardinality(S)
<1> DEFINE k == Cardinality(S)
           n == Len(u.queue)
           r == u.queue \o q
<1>1. k \in Nat
  BY FS_CardinalityType
<1>2. q \in [1 .. k -> S] /\ \A x \in S : \E i \in DOMAIN q : q[i] = x
  BY DEF Orders
<1>3. u.queue \in Seq(Posted) /\ n \in Nat /\ DOMAIN u.queue = 1 .. n
  BY UiFields
<1>4. S \subseteq Posted
  OBVIOUS
<1> HIDE DEF k
<1>5. q \in Seq(Posted) /\ Len(q) = k /\ DOMAIN q = 1 .. k
  BY <1>1, <1>2, <1>4
<1>6. /\ r \in Seq(Posted) /\ Len(r) = n + k /\ DOMAIN r = 1 .. n + k
      /\ \A i \in 1 .. n + k : r[i] = IF i <= n THEN u.queue[i] ELSE q[i - n]
  <2>1. \A s, t \in Seq(Posted) :
          /\ s \o t \in Seq(Posted) /\ Len(s \o t) = Len(s) + Len(t)
          /\ \A i \in 1 .. Len(s) + Len(t) :
                (s \o t)[i] = IF i <= Len(s) THEN s[i] ELSE t[i - Len(s)]
    BY ConcatProperties
  <2>2. /\ r \in Seq(Posted) /\ Len(r) = n + k
        /\ \A i \in 1 .. n + k : r[i] = IF i <= n THEN u.queue[i] ELSE q[i - n]
    BY <1>3, <1>5, <2>1
  <2> HIDE DEF r
  <2>3. DOMAIN r = 1 .. Len(r)
    BY <2>2
  <2> QED
    BY <2>2, <2>3
<1> HIDE DEF r
<1>7. /\ v \in UiType /\ v.queue = r
      /\ v.popup = u.popup /\ v.tracked = u.tracked /\ v.shown = u.shown
  BY <1>6 DEF UiType, r
<1>8. \A i \in 1 .. n : i \in DOMAIN r /\ r[i] = u.queue[i]
  <2> SUFFICES ASSUME NEW i \in 1 .. n PROVE i \in 1 .. n + k /\ i <= n
    BY <1>6
  <2> QED
    BY <1>1, <1>3
<1>9. \A i \in DOMAIN q : n + i \in DOMAIN r /\ r[n + i] = q[i]
  <2> SUFFICES ASSUME NEW i \in 1 .. k PROVE n + i \in 1 .. n + k /\ ~(n + i <= n) /\ (n + i) - n = i
    BY <1>5, <1>6
  <2> QED
    BY <1>1, <1>3
<1>10. \A i \in DOMAIN r : i \in 1 .. n \/ (i \in n + 1 .. n + k /\ r[i].kind = "retry")
  <2> SUFFICES ASSUME NEW i \in 1 .. n + k, i \notin 1 .. n
               PROVE  i \in n + 1 .. n + k /\ r[i].kind = "retry"
    BY <1>6
  <2>1. i \in n + 1 .. n + k /\ ~(i <= n) /\ i - n \in 1 .. k
    BY <1>1, <1>3
  <2>2. r[i] = q[i - n] /\ q[i - n] \in S
    BY <1>2, <1>6, <2>1
  <2> QED
    BY <2>1, <2>2
<1>11. \A c \in Channels : RetryIn(u, c) => RetryIn(v, c)
  BY <1>3, <1>7, <1>8 DEF RetryIn, Retries
<1>12. \A x \in S : x.ch \in Channels => RetryIn(v, x.ch)
  <2> SUFFICES ASSUME NEW x \in S PROVE RetryIn(v, x.ch)
    OBVIOUS
  <2>1. PICK i \in DOMAIN q : q[i] = x
    BY <1>2
  <2>2. n + i \in DOMAIN r /\ r[n + i] = x /\ x.kind = "retry"
    BY <1>9, <2>1
  <2> QED
    BY <1>7, <2>2 DEF RetryIn, Retries
<1>13. DeletionsSound(v)
  <2> SUFFICES ASSUME NEW p \in Popups, NEW i \in DOMAIN r, r[i] = Deletion(p)
               PROVE  /\ u.popup[p] # Unused /\ ~u.popup[p].visible
                      /\ \A j \in DOMAIN r : r[j] = Deletion(p) => j = i
    BY <1>7 DEF DeletionsSound
  <2>1. Deletion(p).kind # "retry"
    BY PostedKinds
  <2>2. \A j \in DOMAIN r : r[j] = Deletion(p) => j \in DOMAIN u.queue /\ u.queue[j] = Deletion(p)
    BY <1>3, <1>8, <1>10, <2>1
  <2> QED
    BY <2>2 DEF DeletionsSound
<1>14. Cardinality(Retries(v)) <= Cardinality(Retries(u)) + k
  <2> DEFINE T == n + 1 .. n + k
  <2>1. Retries(v) \subseteq Retries(u) \cup T
    BY <1>3, <1>7, <1>8, <1>10 DEF Retries
  <2>2. IsFiniteSet(Retries(u)) /\ Cardinality(Retries(u)) \in Nat
    BY RetriesAreFinite
  <2>3. IsFiniteSet(T) /\ Cardinality(T) = k
    <3>1. n + 1 \in Int /\ n + k \in Int
      BY <1>1, <1>3
    <3>2. /\ IsFiniteSet(n + 1 .. n + k)
          /\ Cardinality(n + 1 .. n + k) = IF n + 1 > n + k THEN 0 ELSE (n + k) - (n + 1) + 1
      BY <3>1, FS_Interval
    <3> QED
      BY <1>1, <1>3, <3>2
  <2>4. Retries(u) \cap T = {}
    <3>1. Retries(u) \subseteq 1 .. n
      BY RetriesAreFinite
    <3> QED
      BY <1>1, <1>3, <3>1
  <2> HIDE DEF T
  <2>5. /\ IsFiniteSet(Retries(u) \cup T)
        /\ Cardinality(Retries(u) \cup T)
           = Cardinality(Retries(u)) + Cardinality(T) - Cardinality(Retries(u) \cap T)
    BY <2>2, <2>3, FS_Union
  <2>6. Cardinality({}) = 0
    BY FS_EmptySet
  <2>7. Cardinality(Retries(v)) <= Cardinality(Retries(u) \cup T)
    BY <2>1, <2>5, FS_Subset
  <2>8. Cardinality(Retries(u) \cup T) = Cardinality(Retries(u)) + k - 0
    BY <2>3, <2>4, <2>5, <2>6
  <2>9. Cardinality(Retries(v)) \in Nat
    BY <1>7, RetriesAreFinite
  <2> QED
    BY <1>1, <2>2, <2>7, <2>8, <2>9
<1> QED
  BY <1>7, <1>11, <1>12, <1>13, <1>14 DEF k

\* A popup that is neither seen nor posted for deletion again is deleted.
LEMMA DestroyDoes ==
    ASSUME NEW u \in UiType, Owned(u), DeletionsSound(u), NEW p \in Popups,
           u.popup[p] # Unused, ~u.popup[p].visible,
           \A i \in DOMAIN u.queue : u.queue[i] # Deletion(p),
           NEW v, v = Destroy(u, p)
    PROVE  /\ v \in UiType /\ Owned(v) /\ DeletionsSound(v)
           /\ v.shown = u.shown
           /\ \A c \in Channels : ShownOn(u, c) => ShownOn(v, c)
           /\ \A c \in Channels : VisibleIn(u, c) => VisibleIn(v, c)
           /\ Retries(v) = Retries(u)
           /\ \A c \in Channels : RetryIn(u, c) => RetryIn(v, c)
           /\ FreePopups(u) \subseteq FreePopups(v)
<1>1. /\ u.popup \in [Popups -> PopupType]
      /\ u.tracked \in [Channels -> Popups \cup {NoPopup}]
  BY UiFields
<1>2. PICK c : c = u.popup[p].ch
  OBVIOUS
<1>3. c \in Channels
  BY <1>1, <1>2, PopupKinds
<1>4. PICK x \in Popups \cup {NoPopup} :
         x = IF u.tracked[c] = p \/ u.shown[c] = u.popup[p].alarm THEN NoPopup
             ELSE u.tracked[c]
  BY <1>1, <1>3
<1>5. v = [u EXCEPT !.popup[p] = Unused, !.tracked[c] = x]
  BY <1>2, <1>4 DEF Destroy
<1>6. /\ v.popup = [u.popup EXCEPT ![p] = Unused] /\ v.tracked = [u.tracked EXCEPT ![c] = x]
      /\ v.shown = u.shown /\ v.queue = u.queue
      /\ v = [u EXCEPT !.popup = v.popup, !.tracked = v.tracked]
  BY <1>5 DEF UiType
<1>7. /\ v.popup \in [Popups -> PopupType] /\ v.popup[p] = Unused
      /\ \A r \in Popups : r # p => v.popup[r] = u.popup[r]
  BY <1>1, <1>6 DEF PopupType
<1>8. /\ v.tracked \in [Channels -> Popups \cup {NoPopup}] /\ v.tracked[c] = x
      /\ \A d \in Channels : d # c => v.tracked[d] = u.tracked[d]
  BY <1>1, <1>3, <1>6
<1>9. v \in UiType
  BY <1>6, <1>7, <1>8 DEF UiType
<1>10. \A d \in Channels : v.tracked[d] # NoPopup =>
          /\ v.tracked[d] = u.tracked[d] /\ u.tracked[d] \in Popups /\ u.tracked[d] # p
  <2> SUFFICES ASSUME NEW d \in Channels, v.tracked[d] # NoPopup
               PROVE  v.tracked[d] = u.tracked[d] /\ u.tracked[d] # p
    BY <1>1
  <2>1. CASE d = c
    BY <1>4, <1>8, <2>1
  <2>2. CASE d # c
    BY <1>2, <1>8, <2>2 DEF Owned
  <2> QED
    BY <2>1, <2>2
<1>11. Owned(v)
  BY <1>7, <1>10 DEF Owned
<1>12. \A d \in Channels : ShownOn(u, d) => ShownOn(v, d)
  BY <1>6, <1>7, <1>10 DEF ShownOn
<1>13. \A d \in Channels : VisibleIn(u, d) => VisibleIn(v, d)
  BY <1>7 DEF VisibleIn
<1>14. Retries(v) = Retries(u) /\ \A d \in Channels : RetryIn(u, d) => RetryIn(v, d)
  BY <1>6 DEF Retries, RetryIn
<1>15. FreePopups(u) \subseteq FreePopups(v)
  BY <1>7 DEF FreePopups
<1>16. DeletionsSound(v)
  <2> SUFFICES ASSUME NEW r \in Popups, NEW i \in DOMAIN u.queue, u.queue[i] = Deletion(r)
               PROVE  /\ v.popup[r] # Unused /\ ~v.popup[r].visible
                      /\ \A j \in DOMAIN u.queue : u.queue[j] = Deletion(r) => j = i
    BY <1>6 DEF DeletionsSound
  <2>1. r # p
    OBVIOUS
  <2> QED
    BY <1>7, <2>1 DEF DeletionsSound
<1> QED
  BY <1>6, <1>9, <1>11, <1>12, <1>13, <1>14, <1>15, <1>16

----------------------------------------------------------------------------
(* What the window does when it hears the controller.                      *)

\* A window that tracks and shows the same is as sound.
LEMMA SoundSame ==
    ASSUME NEW u, Sound(u), NEW v \in UiType, DeletionsSound(v),
           v.tracked = u.tracked, v.shown = u.shown,
           \A r \in Popups : v.popup[r].ch = u.popup[r].ch,
           \A r \in Popups : v.popup[r].alarm = u.popup[r].alarm,
           \A r \in Popups : v.popup[r] = Unused <=> u.popup[r] = Unused
    PROVE  Sound(v) /\ FreePopups(v) = FreePopups(u)
<1>1. \A c \in Channels : u.tracked[c] # NoPopup => u.tracked[c] \in Popups
  BY UiFields DEF Sound
<1>2. Owned(v)
  BY <1>1 DEF Owned, Sound
<1>3. \A c \in Channels : ShownOn(v, c)
  BY <1>1 DEF ShownOn, Sound
<1>4. FreePopups(v) = FreePopups(u)
  BY DEF FreePopups
<1> QED
  BY <1>2, <1>3, <1>4 DEF Sound

\* A window whose channel is closed is sound.
LEMMA SoundClosed ==
    ASSUME NEW u, Sound(u), NEW c \in Channels, NEW v, v = Close(u, c)
    PROVE  /\ Sound(v) /\ FreePopups(v) = FreePopups(u)
           /\ v.shown = u.shown /\ Retries(v) = Retries(u)
           /\ \A d \in Channels : RetryIn(u, d) => RetryIn(v, d)
           /\ \A r \in Popups : u.popup[r].ch # c => v.popup[r] = u.popup[r]
<1>0. u \in UiType /\ Owned(u) /\ DeletionsSound(u) /\ \A d \in Channels : ShownOn(u, d)
  BY DEF Sound
<1>1. /\ v \in UiType /\ DeletionsSound(v)
      /\ v.tracked = [u.tracked EXCEPT ![c] = NoPopup] /\ v.shown = u.shown
      /\ \A r \in Popups : v.popup[r].ch = u.popup[r].ch
      /\ \A r \in Popups : v.popup[r].alarm = u.popup[r].alarm
      /\ \A r \in Popups : v.popup[r] = Unused <=> u.popup[r] = Unused
      /\ \A r \in Popups : u.popup[r].ch # c => v.popup[r] = u.popup[r]
      /\ Retries(v) = Retries(u)
      /\ \A d \in Channels : RetryIn(u, d) => RetryIn(v, d)
  BY <1>0, CloseDoes
<1>2. u.tracked \in [Channels -> Popups \cup {NoPopup}]
  BY <1>0, UiFields
<1>3. \A d \in Channels : v.tracked[d] # NoPopup =>
         v.tracked[d] = u.tracked[d] /\ u.tracked[d] \in Popups
  BY <1>1, <1>2
<1>4. Owned(v)
  BY <1>0, <1>1, <1>3 DEF Owned
<1>5. \A d \in Channels : ShownOn(v, d)
  BY <1>0, <1>1, <1>3 DEF ShownOn
<1>6. FreePopups(v) = FreePopups(u)
  BY <1>1 DEF FreePopups
<1> QED
  BY <1>1, <1>4, <1>5, <1>6 DEF Sound

\* Retries, in whatever order they are posted.
LEMMA HeardRetries ==
    ASSUME NEW u, Sound(u), NEW ss, IsFiniteSet(ss),
           \A s \in ss : s.kind = "retry" /\ s.ch \in Channels /\ s.alarm \in Alarms,
           NEW v \in Heard(u, ss)
    PROVE  /\ Sound(v) /\ v.popup = u.popup /\ v.shown = u.shown
           /\ FreePopups(v) = FreePopups(u)
           /\ \A c \in Channels : RetryIn(u, c) => RetryIn(v, c)
           /\ \A s \in ss : RetryIn(v, s.ch)
           /\ Cardinality(Retries(v)) <= Cardinality(Retries(u)) + Cardinality(ss)
<1>0. u \in UiType /\ DeletionsSound(u)
  BY DEF Sound
<1> DEFINE S == {Retry(s.ch, s.alarm) : s \in ss}
           f == [s \in ss |-> Retry(s.ch, s.alarm)]
<1>1. PICK q \in Orders(S) : v = [u EXCEPT !.queue = u.queue \o q]
  BY DEF Heard
<1>2. f \in Surjection(ss, S)
  BY DEF Surjection
<1>3. IsFiniteSet(S) /\ Cardinality(S) <= Cardinality(ss)
  <2> HIDE DEF S, f
  <2> QED
    BY <1>2, FS_Surjection
<1>4. \A x \in S : x \in Posted /\ x.kind = "retry" /\ x.ch \in Channels
  BY PostedKinds
<1>5. \A s \in ss : Retry(s.ch, s.alarm) \in S /\ Retry(s.ch, s.alarm).ch = s.ch
  BY PostedKinds
<1> HIDE DEF S, f
<1>6. /\ v \in UiType /\ DeletionsSound(v)
      /\ v.popup = u.popup /\ v.tracked = u.tracked /\ v.shown = u.shown
      /\ \A c \in Channels : RetryIn(u, c) => RetryIn(v, c)
      /\ \A x \in S : x.ch \in Channels => RetryIn(v, x.ch)
      /\ Cardinality(Retries(v)) <= Cardinality(Retries(u)) + Cardinality(S)
  BY <1>0, <1>1, <1>3, <1>4, PostDoes
<1>7. Sound(v) /\ FreePopups(v) = FreePopups(u)
  BY <1>6, SoundSame
<1>8. \A s \in ss : RetryIn(v, s.ch)
  BY <1>4, <1>5, <1>6
<1>9. Cardinality(Retries(v)) <= Cardinality(Retries(u)) + Cardinality(ss)
  <2>1. /\ Cardinality(Retries(v)) \in Nat /\ Cardinality(Retries(u)) \in Nat
        /\ Cardinality(S) \in Nat /\ Cardinality(ss) \in Nat
    BY <1>0, <1>3, <1>6, RetriesAreFinite, FS_CardinalityType
  <2> QED
    BY <1>3, <1>6, <2>1
<1> QED
  BY <1>6, <1>7, <1>8, <1>9

\* A step without signals leaves the window as it was.
LEMMA HeardNothing ==
    ASSUME NEW u, Sound(u), NEW v \in Heard(u, {})
    PROVE  /\ Sound(v) /\ v.popup = u.popup /\ v.shown = u.shown
           /\ FreePopups(v) = FreePopups(u)
           /\ \A c \in Channels : RetryIn(u, c) => RetryIn(v, c)
           /\ Cardinality(Retries(v)) <= Cardinality(Retries(u))
<1>1. IsFiniteSet({}) /\ Cardinality({}) = 0
  BY FS_EmptySet
<1>2. /\ Sound(v) /\ v.popup = u.popup /\ v.shown = u.shown
      /\ FreePopups(v) = FreePopups(u)
      /\ \A c \in Channels : RetryIn(u, c) => RetryIn(v, c)
      /\ Cardinality(Retries(v)) <= Cardinality(Retries(u)) + Cardinality({})
  BY <1>1, HeardRetries
<1>3. Cardinality(Retries(v)) \in Nat /\ Cardinality(Retries(u)) \in Nat
  BY <1>2, RetriesAreFinite DEF Sound
<1> QED
  BY <1>1, <1>2, <1>3

\* A step that emits one signal, heard by itself.
LEMMA HeardOne ==
    ASSUME NEW u, NEW s, s.kind # "retry", NEW v \in Heard(u, {s})
    PROVE  v = Hear(u, s)
BY DEF Heard

----------------------------------------------------------------------------
(* The desk's steps.                                                       *)

\* The exception of Reached, the other way round.
AskedOrSettled ==
    \A c \in Channels :
        ui.shown[c] # NoId /\ c \notin settled =>
            Unanswered(c) /\ alarm[c].id = ui.shown[c]

\* HasAWay, with any remembered key in the place of a command under way: all that
\* the window knows.
Reached(c) ==
    VisibleOn(c) \/ RetryPosted(c) \/ Suppressed(c)
      \/ (c \in settled /\ ui.shown[c] = alarm[c].id)
AlwaysReached == \A c \in Channels : Unanswered(c) => Reached(c)

\* The window's half of the invariant.
WindowInv ==
    /\ FireInv
    /\ Sound(ui) /\ RoomIn(ui)
    /\ settled \subseteq Channels /\ AskedOrSettled
    /\ AlwaysReached

\* The commands' half: a key that was not left behind is that of the open alarm
\* of its channel, and a command for it is under way.
KeyAccounted(k) ==
    \/ k \in leaked
    \/ Unanswered(k[1]) /\ k = CommandKey(k[1]) /\ k[1] \in underWay

KeysAccounted ==
    /\ underWay \subseteq Channels /\ leaked \subseteq ackKeys
    /\ \A k \in ackKeys : KeyAccounted(k)

\* The inductive invariant of the desk.
DeskInv == WindowInv /\ KeysAccounted

\* What Settle adds and drops keeps AskedOrSettled.
LEMMA SettleDoes ==
    ASSUME Settle
    PROVE  /\ settled' \subseteq Channels /\ AskedOrSettled'
           /\ \A c \in Channels :
                 c \in settled /\ ui'.shown[c] = ui.shown[c] /\ ui.shown[c] # NoId
                 => c \in settled'
<1>1. settled' \subseteq Channels
  BY DEF Settle
<1>2. ASSUME NEW c \in Channels, ui'.shown[c] # NoId, c \notin settled'
      PROVE  Unanswered(c)' /\ alarm'[c].id = ui'.shown[c]
  BY <1>2, Zenon DEF Settle
<1>3. AskedOrSettled'
  BY <1>2 DEF AskedOrSettled
<1>4. ASSUME NEW c \in Channels, c \in settled, ui'.shown[c] = ui.shown[c], ui.shown[c] # NoId
      PROVE  c \in settled'
  BY <1>4, Zenon DEF Settle
<1> QED
  BY <1>1, <1>3, <1>4

\* An unanswered alarm has an id.
LEMMA UnansweredIsNamed ==
    ASSUME FireInv, NEW c \in Channels, Unanswered(c)
    PROVE  alarm[c].id \in Alarms /\ alarm[c].id # NoId
<1>1. alarm[c] = Silent \/ alarm[c].id \in Alarms
  BY DEF FireInv, Typed, AlarmTyped
<1>2. alarm[c].active
  BY DEF Unanswered
<1> QED
  BY <1>1, <1>2, FireConstants DEF Silent

\* A channel whose alarm and window a step leaves alone keeps its way.
LEMMA WayKept ==
    ASSUME FireInv, Settle, AlwaysReached, NEW c \in Channels,
           alarm'[c] = alarm[c], ui'.shown[c] = ui.shown[c],
           VisibleIn(ui, c) => VisibleIn(ui', c),
           RetryIn(ui, c) => RetryIn(ui', c),
           Suppressed(c) => Suppressed(c)' \/ RetryIn(ui', c)
    PROVE  (Unanswered(c) => Reached(c))'
<1> SUFFICES ASSUME Unanswered(c)' PROVE Reached(c)'
  OBVIOUS
<1>1. Unanswered(c)
  BY DEF Unanswered
<1>2. /\ VisibleIn(ui, c) <=> VisibleOn(c)
      /\ RetryIn(ui, c) <=> RetryPosted(c)
      /\ VisibleIn(ui', c) <=> VisibleOn(c)'
      /\ RetryIn(ui', c) <=> RetryPosted(c)'
  BY DEF VisibleIn, VisibleOn, RetryIn, RetryPosted, Retries
<1>3. \/ VisibleOn(c) \/ RetryPosted(c) \/ Suppressed(c)
      \/ (c \in settled /\ ui.shown[c] = alarm[c].id)
  BY <1>1 DEF AlwaysReached, Reached
<1>4. CASE c \in settled /\ ui.shown[c] = alarm[c].id
  <2>1. ui.shown[c] # NoId
    BY <1>1, <1>4, UnansweredIsNamed
  <2>2. c \in settled' /\ ui'.shown[c] = alarm'[c].id
    BY <1>4, <2>1, SettleDoes
  <2> QED
    BY <2>2 DEF Reached
<1>5. CASE VisibleOn(c) \/ RetryPosted(c) \/ Suppressed(c)
  <2>1. VisibleOn(c)' \/ RetryPosted(c)' \/ Suppressed(c)'
    BY <1>2, <1>5
  <2> QED
    BY <2>1 DEF Reached
<1> QED
  BY <1>3, <1>4, <1>5

\* A popup on the channel, or a retry, is a way.
LEMMA WayFound ==
    ASSUME NEW c \in Channels, VisibleIn(ui', c) \/ RetryIn(ui', c) \/ Suppressed(c)'
    PROVE  Reached(c)'
<1>1. /\ VisibleIn(ui', c) <=> VisibleOn(c)'
      /\ RetryIn(ui', c) <=> RetryPosted(c)'
  BY DEF VisibleIn, VisibleOn, RetryIn, RetryPosted, Retries
<1> QED
  BY <1>1 DEF Reached

\* The desk's invariant, put together.
LEMMA WindowInvFrom ==
    ASSUME FireInv', Settle, Sound(ui'), RoomIn(ui'),
           \A c \in Channels : (Unanswered(c) => Reached(c))'
    PROVE  WindowInv'
<1>1. AlwaysReached'
  BY DEF AlwaysReached
<1>2. Sound(ui)' /\ RoomIn(ui)'
  BY DEF Sound, UiType, Owned, DeletionsSound, ShownOn, RoomIn, FreePopups, Retries
<1> QED
  BY <1>1, <1>2, SettleDoes DEF WindowInv

\* A step that emits nothing and changes neither an alarm nor a command key.
LEMMA QuietKept ==
    ASSUME WindowInv, FireInv', Settle, ui' \in Heard(ui, {}),
           alarm' = alarm, ackKeys' = ackKeys
    PROVE  WindowInv'
<1>0. FireInv /\ Sound(ui) /\ RoomIn(ui) /\ AlwaysReached
  BY DEF WindowInv
<1>1. /\ Sound(ui') /\ ui'.popup = ui.popup /\ ui'.shown = ui.shown
      /\ FreePopups(ui') = FreePopups(ui)
      /\ \A c \in Channels : RetryIn(ui, c) => RetryIn(ui', c)
      /\ Cardinality(Retries(ui')) <= Cardinality(Retries(ui))
  BY <1>0, HeardNothing
<1>2. RoomIn(ui')
  <2>1. /\ Cardinality(Retries(ui')) \in Nat /\ Cardinality(Retries(ui)) \in Nat
        /\ Cardinality(FreePopups(ui)) \in Nat
    BY <1>0, <1>1, RetriesAreFinite DEF Sound
  <2> QED
    BY <1>0, <1>1, <2>1 DEF RoomIn
<1>3. ASSUME NEW c \in Channels PROVE (Unanswered(c) => Reached(c))'
  <2>1. VisibleIn(ui, c) => VisibleIn(ui', c)
    BY <1>1 DEF VisibleIn
  <2>2. Suppressed(c) => Suppressed(c)'
    BY DEF Suppressed, CommandKey, AckKey
  <2> QED
    BY <1>0, <1>1, <2>1, <2>2, WayKept
<1> QED
  BY <1>1, <1>2, <1>3, WindowInvFrom

\* The commands whose publish failed come back as retries, one for each channel.
LEMMA FailPendingKept ==
    ASSUME WindowInv, FireInv', Settle, Room(Cardinality(Channels) + 1), FailPending,
           ui' \in Heard(ui, signals')
    PROVE  WindowInv'
<1>0. FireInv /\ Sound(ui) /\ AlwaysReached
  BY DEF WindowInv
<1> DEFINE ss == {Signal("retry", c, alarm[c].id) : c \in Retryable}
<1>1. /\ signals' = ss /\ alarm' = alarm
      /\ ackKeys' = ackKeys \ {CommandKey(c) : c \in Retryable}
  BY DEF FailPending, fireState
<1>2. Retryable \subseteq Channels /\ \A c \in Retryable : Unanswered(c)
  BY DEF Retryable
<1>3. \A s \in ss : s.kind = "retry" /\ s.ch \in Channels /\ s.alarm \in Alarms
  BY <1>0, <1>2, UnansweredIsNamed DEF Signal
<1>4. \A c \in Retryable : \E s \in ss : s.ch = c
  <2> SUFFICES ASSUME NEW c \in Retryable PROVE \E s \in ss : s.ch = c
    OBVIOUS
  <2>1. Signal("retry", c, alarm[c].id) \in ss /\ Signal("retry", c, alarm[c].id).ch = c
    BY DEF Signal
  <2> HIDE DEF ss
  <2> QED
    BY <2>1
<1>5. IsFiniteSet(ss) /\ Cardinality(ss) <= Cardinality(Channels)
  <2> DEFINE f == [c \in Retryable |-> Signal("retry", c, alarm[c].id)]
  <2>1. f \in Surjection(Retryable, ss)
    BY DEF Surjection
  <2>2. IsFiniteSet(Retryable) /\ Cardinality(Retryable) <= Cardinality(Channels)
    BY <1>2, DeskConstants, FS_Subset
  <2> HIDE DEF f, ss
  <2>3. IsFiniteSet(ss) /\ Cardinality(ss) <= Cardinality(Retryable)
    BY <2>1, <2>2, FS_Surjection
  <2>4. /\ Cardinality(ss) \in Nat /\ Cardinality(Retryable) \in Nat
        /\ Cardinality(Channels) \in Nat
    BY <2>2, <2>3, DeskConstants, FS_CardinalityType
  <2> QED
    BY <2>2, <2>3, <2>4
<1> HIDE DEF ss
<1>6. /\ Sound(ui') /\ ui'.popup = ui.popup /\ ui'.shown = ui.shown
      /\ FreePopups(ui') = FreePopups(ui)
      /\ \A c \in Channels : RetryIn(ui, c) => RetryIn(ui', c)
      /\ \A s \in ss : RetryIn(ui', s.ch)
      /\ Cardinality(Retries(ui')) <= Cardinality(Retries(ui)) + Cardinality(ss)
  BY <1>0, <1>1, <1>3, <1>5, HeardRetries
<1>7. RoomIn(ui')
  <2>1. /\ Cardinality(Retries(ui')) \in Nat /\ Cardinality(Retries(ui)) \in Nat
        /\ Cardinality(FreePopups(ui)) \in Nat
        /\ Cardinality(ss) \in Nat /\ Cardinality(Channels) \in Nat
    BY <1>0, <1>5, <1>6, RetriesAreFinite, DeskConstants, FS_CardinalityType DEF Sound
  <2>2. Cardinality(FreePopups(ui)) >= Cardinality(Channels) + 1 + Cardinality(Retries(ui))
    BY DEF Room
  <2> QED
    BY <1>5, <1>6, <2>1, <2>2 DEF RoomIn
<1>8. ASSUME NEW c \in Channels PROVE (Unanswered(c) => Reached(c))'
  <2>1. CASE c \in Retryable
    <3>1. RetryIn(ui', c)
      BY <1>4, <1>6, <2>1
    <3> QED
      BY <3>1, WayFound
  <2>2. CASE c \notin Retryable
    <3>1. Suppressed(c) => Suppressed(c)'
      BY <1>1, <2>2 DEF Suppressed, CommandKey, AckKey
    <3>2. VisibleIn(ui, c) => VisibleIn(ui', c)
      BY <1>6 DEF VisibleIn
    <3> QED
      BY <1>0, <1>1, <1>6, <3>1, <3>2, WayKept
  <2> QED
    BY <2>1, <2>2
<1> QED
  BY <1>6, <1>7, <1>8, WindowInvFrom

\* An ACK or a clear from the Pi answers its channel and closes its popup.
LEMMA CloseKept ==
    ASSUME WindowInv, FireInv', Settle, NEW m \in Messages,
           AcknowledgeFire(m) \/ ClearFire(m), ui' \in Heard(ui, signals')
    PROVE  WindowInv'
<1>0. FireInv /\ Sound(ui) /\ RoomIn(ui) /\ AlwaysReached
  BY DEF WindowInv
<1>1. PICK c \in Channels : c = m.ch
  BY MessageTyped
<1>2. PICK s : s = Signal("closed", c, NoId)
  OBVIOUS
<1>3. s.kind = "closed" /\ s.ch = c
  BY <1>2 DEF Signal
<1>4. /\ signals' = {s}
      /\ EnterAlarm(c, Acked(m.id.alarm)) \/ EnterAlarm(c, Silent)
      /\ ackKeys \ ackKeys' \subseteq {AckKey(c, alarm[c].id), AckKey(c, m.id.alarm)}
  BY <1>1, <1>2 DEF AcknowledgeFire, ClearFire
<1>5. ui' = Close(ui, c)
  <2>1. ui' = Hear(ui, s)
    BY <1>3, <1>4, HeardOne
  <2> QED
    BY <1>3, <2>1 DEF Hear
<1>6. /\ Sound(ui') /\ FreePopups(ui') = FreePopups(ui) /\ ui'.shown = ui.shown
      /\ Retries(ui') = Retries(ui)
      /\ \A d \in Channels : RetryIn(ui, d) => RetryIn(ui', d)
      /\ \A r \in Popups : ui.popup[r].ch # c => ui'.popup[r] = ui.popup[r]
  BY <1>0, <1>5, SoundClosed
<1>7. RoomIn(ui')
  BY <1>0, <1>6 DEF RoomIn
<1>8. alarm \in [Channels -> AlarmType]
  BY <1>0 DEF FireInv, Typed, AlarmTyped
<1>9. ASSUME NEW d \in Channels PROVE (Unanswered(d) => Reached(d))'
  <2>1. CASE d = c
    <3>1. ~Unanswered(d)'
      BY <1>4, <1>8, <2>1 DEF EnterAlarm, Acked, Silent, Unanswered
    <3> QED
      BY <3>1
  <2>2. CASE d # c
    <3>1. alarm'[d] = alarm[d]
      BY <1>4, <1>8, <2>2 DEF EnterAlarm
    <3>2. Suppressed(d) => Suppressed(d)'
      BY <1>4, <2>2, <3>1 DEF Suppressed, CommandKey, AckKey
    <3>3. VisibleIn(ui, d) => VisibleIn(ui', d)
      BY <1>6, <2>2 DEF VisibleIn
    <3> QED
      BY <1>0, <1>6, <3>1, <3>2, <3>3, WayKept
  <2> QED
    BY <2>1, <2>2
<1> QED
  BY <1>6, <1>7, <1>9, WindowInvFrom

\* An activation shows its alarm, unless the alarm is the one last shown.
LEMMA ActivateKept ==
    ASSUME WindowInv, FireInv', Settle, Room(Cardinality(Channels) + 1),
           NEW m \in Messages, ActivateFire(m), ui' \in Heard(ui, signals')
    PROVE  WindowInv'
<1>0. FireInv /\ Sound(ui) /\ RoomIn(ui) /\ AskedOrSettled /\ AlwaysReached
  BY DEF WindowInv
<1>1. PICK c \in Channels : c = m.ch
  BY MessageTyped
<1>2. PICK a \in Alarms : a = m.id.alarm
  BY MessageTyped
<1>3. alarm \in [Channels -> AlarmType] /\ alarm[c] \in AlarmType
  BY <1>0 DEF FireInv, Typed, AlarmTyped
<1>4. EnterAlarm(c, IF KeepsAck(m) THEN alarm[c] ELSE Open(a))
  BY <1>1, <1>2 DEF ActivateFire
<1>5. /\ alarm' = [alarm EXCEPT ![c] = IF KeepsAck(m) THEN alarm[c] ELSE Open(a)]
      /\ \A d \in Channels : d # c => alarm'[d] = alarm[d]
  BY <1>3, <1>4 DEF EnterAlarm
<1>6. ackKeys' = IF alarm[c].active /\ ~Renews(m)
                 THEN ackKeys \ {AckKey(c, alarm[c].id)} ELSE ackKeys
  BY <1>1 DEF ActivateFire
<1>7. Renews(m) <=> alarm[c].active /\ alarm[c].id = a
  BY <1>1, <1>2 DEF Renews
<1>8. KeepsAck(m) <=> m.rev = 0 /\ Renews(m) /\ alarm[c].acked
  BY <1>1 DEF KeepsAck
<1>9. \A d \in Channels : d # c /\ Suppressed(d) => Suppressed(d)'
  BY <1>5, <1>6 DEF Suppressed, CommandKey, AckKey
<1>10. CASE Renews(m) /\ ~(m.rev # 0 /\ alarm[c].acked)
  <2>1. signals' = {} /\ ackKeys' = ackKeys
    BY <1>1, <1>6, <1>10 DEF ActivateFire
  <2>2. alarm[c].acked \/ alarm[c] = Open(a)
    BY <1>3, <1>7, <1>10 DEF AlarmType, Open
  <2>3. alarm[c].acked => KeepsAck(m)
    BY <1>8, <1>10
  <2>4. alarm' = alarm
    BY <1>3, <1>5, <2>2, <2>3
  <2> QED
    BY <2>1, <2>4, QuietKept
<1>11. CASE ~(Renews(m) /\ ~(m.rev # 0 /\ alarm[c].acked))
  <2> DEFINE s == Signal("requested", c, a)
  <2>1. signals' = {s}
    BY <1>1, <1>2, <1>11 DEF ActivateFire
  <2>2. s.kind = "requested" /\ s.ch = c /\ s.alarm = a
    BY DEF Signal
  <2> HIDE DEF s
  <2>3. ui' = Show(ui, c, a)
    <3>1. ui' = Hear(ui, s)
      BY <2>1, <2>2, HeardOne
    <3> QED
      BY <2>2, <3>1 DEF Hear
  <2>4. ~KeepsAck(m) /\ alarm'[c] = Open(a)
    BY <1>3, <1>5, <1>8, <1>11
  <2>5. Unanswered(c)' /\ alarm'[c].id = a
    BY <2>4, AlarmsTyped DEF Unanswered
  <2>6. CASE ui.shown[c] = a
    <3>1. ui' = ui
      BY <2>3, <2>6 DEF Show
    <3>2. a # NoId
      BY FireConstants
    <3>3. c \in settled
      <4> SUFFICES ASSUME c \notin settled PROVE FALSE
        OBVIOUS
      <4>1. Unanswered(c) /\ alarm[c].id = a
        BY <1>0, <2>6, <3>2 DEF AskedOrSettled
      <4> QED
        BY <1>7, <1>11, <4>1 DEF Unanswered
    <3>4. c \in settled'
      BY <2>6, <3>1, <3>2, <3>3, SettleDoes
    <3>5. ASSUME NEW d \in Channels PROVE (Unanswered(d) => Reached(d))'
      <4>1. CASE d = c
        BY <2>5, <2>6, <3>1, <3>4, <4>1 DEF Reached
      <4>2. CASE d # c
        <5>1. alarm'[d] = alarm[d] /\ (Suppressed(d) => Suppressed(d)')
          BY <1>5, <1>9, <4>2
        <5> QED
          BY <1>0, <3>1, <5>1, WayKept
      <4> QED
        BY <4>1, <4>2
    <3> QED
      BY <1>0, <3>1, <3>5, WindowInvFrom
  <2>7. CASE ui.shown[c] # a
    <3>1. /\ Cardinality(FreePopups(ui)) \in Nat /\ Cardinality(Retries(ui)) \in Nat
          /\ IsFiniteSet(FreePopups(ui)) /\ Cardinality(Channels) \in Nat
      BY <1>0, RetriesAreFinite, DeskConstants, FS_CardinalityType DEF Sound
    <3>2. Cardinality(FreePopups(ui)) >= Cardinality(Channels) + 1 + Cardinality(Retries(ui))
      BY DEF Room
    <3>3. Cardinality(FreePopups(ui)) # 0
      BY <3>1, <3>2
    <3>4. FreePopups(ui) # {}
      BY <3>1, <3>3, FS_EmptySet
    <3>5. ui \in UiType /\ Owned(ui) /\ DeletionsSound(ui) /\ \A d \in Channels : ShownOn(ui, d)
      BY <1>0 DEF Sound
    <3>6. /\ ui' \in UiType /\ Owned(ui') /\ DeletionsSound(ui')
          /\ ui'.shown = [ui.shown EXCEPT ![c] = a]
          /\ ShownOn(ui', c) /\ VisibleIn(ui', c)
          /\ \A d \in Channels : d # c /\ ShownOn(ui, d) => ShownOn(ui', d)
          /\ \A d \in Channels : d # c /\ VisibleIn(ui, d) => VisibleIn(ui', d)
          /\ Retries(ui') = Retries(ui)
          /\ \A d \in Channels : RetryIn(ui, d) => RetryIn(ui', d)
          /\ \E p \in FreePopups(ui) : FreePopups(ui') = FreePopups(ui) \ {p}
      BY <2>3, <2>7, <3>4, <3>5, ShowDoes
    <3>7. Sound(ui')
      BY <3>5, <3>6 DEF Sound
    <3>8. RoomIn(ui')
      <4>1. PICK p \in FreePopups(ui) : FreePopups(ui') = FreePopups(ui) \ {p}
        BY <3>6
      <4>2. Cardinality(FreePopups(ui')) = Cardinality(FreePopups(ui)) - 1
        <5>1. \A S, T, x : IsFiniteSet(S) /\ x \in S /\ T = S \ {x}
                             => Cardinality(T) = Cardinality(S) - 1
          BY FS_RemoveElement, Zenon
        <5> QED BY <3>1, <4>1, <5>1, Zenon
      <4> QED
        BY <3>1, <3>2, <3>6, <4>2 DEF RoomIn
    <3>9. ASSUME NEW d \in Channels PROVE (Unanswered(d) => Reached(d))'
      <4>1. CASE d = c
        <5>1. Reached(c)'
          BY <3>6, WayFound
        <5> QED
          BY <4>1, <5>1
      <4>2. CASE d # c
        <5>1. alarm'[d] = alarm[d] /\ (Suppressed(d) => Suppressed(d)')
          BY <1>5, <1>9, <4>2
        <5>2. ui'.shown[d] = ui.shown[d]
          BY <3>5, <3>6, <4>2, UiFields
        <5> QED
          BY <1>0, <3>6, <4>2, <5>1, <5>2, WayKept
      <4> QED
        BY <4>1, <4>2
    <3> QED
      BY <3>7, <3>8, <3>9, WindowInvFrom
  <2> QED
    BY <2>6, <2>7
<1> QED
  BY <1>10, <1>11

\* A step of the controller, and the window that hears it.
LEMMA ControllerKept ==
    ASSUME WindowInv, ControllerStep
    PROVE  WindowInv'
<1>1. FireInv /\ Settle /\ Room(Cardinality(Channels) + 1) /\ ui' \in Heard(ui, signals')
  BY DEF WindowInv, ControllerStep, Recall
<1>2. FireInv'
  <2>1. FireNext
    BY DEF ControllerStep, FireNext
  <2> QED
    BY <1>1, <2>1, FireInvKept
<1>3. ASSUME signals' = {}, alarm' = alarm, ackKeys' = ackKeys PROVE WindowInv'
  BY <1>1, <1>2, <1>3, QuietKept
<1>4. CASE \E m \in Messages : ReceiveFire(m)
  <2> PICK m \in Messages : ReceiveFire(m)
    BY <1>4
  <2>1. CASE DiscardFire(m) \/ RepeatFire(m) \/ RejectLegacyFire(m)
    BY <1>3, <2>1 DEF DiscardFire, RepeatFire, RejectLegacyFire, fireState, command
  <2>2. CASE ActivateFire(m)
    BY <1>1, <1>2, <2>2, ActivateKept
  <2>3. CASE AcknowledgeFire(m) \/ ClearFire(m)
    BY <1>1, <1>2, <2>3, CloseKept
  <2> QED
    BY <2>1, <2>2, <2>3 DEF ReceiveFire
<1>5. CASE \E c \in Channels : ConfirmPublish(c)
  BY <1>3, <1>5 DEF ConfirmPublish, fireState
<1>6. CASE Connect
  BY <1>3, <1>6 DEF Connect, fireState
<1>7. CASE Disconnect \/ ReloadMqtt
  <2>1. CASE FailPending
    BY <1>1, <1>2, <2>1, FailPendingKept
  <2>2. CASE ~FailPending
    BY <1>3, <1>7, <2>2 DEF Disconnect, ReloadMqtt, DropClient, fireState
  <2> QED
    BY <2>1, <2>2
<1> QED
  BY <1>4, <1>5, <1>6, <1>7 DEF ControllerStep

\* A click hides its popup and leaves a command or a retry in its place.
LEMMA CheckKept ==
    ASSUME WindowInv, NEW p \in Popups, Check(p)
    PROVE  WindowInv'
<1>0. FireInv /\ Sound(ui) /\ AlwaysReached /\ Settle /\ Room(1)
  BY DEF WindowInv, Check, Recall
<1>1. ui \in UiType /\ DeletionsSound(ui) /\ ui.popup \in [Popups -> PopupType]
  BY <1>0, UiFields DEF Sound
<1>2. ui.popup[p].visible /\ ui.popup[p] # Unused
  BY <1>1, PopupKinds DEF Check
<1>3. PICK c \in Channels : c = ui.popup[p].ch
  BY <1>1, <1>2, PopupKinds
<1>4. AcknowledgeFireAlarm(c)
  BY <1>3 DEF Check
<1>5. FireInv'
  <2>1. FireNext
    BY <1>4 DEF FireNext
  <2> QED
    BY <1>0, <2>1, FireInvKept
<1>6. PICK u : u = [ui EXCEPT !.popup = Hide(ui.popup, p)]
  OBVIOUS
<1>7. PICK w \in Heard(u, signals') : ui' = DeleteLater(w, p)
  BY <1>6 DEF Check
<1>8. /\ u.popup = Hide(ui.popup, p) /\ u.queue = ui.queue
      /\ u.tracked = ui.tracked /\ u.shown = ui.shown
      /\ u = [ui EXCEPT !.popup = u.popup]
  BY <1>1, <1>6 DEF UiType
<1>9. /\ u.popup \in [Popups -> PopupType] /\ DeletionsSound(u)
      /\ \A r \in Popups : r # p => u.popup[r] = ui.popup[r]
      /\ \A r \in Popups : u.popup[r].ch = ui.popup[r].ch
      /\ \A r \in Popups : u.popup[r].alarm = ui.popup[r].alarm
      /\ \A r \in Popups : u.popup[r] = Unused <=> ui.popup[r] = Unused
      /\ \A r \in Popups : u.popup[r].visible <=> ui.popup[r].visible /\ r # p
      /\ Retries(u) = Retries(ui)
      /\ \A d \in Channels : RetryIn(u, d) <=> RetryIn(ui, d)
  BY <1>1, <1>2, <1>8, HideDoes
<1>10. u \in UiType
  BY <1>1, <1>8, <1>9 DEF UiType
<1>11. Sound(u) /\ FreePopups(u) = FreePopups(ui)
  BY <1>0, <1>8, <1>9, <1>10, SoundSame
<1>12. PICK s : s = Signal("retry", c, alarm[c].id)
  OBVIOUS
<1>13. s.kind = "retry" /\ s.ch = c /\ (Unanswered(c) => s.alarm \in Alarms)
  BY <1>0, <1>12, UnansweredIsNamed DEF Signal
<1>14. /\ alarm' = alarm /\ ackKeys \subseteq ackKeys'
       /\ \/ signals' = {} /\ (~Unanswered(c) \/ CommandKey(c) \in ackKeys')
          \/ signals' = {s} /\ Unanswered(c)
  BY <1>4, <1>12 DEF AcknowledgeFireAlarm, SkipAck, FailAck, PublishAck, fireState, command
<1>15. /\ IsFiniteSet(signals') /\ Cardinality(signals') <= 1 /\ Cardinality(signals') \in Nat
       /\ \A x \in signals' : x.kind = "retry" /\ x.ch \in Channels /\ x.alarm \in Alarms
  <2>1. signals' = {} \/ signals' = {s}
    BY <1>14
  <2>2. IsFiniteSet(signals') /\ Cardinality(signals') \in {0, 1}
    BY <2>1, FS_EmptySet, FS_Singleton
  <2>3. \A x \in signals' : x.kind = "retry" /\ x.ch \in Channels /\ x.alarm \in Alarms
    BY <1>13, <1>14
  <2> QED
    BY <2>2, <2>3
<1>16. /\ Sound(w) /\ w.popup = u.popup /\ w.shown = u.shown
       /\ FreePopups(w) = FreePopups(u)
       /\ \A d \in Channels : RetryIn(u, d) => RetryIn(w, d)
       /\ \A x \in signals' : RetryIn(w, x.ch)
       /\ Cardinality(Retries(w)) <= Cardinality(Retries(u)) + Cardinality(signals')
  BY <1>7, <1>11, <1>15, HeardRetries
<1>17. /\ ui' \in UiType /\ DeletionsSound(ui')
       /\ ui'.popup = w.popup /\ ui'.tracked = w.tracked /\ ui'.shown = w.shown
       /\ Retries(ui') = Retries(w)
       /\ \A d \in Channels : RetryIn(w, d) => RetryIn(ui', d)
  <2>1. w \in UiType /\ DeletionsSound(w) /\ w.popup[p] # Unused /\ ~w.popup[p].visible
    BY <1>2, <1>9, <1>16 DEF Sound
  <2> QED
    BY <1>7, <2>1, DeleteLaterDoes
<1>18. Sound(ui') /\ FreePopups(ui') = FreePopups(w)
  BY <1>16, <1>17, SoundSame
<1>19. RoomIn(ui')
  <2>1. /\ Cardinality(Retries(w)) \in Nat /\ Cardinality(Retries(ui)) \in Nat
        /\ Cardinality(FreePopups(ui)) \in Nat
    BY <1>1, <1>16, RetriesAreFinite DEF Sound
  <2>2. Cardinality(FreePopups(ui)) >= 1 + Cardinality(Retries(ui))
    BY <1>0 DEF Room
  <2>3. Cardinality(Retries(w)) <= Cardinality(Retries(ui)) + Cardinality(signals')
    BY <1>9, <1>16
  <2>4. Cardinality(FreePopups(ui')) = Cardinality(FreePopups(ui))
    BY <1>11, <1>16, <1>18
  <2> QED
    BY <1>15, <1>17, <2>1, <2>2, <2>3, <2>4 DEF RoomIn
<1>20. ASSUME NEW d \in Channels PROVE (Unanswered(d) => Reached(d))'
  <2>1. CASE d = c
    <3>1. CASE signals' = {s}
      <4>1. RetryIn(ui', c)
        BY <1>13, <1>16, <1>17, <3>1
      <4>2. Reached(c)'
        BY <4>1, WayFound
      <4> QED
        BY <2>1, <4>2
    <3>2. CASE ~Unanswered(c)
      <4>1. ~Unanswered(c)'
        BY <1>14, <3>2 DEF Unanswered
      <4> QED
        BY <2>1, <4>1
    <3>3. CASE CommandKey(c) \in ackKeys'
      <4>1. Suppressed(c)'
        BY <1>14, <3>3 DEF Suppressed, CommandKey, AckKey
      <4>2. Reached(c)'
        BY <4>1, WayFound
      <4> QED
        BY <2>1, <4>2
    <3> QED
      BY <1>14, <3>1, <3>2, <3>3
  <2>2. CASE d # c
    <3>1. Suppressed(d) => Suppressed(d)'
      BY <1>14 DEF Suppressed, CommandKey, AckKey
    <3>2. VisibleIn(ui, d) => VisibleIn(ui', d)
      BY <1>3, <1>9, <1>16, <1>17, <2>2 DEF VisibleIn
    <3>3. RetryIn(ui, d) => RetryIn(ui', d)
      BY <1>9, <1>16, <1>17
    <3>4. ui'.shown[d] = ui.shown[d] /\ alarm'[d] = alarm[d]
      BY <1>8, <1>14, <1>16, <1>17
    <3> QED
      BY <1>0, <3>1, <3>2, <3>3, <3>4, WayKept
  <2> QED
    BY <2>1, <2>2
<1> QED
  BY <1>0, <1>5, <1>18, <1>19, <1>20, WindowInvFrom

\* A step of the window alone leaves the controller sound.
LEMMA FireUnchanged ==
    ASSUME FireInv, UNCHANGED <<fireState, history, command>>, signals' = {}
    PROVE  FireInv'
<1>1. Typed'
  BY FireStateUnchanged, HistoryUnchanged, CommandUnchanged, NoSignals DEF FireInv, Typed
<1>2. AlarmFollowsNewestRevision'
  BY DEF FireInv, AlarmFollowsNewestRevision, fireState, AlarmOf, Open, Acked, Silent
<1>3. RecordedIsKnown'
  BY DEF FireInv, RecordedIsKnown, fireState, history
<1>4. LegacyAckKeysAreCurrent' /\ OneDeliveryOnePayload'
  BY DEF FireInv, LegacyAckKeysAreCurrent, OneDeliveryOnePayload, fireState, command, Open
<1> QED
  BY <1>1, <1>2, <1>3, <1>4 DEF FireInv

\* A posted event: a popup shown again, or one that is gone.
LEMMA RunPostedKept ==
    ASSUME WindowInv, RunPosted
    PROVE  WindowInv'
<1>0. /\ FireInv /\ Sound(ui) /\ RoomIn(ui) /\ AlwaysReached /\ Settle
      /\ ui.queue # << >> /\ UNCHANGED <<fireState, history, command>> /\ signals' = {}
  BY DEF WindowInv, RunPosted, Recall
<1>1. FireInv'
  BY <1>0, FireUnchanged
<1>2. alarm' = alarm /\ ackKeys' = ackKeys
  BY <1>0 DEF fireState, command
<1>3. ui \in UiType /\ Owned(ui) /\ DeletionsSound(ui) /\ \A d \in Channels : ShownOn(ui, d)
  BY <1>0 DEF Sound
<1>4. PICK u : u = [ui EXCEPT !.queue = Tail(ui.queue)]
  OBVIOUS
<1>5. PICK e : e = Head(ui.queue)
  OBVIOUS
<1>6. /\ u \in UiType /\ DeletionsSound(u)
      /\ u.popup = ui.popup /\ u.tracked = ui.tracked /\ u.shown = ui.shown
      /\ e \in Posted
      /\ \A p \in Popups : e = Deletion(p) =>
            /\ ui.popup[p] # Unused /\ ~ui.popup[p].visible
            /\ \A i \in DOMAIN u.queue : u.queue[i] # Deletion(p)
      /\ \A c \in Channels :
            RetryIn(ui, c) /\ ~(e.kind = "retry" /\ e.ch = c) => RetryIn(u, c)
      /\ Cardinality(Retries(u)) <= Cardinality(Retries(ui))
      /\ e.kind = "retry" => Cardinality(Retries(u)) < Cardinality(Retries(ui))
  <2>1. IsRest(u, ui) /\ IsFirst(e, ui)
    BY <1>4, <1>5 DEF IsRest, IsFirst
  <2> QED
    BY <1>0, <1>3, <2>1, TailDoes
<1>7. Sound(u) /\ FreePopups(u) = FreePopups(ui)
  BY <1>0, <1>6, SoundSame
<1>8. Owned(u) /\ \A d \in Channels : ShownOn(u, d)
  BY <1>7 DEF Sound
<1>9. /\ Cardinality(Retries(u)) \in Nat /\ Cardinality(Retries(ui)) \in Nat
      /\ IsFiniteSet(FreePopups(ui)) /\ Cardinality(FreePopups(ui)) \in Nat
      /\ Cardinality(FreePopups(ui)) >= Cardinality(Retries(ui))
  BY <1>0, <1>3, <1>6, RetriesAreFinite DEF RoomIn
<1>10. \A d \in Channels : Suppressed(d) => Suppressed(d)'
  BY <1>2 DEF Suppressed, CommandKey, AckKey
<1>11. \A d \in Channels : VisibleIn(ui, d) => VisibleIn(u, d)
  BY <1>6 DEF VisibleIn
<1>12. CASE e.kind = "retry"
  <2>1. PICK c \in Channels, a \in Alarms : c = e.ch /\ a = e.alarm
    BY <1>6, <1>12, PostedKinds
  <2>2. PICK x : x = [u EXCEPT !.shown[c] = NoId]
    OBVIOUS
  <2>3. ui' = Show(x, c, a)
    BY <1>4, <1>5, <1>12, <2>1, <2>2 DEF RunPosted, ShowAgain
  <2>4. u.shown \in [Channels -> Alarms \cup {NoId}]
    BY <1>6, UiFields
  <2>5. /\ x.popup = u.popup /\ x.tracked = u.tracked /\ x.queue = u.queue
        /\ x.shown = [u.shown EXCEPT ![c] = NoId]
        /\ x = [u EXCEPT !.shown = x.shown]
    BY <1>6, <2>2 DEF UiType
  <2>6. /\ x.shown \in [Channels -> Alarms \cup {NoId}] /\ x.shown[c] = NoId
        /\ \A d \in Channels : d # c => x.shown[d] = u.shown[d]
    BY <2>4, <2>5
  <2>7. x \in UiType
    BY <1>6, <2>5, <2>6 DEF UiType
  <2>8. /\ Owned(x) /\ DeletionsSound(x)
        /\ \A d \in Channels : d # c => ShownOn(x, d)
    BY <1>6, <1>8, <2>5, <2>6 DEF Owned, DeletionsSound, ShownOn
  <2>9. /\ FreePopups(x) = FreePopups(u) /\ Retries(x) = Retries(u)
        /\ \A d \in Channels : VisibleIn(u, d) => VisibleIn(x, d)
        /\ \A d \in Channels : RetryIn(u, d) => RetryIn(x, d)
    BY <2>5 DEF FreePopups, Retries, VisibleIn, RetryIn
  <2>10. FreePopups(x) # {} /\ x.shown[c] # a
    <3>1. Cardinality(FreePopups(ui)) # 0
      BY <1>6, <1>9, <1>12
    <3>2. FreePopups(ui) # {}
      BY <1>9, <3>1, FS_EmptySet
    <3> QED
      BY <1>7, <2>6, <2>9, <3>2, FireConstants
  <2>11. /\ ui' \in UiType /\ Owned(ui') /\ DeletionsSound(ui')
         /\ ui'.shown = [x.shown EXCEPT ![c] = a]
         /\ ShownOn(ui', c) /\ VisibleIn(ui', c)
         /\ \A d \in Channels : d # c /\ ShownOn(x, d) => ShownOn(ui', d)
         /\ \A d \in Channels : d # c /\ VisibleIn(x, d) => VisibleIn(ui', d)
         /\ Retries(ui') = Retries(x)
         /\ \A d \in Channels : RetryIn(x, d) => RetryIn(ui', d)
         /\ \E p \in FreePopups(x) : FreePopups(ui') = FreePopups(x) \ {p}
    BY <2>3, <2>7, <2>8, <2>10, ShowDoes
  <2>12. Sound(ui')
    BY <2>8, <2>11 DEF Sound
  <2>13. RoomIn(ui')
    <3>1. PICK p \in FreePopups(ui) : FreePopups(ui') = FreePopups(ui) \ {p}
      BY <1>7, <2>9, <2>11
    <3>2. Cardinality(FreePopups(ui')) = Cardinality(FreePopups(ui)) - 1
      BY <1>9, <3>1, FS_RemoveElement
    <3>3. Cardinality(Retries(ui')) = Cardinality(Retries(u))
      BY <2>9, <2>11
    <3> QED
      BY <1>6, <1>9, <1>12, <3>2, <3>3 DEF RoomIn
  <2>14. ASSUME NEW d \in Channels PROVE (Unanswered(d) => Reached(d))'
    <3>1. CASE d = c
      <4>1. Reached(c)'
        BY <2>11, WayFound
      <4> QED
        BY <3>1, <4>1
    <3>2. CASE d # c
      <4>1. ui'.shown[d] = ui.shown[d]
        BY <1>6, <2>4, <2>6, <2>11, <3>2
      <4>2. VisibleIn(ui, d) => VisibleIn(ui', d)
        BY <1>11, <2>9, <2>11, <3>2
      <4>3. RetryIn(ui, d) => RetryIn(ui', d)
        BY <1>6, <2>1, <2>9, <2>11, <3>2
      <4> QED
        BY <1>0, <1>2, <1>10, <4>1, <4>2, <4>3, WayKept
    <3> QED
      BY <3>1, <3>2
  <2> QED
    BY <1>0, <1>1, <2>12, <2>13, <2>14, WindowInvFrom
<1>13. CASE e.kind # "retry"
  <2>1. PICK p \in Popups : p = e.popup /\ e = Deletion(p)
    BY <1>6, <1>13, PostedKinds
  <2>2. ui' = Destroy(u, p)
    BY <1>4, <1>5, <1>13, <2>1 DEF RunPosted
  <2>3. /\ u.popup[p] # Unused /\ ~u.popup[p].visible
        /\ \A i \in DOMAIN u.queue : u.queue[i] # Deletion(p)
    BY <1>6, <2>1
  <2>4. /\ ui' \in UiType /\ Owned(ui') /\ DeletionsSound(ui')
        /\ ui'.shown = u.shown
        /\ \A c \in Channels : ShownOn(u, c) => ShownOn(ui', c)
        /\ \A c \in Channels : VisibleIn(u, c) => VisibleIn(ui', c)
        /\ Retries(ui') = Retries(u)
        /\ \A c \in Channels : RetryIn(u, c) => RetryIn(ui', c)
        /\ FreePopups(u) \subseteq FreePopups(ui')
    BY <1>6, <1>8, <2>2, <2>3, DestroyDoes
  <2>5. Sound(ui')
    BY <1>8, <2>4 DEF Sound
  <2>6. RoomIn(ui')
    <3>1. IsFiniteSet(FreePopups(ui')) /\ Cardinality(FreePopups(ui')) \in Nat
      BY <2>4, RetriesAreFinite
    <3>2. Cardinality(FreePopups(ui)) <= Cardinality(FreePopups(ui'))
      BY <1>7, <2>4, <3>1, FS_Subset
    <3> QED
      BY <1>6, <1>9, <2>4, <3>1, <3>2 DEF RoomIn
  <2>7. ASSUME NEW d \in Channels PROVE (Unanswered(d) => Reached(d))'
    <3>1. ui'.shown[d] = ui.shown[d]
      BY <1>6, <2>4
    <3>2. VisibleIn(ui, d) => VisibleIn(ui', d)
      BY <1>11, <2>4
    <3>3. RetryIn(ui, d) => RetryIn(ui', d)
      BY <1>6, <1>13, <2>4
    <3> QED
      BY <1>0, <1>2, <1>10, <3>1, <3>2, <3>3, WayKept
  <2> QED
    BY <1>0, <1>1, <2>5, <2>6, <2>7, WindowInvFrom
<1> QED
  BY <1>12, <1>13

\* The desk opens without an alarm, a popup or a posted event.
LEMMA WindowStarts == DeskInit => WindowInv
<1> SUFFICES ASSUME DeskInit PROVE WindowInv
  OBVIOUS
<1>1. FireInv /\ alarm = [c \in Channels |-> Silent] /\ settled = {}
  BY FireInvStarts DEF DeskInit, FireInit
<1>2. ui = [popup |-> [p \in Popups |-> Unused],
            tracked |-> [c \in Channels |-> NoPopup],
            shown |-> [c \in Channels |-> NoId],
            queue |-> << >>]
  BY DEF DeskInit
<1>3. << >> \in Seq(Posted) /\ DOMAIN << >> = {}
  OBVIOUS
<1>4. ui \in UiType
  BY <1>2, <1>3 DEF UiType, PopupType
<1>5. Sound(ui)
  BY <1>2, <1>3, <1>4 DEF Sound, Owned, DeletionsSound, ShownOn
<1>6. RoomIn(ui)
  <2>1. Retries(ui) = {}
    BY <1>2, <1>3 DEF Retries
  <2> QED
    BY <1>4, <2>1, FS_EmptySet, RetriesAreFinite DEF RoomIn
<1>7. AskedOrSettled /\ settled \subseteq Channels
  BY <1>1, <1>2 DEF AskedOrSettled
<1>8. AlwaysReached
  BY <1>1 DEF AlwaysReached, Unanswered, Silent
<1> QED
  BY <1>1, <1>5, <1>6, <1>7, <1>8 DEF WindowInv

\* A step that changes nothing.
LEMMA WindowStutters == ASSUME WindowInv, UNCHANGED deskVars PROVE WindowInv'
<1>1. /\ UNCHANGED fireVars /\ ui' = ui /\ settled' = settled
      /\ alarm' = alarm /\ ackKeys' = ackKeys
  BY DEF deskVars, past, fireVars, fireState, command
<1>2. FireInv'
  BY <1>1, FireInvKept DEF WindowInv
<1>3. Sound(ui)' /\ RoomIn(ui)'
  BY <1>1 DEF WindowInv
<1>4. settled' \subseteq Channels /\ AskedOrSettled'
  BY <1>1 DEF WindowInv, AskedOrSettled, Unanswered
<1>5. AlwaysReached'
  BY <1>1 DEF WindowInv, AlwaysReached, Unanswered, Reached, VisibleOn, RetryPosted,
              Retries, Suppressed, CommandKey, AckKey
<1> QED
  BY <1>2, <1>3, <1>4, <1>5 DEF WindowInv

----------------------------------------------------------------------------
(* The keys of commands.                                                   *)

\* The command of an alarm is pursued by a step: the alarm stays open, and no
\* session is lost with the command.
Pursued(c) == StaysOpen(c) /\ ~LosesCommand(c)

\* A step that keeps the key of an open alarm leaves it behind or pursues it.
LEMMA KeyStays ==
    ASSUME FireInv, FireNext \/ UNCHANGED <<fireState, command>>,
           NEW c \in Channels, Unanswered(c), Suppressed(c), CommandKey(c) \in ackKeys'
    PROVE  LeavesKey(c) \/ Pursued(c)
<1>0. /\ alarm \in [Channels -> AlarmType] /\ alarm[c].active /\ ~alarm[c].acked
      /\ CommandKey(c) = <<c, alarm[c].id>>
  BY DEF FireInv, Typed, AlarmTyped, Unanswered, CommandKey, AckKey
<1>1. ASSUME alarm'[c] = alarm[c], ready' = ready PROVE Pursued(c)
  BY <1>1 DEF Pursued, StaysOpen, LosesCommand, Unanswered
<1>2. CASE \E m \in Messages : ReceiveFire(m)
  <2> PICK m \in Messages : ReceiveFire(m)
    BY <1>2
  <2>1. m.ch \in Channels /\ m.id.alarm \in Alarms /\ ready' = ready
    BY MessageTyped
    DEF ReceiveFire, DiscardFire, RepeatFire, ActivateFire, AcknowledgeFire, ClearFire,
        RejectLegacyFire, command
  <2>2. CASE DiscardFire(m) \/ RepeatFire(m) \/ RejectLegacyFire(m)
    BY <1>1, <2>1, <2>2 DEF DiscardFire, RepeatFire, RejectLegacyFire, fireState
  <2>3. ASSUME m.ch # c, NEW a, EnterAlarm(m.ch, a) PROVE Pursued(c)
    BY <1>0, <1>1, <2>1, <2>3 DEF EnterAlarm
  <2>4. CASE ActivateFire(m) /\ m.ch = c
    <3>1. Renews(m)
      <4> SUFFICES ASSUME ~Renews(m) PROVE FALSE
        OBVIOUS
      <4>1. ackKeys' = ackKeys \ {<<c, alarm[c].id>>}
        BY <1>0, <2>4 DEF ActivateFire, AckKey
      <4> QED
        BY <1>0, <4>1
    <3>2. ~KeepsAck(m) /\ alarm[c].id = m.id.alarm
      BY <1>0, <2>4, <3>1 DEF KeepsAck, Renews
    <3>3. alarm'[c] = Open(alarm[c].id)
      BY <1>0, <2>4, <3>2 DEF ActivateFire, EnterAlarm
    <3> QED
      BY <1>0, <2>1, <3>3 DEF Pursued, StaysOpen, LosesCommand, Unanswered, Open
  <2>5. CASE AcknowledgeFire(m) /\ m.ch = c
    <3>1. ackKeys' = ackKeys \ {<<c, m.id.alarm>>} /\ alarm'[c] = Acked(m.id.alarm)
      BY <1>0, <2>5 DEF AcknowledgeFire, EnterAlarm, AckKey
    <3>2. m.id.alarm # alarm[c].id
      BY <1>0, <3>1
    <3> QED
      BY <3>1, <3>2 DEF LeavesKey, Acked
  <2>6. CASE ClearFire(m) /\ m.ch = c
    <3>1. <<c, alarm[c].id>> \notin ackKeys'
      BY <2>6 DEF ClearFire, AckKey
    <3> QED
      BY <1>0, <3>1
  <2>7. CASE (ActivateFire(m) \/ AcknowledgeFire(m) \/ ClearFire(m)) /\ m.ch # c
    BY <2>3, <2>7 DEF ActivateFire, AcknowledgeFire, ClearFire
  <2> QED
    BY <2>2, <2>4, <2>5, <2>6, <2>7 DEF ReceiveFire
<1>3. CASE \E e \in ForeignEvents : SeeForeignEvent(e)
  BY <1>1, <1>3 DEF SeeForeignEvent, fireState, command
<1>4. CASE \E d \in Channels : AcknowledgeFireAlarm(d) \/ ConfirmPublish(d)
  BY <1>1, <1>4 DEF AcknowledgeFireAlarm, SkipAck, FailAck, PublishAck, ConfirmPublish,
                    fireState, command
<1>5. CASE Connect
  <2>1. alarm' = alarm /\ ~ready
    BY <1>5 DEF Connect, fireState
  <2> QED
    BY <2>1 DEF Pursued, StaysOpen, LosesCommand, Unanswered
<1>6. CASE FailPending
  <2>1. alarm' = alarm /\ ackKeys' = ackKeys \ {CommandKey(d) : d \in Retryable}
    BY <1>6 DEF FailPending, fireState
  <2>2. c \notin Retryable
    BY <2>1
  <2>3. ~(pending[c] > 0)
    BY <2>2 DEF Retryable, Suppressed
  <2> QED
    BY <2>1, <2>3 DEF Pursued, StaysOpen, LosesCommand, Unanswered
<1>7. CASE DropClient
  <2>1. alarm' = alarm
    BY <1>7 DEF DropClient, fireState
  <2> QED
    BY <1>7, <2>1 DEF Pursued, StaysOpen, LeavesKey, Unanswered
<1>8. CASE UNCHANGED <<fireState, command>>
  BY <1>1, <1>8 DEF fireState, command
<1> QED
  BY <1>2, <1>3, <1>4, <1>5, <1>6, <1>7, <1>8 DEF FireNext, Disconnect, ReloadMqtt

\* A key that a step adds is that of the open alarm whose command was published.
LEMMA KeyIsNew ==
    ASSUME FireInv, FireNext \/ UNCHANGED <<fireState, command>>,
           NEW k \in ackKeys', k \notin ackKeys
    PROVE  \E c \in Channels :
              /\ Pursued(c) /\ pending'[c] > pending[c]
              /\ Unanswered(c)' /\ k = CommandKey(c)'
<1>1. \A m \in Messages : ReceiveFire(m) => ackKeys' \subseteq ackKeys
  BY DEF ReceiveFire, DiscardFire, RepeatFire, ActivateFire, AcknowledgeFire, ClearFire,
         RejectLegacyFire, command
<1>2. \A e \in ForeignEvents : SeeForeignEvent(e) => ackKeys' = ackKeys
  BY DEF SeeForeignEvent, command
<1>3. Disconnect \/ Connect \/ ReloadMqtt => ackKeys' \subseteq ackKeys
  BY DEF Disconnect, Connect, ReloadMqtt, FailPending, DropClient
<1>4. \A c \in Channels : SkipAck(c) \/ FailAck(c) \/ ConfirmPublish(c) => ackKeys' = ackKeys
  BY DEF SkipAck, FailAck, ConfirmPublish, command
<1>5. PICK c \in Channels : PublishAck(c)
  BY <1>1, <1>2, <1>3, <1>4 DEF FireNext, AcknowledgeFireAlarm, command
<1>6. /\ Unanswered(c) /\ alarm' = alarm /\ ready' = ready
      /\ ackKeys' = ackKeys \cup {CommandKey(c)}
      /\ pending' = [pending EXCEPT ![c] = @ + 1]
  BY <1>5 DEF PublishAck, fireState
<1>7. pending'[c] > pending[c]
  BY <1>6 DEF FireInv, Typed, CommandTyped
<1>8. Pursued(c) /\ Unanswered(c)'
  BY <1>6 DEF Pursued, StaysOpen, LosesCommand, Unanswered
<1>9. k = CommandKey(c)'
  BY <1>6 DEF CommandKey, AckKey
<1> QED
  BY <1>7, <1>8, <1>9

\* What Account remembers keeps every key accounted for.
LEMMA AccountsKept ==
    ASSUME FireInv, KeysAccounted, Account, FireNext \/ UNCHANGED <<fireState, command>>
    PROVE  KeysAccounted'
<1>1. underWay' \subseteq Channels /\ leaked' \subseteq ackKeys'
  BY DEF Account
<1>2. \A c \in Channels :
         Pursued(c) /\ (c \in underWay \/ pending'[c] > pending[c]) => c \in underWay'
  BY DEF Account, Pursued
<1>3. \A c \in Channels : LeavesKey(c) /\ CommandKey(c) \in ackKeys' => CommandKey(c) \in leaked'
  BY DEF Account
<1>4. ASSUME NEW k \in ackKeys' PROVE KeyAccounted(k)'
  <2>1. CASE k \notin ackKeys
    <3>1. PICK c \in Channels : /\ Pursued(c) /\ pending'[c] > pending[c]
                                /\ Unanswered(c)' /\ k = CommandKey(c)'
      BY <2>1, KeyIsNew
    <3>2. c \in underWay' /\ k[1] = c
      BY <1>2, <3>1 DEF CommandKey, AckKey
    <3> QED
      BY <3>1, <3>2 DEF KeyAccounted
  <2>2. CASE k \in leaked
    BY <2>2 DEF Account, KeyAccounted
  <2>3. CASE k \in ackKeys /\ k \notin leaked
    <3>1. /\ k \in Channels \X Alarms
          /\ Unanswered(k[1]) /\ k = CommandKey(k[1]) /\ k[1] \in underWay
      BY <2>3 DEF KeysAccounted, KeyAccounted, FireInv, Typed, CommandTyped
    <3>2. PICK c \in Channels : c = k[1]
      BY <3>1
    <3>3. Suppressed(c) /\ CommandKey(c) \in ackKeys'
      BY <2>3, <3>1, <3>2 DEF Suppressed
    <3>4. LeavesKey(c) \/ Pursued(c)
      BY <3>1, <3>2, <3>3, KeyStays
    <3>5. CASE LeavesKey(c)
      BY <1>3, <3>1, <3>2, <3>3, <3>5 DEF KeyAccounted
    <3>6. CASE Pursued(c)
      <4>1. c \in underWay' /\ Unanswered(c)' /\ alarm'[c].id = alarm[c].id
        BY <1>2, <3>1, <3>2, <3>6 DEF Pursued, StaysOpen
      <4>2. k = CommandKey(c)'
        BY <3>1, <3>2, <4>1 DEF CommandKey, AckKey
      <4> QED
        BY <3>2, <4>1, <4>2 DEF KeyAccounted
    <3> QED
      BY <3>4, <3>5, <3>6
  <2> QED
    BY <2>1, <2>2, <2>3
<1> QED
  BY <1>1, <1>4 DEF KeysAccounted

----------------------------------------------------------------------------
\* Every reachable state satisfies the invariant of the desk.
LEMMA DeskInvInductive == DeskSpec => []DeskInv
<1>1. DeskInit => DeskInv
  BY WindowStarts DEF DeskInv, KeysAccounted, DeskInit, FireInit
<1>2. ASSUME DeskInv, [DeskNext]_deskVars PROVE DeskInv'
  <2>1. FireInv /\ WindowInv /\ KeysAccounted
    BY <1>2 DEF DeskInv, WindowInv
  <2>2. WindowInv'
    BY <1>2, <2>1, ControllerKept, CheckKept, RunPostedKept, WindowStutters DEF DeskNext
  <2>3. ASSUME DeskNext PROVE KeysAccounted'
    <3>1. Account
      BY <2>3 DEF DeskNext, ControllerStep, Check, RunPosted, Recall
    <3>2. CASE ControllerStep
      BY <2>1, <3>1, <3>2, AccountsKept DEF ControllerStep, FireNext
    <3>3. ASSUME NEW p \in Popups, Check(p) PROVE KeysAccounted'
      <4>1. ui.popup[p].visible /\ AcknowledgeFireAlarm(ui.popup[p].ch)
        BY <3>3 DEF Check
      <4>2. ui.popup[p].ch \in Channels
        BY <2>1, <4>1 DEF WindowInv, Sound, UiType, PopupType, Unused
      <4>3. FireNext
        BY <4>1, <4>2 DEF FireNext
      <4> QED
        BY <2>1, <3>1, <4>3, AccountsKept
    <3>4. CASE RunPosted
      BY <2>1, <3>1, <3>4, AccountsKept DEF RunPosted
    <3> QED
      BY <2>3, <3>2, <3>3, <3>4 DEF DeskNext
  <2>4. ASSUME UNCHANGED deskVars PROVE KeysAccounted'
    BY <2>1, <2>4
    DEF deskVars, past, fireVars, fireState, command, KeysAccounted, KeyAccounted,
        Unanswered, CommandKey, AckKey
  <2> QED
    BY <1>2, <2>2, <2>3, <2>4 DEF DeskInv
<1> QED
  BY <1>1, <1>2, PTL DEF DeskSpec

\* Types of the controller and the window together, and the window's pointers:
\* whatever the order of signals, clicks, retries and deletions, the popup tracked
\* for a channel exists, is that channel's and shows the alarm last shown there.
THEOREM DeskIsConsistent == DeskSpec => []DeskConsistent
<1>1. DeskInv => DeskConsistent
  <2> SUFFICES ASSUME DeskInv PROVE DeskConsistent
    OBVIOUS
  <2>1. FireTypeOK
    BY TypedIsTypeOK DEF DeskInv, WindowInv, FireInv
  <2>2. /\ ui \in UiType /\ Owned(ui) /\ settled \subseteq Channels
        /\ underWay \subseteq Channels /\ leaked \subseteq ackKeys
        /\ \A c \in Channels : ShownOn(ui, c)
    BY DEF DeskInv, WindowInv, KeysAccounted, Sound
  <2>3. DeskTypeOK
    BY <2>1, <2>2, UiFields DEF DeskTypeOK
  <2>4. TrackedPopupIsShown
    BY <2>2 DEF TrackedPopupIsShown, Owned, ShownOn
  <2> QED
    BY <2>3, <2>4 DEF DeskConsistent
<1> QED
  BY DeskInvInductive, <1>1, PTL

\* However many channels alarm at once and in whatever order signals, clicks, lost
\* sessions and posted events come, an open alarm whose Check still counts has a
\* popup or a posted retry, but for an id shown before and settled since; and one
\* whose Check is suppressed has a command under way, published since it opened
\* and not lost with its session, but for a key that was left behind.
THEOREM AlarmsStayAnswerable == DeskSpec => []UnansweredHasAWay
<1>1. DeskInv => UnansweredHasAWay
  <2> SUFFICES ASSUME DeskInv, NEW c \in Channels, Unanswered(c) PROVE HasAWay(c)
    BY DEF UnansweredHasAWay
  <2>1. Reached(c)
    BY DEF DeskInv, WindowInv, AlwaysReached
  <2>2. Suppressed(c) => c \in underWay \/ CommandKey(c) \in leaked
    <3>1. CommandKey(c)[1] = c
      BY DEF CommandKey, AckKey
    <3> QED
      BY <3>1 DEF Suppressed, DeskInv, KeysAccounted, KeyAccounted
  <2> QED
    BY <2>1, <2>2 DEF Reached, HasAWay
<1> QED
  BY DeskInvInductive, <1>1, PTL
=============================================================================
