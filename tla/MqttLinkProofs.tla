--------------------------- MODULE MqttLinkProofs ---------------------------
(***************************************************************************)
(* Proofs about MqttLink, for any topics, commands and width of a packet   *)
(* id, and that it implements Courier.                                     *)
(*                                                                         *)
(* MqttInv is the inductive invariant.  What the client counts agrees with *)
(* the broker because of what is on its way between them: before a session *)
(* there is one greeting in one place (Greeting), behind it there is none, *)
(* even in what is handled after an abort (Greeted), and a packet under a  *)
(* pending id is of the topic pending (Agreed), of which none is forgotten *)
(* (Covered).  Ids come round again, but not while a command is in flight  *)
(* (Recent).  A read buffer is empty when a socket connects (Framed).      *)
(***************************************************************************)
EXTENDS MqttLink, FiniteSetTheorems, SequenceTheorems, TLAPS

-----------------------------------------------------------------------------
(* The inductive invariant.                                                *)

(* How many ids ago id i was given; MaxId ago, if it is the next one.      *)
Age(i) == IF i < nextId THEN nextId - i ELSE nextId - i + MaxId

MqttTyped ==
  /\ sock \in {"none", "closed", "connecting", "connected"}
  /\ con \in 0..1 /\ ready \in BOOLEAN /\ timer \in BOOLEAN
  /\ tail \in {NoTail, 0, 1} /\ held \subseteq Topics
  /\ nextId \in Ids /\ published \in 0..PublishBound
  /\ expected \in Nat /\ active \in Nat

PacketsTyped ==
  buffer \in Seq(FromBroker) /\ wire \in Seq(FromBroker) /\ up \in Seq(ToBroker)

(* m_pendingSubscriptions and m_pendingPublishes.                          *)
PendingTyped ==
  /\ subs \in [DOMAIN subs -> Topics] /\ DOMAIN subs \subseteq Ids
  /\ pubs \in [DOMAIN pubs -> Commands] /\ DOMAIN pubs \subseteq Ids

(* Without a session there is nothing of one.                              *)
NoSession ==
  ~ready => subs = Empty /\ pubs = Empty /\ active = 0 /\ expected = 0 /\ held = {}
NoSocket == sock # "connected" => ~ready /\ wire = <<>> /\ up = <<>>

(* Before the session there is only the greeting, in one place.            *)
Connect == [kind |-> "connect"]
Connacks == [kind : {"connack"}, ok : BOOLEAN]
Greeting ==
  sock = "connected" /\ ~ready =>
    \/ up = <<Connect>> /\ wire = <<>> /\ buffer = <<>>
    \/ up = <<>> /\ \E a \in Connacks : wire = <<a>> /\ buffer = <<>>
    \/ up = <<>> /\ \E a \in Connacks : wire = <<>> /\ buffer = <<a>>

(* And afterwards none, also behind an abort.                              *)
Greeted ==
  ready \/ sock # "connected" =>
    /\ \A p \in Range(up) : p.kind # "connect"
    /\ \A p \in Range(wire) \cup Range(buffer) : p.kind # "connack"

(* Every topic is held by the broker or still to be answered for.          *)
Covered == ready => \A t \in Topics : t \in held \/ \E i \in DOMAIN subs : subs[i] = t

Counted == active + Cardinality(DOMAIN subs) = expected

(* What is asked for under an id that is pending, and what is granted under*)
(* one, is the topic pending.                                              *)
Asked(p) == p.kind = "subscribe" /\ p.id \in DOMAIN subs => subs[p.id] = p.topic
Granted(p) == p.kind = "suback" /\ p.id \in DOMAIN subs /\ p.grant # "refused" => subs[p.id] \in held
Agreed ==
  /\ \A p \in Range(up) : Asked(p)
  /\ \A p \in Range(wire) \cup Range(buffer) : Granted(p)

(* The ids of the commands in flight were given in this session.           *)
Recent == \A i \in DOMAIN pubs : Age(i) <= published

(* Start empties m_readBuffer, and only when its loop has ended.           *)
Framed ==
  /\ sock \in {"none", "connecting"} => tail = NoTail /\ buffer = <<>>
  /\ FramingIsKept

MqttInv ==
  /\ MqttTyped /\ PacketsTyped /\ PendingTyped
  /\ NoSession /\ NoSocket /\ Greeting /\ Greeted
  /\ Covered /\ Counted /\ Agreed /\ Recent /\ Framed

-----------------------------------------------------------------------------
(* Numbers, ids and sets.                                                  *)

(* One lap of the ids at most.                                             *)
LEMMA Modulo ==
  ASSUME NEW m \in Nat, m > 0, NEW x \in 0..(2 * m - 1)
  PROVE  x % m = IF x < m THEN x ELSE x - m
OBVIOUS

(* SetToSeq lists a finite set, each element once.                         *)
LEMMA Listed ==
  ASSUME NEW S, IsFiniteSet(S)
  PROVE  /\ Cardinality(S) \in Nat
         /\ SetToSeq(S) \in [1..Cardinality(S) -> S]
         /\ \A i, j \in 1..Cardinality(S) : SetToSeq(S)[i] = SetToSeq(S)[j] => i = j
         /\ \A x \in S : \E i \in 1..Cardinality(S) : SetToSeq(S)[i] = x
<1> DEFINE n == Cardinality(S)
           q == SetToSeq(S)
<1>1. n \in Nat /\ ExistsBijection(1..n, S)
  BY FS_CardinalityType
<1>2. PICK b \in [1..n -> S] : IsInjective(b)
  BY <1>1 DEF ExistsBijection, Bijection, Injection, IsInjective
<1>3. q \in [1..n -> S] /\ IsInjective(q)
  BY <1>2 DEF SetToSeq
<1>4. q \in Injection(1..n, S)
  BY <1>3 DEF Injection
<1>5. IsFiniteSet(1..n) /\ Cardinality(1..n) = n
  BY <1>1, FS_Interval
<1>6. q \in Surjection(1..n, S)
  BY <1>4, <1>5, FS_Injection
<1> QED BY <1>1, <1>3, <1>6 DEF IsInjective, Surjection

(* Subscriptions get ids of their own, and the next id follows them.       *)
LEMMA SubscriptionIds ==
  ASSUME nextId \in Ids, NEW q
  PROVE  /\ \A i \in 1..(Cardinality(Topics) + 1) : SubscriptionId(q, i) \in Ids
         /\ \A i, j \in 1..Cardinality(Topics) : SubscriptionId(q, i) = SubscriptionId(q, j) => i = j
<1> DEFINE n == Cardinality(Topics)
           x(i) == nextId - 1 + i - 1
<1>1. n \in Nat /\ MaxId \in Nat /\ n < MaxId /\ nextId \in 1..MaxId
  BY FS_CardinalityType, MqttConstants DEF Ids
<1>2. \A i \in 1..(n + 1) : x(i) \in 0..(2 * MaxId - 1)
  BY <1>1
<1>3. \A i \in 1..(n + 1) : x(i) % MaxId = IF x(i) < MaxId THEN x(i) ELSE x(i) - MaxId
  BY <1>1, <1>2, Modulo
<1>4. \A i \in 1..(n + 1) : SubscriptionId(q, i) = (IF x(i) < MaxId THEN x(i) ELSE x(i) - MaxId) + 1
  BY <1>3 DEF SubscriptionId
<1> QED BY <1>1, <1>4 DEF Ids

(* What is in a sequence that is shorter by its head, or longer.           *)
LEMMA Shorter ==
  ASSUME NEW S, NEW q \in Seq(S), q # <<>>
  PROVE  /\ Tail(q) \in Seq(S) /\ Range(Tail(q)) \subseteq Range(q)
         /\ Head(q) \in Range(q) /\ Head(q) \in S
<1>1. /\ Tail(q) \in Seq(S) /\ Head(q) \in S /\ Len(q) \in Nat /\ Len(q) > 0
      /\ Head(q) = q[1] /\ DOMAIN q = 1..Len(q)
      /\ Len(Tail(q)) = Len(q) - 1
      /\ \A i \in 1..Len(Tail(q)) : Tail(q)[i] = q[i + 1]
  BY HeadTailProperties, LenProperties
<1>2. DOMAIN Tail(q) = 1..Len(Tail(q))
  BY <1>1, LenProperties
<1>3. \A i \in DOMAIN Tail(q) : i + 1 \in DOMAIN q /\ Tail(q)[i] = q[i + 1]
  BY <1>1, <1>2
<1>4. 1 \in DOMAIN q
  BY <1>1
<1> QED BY <1>1, <1>3, <1>4 DEF Range

(* And one behind another.                                                 *)
LEMMA Longer ==
  ASSUME NEW S, NEW q \in Seq(S), NEW r \in Seq(S)
  PROVE  q \o r \in Seq(S) /\ Range(q \o r) = Range(q) \cup Range(r)
<1>1. /\ q \o r \in Seq(S) /\ Len(q \o r) = Len(q) + Len(r)
      /\ \A i \in 1..(Len(q) + Len(r)) : (q \o r)[i] = IF i <= Len(q) THEN q[i] ELSE r[i - Len(q)]
      /\ DOMAIN q = 1..Len(q) /\ DOMAIN r = 1..Len(r) /\ Len(q) \in Nat /\ Len(r) \in Nat
  BY ConcatProperties, LenProperties
<1>2. DOMAIN (q \o r) = 1..(Len(q) + Len(r))
  BY <1>1, LenProperties
<1>3. \A i \in 1..(Len(q) + Len(r)) : (q \o r)[i] \in Range(q) \cup Range(r)
  BY <1>1 DEF Range
<1>4. ASSUME NEW i \in DOMAIN q PROVE q[i] \in Range(q \o r)
  <2>1. i \in 1..(Len(q) + Len(r)) /\ (q \o r)[i] = q[i]
    BY <1>1
  <2> QED BY <1>2, <2>1 DEF Range
<1>5. ASSUME NEW i \in DOMAIN r PROVE r[i] \in Range(q \o r)
  <2>1. Len(q) + i \in 1..(Len(q) + Len(r)) /\ (q \o r)[Len(q) + i] = r[i]
    BY <1>1
  <2> QED BY <1>2, <2>1 DEF Range
<1> QED BY <1>1, <1>2, <1>3, <1>4, <1>5 DEF Range

(* And one with one more at its end.                                       *)
LEMMA OneMore ==
  ASSUME NEW S, NEW q \in Seq(S), NEW x \in S
  PROVE  Append(q, x) \in Seq(S) /\ Range(Append(q, x)) = Range(q) \cup {x}
<1> DEFINE r == <<x>>
<1>1. Append(q, x) = q \o r
  BY AppendIsConcat
<1>2. Range(r) = {x} /\ r \in Seq(S)
  BY DEF Range
<1> HIDE DEF r
<1>3. q \o r \in Seq(S) /\ Range(q \o r) = Range(q) \cup Range(r)
  BY <1>2, Longer
<1> QED BY <1>1, <1>2, <1>3

(* And a part of one.                                                      *)
LEMMA PartOf ==
  ASSUME NEW S, NEW q \in Seq(S), NEW m \in 1..(Len(q) + 1), NEW n \in 0..Len(q)
  PROVE  SubSeq(q, m, n) \in Seq(S) /\ Range(SubSeq(q, m, n)) \subseteq Range(q)
<1> DEFINE r == SubSeq(q, m, n)
<1>1. /\ r \in Seq(S) /\ Len(r) = (IF m <= n THEN n - m + 1 ELSE 0)
      /\ \A i \in 1..(n - m + 1) : r[i] = q[m + i - 1]
      /\ DOMAIN q = 1..Len(q) /\ Len(q) \in Nat
  BY SubSeqProperties, LenProperties
<1>2. DOMAIN r = 1..Len(r)
  BY <1>1, LenProperties
<1>3. \A i \in DOMAIN r : r[i] = q[m + i - 1] /\ m + i - 1 \in DOMAIN q
  BY <1>1, <1>2
<1> QED BY <1>1, <1>3 DEF Range

(* No sequence is in the empty one.                                        *)
LEMMA NoneIn == Range(<<>>) = {}
BY DEF Range

-----------------------------------------------------------------------------
(* The parts that change together.                                         *)

(* What a step keeps that does not touch the session or the packets.       *)
LEMMA Kept ==
  ASSUME MqttInv, UNCHANGED <<ready, subs, active, expected, pubs, nextId, published, held>>
  PROVE  /\ PendingTyped' /\ NoSession' /\ Covered' /\ Counted' /\ Recent'
         /\ \A p : Asked(p) => Asked(p)'
         /\ \A p : Granted(p) => Granted(p)'
<1>1. PendingTyped' /\ NoSession' /\ Covered' /\ Counted'
  BY DEF MqttInv, PendingTyped, NoSession, Covered, Counted
<1>2. Recent'
  BY DEF MqttInv, Recent, Age
<1>3. \A p : Asked(p) => Asked(p)'
  BY DEF Asked
<1>4. \A p : Granted(p) => Granted(p)'
  BY DEF Granted
<1> QED BY <1>1, <1>2, <1>3, <1>4

(* Packets that are fewer than before are still in order.                  *)
LEMMA Fewer ==
  ASSUME MqttInv, UNCHANGED <<subs, held>>,
         Range(up') \subseteq Range(up),
         Range(wire') \cup Range(buffer') \subseteq Range(wire) \cup Range(buffer)
  PROVE  Agreed'
<1>1. \A p \in Range(up') : Asked(p)'
  BY DEF MqttInv, Agreed, Asked
<1>2. \A p \in Range(wire') \cup Range(buffer') : Granted(p)'
  BY DEF MqttInv, Agreed, Granted
<1>3. Agreed' = /\ \A p \in Range(up') : Asked(p)'
                /\ \A p \in Range(wire') \cup Range(buffer') : Granted(p)'
  BY DEF Agreed, Asked, Granted
<1> QED BY <1>1, <1>2, <1>3

(* Ids are finitely many.                                                  *)
LEMMA FinitelyMany ==
  ASSUME PendingTyped
  PROVE  /\ IsFiniteSet(DOMAIN subs) /\ Cardinality(DOMAIN subs) \in Nat
         /\ IsFiniteSet(DOMAIN pubs)
<1>1. IsFiniteSet(Ids)
  BY FS_Interval, MqttConstants DEF Ids
<1>2. DOMAIN subs \in SUBSET Ids /\ DOMAIN pubs \in SUBSET Ids
  BY DEF PendingTyped
<1> QED BY <1>1, <1>2, FS_Subset, FS_CardinalityType

(* A session that ends takes everything of its own with it, whatever is    *)
(* left to be handled.                                                     *)
LEMMA Ended ==
  ASSUME MqttInv, ready' = FALSE, subs' = Empty, pubs' = Empty, expected' = 0, active' = 0,
         wire' = <<>>, up' = <<>>, held' = {}, sock' # "connected",
         buffer' \in Seq(FromBroker), \A p \in Range(buffer') : p.kind # "connack",
         nextId' \in Ids, published' \in 0..PublishBound, timer' \in BOOLEAN,
         con' \in 0..1, sock' \in {"none", "closed", "connecting"},
         tail' \in {NoTail, 0, 1}, sock' # "closed" => tail' = NoTail /\ buffer' = <<>>
  PROVE  MqttInv'
<1>1. DOMAIN Empty = {} /\ Cardinality({}) = 0 /\ Range(<<>>) = {}
  BY FS_EmptySet, NoneIn DEF Empty
<1>2. MqttTyped'
  BY DEF MqttTyped
<1>3. PacketsTyped'
  BY DEF PacketsTyped
<1>4. PendingTyped'
  BY <1>1 DEF PendingTyped, Empty
<1>5. NoSession' /\ NoSocket' /\ Greeting'
  BY DEF NoSession, NoSocket, Greeting
<1>6. Greeted'
  BY <1>1 DEF Greeted
<1>7. Covered' /\ Counted'
  BY <1>1 DEF Covered, Counted
<1>8. Agreed'
  <2>1. \A p : Granted(p)'
    BY <1>1 DEF Granted
  <2>2. Agreed' = /\ \A p \in Range(up') : Asked(p)'
                  /\ \A p \in Range(wire') \cup Range(buffer') : Granted(p)'
    BY DEF Agreed, Asked, Granted
  <2> QED BY <1>1, <2>1, <2>2
<1>9. Recent'
  BY <1>1 DEF Recent
<1>10. Framed'
  BY DEF Framed, FramingIsKept
<1> QED BY <1>2, <1>3, <1>4, <1>5, <1>6, <1>7, <1>8, <1>9, <1>10 DEF MqttInv

-----------------------------------------------------------------------------
(* Connecting.                                                             *)

(* Nothing of a session is there at first.                                 *)
LEMMA InitMqtt == MqttInit => MqttInv
<1> SUFFICES ASSUME MqttInit PROVE MqttInv
  OBVIOUS
<1>1. DOMAIN Empty = {} /\ Cardinality({}) = 0 /\ Range(<<>>) = {}
  BY FS_EmptySet, NoneIn DEF Empty
<1>2. MaxId \in Nat /\ 0 \in 0..PublishBound /\ 1 \in Ids
  BY FS_CardinalityType, MqttConstants DEF Ids
<1>3. MqttTyped /\ PacketsTyped
  <2>1. /\ sock = "connecting" /\ con = 0 /\ ready = FALSE /\ timer = FALSE /\ tail = NoTail
        /\ held = {} /\ nextId = 1 /\ published = 0 /\ expected = 0 /\ active = 0
    BY DEF MqttInit
  <2>3. nextId \in Ids /\ published \in 0..PublishBound
    BY <1>2, <2>1
  <2>5. ready \in BOOLEAN /\ timer \in BOOLEAN
    BY <2>1
  <2>6. con \in 0..1 /\ expected \in Nat /\ active \in Nat
    BY <2>1
  <2>7. tail \in {NoTail, 0, 1} /\ held \subseteq Topics
    BY <2>1
  <2>4. MqttTyped
    BY <2>1, <2>3, <2>5, <2>6, <2>7 DEF MqttTyped
  <2>2. PacketsTyped
    BY DEF MqttInit, PacketsTyped
  <2> QED BY <2>2, <2>4
<1>4. PendingTyped /\ NoSession /\ NoSocket /\ Greeting
  BY <1>1 DEF MqttInit, PendingTyped, NoSession, NoSocket, Greeting, Empty
<1>5. Greeted /\ Covered /\ Counted /\ Agreed /\ Recent /\ Framed
  BY <1>1 DEF MqttInit, Greeted, Covered, Counted, Agreed, Recent, Framed, FramingIsKept
<1> QED BY <1>3, <1>4, <1>5 DEF MqttInv

(* Starting empties the read buffer before anything is connected.          *)
LEMMA StartKeeps == MqttInv /\ Start => MqttInv'
<1> SUFFICES ASSUME MqttInv, Start PROVE MqttInv'
  OBVIOUS
<1>1. UNCHANGED <<con, sessionVars, nextId, buffer, published, brokerVars>> /\ timer' = FALSE
  BY DEF Start
<1>2. CASE sock = "closed"
  <2>1. sock' = "connecting" /\ tail' = NoTail /\ Idle
    BY <1>2 DEF Start
  <2>2. ~ready /\ wire = <<>> /\ up = <<>>
    BY <1>2 DEF MqttInv, NoSocket
  <2>3. subs = Empty /\ pubs = Empty /\ active = 0 /\ expected = 0 /\ held = {}
    BY <2>2 DEF MqttInv, NoSession
  <2>4. buffer' = <<>> /\ buffer' \in Seq(FromBroker) /\ Range(buffer') = {}
    BY <1>1, <2>1, NoneIn DEF Idle
  <2>5. con' \in 0..1 /\ nextId' \in Ids /\ published' \in 0..PublishBound
    BY <1>1 DEF MqttInv, MqttTyped
  <2>6. /\ ready' = FALSE /\ subs' = Empty /\ pubs' = Empty /\ expected' = 0 /\ active' = 0
        /\ wire' = <<>> /\ up' = <<>> /\ held' = {}
    BY <1>1, <2>2, <2>3 DEF sessionVars, brokerVars, MqttInv, MqttTyped
  <2>7. /\ sock' # "connected" /\ sock' \in {"none", "closed", "connecting"}
        /\ timer' \in BOOLEAN /\ tail' \in {NoTail, 0, 1}
    BY <1>1, <2>1
  <2> QED BY <2>1, <2>4, <2>5, <2>6, <2>7, Ended
<1>3. CASE sock # "closed"
  <2>1. UNCHANGED <<sock, tail>>
    BY <1>3 DEF Start
  <2>2. MqttTyped' /\ PacketsTyped' /\ NoSocket' /\ Greeting' /\ Greeted' /\ Framed'
    BY <1>1, <2>1 DEF MqttInv, MqttTyped, PacketsTyped, NoSocket, Greeting, Greeted, Framed,
                      FramingIsKept, sessionVars, brokerVars
  <2>3. PendingTyped' /\ NoSession' /\ Covered' /\ Counted' /\ Recent'
    BY <1>1, Kept DEF sessionVars, brokerVars
  <2>4. Agreed'
    BY <1>1, Fewer DEF sessionVars, brokerVars
  <2> QED BY <2>2, <2>3, <2>4 DEF MqttInv
<1> QED BY <1>2, <1>3

(* The greeting is the first packet of a connection.                       *)
LEMMA SocketConnectedKeeps == MqttInv /\ SocketConnected => MqttInv'
<1> SUFFICES ASSUME MqttInv, SocketConnected PROVE MqttInv'
  OBVIOUS
<1>1. /\ sock = "connecting" /\ sock' = "connected" /\ con' = 1 - con /\ published' = 0
      /\ up' = <<Connect>> /\ wire' = <<>> /\ buffer' = <<>> /\ buffer = <<>>
      /\ UNCHANGED <<ready, subs, active, expected, pubs, nextId, timer, tail, held>>
  BY DEF SocketConnected, Idle, sessionVars, Connect
<1>2. ~ready /\ subs = Empty /\ pubs = Empty
  BY <1>1 DEF MqttInv, NoSocket, NoSession
<1>3. MqttTyped'
  BY <1>1, MqttConstants DEF MqttInv, MqttTyped
<1>4. PacketsTyped'
  <2>1. Connect \in ToBroker
    BY DEF Connect, ToBroker
  <2> QED BY <1>1, <2>1 DEF PacketsTyped
<1>5. PendingTyped' /\ NoSession' /\ NoSocket' /\ Greeting' /\ Greeted' /\ Covered' /\ Counted'
  BY <1>1, <1>2 DEF MqttInv, PendingTyped, NoSession, NoSocket, Greeting, Greeted, Covered, Counted
<1>6. Agreed'
  <2>1. Range(wire') = {} /\ Range(buffer') = {} /\ Range(up') = {Connect}
    BY <1>1, NoneIn DEF Range
  <2>2. Asked(Connect)'
    BY DEF Asked, Connect
  <2>3. Agreed' = /\ \A p \in Range(up') : Asked(p)'
                  /\ \A p \in Range(wire') \cup Range(buffer') : Granted(p)'
    BY DEF Agreed, Asked, Granted
  <2> QED BY <2>1, <2>2, <2>3
<1>7. Recent'
  BY <1>1, <1>2 DEF Recent, Empty
<1>8. Framed'
  BY <1>1 DEF MqttInv, Framed, FramingIsKept
<1> QED BY <1>3, <1>4, <1>5, <1>6, <1>7, <1>8 DEF MqttInv

(* A connection that could not be made leaves nothing.                     *)
LEMMA ConnectFailsKeeps == MqttInv /\ ConnectFails => MqttInv'
<1> SUFFICES ASSUME MqttInv, ConnectFails PROVE MqttInv'
  OBVIOUS
<1>1. /\ sock = "connecting" /\ sock' = "closed" /\ timer' = TRUE /\ buffer' = <<>> /\ buffer = <<>>
      /\ UNCHANGED <<con, ready, subs, active, expected, pubs, nextId, tail, published, wire, up, held>>
  BY DEF ConnectFails, ScheduleReconnect, Idle, sessionVars, brokerVars
<1>2. ~ready /\ wire = <<>> /\ up = <<>> /\ subs = Empty /\ pubs = Empty /\ active = 0
      /\ expected = 0 /\ held = {}
  BY <1>1 DEF MqttInv, NoSocket, NoSession
<1>3. /\ con' \in 0..1 /\ nextId' \in Ids /\ published' \in 0..PublishBound
      /\ tail' \in {NoTail, 0, 1}
  BY <1>1 DEF MqttInv, MqttTyped
<1>4. buffer' \in Seq(FromBroker) /\ Range(buffer') = {}
  BY <1>1, NoneIn
<1>5. /\ ready' = FALSE /\ subs' = Empty /\ pubs' = Empty /\ expected' = 0 /\ active' = 0
      /\ wire' = <<>> /\ up' = <<>> /\ held' = {}
  BY <1>1, <1>2 DEF MqttInv, MqttTyped
<1>6. sock' # "connected" /\ sock' \in {"none", "closed", "connecting"} /\ timer' \in BOOLEAN
  BY <1>1
<1> QED BY <1>1, <1>3, <1>4, <1>5, <1>6, Ended

(* A connection that is lost or aborted takes the session with it.         *)
LEMMA DroppedKeeps ==
  ASSUME MqttInv, Dropped, sock = "connected", buffer' \in Seq(FromBroker),
         \A p \in Range(buffer') : p.kind # "connack", tail' \in {NoTail, 0, 1}
  PROVE  MqttInv'
<1>1. /\ sock' = "closed" /\ ready' = FALSE /\ subs' = Empty /\ pubs' = Empty
      /\ expected' = 0 /\ active' = 0 /\ timer' = TRUE /\ wire' = <<>> /\ up' = <<>>
      /\ held' = {} /\ UNCHANGED <<con, nextId, published>>
  BY DEF Dropped, ScheduleReconnect
<1>2. MqttTyped
  BY DEF MqttInv
<1> QED BY <1>1, <1>2, Ended DEF MqttTyped

(* The same between two reads.                                             *)
LEMMA ConnectionLostKeeps == MqttInv /\ ConnectionLost => MqttInv'
<1> SUFFICES ASSUME MqttInv, ConnectionLost PROVE MqttInv'
  OBVIOUS
<1>1. Dropped /\ sock = "connected" /\ buffer' = <<>> /\ tail' = tail
  BY DEF ConnectionLost, Idle
<1>2. tail \in {NoTail, 0, 1}
  BY DEF MqttInv, MqttTyped
<1> QED BY <1>1, <1>2, DroppedKeeps, NoneIn

(* The old client goes with everything it had.                             *)
LEMMA ReloadKeeps == MqttInv /\ Reload => MqttInv'
<1> SUFFICES ASSUME MqttInv, Reload PROVE MqttInv'
  OBVIOUS
<1>1. 1 \in Ids /\ 0 \in 0..PublishBound
  BY FS_CardinalityType, MqttConstants DEF Ids
<1>2. con \in 0..1
  BY DEF MqttInv, MqttTyped
<1>3. con' = con /\ buffer' = <<>> /\ buffer' \in Seq(FromBroker) /\ Range(buffer') = {}
  BY NoneIn DEF Reload, Idle
<1> QED BY <1>1, <1>2, <1>3, Ended DEF Reload

-----------------------------------------------------------------------------
(* Reading.                                                                *)

(* An abort ends the session, if there is one, and what is still to be     *)
(* handled is of no session.                                               *)
LEMMA AbortKeeps ==
  ASSUME MqttInv, Abort, ready \/ sock # "connected", buffer # <<>>,
         buffer' \in Seq(FromBroker), Range(buffer') \subseteq Range(buffer),
         tail' \in {tail, con}
  PROVE  MqttInv'
<1>1. tail' \in {NoTail, 0, 1} /\ \A p \in Range(buffer') : p.kind # "connack"
  BY DEF MqttInv, MqttTyped, Greeted
<1>2. CASE sock = "connected"
  <2>1. Dropped
    BY <1>2 DEF Abort
  <2> QED BY <1>1, <1>2, <2>1, DroppedKeeps
<1>3. CASE sock # "connected"
  <2>1. UNCHANGED <<sock, con, ready, subs, active, expected, pubs, nextId, timer, published,
                    wire, up, held>>
    BY <1>3 DEF Abort, sessionVars, brokerVars
  <2>2. MqttTyped'
    BY <1>1, <2>1 DEF MqttInv, MqttTyped
  <2>3. PacketsTyped' /\ NoSocket' /\ Greeting' /\ Greeted'
    BY <1>1, <1>3, <2>1 DEF MqttInv, PacketsTyped, NoSocket, Greeting, Greeted
  <2>4. PendingTyped' /\ NoSession' /\ Covered' /\ Counted' /\ Recent'
    BY <2>1, Kept
  <2>5. Agreed'
    BY <2>1, Fewer
  <2>6. Framed'
    BY <1>3, <2>1 DEF MqttInv, Framed, FramingIsKept
  <2> QED BY <2>2, <2>3, <2>4, <2>5, <2>6 DEF MqttInv
<1> QED BY <1>2, <1>3

(* What is read of a greeting that is under way is all of it or nothing.   *)
LEMMA ReadyReadKeeps == MqttInv /\ ReadyRead => MqttInv'
<1> SUFFICES ASSUME MqttInv, ReadyRead PROVE MqttInv'
  OBVIOUS
<1>1. /\ buffer = <<>> /\ sock = "connected" /\ wire # <<>>
      /\ UNCHANGED <<sock, con, ready, subs, active, expected, pubs, nextId, timer, published, up, held>>
  BY DEF ReadyRead, Idle, sessionVars
<1>2. PICK n \in 0..Len(wire) :
        /\ buffer' = SubSeq(wire, 1, n) /\ wire' = SubSeq(wire, n + 1, Len(wire))
        /\ tail' \in {NoTail} \cup (IF n < Len(wire) THEN {con} ELSE {})
  BY DEF ReadyRead
<1>3. wire \in Seq(FromBroker) /\ Len(wire) \in Nat
  BY LenProperties DEF MqttInv, PacketsTyped
<1>4. /\ buffer' \in Seq(FromBroker) /\ Range(buffer') \subseteq Range(wire)
      /\ wire' \in Seq(FromBroker) /\ Range(wire') \subseteq Range(wire)
  <2>1. /\ 1 \in 1..(Len(wire) + 1) /\ n + 1 \in 1..(Len(wire) + 1) /\ n \in 0..Len(wire)
        /\ Len(wire) \in 0..Len(wire)
    BY <1>3
  <2> QED BY <1>2, <1>3, <2>1, PartOf
<1>5. tail' \in {NoTail, con}
  BY <1>2
<1>6. MqttTyped'
  BY <1>1, <1>5 DEF MqttInv, MqttTyped
<1>7. PacketsTyped' /\ NoSocket' /\ Greeted'
  BY <1>1, <1>4 DEF MqttInv, PacketsTyped, NoSocket, Greeted
<1>8. Greeting'
  <2>1. CASE ready
    BY <1>1, <2>1 DEF Greeting
  <2>2. CASE ~ready
    <3>1. up = <<>> /\ \E a \in Connacks : wire = <<a>>
      BY <1>1, <2>2 DEF MqttInv, Greeting
    <3>2. PICK a \in Connacks : wire = <<a>>
      BY <3>1
    <3>3. \/ buffer' = <<>> /\ wire' = <<a>>
          \/ buffer' = <<a>> /\ wire' = <<>>
      <4>1. Len(wire) = 1 /\ wire \in Seq(FromBroker)
        BY <1>3, <3>2
      <4>2. n = 0 \/ n = 1
        BY <4>1
      <4>3. SubSeq(wire, 1, 0) = <<>> /\ SubSeq(wire, 2, 1) = <<>> /\ SubSeq(wire, 1, 1) = wire
        BY <4>1, SubSeqFull, SubSeqEmpty
      <4> QED BY <1>2, <3>2, <4>1, <4>2, <4>3
    <3> QED BY <1>1, <3>1, <3>3 DEF Greeting
  <2> QED BY <2>1, <2>2
<1>9. PendingTyped' /\ NoSession' /\ Covered' /\ Counted' /\ Recent'
  BY <1>1, Kept
<1>10. Agreed'
  BY <1>1, <1>4, Fewer
<1>11. Framed'
  BY <1>1, <1>5 DEF MqttInv, Framed, FramingIsKept
<1> QED BY <1>6, <1>7, <1>8, <1>9, <1>10, <1>11 DEF MqttInv

(* A session begins with a subscription under way for every topic.         *)
LEMMA Subscribes ==
  ASSUME nextId \in Ids, sock = "connected", NEW p, p.ok, ConnAck(p)
  PROVE  /\ ready' = TRUE /\ active' = 0 /\ nextId' \in Ids
         /\ subs' \in [DOMAIN subs' -> Topics] /\ DOMAIN subs' \subseteq Ids
         /\ expected' \in Nat /\ expected' = Cardinality(DOMAIN subs')
         /\ \A t \in Topics : \E i \in DOMAIN subs' : subs'[i] = t
         /\ \E q \in Seq(ToBroker) :
              /\ up' = up \o q
              /\ \A r \in Range(q) : r.kind = "subscribe" /\ r.id \in DOMAIN subs' /\ subs'[r.id] = r.topic
         /\ UNCHANGED <<sock, con, pubs, timer, published, wire, held>>
<1> DEFINE topics == SetToSeq(Topics)
           n == Cardinality(Topics)
           id(i) == SubscriptionId(topics, i)
           ids == {id(i) : i \in DOMAIN topics}
           at(j) == CHOOSE i \in DOMAIN topics : id(i) = j
           q == [i \in DOMAIN topics |-> [kind |-> "subscribe", id |-> id(i), topic |-> topics[i]]]
<1>1. /\ n \in Nat /\ topics \in [1..n -> Topics]
      /\ \A t \in Topics : \E i \in 1..n : topics[i] = t
  BY Listed, MqttConstants
<1>2. Len(topics) = n /\ DOMAIN topics = 1..n
  <2>1. topics \in Seq(Topics)
    BY <1>1, IsASeq
  <2> QED BY <1>1, <2>1, LenProperties
<1>3. /\ \A i \in 1..n : id(i) \in Ids
      /\ \A i, j \in 1..n : id(i) = id(j) => i = j
      /\ SubscriptionId(topics, n + 1) \in Ids
  BY <1>1, SubscriptionIds
<1>4. /\ ready' = TRUE /\ active' = 0 /\ expected' = Len(topics)
      /\ subs' = [j \in ids |-> topics[at(j)]]
      /\ nextId' = SubscriptionId(topics, Len(topics) + 1)
      /\ up' = up \o q
      /\ UNCHANGED <<sock, con, pubs, timer, published, wire, held>>
  BY DEF ConnAck
<1> HIDE DEF topics, n
<1>5. \A i \in 1..n : at(id(i)) = i
  BY <1>2, <1>3
<1>6. /\ DOMAIN subs' = ids /\ ids \subseteq Ids
      /\ \A i \in 1..n : id(i) \in ids /\ subs'[id(i)] = topics[i]
  <2>1. \A i \in 1..n : id(i) \in ids
    BY <1>2
  <2> QED BY <1>2, <1>3, <1>4, <1>5, <2>1
<1>7. subs' \in [ids -> Topics]
  <2>1. \A j \in ids : topics[at(j)] \in Topics
    BY <1>1, <1>2, <1>5
  <2> QED BY <1>4, <2>1
<1>8. \A t \in Topics : \E j \in ids : subs'[j] = t
  BY <1>1, <1>6
<1>9. Cardinality(ids) = n
  <2> DEFINE f == [i \in 1..n |-> id(i)]
  <2>1. f \in Bijection(1..n, ids)
    <3>1. f \in [1..n -> ids] /\ \A i \in 1..n : f[i] = id(i)
      BY <1>6
    <3>2. \A a, b \in 1..n : f[a] = f[b] => a = b
      BY <1>3
    <3>3. \A j \in ids : \E i \in 1..n : f[i] = j
      BY <1>2
    <3> QED BY <3>1, <3>2, <3>3 DEF Bijection, Injection, Surjection, IsInjective
  <2>2. ExistsBijection(1..n, ids)
    BY <2>1 DEF ExistsBijection
  <2>3. IsFiniteSet(1..n) /\ Cardinality(1..n) = n
    BY <1>1, FS_Interval
  <2> QED BY <2>2, <2>3, FS_Bijection
<1>10. /\ q \in Seq(ToBroker)
       /\ \A r \in Range(q) : r.kind = "subscribe" /\ r.id \in DOMAIN subs' /\ subs'[r.id] = r.topic
  <2>1. \A i \in 1..n : q[i] \in ToBroker
    BY <1>1, <1>2, <1>3 DEF ToBroker
  <2>2. q \in [1..n -> ToBroker]
    BY <1>2, <2>1
  <2>3. \A r \in Range(q) : \E i \in 1..n : r = q[i]
    BY <1>2 DEF Range
  <2>4. \A i \in 1..n : /\ q[i].kind = "subscribe" /\ q[i].id = id(i) /\ q[i].topic = topics[i]
    BY <1>2
  <2>5. q \in Seq(ToBroker)
    BY <1>1, <2>2, IsASeq
  <2> HIDE DEF q, id, ids
  <2> QED BY <1>6, <2>3, <2>4, <2>5
<1>11. expected' = n /\ nextId' \in Ids
  BY <1>2, <1>3, <1>4
<1> HIDE DEF q, ids
<1> QED BY <1>1, <1>4, <1>6, <1>7, <1>8, <1>9, <1>10, <1>11

(* The first packet to be handled is the greeting or is behind it.         *)
LEMMA First ==
  ASSUME MqttInv, buffer # <<>>
  PROVE  /\ Head(buffer) \in FromBroker /\ Head(buffer) \in Range(buffer)
         /\ Tail(buffer) \in Seq(FromBroker) /\ Range(Tail(buffer)) \subseteq Range(buffer)
         /\ IF Head(buffer).kind = "connack"
            THEN /\ sock = "connected" /\ ~ready /\ up = <<>> /\ wire = <<>>
                 /\ Tail(buffer) = <<>>
            ELSE ready \/ sock # "connected"
<1>1. buffer \in Seq(FromBroker)
  BY DEF MqttInv, PacketsTyped
<1>2. /\ Head(buffer) \in FromBroker /\ Head(buffer) \in Range(buffer)
      /\ Tail(buffer) \in Seq(FromBroker) /\ Range(Tail(buffer)) \subseteq Range(buffer)
  BY <1>1, Shorter
<1>3. CASE ready \/ sock # "connected"
  <2>1. Head(buffer).kind # "connack"
    BY <1>2, <1>3 DEF MqttInv, Greeted
  <2> QED BY <1>2, <1>3, <2>1
<1>4. CASE ~ready /\ sock = "connected"
  <2>1. up = <<>> /\ wire = <<>> /\ \E a \in Connacks : buffer = <<a>>
    BY <1>4 DEF MqttInv, Greeting
  <2>2. PICK a \in Connacks : buffer = <<a>>
    BY <2>1
  <2>3. Head(buffer).kind = "connack" /\ Tail(buffer) = <<>>
    BY <2>2 DEF Connacks
  <2> QED BY <1>2, <1>4, <2>1, <2>3
<1> QED BY <1>3, <1>4

(* A greeting that is accepted starts the session.                         *)
LEMMA ConnAckKeeps ==
  ASSUME MqttInv, buffer # <<>>, Head(buffer).kind = "connack", ConnAck(Head(buffer)),
         buffer' = Tail(buffer), tail' = tail
  PROVE  MqttInv'
<1> DEFINE p == Head(buffer)
<1>1. sock = "connected" /\ ~ready /\ up = <<>> /\ wire = <<>> /\ buffer' = <<>>
  BY First
<1>2. Range(up) = {} /\ Range(wire) = {} /\ Range(buffer') = {}
  BY <1>1, NoneIn
<1>3. tail \in {NoTail, 0, 1}
  BY DEF MqttInv, MqttTyped
<1>4. CASE ~p.ok
  <2>1. Dropped
    BY <1>1, <1>4 DEF ConnAck, Abort
  <2>2. buffer' \in Seq(FromBroker)
    BY First
  <2>3. tail' \in {NoTail, 0, 1}
    BY <1>3
  <2> QED BY <1>1, <1>2, <2>1, <2>2, <2>3, DroppedKeeps
<1>5. CASE p.ok
  <2>1. nextId \in Ids
    BY DEF MqttInv, MqttTyped
  <2>2. PICK q \in Seq(ToBroker) :
          /\ up' = up \o q
          /\ \A r \in Range(q) : r.kind = "subscribe" /\ r.id \in DOMAIN subs' /\ subs'[r.id] = r.topic
    BY <1>1, <1>5, <2>1, Subscribes
  <2>3. /\ ready' = TRUE /\ active' = 0 /\ nextId' \in Ids
        /\ subs' \in [DOMAIN subs' -> Topics] /\ DOMAIN subs' \subseteq Ids
        /\ expected' \in Nat /\ expected' = Cardinality(DOMAIN subs')
        /\ \A t \in Topics : \E i \in DOMAIN subs' : subs'[i] = t
        /\ UNCHANGED <<sock, con, pubs, timer, published, wire, held>>
    BY <1>1, <1>5, <2>1, Subscribes
  <2>4. up' \in Seq(ToBroker) /\ Range(up') = Range(q)
    <3>1. up \in Seq(ToBroker)
      BY DEF MqttInv, PacketsTyped
    <3>2. up \o q \in Seq(ToBroker) /\ Range(up \o q) = Range(up) \cup Range(q)
      BY <3>1, Longer
    <3> QED BY <1>2, <2>2, <3>2
  <2>5. MqttTyped'
    BY <1>3, <2>3 DEF MqttInv, MqttTyped
  <2>6. PacketsTyped'
    BY <1>1, <2>3, <2>4 DEF MqttInv, PacketsTyped
  <2>7. pubs = Empty /\ DOMAIN Empty = {}
    BY <1>1 DEF MqttInv, NoSession, Empty
  <2>8. PendingTyped' /\ NoSession' /\ NoSocket' /\ Greeting'
    BY <1>1, <2>3 DEF MqttInv, PendingTyped, NoSession, NoSocket, Greeting
  <2>9. Greeted'
    BY <1>2, <2>2, <2>3, <2>4 DEF Greeted
  <2>10. Covered' /\ Counted'
    BY <2>1, <2>3, FS_Subset, FS_Interval, MqttConstants DEF Covered, Counted, Ids
  <2>11. Agreed'
    <3>1. \A r \in Range(up') : Asked(r)'
      BY <2>2, <2>4 DEF Asked
    <3>2. Agreed' = /\ \A r \in Range(up') : Asked(r)'
                    /\ \A r \in Range(wire') \cup Range(buffer') : Granted(r)'
      BY DEF Agreed, Asked, Granted
    <3> QED BY <1>2, <2>3, <3>1, <3>2
  <2>12. Recent' /\ Framed'
    BY <1>1, <2>3, <2>7 DEF MqttInv, Recent, Framed, FramingIsKept
  <2> QED BY <2>5, <2>6, <2>8, <2>9, <2>10, <2>11, <2>12 DEF MqttInv
<1> QED BY <1>4, <1>5

(* What handling a packet behind the greeting keeps, when it drops no      *)
(* session.                                                                *)
LEMMA HandledKeeps ==
  ASSUME MqttInv, buffer # <<>>, Head(buffer).kind # "connack",
         UNCHANGED <<sock, con, ready, nextId, timer, tail, published, wire, up, held>>,
         buffer' = Tail(buffer)
  PROVE  /\ PacketsTyped' /\ NoSocket' /\ Greeting' /\ Greeted' /\ Framed'
         /\ (\A p \in Range(up) : Asked(p) => Asked(p)')
              /\ (\A p \in Range(wire) \cup Range(buffer) : Granted(p) => Granted(p)')
              => Agreed'
<1>1. /\ buffer' \in Seq(FromBroker) /\ Range(buffer') \subseteq Range(buffer)
      /\ ready \/ sock # "connected"
  BY First
<1>2. PacketsTyped' /\ NoSocket' /\ Greeting' /\ Greeted' /\ Framed'
  BY <1>1 DEF MqttInv, PacketsTyped, NoSocket, Greeting, Greeted, Framed, FramingIsKept
<1>3. Agreed' = /\ \A p \in Range(up') : Asked(p)'
                /\ \A p \in Range(wire') \cup Range(buffer') : Granted(p)'
  BY DEF Agreed, Asked, Granted
<1> QED BY <1>1, <1>2, <1>3 DEF MqttInv, Agreed

(* A confirmed command is no longer pending.                               *)
LEMMA PubAckKeeps ==
  ASSUME MqttInv, buffer # <<>>, Head(buffer).kind # "connack", PubAck(Head(buffer)),
         buffer' = Tail(buffer), tail' = tail
  PROVE  MqttInv'
<1> DEFINE id == Head(buffer).id
<1>1. /\ pubs' = [j \in DOMAIN pubs \ {id} |-> pubs[j]]
      /\ UNCHANGED <<sock, con, ready, subs, active, expected, nextId, timer, published, wire, up, held>>
  BY DEF PubAck, Without, brokerVars
<1>2. PacketsTyped' /\ NoSocket' /\ Greeting' /\ Greeted' /\ Framed'
  BY <1>1, HandledKeeps
<1>3. Agreed'
  <2>1. \A p : (Asked(p) => Asked(p)') /\ (Granted(p) => Granted(p)')
    BY <1>1 DEF Asked, Granted
  <2> QED BY <1>1, <2>1, HandledKeeps
<1>4. MqttTyped'
  BY <1>1 DEF MqttInv, MqttTyped
<1>5. PendingTyped' /\ NoSession' /\ Covered' /\ Counted'
  BY <1>1 DEF MqttInv, PendingTyped, NoSession, Covered, Counted, Empty
<1>6. Recent'
  BY <1>1 DEF MqttInv, Recent, Age
<1> QED BY <1>2, <1>3, <1>4, <1>5, <1>6 DEF MqttInv

(* A subscription that is granted is of a topic the broker holds.          *)
LEMMA SubAckKeeps ==
  ASSUME MqttInv, buffer # <<>>, Head(buffer).kind = "suback", SubAck(Head(buffer)),
         buffer' = Tail(buffer), tail' = tail
  PROVE  MqttInv'
<1> DEFINE p == Head(buffer)
<1>1. /\ buffer' \in Seq(FromBroker) /\ Range(buffer') \subseteq Range(buffer)
      /\ ready \/ sock # "connected"
      /\ p \in Range(buffer)
  BY First
<1>2. CASE p.grant = "malformed" \/ (p.grant = "refused" /\ p.id \in DOMAIN subs)
  <2>1. Abort
    BY <1>2 DEF SubAck
  <2> QED BY <1>1, <2>1, AbortKeeps
<1>3. CASE ~(p.grant = "malformed" \/ (p.grant = "refused" /\ p.id \in DOMAIN subs))
  <2>1. /\ subs' = [j \in DOMAIN subs \ {p.id} |-> subs[j]]
        /\ active' = IF p.id \in DOMAIN subs THEN active + 1 ELSE active
        /\ UNCHANGED <<sock, con, ready, expected, pubs, nextId, timer, published, wire, up, held>>
    BY <1>3 DEF SubAck, Without, brokerVars
  <2>2. PacketsTyped' /\ NoSocket' /\ Greeting' /\ Greeted' /\ Framed'
    BY <2>1, HandledKeeps
  <2>3. Agreed'
    <3>1. \A r : (Asked(r) => Asked(r)') /\ (Granted(r) => Granted(r)')
      BY <2>1 DEF Asked, Granted
    <3> QED BY <2>1, <3>1, HandledKeeps
  <2>4. active \in Nat /\ expected \in Nat
    BY DEF MqttInv, MqttTyped
  <2>5. MqttTyped'
    BY <2>1, <2>4 DEF MqttInv, MqttTyped
  <2>6. PendingTyped' /\ NoSession'
    BY <2>1 DEF MqttInv, PendingTyped, NoSession, Empty
  <2>7. Covered'
    <3>1. p.id \in DOMAIN subs => subs[p.id] \in held
      BY <1>1, <1>3 DEF MqttInv, Agreed, Granted
    <3> QED BY <2>1, <3>1 DEF MqttInv, Covered
  <2>8. Counted'
    <3>1. IsFiniteSet(DOMAIN subs) /\ Cardinality(DOMAIN subs) \in Nat
      BY FinitelyMany DEF MqttInv
    <3>2. Cardinality(DOMAIN subs \ {p.id})
            = IF p.id \in DOMAIN subs THEN Cardinality(DOMAIN subs) - 1 ELSE Cardinality(DOMAIN subs)
      BY <3>1, FS_RemoveElement
    <3>3. DOMAIN subs' = DOMAIN subs \ {p.id}
      BY <2>1
    <3>4. active + Cardinality(DOMAIN subs) = expected
      BY DEF MqttInv, Counted
    <3>5. active' + Cardinality(DOMAIN subs') = expected
      BY <2>1, <2>4, <3>1, <3>2, <3>3, <3>4
    <3> QED BY <2>1, <3>5 DEF Counted
  <2>9. Recent'
    BY <2>1 DEF MqttInv, Recent, Age
  <2> QED BY <2>2, <2>3, <2>5, <2>6, <2>7, <2>8, <2>9 DEF MqttInv
<1> QED BY <1>2, <1>3

(* One turn of the loop of onReadyRead.                                    *)
LEMMA HandleKeeps == MqttInv /\ Handle => MqttInv'
<1> SUFFICES ASSUME MqttInv, Handle PROVE MqttInv'
  OBVIOUS
<1> DEFINE p == Head(buffer)
<1>1. buffer # <<>>
  BY DEF Handle
<1>2. /\ p \in FromBroker /\ Tail(buffer) \in Seq(FromBroker)
      /\ Range(Tail(buffer)) \subseteq Range(buffer)
      /\ p.kind # "connack" => ready \/ sock # "connected"
  BY <1>1, First
<1>3. p.kind \in {"connack", "puback", "suback", "publish", "broken"}
  BY <1>2 DEF FromBroker
<1>4. CASE p.kind = "connack"
  <2>1. ConnAck(p) /\ buffer' = Tail(buffer) /\ tail' = tail
    BY <1>4 DEF Handle
  <2> QED BY <1>1, <1>4, <2>1, ConnAckKeeps
<1>5. CASE p.kind = "puback"
  <2>1. PubAck(p) /\ buffer' = Tail(buffer) /\ tail' = tail
    BY <1>5 DEF Handle
  <2> QED BY <1>1, <1>5, <2>1, PubAckKeeps
<1>6. CASE p.kind = "suback"
  <2>1. SubAck(p) /\ buffer' = Tail(buffer) /\ tail' = tail
    BY <1>6 DEF Handle
  <2> QED BY <1>1, <1>6, <2>1, SubAckKeeps
<1>7. CASE p.kind = "publish"
  <2>1. /\ buffer' = Tail(buffer) /\ tail' = tail
        /\ UNCHANGED <<sock, con, ready, subs, active, expected, pubs, nextId, timer, published,
                       wire, up, held>>
    BY <1>7 DEF Handle, Publish, sessionVars, brokerVars
  <2>2. PacketsTyped' /\ NoSocket' /\ Greeting' /\ Greeted' /\ Framed'
    BY <1>1, <1>7, <2>1, HandledKeeps
  <2>3. PendingTyped' /\ NoSession' /\ Covered' /\ Counted' /\ Recent'
    BY <2>1, Kept
  <2>4. Agreed'
    BY <1>2, <2>1, Fewer
  <2>5. MqttTyped'
    BY <2>1 DEF MqttInv, MqttTyped
  <2> QED BY <2>2, <2>3, <2>4, <2>5 DEF MqttInv
<1>8. CASE p.kind = "broken"
  <2>1. Abort /\ buffer' = <<>> /\ tail' = con
    BY <1>8 DEF Handle
  <2>2. buffer' \in Seq(FromBroker) /\ Range(buffer') \subseteq Range(buffer)
    BY <2>1, NoneIn
  <2> QED BY <1>1, <1>2, <1>8, <2>1, <2>2, AbortKeeps
<1> QED BY <1>3, <1>4, <1>5, <1>6, <1>7, <1>8

-----------------------------------------------------------------------------
(* The controller and the broker.                                          *)

(* The next id is not that of a command in flight.                         *)
LEMMA FreshId ==
  ASSUME MqttInv, published < PublishBound
  PROVE  nextId \notin DOMAIN pubs
<1>1. /\ MaxId \in Nat /\ PublishBound \in Nat /\ PublishBound < MaxId
      /\ nextId \in 1..MaxId /\ published \in 0..PublishBound
  BY FS_CardinalityType, MqttConstants DEF MqttInv, MqttTyped, Ids
<1>2. Age(nextId) = MaxId
  BY <1>1 DEF Age
<1> QED BY <1>1, <1>2 DEF MqttInv, Recent

(* A command gets a new id, and what is in flight gets older by one.       *)
LEMMA PublishCommandKeeps ==
  ASSUME MqttInv, NEW c \in Commands, PublishCommand(c)
  PROVE  MqttInv'
<1>1. /\ sock = "connected" /\ ready /\ buffer = <<>> /\ published < PublishBound
      /\ pubs' = [j \in DOMAIN pubs \cup {nextId} |-> IF j = nextId THEN c ELSE pubs[j]]
      /\ nextId' = IF nextId = MaxId THEN 1 ELSE nextId + 1
      /\ up' = Append(up, [kind |-> "publish", id |-> nextId, topic |-> c])
      /\ published' = published + 1
      /\ UNCHANGED <<sock, con, ready, subs, active, expected, timer, buffer, tail, wire, held>>
  BY DEF PublishCommand, With, After, Idle
<1>2. /\ MaxId \in Nat /\ PublishBound \in Nat /\ PublishBound < MaxId
      /\ nextId \in 1..MaxId /\ published \in 0..PublishBound
  BY FS_CardinalityType, MqttConstants DEF MqttInv, MqttTyped, Ids
<1>3. MqttTyped'
  <2>1. nextId' \in Ids /\ published' \in 0..PublishBound
    BY <1>1, <1>2 DEF Ids
  <2> QED BY <1>1, <2>1 DEF MqttInv, MqttTyped
<1> DEFINE r == [kind |-> "publish", id |-> nextId, topic |-> c]
<1>4. r \in ToBroker /\ r.kind = "publish"
  BY <1>2 DEF ToBroker, Ids
<1> HIDE DEF r
<1>5. up' \in Seq(ToBroker) /\ Range(up') = Range(up) \cup {r}
  <2>1. up \in Seq(ToBroker) /\ up' = Append(up, r)
    BY <1>1 DEF MqttInv, PacketsTyped, r
  <2> QED BY <1>4, <2>1, OneMore
<1>6. PacketsTyped' /\ NoSocket' /\ Greeting' /\ Greeted' /\ Framed'
  BY <1>1, <1>4, <1>5 DEF MqttInv, PacketsTyped, NoSocket, Greeting, Greeted, Framed, FramingIsKept
<1>7. PendingTyped' /\ NoSession' /\ Covered' /\ Counted'
  BY <1>1, <1>2 DEF MqttInv, PendingTyped, NoSession, Covered, Counted, Ids
<1>8. Agreed'
  <2>1. \A p : (Asked(p) => Asked(p)') /\ (Granted(p) => Granted(p)')
    BY <1>1 DEF Asked, Granted
  <2>2. Asked(r)
    BY <1>4 DEF Asked
  <2>3. Agreed' = /\ \A p \in Range(up') : Asked(p)'
                  /\ \A p \in Range(wire') \cup Range(buffer') : Granted(p)'
    BY DEF Agreed, Asked, Granted
  <2> QED BY <1>1, <1>5, <2>1, <2>2, <2>3 DEF MqttInv, Agreed
<1>9. Recent'
  <2>1. DOMAIN pubs' = DOMAIN pubs \cup {nextId} /\ DOMAIN pubs \subseteq 1..MaxId
    BY <1>1 DEF MqttInv, PendingTyped, Ids
  <2>2. \A i \in DOMAIN pubs : Age(i) <= published
    BY DEF MqttInv, Recent
  <2>3. ASSUME NEW i \in DOMAIN pubs' PROVE Age(i)' <= published'
    <3>1. i \in 1..MaxId
      BY <1>2, <2>1
    <3>2. Age(i)' = IF i < nextId' THEN nextId' - i ELSE nextId' - i + MaxId
      BY DEF Age
    <3>3. CASE i = nextId
      BY <1>1, <1>2, <3>1, <3>2, <3>3
    <3>4. CASE i # nextId
      <4>1. Age(i) <= published /\ Age(i) = IF i < nextId THEN nextId - i ELSE nextId - i + MaxId
        BY <2>1, <2>2, <3>4 DEF Age
      <4> QED BY <1>1, <1>2, <3>1, <3>2, <3>4, <4>1
    <3> QED BY <3>3, <3>4
  <2> QED BY <2>3 DEF Recent
<1> QED BY <1>3, <1>6, <1>7, <1>8, <1>9 DEF MqttInv

(* A command that cannot be written takes an id, and what is in flight gets*)
(* older by one.                                                           *)
LEMMA FailPublishKeeps == MqttInv /\ FailPublish => MqttInv'
<1> SUFFICES ASSUME MqttInv, FailPublish PROVE MqttInv'
  OBVIOUS
<1>1. /\ sock = "connected" /\ published < PublishBound
      /\ nextId' = IF nextId = MaxId THEN 1 ELSE nextId + 1
      /\ published' = published + 1
      /\ UNCHANGED <<sock, con, ready, subs, active, expected, pubs, timer, buffer, tail,
                     wire, up, held>>
  BY DEF FailPublish, After, sessionVars, brokerVars
<1>2. /\ MaxId \in Nat /\ PublishBound \in Nat /\ PublishBound < MaxId
      /\ nextId \in 1..MaxId /\ published \in 0..PublishBound
  BY FS_CardinalityType, MqttConstants DEF MqttInv, MqttTyped, Ids
<1>3. MqttTyped'
  <2>1. nextId' \in Ids /\ published' \in 0..PublishBound
    BY <1>1, <1>2 DEF Ids
  <2> QED BY <1>1, <2>1 DEF MqttInv, MqttTyped
<1>4. PacketsTyped' /\ NoSocket' /\ Greeting' /\ Greeted' /\ Framed'
  BY <1>1 DEF MqttInv, PacketsTyped, NoSocket, Greeting, Greeted, Framed, FramingIsKept
<1>5. PendingTyped' /\ NoSession' /\ Covered' /\ Counted'
  BY <1>1 DEF MqttInv, PendingTyped, NoSession, Covered, Counted
<1>6. Agreed'
  BY <1>1, Fewer
<1>7. Recent'
  <2>1. nextId \notin DOMAIN pubs /\ DOMAIN pubs' = DOMAIN pubs /\ DOMAIN pubs \subseteq 1..MaxId
    BY <1>1, FreshId DEF MqttInv, PendingTyped, Ids
  <2>2. \A i \in DOMAIN pubs : Age(i) <= published
    BY DEF MqttInv, Recent
  <2>3. ASSUME NEW i \in DOMAIN pubs' PROVE Age(i)' <= published'
    <3>1. i \in 1..MaxId /\ i # nextId
      BY <2>1
    <3>2. Age(i)' = IF i < nextId' THEN nextId' - i ELSE nextId' - i + MaxId
      BY DEF Age
    <3>3. Age(i) <= published /\ Age(i) = IF i < nextId THEN nextId - i ELSE nextId - i + MaxId
      BY <2>1, <2>2 DEF Age
    <3> QED BY <1>1, <1>2, <3>1, <3>2, <3>3
  <2> QED BY <2>3 DEF Recent
<1> QED BY <1>3, <1>4, <1>5, <1>6, <1>7 DEF MqttInv

(* The broker answers the greeting alone, then each packet in turn; what it*)
(* grants it holds.                                                        *)
LEMMA BrokerTakesKeeps == MqttInv /\ BrokerTakes => MqttInv'
<1> SUFFICES ASSUME MqttInv, BrokerTakes PROVE MqttInv'
  OBVIOUS
<1> DEFINE p == Head(up)
<1>1. /\ buffer = <<>> /\ sock = "connected" /\ up # <<>> /\ up' = Tail(up)
      /\ UNCHANGED <<sock, con, ready, subs, active, expected, pubs, nextId, timer, buffer, tail, published>>
  BY DEF BrokerTakes, Idle, sessionVars
<1>2. PICK reply \in Replies(p) :
        /\ wire' = wire \o reply
        /\ held' = IF p.kind = "subscribe" /\ reply[1].grant # "refused"
                   THEN held \cup {p.topic} ELSE held
  BY DEF BrokerTakes
<1>3. /\ up \in Seq(ToBroker) /\ wire \in Seq(FromBroker)
      /\ p \in ToBroker /\ p \in Range(up) /\ Tail(up) \in Seq(ToBroker) /\ Range(Tail(up)) \subseteq Range(up)
  BY <1>1, Shorter DEF MqttInv, PacketsTyped
<1>4. PICK a \in FromBroker :
        /\ reply = <<a>>
        /\ p.kind = "connect" => a \in Connacks
        /\ p.kind = "subscribe" => a.kind = "suback" /\ a.id = p.id
        /\ p.kind = "publish" => a.kind = "puback"
  <2>1. p.kind \in {"connect", "subscribe", "publish"}
    BY <1>3 DEF ToBroker
  <2>2. CASE p.kind = "connect"
    <3>1. PICK ok \in BOOLEAN : reply = <<[kind |-> "connack", ok |-> ok]>>
      BY <1>2, <2>2 DEF Replies
    <3> QED BY <2>2, <3>1 DEF FromBroker, Connacks
  <2>3. CASE p.kind = "subscribe"
    <3>1. PICK g \in Grants : reply = <<[kind |-> "suback", id |-> p.id, grant |-> g]>>
      BY <1>2, <2>3 DEF Replies
    <3>2. p.id \in Ids
      BY <1>3, <2>3 DEF ToBroker
    <3> QED BY <2>3, <3>1, <3>2 DEF FromBroker
  <2>4. CASE p.kind = "publish"
    <3>1. reply = <<[kind |-> "puback", id |-> p.id]>>
      BY <1>2, <2>4 DEF Replies
    <3>2. p.id \in Ids
      BY <1>3, <2>4 DEF ToBroker
    <3> QED BY <2>4, <3>1, <3>2 DEF FromBroker
  <2> QED BY <2>1, <2>2, <2>3, <2>4
<1>5. wire' = Append(wire, a) /\ wire' \in Seq(FromBroker) /\ Range(wire') = Range(wire) \cup {a}
  <2>1. wire' = Append(wire, a)
    BY <1>2, <1>3, <1>4, AppendIsConcat
  <2> QED BY <1>3, <2>1, OneMore
<1>6. held \subseteq held' /\ (p.kind # "subscribe" => held' = held) /\ held' \subseteq Topics
      /\ (p.kind = "subscribe" /\ a.grant # "refused" => p.topic \in held')
  <2>1. p.kind = "subscribe" => p.topic \in Topics
    BY <1>3 DEF ToBroker
  <2>2. held \subseteq Topics
    BY DEF MqttInv, MqttTyped
  <2>3. reply[1] = a
    BY <1>4
  <2> QED BY <1>2, <2>1, <2>2, <2>3
<1>7. MqttTyped'
  BY <1>1, <1>6 DEF MqttInv, MqttTyped
<1>8. PacketsTyped' /\ NoSocket' /\ Framed'
  BY <1>1, <1>3, <1>5 DEF MqttInv, PacketsTyped, NoSocket, Framed, FramingIsKept
<1>9. ~ready => /\ up = <<Connect>> /\ wire = <<>> /\ p.kind = "connect" /\ up' = <<>>
                /\ wire' = <<a>> /\ a \in Connacks
  <2>1. ~ready => up = <<Connect>> /\ wire = <<>>
    BY <1>1 DEF MqttInv, Greeting
  <2>2. up = <<Connect>> => p.kind = "connect" /\ up' = <<>>
    BY <1>1 DEF Connect
  <2>3. wire = <<>> => wire' = <<a>>
    BY <1>5
  <2> QED BY <1>4, <2>1, <2>2, <2>3
<1>10. ready => p.kind # "connect"
  BY <1>3 DEF MqttInv, Greeted
<1>11. Greeting'
  BY <1>1, <1>9 DEF Greeting
<1>12. Greeted'
  <2>1. ready => a.kind # "connack"
    <3>1. p.kind \in {"subscribe", "publish"} => a.kind # "connack"
      BY <1>4
    <3>2. p.kind \in {"connect", "subscribe", "publish"}
      BY <1>3 DEF ToBroker
    <3> QED BY <1>10, <3>1, <3>2
  <2> QED BY <1>1, <1>3, <1>5, <2>1 DEF MqttInv, Greeted
<1>13. PendingTyped' /\ Counted' /\ Recent'
  <2>1. PendingTyped' /\ Counted'
    BY <1>1 DEF MqttInv, PendingTyped, Counted
  <2>2. Recent'
    BY <1>1 DEF MqttInv, Recent, Age
  <2> QED BY <2>1, <2>2
<1>14. NoSession' /\ Covered'
  BY <1>1, <1>6, <1>9 DEF MqttInv, NoSession, Covered
<1>15. Agreed'
  <2>1. \A r : (Asked(r) => Asked(r)') /\ (Granted(r) => Granted(r)')
    BY <1>1, <1>6 DEF Asked, Granted
  <2>2. Granted(a)'
    <3>1. CASE p.kind = "subscribe"
      <4>1. Asked(p)
        BY <1>3 DEF MqttInv, Agreed
      <4> QED BY <1>1, <1>4, <1>6, <3>1, <4>1 DEF Asked, Granted
    <3>2. CASE p.kind # "subscribe"
      <4>1. a.kind # "suback"
        BY <1>3, <1>4, <3>2 DEF ToBroker, Connacks
      <4> QED BY <4>1 DEF Granted
    <3> QED BY <3>1, <3>2
  <2>3. Agreed' = /\ \A r \in Range(up') : Asked(r)'
                  /\ \A r \in Range(wire') \cup Range(buffer') : Granted(r)'
    BY DEF Agreed, Asked, Granted
  <2> QED BY <1>1, <1>3, <1>5, <2>1, <2>2, <2>3 DEF MqttInv, Agreed
<1> QED BY <1>7, <1>8, <1>11, <1>12, <1>13, <1>14, <1>15 DEF MqttInv

(* The broker sends of itself only what no session has to account for.     *)
LEMMA BrokerSendsKeeps == MqttInv /\ BrokerSends => MqttInv'
<1> SUFFICES ASSUME MqttInv, BrokerSends PROVE MqttInv'
  OBVIOUS
<1>1. /\ buffer = <<>> /\ sock = "connected" /\ held # {}
      /\ UNCHANGED <<sock, con, ready, subs, active, expected, pubs, nextId, timer, buffer, tail,
                     published, up, held>>
  BY DEF BrokerSends, Idle, sessionVars
<1>2. PICK kind \in {"publish", "broken"} : wire' = Append(wire, [kind |-> kind])
  BY DEF BrokerSends
<1> DEFINE a == [kind |-> kind]
<1>3. a \in FromBroker /\ a.kind \notin {"connack", "suback"}
  BY DEF FromBroker
<1> HIDE DEF a
<1>4. wire' \in Seq(FromBroker) /\ Range(wire') = Range(wire) \cup {a}
  <2>1. wire \in Seq(FromBroker) /\ wire' = Append(wire, a)
    BY <1>2 DEF MqttInv, PacketsTyped, a
  <2> QED BY <1>3, <2>1, OneMore
<1>5. ready
  BY <1>1 DEF MqttInv, NoSession
<1>6. MqttTyped'
  BY <1>1 DEF MqttInv, MqttTyped
<1>7. PacketsTyped' /\ NoSocket' /\ Greeting' /\ Greeted' /\ Framed'
  BY <1>1, <1>3, <1>4, <1>5 DEF MqttInv, PacketsTyped, NoSocket, Greeting, Greeted, Framed, FramingIsKept
<1>8. PendingTyped' /\ NoSession' /\ Covered' /\ Counted' /\ Recent'
  BY <1>1, Kept
<1>9. Agreed'
  <2>1. \A p : (Asked(p) => Asked(p)') /\ (Granted(p) => Granted(p)')
    BY <1>1 DEF Asked, Granted
  <2>2. Granted(a)
    BY <1>3 DEF Granted
  <2>3. Agreed' = /\ \A p \in Range(up') : Asked(p)'
                  /\ \A p \in Range(wire') \cup Range(buffer') : Granted(p)'
    BY DEF Agreed, Asked, Granted
  <2> QED BY <1>1, <1>4, <2>1, <2>2, <2>3 DEF MqttInv, Agreed
<1> QED BY <1>6, <1>7, <1>8, <1>9 DEF MqttInv

(* Every step keeps the invariant.                                         *)
LEMMA NextMqtt == MqttInv /\ [MqttNext]_mqttVars => MqttInv'
<1> SUFFICES ASSUME MqttInv, [MqttNext]_mqttVars PROVE MqttInv'
  OBVIOUS
<1>1. ASSUME NEW c \in Commands, PublishCommand(c) PROVE MqttInv'
  BY <1>1, PublishCommandKeeps
<1>2. CASE UNCHANGED mqttVars
  <2>1. UNCHANGED <<sock, con, ready, subs, active, expected, pubs, nextId, timer, buffer, tail,
                    published, wire, up, held>>
    BY <1>2 DEF mqttVars
  <2>2. MqttTyped' /\ PacketsTyped' /\ NoSocket' /\ Greeting' /\ Greeted' /\ Framed'
    BY <2>1 DEF MqttInv, MqttTyped, PacketsTyped, NoSocket, Greeting, Greeted, Framed, FramingIsKept
  <2>3. PendingTyped' /\ NoSession' /\ Covered' /\ Counted' /\ Recent'
    BY <2>1, Kept
  <2>4. Agreed'
    BY <2>1, Fewer
  <2> QED BY <2>2, <2>3, <2>4 DEF MqttInv
<1> QED BY <1>1, <1>2, StartKeeps, SocketConnectedKeeps, ConnectFailsKeeps, ConnectionLostKeeps,
           ReadyReadKeeps, HandleKeeps, FailPublishKeeps, ReloadKeeps, BrokerTakesKeeps,
           BrokerSendsKeeps DEF MqttNext

(* What the runs check is part of the invariant, or follows from it.       *)
LEMMA MqttInvImplies == MqttInv => MqttConsistent /\ FramingIsKept
<1> SUFFICES ASSUME MqttInv PROVE MqttConsistent /\ FramingIsKept
  OBVIOUS
<1>1. Cardinality(DOMAIN subs) \in Nat
  BY FinitelyMany DEF MqttInv
<1>2. active \in Nat /\ expected \in Nat /\ active + Cardinality(DOMAIN subs) = expected
  BY DEF MqttInv, MqttTyped, Counted
<1>3. active \in 0..expected
  BY <1>1, <1>2
<1>4. MqttTypeOK
  BY <1>2, <1>3 DEF MqttInv, MqttTyped, PacketsTyped, PendingTyped, MqttTypeOK
<1>5. ReadyMeansSubscribed
  <2>1. ready => sock = "connected"
    BY DEF MqttInv, NoSocket
  <2>2. ASSUME ready, subs = Empty PROVE held = Topics
    <3>1. DOMAIN subs = {}
      BY <2>2 DEF Empty
    <3>2. \A t \in Topics : t \in held
      BY <2>2, <3>1 DEF MqttInv, Covered
    <3>3. held \subseteq Topics
      BY DEF MqttInv, MqttTyped
    <3> QED BY <3>2, <3>3
  <2> QED BY <1>2, <2>1, <2>2 DEF ReadyMeansSubscribed
<1>6. FramingIsKept
  BY DEF MqttInv, Framed
<1> QED BY <1>4, <1>5, <1>6 DEF MqttConsistent

(* The client's session, its pending ids, the packets on their way and what*)
(* the broker holds agree after any connections, cuts and refusals.        *)
THEOREM MqttInvariant == MqttSpec => []MqttInv
BY InitMqtt, NextMqtt, PTL DEF MqttSpec

(* A session that counts all its subscriptions active is served by the     *)
(* broker on all topics, for any topics and any packet id width the        *)
(* commands in flight do not exhaust (handleSubAck, subscribeAll).         *)
THEOREM SessionsAgree == MqttSpec => []MqttConsistent
BY MqttInvariant, MqttInvImplies, PTL

(* No byte of an earlier connection is taken for one of this (start).      *)
THEOREM FramesAreKept == MqttSpec => []FramingIsKept
BY MqttInvariant, MqttInvImplies, PTL

-----------------------------------------------------------------------------
(* The promise of Courier, step by step.                                   *)

(* The commands in flight on topic c.                                      *)
InFlight(f, c) == {i \in DOMAIN f : f[i] = c}

(* The refinement counts them.                                             *)
LEMMA Outstanding == CourierOutstanding = [c \in Commands |-> Cardinality(InFlight(pubs, c))]
BY DEF CourierOutstanding, InFlight

(* Of no commands none is outstanding.                                     *)
LEMMA NothingOutstanding == pubs = Empty => CourierOutstanding = Sent!NoneOutstanding
<1> SUFFICES ASSUME pubs = Empty PROVE CourierOutstanding = Sent!NoneOutstanding
  OBVIOUS
<1>1. \A c : InFlight(pubs, c) = {}
  BY DEF Empty, InFlight
<1>2. Cardinality({}) = 0
  BY FS_EmptySet
<1> QED BY <1>1, <1>2, Outstanding DEF Sent!NoneOutstanding

(* A command that is taken is one more of its topic.                       *)
LEMMA AcceptsOne ==
  ASSUME MqttInv, NEW c \in Commands, PublishCommand(c)
  PROVE  Sent!Accept(c)
<1>1. /\ ready /\ ready' = ready
      /\ pubs' = [j \in DOMAIN pubs \cup {nextId} |-> IF j = nextId THEN c ELSE pubs[j]]
  BY DEF PublishCommand, With
<1>2. nextId \notin DOMAIN pubs
  BY FreshId DEF PublishCommand
<1>3. \A d \in Commands : IsFiniteSet(InFlight(pubs, d)) /\ Cardinality(InFlight(pubs, d)) \in Nat
  <2>1. IsFiniteSet(DOMAIN pubs)
    BY FinitelyMany DEF MqttInv
  <2>2. \A d \in Commands : InFlight(pubs, d) \in SUBSET DOMAIN pubs
    BY DEF InFlight
  <2> QED BY <2>1, <2>2, FS_Subset, FS_CardinalityType
<1>4. /\ InFlight(pubs', c) = InFlight(pubs, c) \cup {nextId} /\ nextId \notin InFlight(pubs, c)
      /\ \A d \in Commands \ {c} : InFlight(pubs', d) = InFlight(pubs, d)
  BY <1>1, <1>2 DEF InFlight
<1>5. Cardinality(InFlight(pubs, c) \cup {nextId}) = Cardinality(InFlight(pubs, c)) + 1
  BY <1>3, <1>4, FS_AddElement
<1>6. CourierOutstanding' = [d \in Commands |-> Cardinality(InFlight(pubs', d))]
  BY DEF CourierOutstanding, InFlight
<1>7. CourierOutstanding' = [CourierOutstanding EXCEPT ![c] = @ + 1]
  BY <1>4, <1>5, <1>6, Outstanding
<1> QED BY <1>1, <1>7 DEF Sent!Accept, CourierReady

(* A command that is confirmed was outstanding, and is no longer.          *)
LEMMA ConfirmsOne ==
  ASSUME MqttInv, NEW p, PubAck(p)
  PROVE  \/ \E c \in Commands : Sent!Confirm(c)
         \/ UNCHANGED Sent!courierVars
<1>1. pubs' = [j \in DOMAIN pubs \ {p.id} |-> pubs[j]] /\ ready' = ready
  BY DEF PubAck, Without
<1>2. CASE p.id \notin DOMAIN pubs
  <2>1. \A c : InFlight(pubs', c) = InFlight(pubs, c)
    BY <1>1, <1>2 DEF InFlight
  <2>2. CourierOutstanding' = [c \in Commands |-> Cardinality(InFlight(pubs', c))]
    BY DEF CourierOutstanding, InFlight
  <2> QED BY <1>1, <2>1, <2>2, Outstanding DEF Sent!courierVars, CourierReady
<1>3. CASE p.id \in DOMAIN pubs
  <2> DEFINE c == pubs[p.id]
  <2>1. c \in Commands
    BY <1>3 DEF MqttInv, PendingTyped
  <2>2. IsFiniteSet(InFlight(pubs, c)) /\ Cardinality(InFlight(pubs, c)) \in Nat
    <3>1. IsFiniteSet(DOMAIN pubs)
      BY FinitelyMany DEF MqttInv
    <3>2. InFlight(pubs, c) \in SUBSET DOMAIN pubs
      BY DEF InFlight
    <3> QED BY <3>1, <3>2, FS_Subset, FS_CardinalityType
  <2>3. /\ p.id \in InFlight(pubs, c) /\ InFlight(pubs', c) = InFlight(pubs, c) \ {p.id}
        /\ \A d \in Commands \ {c} : InFlight(pubs', d) = InFlight(pubs, d)
    BY <1>1, <1>3 DEF InFlight
  <2>4. Cardinality(InFlight(pubs, c) \ {p.id}) = Cardinality(InFlight(pubs, c)) - 1
    BY <2>2, <2>3, FS_RemoveElement
  <2>5. Cardinality(InFlight(pubs, c)) > 0
    BY <2>2, <2>3, FS_EmptySet
  <2>6. CourierOutstanding' = [d \in Commands |-> Cardinality(InFlight(pubs', d))]
    BY DEF CourierOutstanding, InFlight
  <2> HIDE DEF c
  <2>7. CourierOutstanding' = [CourierOutstanding EXCEPT ![c] = @ - 1] /\ CourierOutstanding[c] > 0
    BY <2>1, <2>3, <2>4, <2>5, <2>6, Outstanding
  <2> QED BY <1>1, <2>1, <2>7 DEF Sent!Confirm, CourierReady
<1> QED BY <1>2, <1>3

(* A session that ends loses every command in flight, once.                *)
LEMMA LosesAll ==
  ASSUME MqttInv, ready' = FALSE, pubs' = Empty
  PROVE  Sent!Lose \/ UNCHANGED Sent!courierVars
<1>1. CourierOutstanding' = Sent!NoneOutstanding
  <2>1. \A c : InFlight(pubs', c) = {}
    BY DEF Empty, InFlight
  <2>2. Cardinality({}) = 0
    BY FS_EmptySet
  <2>3. CourierOutstanding' = [c \in Commands |-> Cardinality(InFlight(pubs', c))]
    BY DEF CourierOutstanding, InFlight
  <2> QED BY <2>1, <2>2, <2>3 DEF Sent!NoneOutstanding
<1>2. CASE ready
  BY <1>1, <1>2 DEF Sent!Lose, CourierReady
<1>3. CASE ~ready
  <2>1. CourierOutstanding = Sent!NoneOutstanding
    BY <1>3, NothingOutstanding DEF MqttInv, NoSession
  <2>2. ready' = ready
    BY <1>3 DEF MqttInv, MqttTyped
  <2> QED BY <1>1, <2>1, <2>2 DEF Sent!courierVars, CourierReady
<1> QED BY <1>2, <1>3

(* What takes no command and answers none is not seen.                     *)
LEMMA Unseen == UNCHANGED <<ready, pubs>> => UNCHANGED Sent!courierVars
BY DEF Sent!courierVars, CourierReady, CourierOutstanding

(* An abort ends the session or is not seen.                               *)
LEMMA AbortIsALoss ==
  ASSUME MqttInv, Abort
  PROVE  Sent!Lose \/ UNCHANGED Sent!courierVars
<1>1. CASE sock = "connected"
  BY <1>1, LosesAll DEF Abort, Dropped
<1>2. CASE sock # "connected"
  BY <1>2, Unseen DEF Abort, sessionVars
<1> QED BY <1>1, <1>2

(* Handling a packet opens the session, answers a command or loses all.    *)
LEMMA HandleIsCourier ==
  ASSUME MqttInv, Handle
  PROVE  Sent!Next \/ UNCHANGED Sent!courierVars
<1> DEFINE p == Head(buffer)
<1>1. p \in FromBroker /\ (p.kind = "connack" => sock = "connected" /\ ~ready)
  BY First DEF Handle
<1>2. p.kind \in {"connack", "puback", "suback", "publish", "broken"}
  BY <1>1 DEF FromBroker
<1>3. CASE p.kind = "connack"
  <2>1. ConnAck(p)
    BY <1>3 DEF Handle
  <2>2. CASE ~p.ok
    BY <2>1, <2>2, AbortIsALoss DEF ConnAck, Sent!Next
  <2>3. CASE p.ok
    <3>1. ready' = TRUE /\ pubs' = pubs
      BY <2>1, <2>3 DEF ConnAck
    <3>2. CourierOutstanding' = CourierOutstanding
      BY <3>1 DEF CourierOutstanding
    <3> QED BY <1>1, <1>3, <3>1, <3>2 DEF Sent!Next, Sent!Open, CourierReady
  <2> QED BY <2>2, <2>3
<1>4. CASE p.kind = "puback"
  BY <1>4, ConfirmsOne DEF Handle, Sent!Next
<1>5. CASE p.kind = "suback"
  <2>1. SubAck(p)
    BY <1>5 DEF Handle
  <2>2. Abort \/ UNCHANGED <<ready, pubs>>
    BY <2>1 DEF SubAck
  <2> QED BY <2>2, AbortIsALoss, Unseen DEF Sent!Next
<1>6. CASE p.kind = "publish"
  BY <1>6, Unseen DEF Handle, Publish, sessionVars
<1>7. CASE p.kind = "broken"
  BY <1>7, AbortIsALoss DEF Handle, Sent!Next
<1> QED BY <1>2, <1>3, <1>4, <1>5, <1>6, <1>7

(* Every step is one of Courier's, or is not seen.                         *)
LEMMA StepIsCourier == MqttInv /\ [MqttNext]_mqttVars => [Sent!Next]_(Sent!courierVars)
<1> SUFFICES ASSUME MqttInv, [MqttNext]_mqttVars PROVE Sent!Next \/ UNCHANGED Sent!courierVars
  OBVIOUS
<1>1. CASE Start \/ SocketConnected \/ ConnectFails \/ ReadyRead \/ FailPublish \/ BrokerTakes
           \/ BrokerSends
  BY <1>1, Unseen DEF Start, SocketConnected, ConnectFails, ReadyRead, FailPublish, BrokerTakes,
                      BrokerSends, sessionVars
<1>2. CASE ConnectionLost
  BY <1>2, LosesAll DEF ConnectionLost, Dropped, Sent!Next
<1>3. CASE Handle
  BY <1>3, HandleIsCourier
<1>4. ASSUME NEW c \in Commands, PublishCommand(c) PROVE Sent!Next
  BY <1>4, AcceptsOne DEF Sent!Next
<1>5. CASE Reload
  BY <1>5, LosesAll DEF Reload, Sent!Next
<1>6. CASE UNCHANGED mqttVars
  BY <1>6, Unseen DEF mqttVars
<1> QED BY <1>1, <1>2, <1>3, <1>4, <1>5, <1>6 DEF MqttNext

(* No command is outstanding at first.                                     *)
LEMMA InitIsCourier == MqttInit => Sent!Init
BY NothingOutstanding DEF MqttInit, Sent!Init, CourierReady

(* MqttLink implements Courier: each command taken is confirmed once or    *)
(* lost with its session, never both, for any topics, commands and number  *)
(* of connections (publish, handlePubAck, onSocketDisconnected).           *)
THEOREM ImplementsCourier == MqttSpec => CommandsAnsweredOnce
BY InitIsCourier, StepIsCourier, MqttInvariant, PTL DEF MqttSpec, CommandsAnsweredOnce, Sent!Spec
=============================================================================
