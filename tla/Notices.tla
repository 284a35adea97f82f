------------------------------- MODULE Notices -------------------------------
(***************************************************************************)
(* The list behind the bell: which monitoring events become a notification, *)
(* which remove some, and how the list is bounded (NotificationPolicy,      *)
(* NotificationCenter). An event is [src, type, status]; the types are      *)
(* those that the client records, grouped as the policy's tests on their    *)
(* names group them. Texts, severities and the read marks are left out.     *)
(***************************************************************************)
EXTENDS Naturals, Sequences, FiniteSets

CONSTANT NoticeLimit   \* kMaxNotifications
ASSUME NoticeLimitAssumption == NoticeLimit \in Nat \ {0}

Fire == {"FIRE_SUSPECTED", "FIRE_ACK_REQUESTED", "FIRE_ACK_PUBLISH_FAILED",
         "FIRE_ACKNOWLEDGED", "FIRE_CLEARED"}
Hall == {"HALL_SENSOR_ERROR", "HALL_SENSOR_CLEAR"}
Violations == {"NON_EV_ALERT", "OVERTIME_ALERT"}
Errors == {"API_ERROR", "HALL_SENSOR_ERROR"}

Resolution(e) ==
    \/ e.type \in Fire \ {"FIRE_SUSPECTED"}               \* contains ACK or CLEAR
    \/ e.type \in {"HALL_SENSOR_CLEAR", "ALARM_ACK"}
    \/ e.status \in {"ACKED", "CLEARED"}

Notifiable(e) ==
    /\ e.status \notin {"RECORDED", "DONE", "SKIPPED", "REJECTED"}
    /\ \/ e.type \in {"FIRE_SUSPECTED"} \cup Violations \cup Errors
       \/ e.status \in {"OPEN", "FAILED"} /\ e.type = "ALARM_ACK"

\* Whether an event of type t ends a notification of type n.
SameGroup(n, t) ==
    \/ n = t
    \/ n \in Fire /\ t \in Fire
    \/ n \in Hall /\ t \in Hall
    \/ t = "ALARM_ACK" /\ n \in Violations \cup Errors
    \/ t = "SLOT_VACATED" /\ n \in Violations

NoticeOf(list) == {list[i] : i \in DOMAIN list}

\* The list without some of its notifications, in the order it has.
Without(list, gone) ==
    LET kept == {i \in DOMAIN list : list[i] \notin gone}
        rank == [i \in kept |-> Cardinality({j \in kept : j <= i})]
    IN  [k \in 1..Cardinality(kept) |-> list[CHOOSE i \in kept : rank[i] = k]]

Resolve(list, e) ==
    IF e.src = "ALL" THEN << >>
    ELSE Without(list, {n \in NoticeOf(list) : n.src = e.src /\ SameGroup(n.type, e.type)})

\* A notification of the same source and type is replaced, the newest is the
\* first, and the oldest beyond the limit is dropped.
Upsert(list, e) ==
    LET new == [src |-> e.src, type |-> e.type]
        all == <<new>> \o Without(list, {new})
    IN  SubSeq(all, 1, IF Len(all) > NoticeLimit THEN NoticeLimit ELSE Len(all))

\* Mistake: whatever event the source sends ends its notifications.
IngestAnything(list, e) ==
    IF Resolution(e) \/ e.status = "RECORDED"
    THEN Without(list, {n \in NoticeOf(list) : n.src = e.src})
    ELSE IF Notifiable(e) THEN Upsert(list, e) ELSE list

Ingest(list, e) ==
    IF Resolution(e) THEN Resolve(list, e)
    ELSE IF Notifiable(e) THEN Upsert(list, e) ELSE list
=============================================================================
