---------------------------- MODULE MCFireAlarm ----------------------------
(***************************************************************************)
(* FireAlarm on two channels.  The messages are those that meet: one alarm *)
(* told on both topics, its ACK and clear, a second alarm, the same from   *)
(* the protocol without revisions, and every kind of contradiction the     *)
(* preflight looks for.                                                    *)
(***************************************************************************)
EXTENDS FireAlarm

CONSTANTS c1, c2, a1, a2, e1, e2, e3, e4, d1, d2, f1

Msg(c, t, r, rev, d, e, a, act) ==
    [ch |-> c, topic |-> t, topicCh |-> c, retained |-> r,
     id |-> [event |-> e, alarm |-> a, act |-> act], rev |-> rev, delivery |-> d]

Legacy ==
    { Msg(c1, "events", FALSE, 0, NoId, e1, a1, "Activate"),
      Msg(c1, "fire", TRUE, 0, NoId, e1, a1, "Activate"),
      Msg(c1, "manual", FALSE, 0, NoId, NoId, a1, "Acknowledge"),
      Msg(c1, "fire", TRUE, 0, NoId, e2, a2, "Acknowledge"),
      Msg(c1, "events", FALSE, 0, NoId, e3, a1, "Clear"),
      Msg(c1, "events", FALSE, 0, NoId, e4, a2, "Activate") }

Versioned ==
    { Msg(c1, "fire", TRUE, 1, d1, e1, a1, "Activate"),
      Msg(c1, "events", FALSE, 1, d2, e1, a1, "Activate"),
      Msg(c1, "events", FALSE, 2, d1, e2, a1, "Acknowledge"),
      Msg(c1, "fire", TRUE, 2, d2, e2, a2, "Acknowledge"),
      Msg(c1, "events", FALSE, 3, d2, e3, a1, "Clear"),
      Msg(c1, "events", FALSE, 3, d1, e4, a1, "Activate"),
      Msg(c1, "events", FALSE, 2, d1, e1, a2, "Activate"),
      Msg(c2, "fire", TRUE, 1, d1, e1, a1, "Activate"),
      Msg(c2, "manual", FALSE, 2, d2, e3, a1, "Clear") }

Misrouted ==
    { [Msg(c1, "events", FALSE, 3, d1, e4, a1, "Activate") EXCEPT !.topicCh = c2],
      Msg(c1, "state", FALSE, 3, d1, e4, a1, "Activate") }

MCMessages == Legacy \cup Versioned \cup Misrouted
============================================================================
