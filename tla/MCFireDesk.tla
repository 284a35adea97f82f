------------------------------ MODULE MCFireDesk ------------------------------
(***************************************************************************)
(* FireDesk on two channels.  The first has two alarms: the old protocol   *)
(* opens, acknowledges and clears one; the revisioned one acknowledges the *)
(* other, opens it, and opens the first again, each over any of the        *)
(* revisions before.  The second channel has an alarm that only opens, so  *)
(* that a lost session can post two retries.                               *)
(***************************************************************************)
EXTENDS FireDesk

CONSTANTS c1, c2, a1, a2, e1, e2, e3, e4, d1

Msg(rev, e, a, act) ==
    [ch |-> c1, topic |-> "events", topicCh |-> c1, retained |-> FALSE,
     id |-> [event |-> e, alarm |-> a, act |-> act], rev |-> rev,
     delivery |-> IF rev = 0 THEN NoId ELSE d1]

MCMessages ==
    { Msg(0, e1, a1, "Activate"), Msg(0, e2, a1, "Acknowledge"),
      Msg(0, e3, a1, "Clear"), Msg(1, e2, a2, "Acknowledge"),
      Msg(2, e4, a2, "Activate"), Msg(3, e3, a1, "Activate"),
      [Msg(0, e4, a2, "Activate") EXCEPT !.ch = c2, !.topicCh = c2] }
=============================================================================
