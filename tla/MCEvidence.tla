----------------------------- MODULE MCEvidence -----------------------------
(***************************************************************************)
(* Evidence of two sessions at one slot, taken again while answers about   *)
(* its last vehicle are under way, beside a slot that stays empty.  The    *)
(* events of the second session carry no session id.                       *)
(***************************************************************************)
EXTENDS Evidence

CONSTANTS ev1, p1

MCHome == <<p1, p1>>
MCEvents == {<<1, "in">>, <<1, "out">>, <<2, "in">>}
=============================================================================
