---------------------------- MODULE MCServerLink ----------------------------
(***************************************************************************)
(* ServerLink with two thresholds, two regions and a back-off of three     *)
(* steps, the last of which meets its bound.                               *)
(***************************************************************************)
EXTENDS ServerLink
=============================================================================
