--------------------------- MODULE MCEvidenceView ---------------------------
(***************************************************************************)
(* EvidenceView with two slots whose images change, and three loads of     *)
(* which at most one is for the card as it is.                             *)
(***************************************************************************)
EXTENDS EvidenceView
=============================================================================
