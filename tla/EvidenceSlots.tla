---------------------------- MODULE EvidenceSlots ----------------------------
(***************************************************************************)
(* The parking slots that Evidence and EvidenceView speak of.              *)
(***************************************************************************)
EXTENDS Naturals, FiniteSets

CONSTANTS
    Slots,        \* parking slots
    None          \* what stands for no slot, event or image

ASSUME SlotsAssumption == IsFiniteSet(Slots) /\ None \notin Slots
=============================================================================
