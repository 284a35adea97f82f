------------------------------ MODULE MCIvaSetup ------------------------------
(***************************************************************************)
(* IvaSetup with one area that is defined in one of two ways or not at     *)
(* all, and two cameras.                                                   *)
(***************************************************************************)
EXTENDS IvaSetup
=============================================================================
