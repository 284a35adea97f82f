---------------------------- MODULE MCRtspVideo ----------------------------
(***************************************************************************)
(* RtspVideo with two streams, three generations, so that two starts can   *)
(* follow each other while reports of the first are still queued, and two  *)
(* frames for each thread, so that one meets the other in the slot.        *)
(***************************************************************************)
EXTENDS RtspVideo
=============================================================================
