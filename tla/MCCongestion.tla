---------------------------- MODULE MCCongestion ----------------------------
(***************************************************************************)
(* Instances of Congestion for TLC.  Three bytes stand for sixteen         *)
(* kilobytes, a tick for a hundred milliseconds; the timeout and the       *)
(* lifetime of the shortest round trip are shortened with the run.         *)
(***************************************************************************)
EXTENDS Congestion
=============================================================================
