------------------------------- MODULE MCRegion -------------------------------
(***************************************************************************)
(* Instances of RegionCalls for TLC: a grid small enough to have all its   *)
(* regions.                                                                *)
(***************************************************************************)
EXTENDS RegionCalls
=============================================================================
