---------------------------- MODULE MCX11Capture ----------------------------
(***************************************************************************)
(* An instance of X11Capture for TLC.                                      *)
(***************************************************************************)
EXTENDS X11Capture
=============================================================================
