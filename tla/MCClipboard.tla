----------------------------- MODULE MCClipboard -----------------------------
(* One client, a text Latin-1 can carry, one that it cannot, one past the limit. *)
EXTENDS Clipboard

CONSTANTS s1, plain, wide, long
=============================================================================
