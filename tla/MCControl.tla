------------------------------ MODULE MCControl ------------------------------
(***************************************************************************)
(* An instance of Control for TLC: the kinds of message and fence a client *)
(* makes use of.                                                           *)
(***************************************************************************)
EXTENDS Control

Fence(sync, block) == [sync |-> sync, block |-> block]

\* SyncNext and BlockAfter, one of them or none.
OneFlag == {Fence(FALSE, FALSE), Fence(TRUE, FALSE), Fence(FALSE, TRUE)}

Everything == {"request", "enable", "disable", "talk"}
=============================================================================
