--------------------------- MODULE MCDxgiCapture ---------------------------
(***************************************************************************)
(* An instance of DxgiCapture for TLC.                                     *)
(***************************************************************************)
EXTENDS DxgiCapture

\* One monitor; the same with another to the left of it; a wider one.
SomeLayouts ==
    {<<[left |-> 0, right |-> 1]>>,
     <<[left |-> 0, right |-> 1], [left |-> -1, right |-> 0]>>,
     <<[left |-> 0, right |-> 2]>>}
=============================================================================
