------------------------------- MODULE Fences -------------------------------
(***************************************************************************)
(* What a client may count on when it sends fences, whatever else it and   *)
(* the server say to each other in between: each is answered, once, and    *)
(* those without SyncNext in the order they were sent.  Control implements *)
(* it.                                                                     *)
(***************************************************************************)
EXTENDS Integers, Sequences, FiniteSets

CONSTANTS
    FenceKinds,   \* the fences a client asks for, by their flags
    MaxFences     \* BOUND: fences asked for

VARIABLES
    open,         \* fences asked for and not answered
    answered      \* the others, in the order of their answers

vars == <<open, answered>>

Init == open = {} /\ answered = <<>>

Ask ==
    LET id == Len(answered) + Cardinality(open) + 1
    IN /\ id \in 1 .. MaxFences
       /\ \E f \in FenceKinds :
            open' = open \cup {[id |-> id, sync |-> f.sync, block |-> f.block]}
       /\ UNCHANGED answered

Answer(f) ==
    /\ ~f.sync => \A g \in open : ~g.sync => f.id <= g.id
    /\ open' = open \ {f}
    /\ answered' = Append(answered, f)

Next == Ask \/ \E f \in open : Answer(f)

Spec == Init /\ [][Next]_vars

Waits(id) == \E f \in open : f.id = id

\* No fence waits for ever.
EachAnswered == \A id \in 1 .. MaxFences : Waits(id) ~> ~Waits(id)
=============================================================================
