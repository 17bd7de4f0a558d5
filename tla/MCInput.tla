------------------------------- MODULE MCInput -------------------------------
(* A letter with its implied capital, a named key, three keysyms no layout has and two
   keycodes to spare; in the other layout the letter is where a spare was. *)
EXTENDS Input

CONSTANTS shift_l, shift_r, lower, upper, euro, check, tick, left

MCUpper == [k \in {lower} |-> upper]
MCKeys == 1 .. 6
MCLayouts ==
    {[code \in MCKeys |->
        CASE code = 1 -> <<shift_l, NoSymbol>>
          [] code = 2 -> <<shift_r, NoSymbol>>
          [] code = 6 -> <<left, NoSymbol>>
          [] code = letter -> <<lower, NoSymbol>>
          [] OTHER -> <<NoSymbol, NoSymbol>>] : letter \in {3, 5}}
=============================================================================
