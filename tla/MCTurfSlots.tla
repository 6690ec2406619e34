---------------------------- MODULE MCTurfSlots -----------------------------
(* TLC instances of TurfSlots.  Times count in steps small enough that the  *)
(* slots of two grids can overlap without starting together.                *)
EXTENDS TurfSlots

OneRange == {[date |-> 1, start |-> 1, end |-> 2]}

(* Two settings that cut a day differently and cost differently.            *)
TwoSettings == {[duration |-> 1, price |-> 5], [duration |-> 2, price |-> 7]}
=============================================================================
