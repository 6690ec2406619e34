------------------------- MODULE MCAvailabilityPage -------------------------
(* TLC instances of AvailabilityPage: requests are interchangeable.         *)
EXTENDS AvailabilityPage, TLC

Symmetry == Permutations(Calls)
=============================================================================
