---------------------------- MODULE MCReviewDesk ----------------------------
(* TLC instance of ReviewDesk: turfs and administrators are interchangeable *)
(* model values.                                                            *)
EXTENDS ReviewDesk, TLC

Symmetry == Permutations(Turfs) \cup Permutations(Admins)
=============================================================================
