---------------------------- MODULE MCTurfEditor ----------------------------
(* TLC instances of TurfEditor: images, and requests, are interchangeable.  *)
EXTENDS TurfEditor, TLC

Symmetry == Permutations(Images) \cup Permutations(Calls)
=============================================================================
