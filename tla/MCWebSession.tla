---------------------------- MODULE MCWebSession ----------------------------
(* TLC instances of WebSession: tabs, and the calls of a page, are          *)
(* interchangeable.                                                         *)
EXTENDS WebSession, TLC

Symmetry == Permutations(Tabs) \cup Permutations(PageCalls)
=============================================================================
