-------------------------- MODULE MCMobileSession --------------------------
(* TLC instance of MobileSession.                                           *)
EXTENDS MobileSession
=============================================================================
