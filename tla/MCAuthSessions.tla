--------------------------- MODULE MCAuthSessions ---------------------------
(* TLC instance of AuthSessions: the configurations give accounts, row ids  *)
(* and request slots as model values.                                       *)
EXTENDS AuthSessions
=============================================================================
