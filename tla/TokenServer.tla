----------------------------- MODULE TokenServer -----------------------------
(***************************************************************************)
(* What rotation promises the clients of the API, without accounts,        *)
(* requests, statements or a clock: a refresh token is checked when it is  *)
(* presented, and a checked one is exchanged for a new token.  Once it is  *)
(* exchanged, expired or revoked a token is not accepted again.            *)
(***************************************************************************)
CONSTANT Tokens  \* the refresh tokens there can be

VARIABLES
  issued,     \* tokens the server has issued
  live,       \* tokens a check accepts
  redeeming,  \* tokens that were accepted and may still be exchanged
  rotated     \* tokens that were exchanged

rotation == <<issued, live, redeeming, rotated>>

Init == issued = {} /\ live = {} /\ redeeming = {} /\ rotated = {}

-----------------------------------------------------------------------------
(* Somebody signs in.                                                       *)
Grant(new) ==
  /\ new \in Tokens \ issued
  /\ issued' = issued \cup {new}
  /\ live' = live \cup {new}
  /\ UNCHANGED <<redeeming, rotated>>

(* A client presents a token, and it is accepted.                           *)
Accept(t) ==
  /\ t \in live
  /\ redeeming' = redeeming \cup {t}
  /\ UNCHANGED <<issued, live, rotated>>

(* An accepted token is exchanged, also when it was exchanged or revoked    *)
(* since: others may have presented it at the same time, and may still be   *)
(* about to.                                                                *)
Exchange(t, new) ==
  /\ t \in redeeming
  /\ new \in Tokens \ issued
  /\ issued' = issued \cup {new}
  /\ live' = (live \ {t}) \cup {new}
  /\ rotated' = rotated \cup {t}
  /\ redeeming' \in {redeeming, redeeming \ {t}}

(* A redemption ends without a new token.                                   *)
GiveUp(t) ==
  /\ t \in redeeming
  /\ redeeming' = redeeming \ {t}
  /\ UNCHANGED <<issued, live, rotated>>

(* Tokens expire or are revoked.                                            *)
Retire ==
  /\ live' \subseteq live
  /\ UNCHANGED <<issued, redeeming, rotated>>

Next ==
  \/ \E t \in Tokens :
       \/ Grant(t) \/ Accept(t) \/ GiveUp(t)
       \/ \E new \in Tokens : Exchange(t, new)
  \/ Retire

Spec == Init /\ [][Next]_rotation
=============================================================================
