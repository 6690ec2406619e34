-------------------------- MODULE AuthSessionsProofs --------------------------
(***************************************************************************)
(* What AuthSessions guarantees for any number of accounts, rows and       *)
(* concurrent requests.  None of the invariants is inductive by itself:    *)
(* IInv adds what a handler may rely on between two of its statements.     *)
(***************************************************************************)
EXTENDS AuthSessions, FiniteSetTheorems, TLAPS

(* What req[r] tells about the handler r: the account and the tokens it     *)
(* works with exist, a token to be replaced is revoked by the time issue()  *)
(* starts, and the row to be signed is the row that was inserted.           *)
HandlerInv ==
  \A r \in Requests :
    /\ req[r].pc # "idle" => req[r].user \in Users
    /\ req[r].pc \in {"readUser", "revoke"} =>
         /\ req[r].presented \in TokenIds
         /\ refresh_tokens[req[r].presented].status # "none"
    /\ req[r].pc = "issue" /\ req[r].presented # NoToken =>
         refresh_tokens[req[r].presented].status = "revoked"
    /\ req[r].pc = "sign" =>
         /\ req[r].inserted \in TokenIds
         /\ refresh_tokens[req[r].inserted].status # "none"
         /\ refresh_tokens[req[r].inserted].user_id = req[r].user
         /\ refresh_tokens[req[r].inserted].expires_at = req[r].expires

StateInv == TypeOK /\ HandlerInv

(* Administrators are created out of band, before the server runs.          *)
AdminsExist == \A u \in Admins : account[u] # "absent"

-----------------------------------------------------------------------------
(* Revoking a token changes nothing of a row but its status, and that only  *)
(* from "live" to "revoked".                                                *)
LEMMA RevokeEffect ==
  ASSUME TypeOK, NEW t \in TokenIds, RevokeRefreshToken(t)
  PROVE  /\ refresh_tokens' \in [TokenIds -> Row]
         /\ refresh_tokens[t].status # "none" => refresh_tokens'[t].status = "revoked"
         /\ \A c \in TokenIds :
              /\ refresh_tokens'[c].user_id = refresh_tokens[c].user_id
              /\ refresh_tokens'[c].expires_at = refresh_tokens[c].expires_at
              /\ refresh_tokens'[c].parent = refresh_tokens[c].parent
              /\ (refresh_tokens'[c].status = "none") <=> (refresh_tokens[c].status = "none")
              /\ refresh_tokens[c].status = "revoked" => refresh_tokens'[c] = refresh_tokens[c]
  BY DEF TypeOK, Row, RevokeRefreshToken

(* Cutting off the fraction of a second loses less than a second.           *)
LEMMA ClaimBounds ==
  ASSUME NEW t \in Nat
  PROVE  NumericDate(t) \in Nat /\ NumericDate(t) <= t /\ t < NumericDate(t) + Second
<1>1. t % Second \in 0 .. Second - 1
  BY SecondAssumption
<1>2. t % Second <= t
  BY SecondAssumption
<1> QED BY <1>1, <1>2, SecondAssumption DEF NumericDate

(* The initial state satisfies the type and handler invariants.             *)
LEMMA InitStateInv == Init => StateInv
  BY AccountsAssumption, TokensAssumption, TimeAssumption
     DEF Init, StateInv, TypeOK, HandlerInv, Row, NoRow, Request, Idle,
         RefreshClaims, AccessClaims

(* Every step of the specification preserves the type and handler           *)
(* invariants.                                                              *)
LEMMA NextStateInv == StateInv /\ [Next]_vars => StateInv'
<1> SUFFICES ASSUME StateInv, [Next]_vars PROVE StateInv'
  OBVIOUS
<1> USE AccountsAssumption, TokensAssumption, TTLAssumption DEF StateInv
<1>1. CASE Tick
  BY <1>1 DEF Tick, TypeOK, HandlerInv
<1>2. ASSUME NEW jwt \in held, Logout(jwt) PROVE StateInv'
  <2>1. jwt.jti \in TokenIds
    BY DEF TypeOK, RefreshClaims
  <2>2. CASE RevokeRefreshToken(jwt.jti)
    BY <1>2, <2>1, <2>2, RevokeEffect DEF Logout, TypeOK, HandlerInv, Request
  <2>3. CASE UNCHANGED refresh_tokens
    BY <1>2, <2>3 DEF Logout, TypeOK, HandlerInv
  <2> QED BY <1>2, <2>2, <2>3 DEF Logout
<1>3. ASSUME NEW r \in Requests, NEW u \in Users, RegisterCreateUser(r, u) PROVE StateInv'
  BY <1>3 DEF RegisterCreateUser, Issuing, Idle, TypeOK, HandlerInv, Request
<1>4. ASSUME NEW r \in Requests, NEW u \in Users, LoginReadUser(r, u) PROVE StateInv'
  BY <1>4 DEF LoginReadUser, Issuing, Idle, TypeOK, HandlerInv, Request
<1>5. ASSUME NEW r \in Requests, NEW jwt \in held, RefreshReadRow(r, jwt) PROVE StateInv'
  BY <1>5 DEF RefreshReadRow, Usable, Idle, TypeOK, HandlerInv, Request, RefreshClaims
<1>6. ASSUME NEW r \in Requests, NEW jwt \in access, Authenticate(r, jwt) PROVE StateInv'
  BY <1>6 DEF Authenticate, Idle, TypeOK, HandlerInv, Request, AccessClaims
<1>7. ASSUME NEW r \in Requests, RefreshReadUser(r) PROVE StateInv'
  BY <1>7 DEF RefreshReadUser, Goto, Finish, Idle, TypeOK, HandlerInv, Request
<1>8. ASSUME NEW r \in Requests, RefreshRevoke(r) PROVE StateInv'
  <2>1. /\ req[r].presented \in TokenIds
        /\ refresh_tokens[req[r].presented].status # "none"
    BY <1>8 DEF RefreshRevoke, HandlerInv
  <2>2. TypeOK'
    <3>1. req' \in [Requests -> Request]
      BY <1>8 DEF RefreshRevoke, Goto, TypeOK, Request
    <3>2. refresh_tokens' \in [TokenIds -> Row]
      BY <1>8, <2>1, RevokeEffect DEF RefreshRevoke
    <3> QED BY <1>8, <3>1, <3>2 DEF RefreshRevoke, TypeOK
  <2>3. HandlerInv'
    BY <1>8, <2>1, RevokeEffect DEF RefreshRevoke, Goto, TypeOK, HandlerInv, Request
  <2> QED BY <2>2, <2>3
<1>9. ASSUME NEW r \in Requests, CreateRefreshToken(r) PROVE StateInv'
  <2>1. PICK id \in TokenIds :
          /\ refresh_tokens[id].status = "none"
          /\ refresh_tokens' = [refresh_tokens EXCEPT
                                  ![id] = [status     |-> "live",
                                           user_id    |-> req[r].user,
                                           expires_at |-> now + RefreshTTL,
                                           parent     |-> req[r].presented]]
          /\ req' = [req EXCEPT ![r] = [@ EXCEPT !.pc = "sign", !.inserted = id,
                                                   !.expires = now + RefreshTTL]]
    BY <1>9 DEF CreateRefreshToken, Generated
  <2>2. UNCHANGED <<now, account, held, access>> /\ req[r].pc = "issue"
    BY <1>9 DEF CreateRefreshToken, Generated
  <2>3. TypeOK'
    <3>1. req[r].user \in Users /\ req[r].presented \in TokenIds \cup {NoToken}
      BY <2>2 DEF TypeOK, Request, HandlerInv
    <3>2. now + RefreshTTL \in Nat
      BY DEF TypeOK
    <3>3. req' \in [Requests -> Request]
      BY <2>1, <3>2, ZenonT(60) DEF TypeOK, Request
    <3>4. refresh_tokens' \in [TokenIds -> Row]
      BY <2>1, <3>1, <3>2 DEF TypeOK, Row
    <3> QED BY <2>2, <3>3, <3>4 DEF TypeOK
  <2>4. HandlerInv'
    BY <2>1, <2>2 DEF TypeOK, Request, Row, HandlerInv
  <2> QED BY <2>3, <2>4
<1>10. ASSUME NEW r \in Requests, SignPair(r) PROVE StateInv'
  <2>1. NumericDate(now + AccessTTL) \in Nat /\ NumericDate(req[r].expires) \in Nat
    BY ClaimBounds DEF TypeOK, Request
  <2> QED
    BY <1>10, <2>1 DEF SignPair, Finish, Idle, TypeOK, HandlerInv, Request, RefreshClaims,
       AccessClaims
<1>11. ASSUME NEW r \in Requests, NEW target \in Users, NEW active \in BOOLEAN,
              SetUserActive(r, target, active)
       PROVE  StateInv'
  BY <1>11 DEF SetUserActive, Finish, Idle, TypeOK, HandlerInv, Request
<1>12. ASSUME NEW r \in Requests, EndRequest(r) PROVE StateInv'
  BY <1>12 DEF EndRequest, Finish, Idle, TypeOK, HandlerInv, Request
<1>13. CASE UNCHANGED vars
  BY <1>13 DEF vars, TypeOK, HandlerInv
<1> QED
  BY <1>1, <1>2, <1>3, <1>4, <1>5, <1>6, <1>7, <1>8, <1>9, <1>10, <1>11, <1>12, <1>13
     DEF Next, Serve

(* Each variable stays within its type, and what a handler remembers        *)
(* between two statements stays true of the tables.                         *)
THEOREM StateInvariant == Spec => []StateInv
  BY InitStateInv, NextStateInv, PTL DEF Spec

(* The type invariant the runs check.                                       *)
THEOREM TypeCorrect == Spec => []TypeOK
<1>1. StateInv => TypeOK
  BY DEF StateInv
<1> QED BY <1>1, StateInvariant, PTL

-----------------------------------------------------------------------------
(* How a step changes the tables: a row changes only by being inserted or   *)
(* revoked, and an inserted row's parent is revoked or NoToken.             *)
LEMMA RowSteps ==
  ASSUME StateInv, [Next]_vars
  PROVE  \/ UNCHANGED refresh_tokens
         \/ \E t \in TokenIds : RevokeRefreshToken(t)
         \/ \E r \in Requests : CreateRefreshToken(r)
  BY DEF Next, Serve, vars, StateInv, TypeOK, HandlerInv, RefreshClaims, Tick, Logout,
         RegisterCreateUser, LoginReadUser, RefreshReadRow, RefreshReadUser, RefreshRevoke,
         SignPair, Authenticate, SetUserActive, EndRequest

(* Rows keep their contents once inserted, and a revoked row its status.    *)
LEMMA RowsKept ==
  ASSUME StateInv, [Next]_vars, NEW t \in TokenIds, refresh_tokens[t].status # "none"
  PROVE  /\ refresh_tokens'[t].status # "none"
         /\ refresh_tokens'[t].user_id = refresh_tokens[t].user_id
         /\ refresh_tokens'[t].expires_at = refresh_tokens[t].expires_at
         /\ refresh_tokens'[t].parent = refresh_tokens[t].parent
         /\ refresh_tokens[t].status = "revoked" => refresh_tokens'[t] = refresh_tokens[t]
<1>1. CASE UNCHANGED refresh_tokens
  BY <1>1
<1>2. CASE \E c \in TokenIds : RevokeRefreshToken(c)
  BY <1>2, RevokeEffect DEF StateInv
<1>3. CASE \E r \in Requests : CreateRefreshToken(r)
  BY <1>3 DEF CreateRefreshToken, Generated, StateInv, TypeOK
<1> QED BY <1>1, <1>2, <1>3, RowSteps

(* A revoked refresh token is never revived (repository.go,                 *)
(* RevokeRefreshToken: "WHERE revoked_at IS NULL").                         *)
THEOREM RevocationFinal == Spec => RevocationIsFinal
<1>1. StateInv /\ [Next]_vars =>
        [\A t \in TokenIds :
           refresh_tokens[t].status = "revoked" => refresh_tokens'[t] = refresh_tokens[t]]_vars
  BY RowsKept
<1> QED BY <1>1, StateInvariant, PTL DEF Spec, RevocationIsFinal

(* The row behind a refresh token in a client's hands exists, belongs to    *)
(* the same account and expires no sooner than the token and less than a    *)
(* second after it (token.go, RefreshExpiry and Refresh).                   *)
THEOREM RowsAgree == Spec => []RowAgreesWithClaims
<1>1. Init => RowAgreesWithClaims
  BY DEF Init, RowAgreesWithClaims
<1>2. StateInv /\ RowAgreesWithClaims /\ [Next]_vars => RowAgreesWithClaims'
  <2> SUFFICES ASSUME StateInv, RowAgreesWithClaims, [Next]_vars
               PROVE  RowAgreesWithClaims'
    OBVIOUS
  <2>1. \A jwt \in held : /\ refresh_tokens'[jwt.jti].status # "none"
                          /\ refresh_tokens'[jwt.jti].user_id = jwt.sub
                          /\ jwt.exp <= refresh_tokens'[jwt.jti].expires_at
                          /\ refresh_tokens'[jwt.jti].expires_at < jwt.exp + Second
    BY RowsKept DEF RowAgreesWithClaims, StateInv, TypeOK, RefreshClaims
  <2>2. CASE held' = held
    BY <2>1, <2>2 DEF RowAgreesWithClaims
  <2>3. ASSUME NEW r \in Requests, SignPair(r) PROVE RowAgreesWithClaims'
    <3>1. /\ held' = held \cup {[jti |-> req[r].inserted, sub |-> req[r].user,
                                 exp |-> NumericDate(req[r].expires)]}
          /\ UNCHANGED refresh_tokens
      BY <2>3 DEF SignPair
    <3>2. /\ refresh_tokens[req[r].inserted].status # "none"
          /\ refresh_tokens[req[r].inserted].user_id = req[r].user
          /\ refresh_tokens[req[r].inserted].expires_at = req[r].expires
      BY <2>3 DEF SignPair, StateInv, HandlerInv
    <3>3. /\ NumericDate(req[r].expires) <= req[r].expires
          /\ req[r].expires < NumericDate(req[r].expires) + Second
      BY ClaimBounds DEF StateInv, TypeOK, Request
    <3> QED BY <2>1, <3>1, <3>2, <3>3 DEF RowAgreesWithClaims
  <2>4. held' = held \/ \E r \in Requests : SignPair(r)
    BY DEF Next, Serve, vars, Tick, Logout, RegisterCreateUser, LoginReadUser,
           RefreshReadRow, RefreshReadUser, RefreshRevoke, CreateRefreshToken, Generated,
           Authenticate, SetUserActive, EndRequest
  <2> QED BY <2>2, <2>3, <2>4
<1> QED BY <1>1, <1>2, StateInvariant, PTL DEF Spec

(* A replacement's parent is revoked before the replacement exists.         *)
THEOREM ReplacedRevoked == Spec => []ReplacedIsRevoked
<1>1. Init => ReplacedIsRevoked
  BY DEF Init, NoRow, ReplacedIsRevoked, Children
<1>2. StateInv /\ ReplacedIsRevoked /\ [Next]_vars => ReplacedIsRevoked'
  <2> SUFFICES ASSUME StateInv, ReplacedIsRevoked, [Next]_vars,
                      NEW t \in TokenIds, NEW c \in TokenIds, c \in Children(t)'
               PROVE  refresh_tokens'[t].status = "revoked"
    BY DEF ReplacedIsRevoked, Children
  <2>1. CASE c \in Children(t)
    BY <2>1, RowsKept DEF ReplacedIsRevoked
  <2>2. CASE c \notin Children(t)
    <3>1. refresh_tokens[c].status = "none"
      BY <2>2, RowsKept DEF Children
    <3>2. PICK r \in Requests : CreateRefreshToken(r)
      <4>1. ~ UNCHANGED refresh_tokens
        BY <2>2 DEF Children
      <4>2. ASSUME NEW d \in TokenIds, RevokeRefreshToken(d) PROVE FALSE
        BY <3>1, <4>2, RevokeEffect DEF Children, StateInv
      <4> QED BY <4>1, <4>2, RowSteps
    <3>3. req[r].pc = "issue" /\ req[r].presented = t
      BY <3>1, <3>2 DEF CreateRefreshToken, Generated, Children, StateInv, TypeOK
    <3>4. refresh_tokens[t].status = "revoked"
      BY <3>3, TokensAssumption DEF StateInv, HandlerInv
    <3> QED BY <3>4, RowsKept
  <2> QED BY <2>1, <2>2
<1> QED BY <1>1, <1>2, StateInvariant, PTL DEF Spec

-----------------------------------------------------------------------------
(* What one INSERT INTO refresh_tokens does to the table and its request.   *)
LEMMA CreateEffect ==
  ASSUME StateInv, NEW r \in Requests, CreateRefreshToken(r)
  PROVE  /\ \E id \in TokenIds :
              /\ refresh_tokens[id].status = "none"
              /\ refresh_tokens'[id].parent = req[r].presented
              /\ \A c \in TokenIds \ {id} : refresh_tokens'[c] = refresh_tokens[c]
         /\ req[r].pc = "issue" /\ req'[r].pc = "sign" /\ req'[r].user = req[r].user
         /\ \A q \in Requests \ {r} : req'[q] = req[q]
         /\ UNCHANGED account
  BY DEF CreateRefreshToken, Generated, StateInv, TypeOK, Request

(* The sets RedemptionsBounded counts are finite.                           *)
LEMMA CountedSetsFinite ==
  ASSUME NEW t \in TokenIds
  PROVE  /\ IsFiniteSet(Children(t)) /\ IsFiniteSet(Children(t)')
         /\ IsFiniteSet(Redeeming(t)) /\ IsFiniteSet(Redeeming(t)')
         /\ Cardinality(Children(t)) \in Nat /\ Cardinality(Children(t)') \in Nat
         /\ Cardinality(Redeeming(t)) \in Nat /\ Cardinality(Redeeming(t)') \in Nat
         /\ Cardinality(Requests) \in Nat
<1>1. /\ Children(t) \in SUBSET TokenIds /\ Children(t)' \in SUBSET TokenIds
      /\ Redeeming(t) \in SUBSET Requests /\ Redeeming(t)' \in SUBSET Requests
  BY DEF Children, Redeeming
<1>2. /\ IsFiniteSet(Children(t)) /\ IsFiniteSet(Children(t)')
      /\ IsFiniteSet(Redeeming(t)) /\ IsFiniteSet(Redeeming(t)')
  BY <1>1, FS_Subset, TokensAssumption, RequestsAssumption
<1> QED BY <1>2, FS_CardinalityType, RequestsAssumption

(* A step that does not start or complete a redemption of t adds neither a  *)
(* replacement of t nor a redeeming request.                                *)
LEMMA OtherStepsAddNothing ==
  ASSUME StateInv, [Next]_vars, NEW t \in TokenIds,
         \A r \in Requests, jwt \in held : RefreshReadRow(r, jwt) => jwt.jti # t,
         \A r \in Requests : CreateRefreshToken(r) => req[r].presented # t
  PROVE  Children(t)' \subseteq Children(t) /\ Redeeming(t)' \subseteq Redeeming(t)
<1>1. Children(t)' \subseteq Children(t)
  <2> SUFFICES ASSUME NEW c \in TokenIds, c \in Children(t)', refresh_tokens[c].status = "none"
               PROVE  FALSE
    BY RowsKept DEF Children
  <2>1. ~ UNCHANGED refresh_tokens
    BY DEF Children
  <2>2. ASSUME NEW d \in TokenIds, RevokeRefreshToken(d) PROVE FALSE
    BY <2>2, RevokeEffect DEF Children, StateInv
  <2>3. ASSUME NEW r \in Requests, CreateRefreshToken(r) PROVE FALSE
    <3>1. req[r].presented # t
      BY <2>3
    <3> QED BY <2>3, <3>1, CreateEffect DEF Children
  <2> QED BY <2>1, <2>2, <2>3, RowSteps
<1>2. Redeeming(t)' \subseteq Redeeming(t)
  <2> USE TokensAssumption DEF Redeeming, StateInv, TypeOK, Request
  <2>1. ASSUME NEW r \in Requests, NEW u \in Users, RegisterCreateUser(r, u) \/ LoginReadUser(r, u)
        PROVE  Redeeming(t)' \subseteq Redeeming(t)
    BY <2>1, ZenonT(60) DEF RegisterCreateUser, LoginReadUser, Issuing, Idle
  <2>2. ASSUME NEW r \in Requests, NEW jwt \in held, RefreshReadRow(r, jwt)
        PROVE  Redeeming(t)' \subseteq Redeeming(t)
    BY <2>2 DEF RefreshReadRow, Idle
  <2>3. ASSUME NEW r \in Requests, NEW jwt \in access, Authenticate(r, jwt)
        PROVE  Redeeming(t)' \subseteq Redeeming(t)
    BY <2>3 DEF Authenticate, Idle
  <2>4. ASSUME NEW r \in Requests, RefreshReadUser(r) \/ RefreshRevoke(r)
        PROVE  Redeeming(t)' \subseteq Redeeming(t)
    BY <2>4 DEF RefreshReadUser, RefreshRevoke, Goto, Finish, Idle
  <2>5. ASSUME NEW r \in Requests, CreateRefreshToken(r)
        PROVE  Redeeming(t)' \subseteq Redeeming(t)
    BY <2>5, CreateEffect
  <2>6. ASSUME NEW r \in Requests, SignPair(r) \/ EndRequest(r)
        PROVE  Redeeming(t)' \subseteq Redeeming(t)
    BY <2>6 DEF SignPair, EndRequest, Finish, Idle
  <2>7. ASSUME NEW r \in Requests, NEW target \in Users, NEW active \in BOOLEAN,
               SetUserActive(r, target, active)
        PROVE  Redeeming(t)' \subseteq Redeeming(t)
    BY <2>7 DEF SetUserActive, Finish, Idle
  <2>8. CASE Tick \/ (\E jwt \in held : Logout(jwt)) \/ UNCHANGED vars
    BY <2>8 DEF Tick, Logout, vars
  <2> QED BY <2>1, <2>2, <2>3, <2>4, <2>5, <2>6, <2>7, <2>8 DEF Next, Serve
<1> QED BY <1>1, <1>2

(* A step that does not start a redemption of t adds nothing to what its    *)
(* redemptions have issued and may still issue.                             *)
LEMMA NoMoreRedemptions ==
  ASSUME StateInv, [Next]_vars, NEW t \in TokenIds,
         \A r \in Requests, jwt \in held : RefreshReadRow(r, jwt) => jwt.jti # t
  PROVE  Redemptions(t)' <= Redemptions(t)
<1> USE CountedSetsFinite DEF Redemptions
<1>1. ASSUME NEW r \in Requests, CreateRefreshToken(r), req[r].presented = t
      PROVE  Redemptions(t)' <= Redemptions(t)
  <2>1. PICK id \in TokenIds : Children(t)' \subseteq Children(t) \cup {id}
    BY <1>1 DEF CreateRefreshToken, Generated, Children, StateInv, TypeOK
  <2>2. Cardinality(Children(t)') <= Cardinality(Children(t)) + 1
    <3>1. /\ IsFiniteSet(Children(t) \cup {id})
          /\ Cardinality(Children(t) \cup {id}) <= Cardinality(Children(t)) + 1
      <4>1. IsFiniteSet(Children(t))
        OBVIOUS
      <4>2. Cardinality(Children(t) \cup {id}) =
              IF id \in Children(t) THEN Cardinality(Children(t)) ELSE Cardinality(Children(t)) + 1
        BY <4>1, FS_AddElement
      <4> QED BY <4>1, <4>2, FS_AddElement
    <3>2. Cardinality(Children(t)') <= Cardinality(Children(t) \cup {id})
      BY <2>1, <3>1, FS_Subset
    <3>3. Cardinality(Children(t) \cup {id}) \in Nat
      BY <3>1, FS_CardinalityType
    <3> QED BY <3>1, <3>2, <3>3
  <2>3. r \in Redeeming(t) /\ Redeeming(t)' = Redeeming(t) \ {r}
    BY <1>1 DEF CreateRefreshToken, Generated, Redeeming, StateInv, TypeOK, Request
  <2>4. Cardinality(Redeeming(t)') = Cardinality(Redeeming(t)) - 1
    BY <2>3, FS_RemoveElement
  <2> QED BY <2>2, <2>4
<1>2. CASE \A r \in Requests : CreateRefreshToken(r) => req[r].presented # t
  <2>1. Children(t)' \subseteq Children(t) /\ Redeeming(t)' \subseteq Redeeming(t)
    BY <1>2, OtherStepsAddNothing
  <2>2. Cardinality(Children(t)') <= Cardinality(Children(t))
    BY <2>1, FS_Subset
  <2>3. Cardinality(Redeeming(t)') <= Cardinality(Redeeming(t))
    BY <2>1, FS_Subset
  <2> QED BY <2>2, <2>3
<1> QED BY <1>1, <1>2

(* Only redemptions that overlapped each bring a replacement: none starts   *)
(* once the token is revoked, and each under way brings one at the most.    *)
THEOREM OverlapOnly == Spec => OnlyOverlapping
<1>1. StateInv /\ [Next]_vars =>
        [\A t \in TokenIds :
           refresh_tokens[t].status = "revoked" => Redemptions(t)' <= Redemptions(t)]_vars
  <2> SUFFICES ASSUME StateInv, [Next]_vars, NEW t \in TokenIds,
                      refresh_tokens[t].status = "revoked"
               PROVE  Redemptions(t)' <= Redemptions(t)
    OBVIOUS
  <2>1. ASSUME NEW r \in Requests, NEW jwt \in held, RefreshReadRow(r, jwt)
        PROVE  jwt.jti # t
    BY <2>1 DEF RefreshReadRow, Usable
  <2> QED BY <2>1, NoMoreRedemptions
<1> QED BY <1>1, StateInvariant, PTL DEF Spec, OnlyOverlapping

(* One step keeps the bound on the redemptions of one token.                *)
LEMMA RedemptionsStep ==
  ASSUME StateInv, ReplacedIsRevoked, [Next]_vars, NEW t \in TokenIds,
         Redemptions(t) <= Cardinality(Requests)
  PROVE  Redemptions(t)' <= Cardinality(Requests)
<1> USE CountedSetsFinite DEF Redemptions
<1>1. ASSUME NEW r \in Requests, NEW jwt \in held, RefreshReadRow(r, jwt), jwt.jti = t
      PROVE  Redemptions(t)' <= Cardinality(Requests)
  <2>1. Children(t)' = {}
    BY <1>1 DEF RefreshReadRow, Usable, ReplacedIsRevoked, Children
  <2>2. Cardinality(Redeeming(t)') <= Cardinality(Requests)
    <3>1. Redeeming(t)' \in SUBSET Requests
      BY DEF Redeeming
    <3> QED BY <3>1, FS_Subset, RequestsAssumption
  <2>3. Cardinality(Children(t)') = 0
    BY <2>1, FS_EmptySet
  <2> QED BY <2>2, <2>3
<1>2. CASE \A r \in Requests, jwt \in held : RefreshReadRow(r, jwt) => jwt.jti # t
  BY <1>2, NoMoreRedemptions
<1> QED BY <1>1, <1>2

(* However many refreshes of one token race, they issue no more             *)
(* replacements than the server handles requests at once.                   *)
THEOREM RedemptionBound == Spec => []RedemptionsBounded
<1>1. Init => RedemptionsBounded
  <2> SUFFICES ASSUME Init, NEW t \in TokenIds
               PROVE  Redemptions(t) <= Cardinality(Requests)
    BY DEF RedemptionsBounded
  <2>1. Children(t) = {} /\ Redeeming(t) = {}
    BY DEF Init, Children, Redeeming, NoRow, Idle
  <2> QED BY <2>1, FS_EmptySet, CountedSetsFinite DEF Redemptions
<1>2. StateInv /\ ReplacedIsRevoked /\ RedemptionsBounded /\ [Next]_vars => RedemptionsBounded'
  BY RedemptionsStep DEF RedemptionsBounded
<1> QED BY <1>1, <1>2, StateInvariant, ReplacedRevoked, PTL DEF Spec

-----------------------------------------------------------------------------
(* Login, Refresh and Authenticate all look at is_active on every call, so  *)
(* an account left inactive gets no new request past that check.            *)
THEOREM DeactivationStops == Spec => DeactivationStopsNewWork
<1> DEFINE Stops ==
      \A u \in Users :
        account[u] = "inactive" /\ account'[u] = "inactive"
          => PastActiveCheck(u)' \subseteq PastActiveCheck(u)
<1>1. StateInv /\ [Next]_vars => [Stops]_vars
  <2> SUFFICES ASSUME StateInv, Next, NEW u \in Users,
                      account[u] = "inactive", account'[u] = "inactive",
                      NEW r \in Requests, r \in PastActiveCheck(u)', r \notin PastActiveCheck(u)
               PROVE  FALSE
    BY DEF PastActiveCheck
  <2> USE AccountsAssumption DEF PastActiveCheck, StateInv, TypeOK, Request
  <2>1. ASSUME NEW q \in Requests, NEW v \in Users, RegisterCreateUser(q, v) \/ LoginReadUser(q, v)
        PROVE  FALSE
    <3>1. account[v] # "inactive"
      BY <2>1 DEF RegisterCreateUser, LoginReadUser
    <3>2. req' = [req EXCEPT ![q] = Issuing(v, NoToken)]
      BY <2>1 DEF RegisterCreateUser, LoginReadUser
    <3> QED BY <3>1, <3>2 DEF Issuing, Idle
  <2>2. ASSUME NEW q \in Requests, NEW jwt \in held, RefreshReadRow(q, jwt)
        PROVE  FALSE
    BY <2>2 DEF RefreshReadRow, Idle
  <2>3. ASSUME NEW q \in Requests, NEW jwt \in access, Authenticate(q, jwt)
        PROVE  FALSE
    BY <2>3 DEF Authenticate, Idle
  <2>4. ASSUME NEW q \in Requests, RefreshReadUser(q) \/ RefreshRevoke(q)
        PROVE  FALSE
    BY <2>4 DEF RefreshReadUser, RefreshRevoke, Goto, Finish, Idle
  <2>8. ASSUME NEW q \in Requests, CreateRefreshToken(q)
        PROVE  FALSE
    BY <2>8, CreateEffect
  <2>5. ASSUME NEW q \in Requests, SignPair(q) \/ EndRequest(q)
        PROVE  FALSE
    BY <2>5 DEF SignPair, EndRequest, Finish, Idle
  <2>6. ASSUME NEW q \in Requests, NEW v \in Users, NEW active \in BOOLEAN,
               SetUserActive(q, v, active)
        PROVE  FALSE
    BY <2>6 DEF SetUserActive, Finish, Idle
  <2>7. CASE Tick \/ \E jwt \in held : Logout(jwt)
    BY <2>7 DEF Tick, Logout
  <2> QED BY <2>1, <2>2, <2>3, <2>4, <2>5, <2>6, <2>7, <2>8 DEF Next, Serve
<1> QED BY <1>1, StateInvariant, PTL DEF Spec, DeactivationStopsNewWork

(* Every administrator can lose access only if an administrator already     *)
(* deactivated is still acting on an earlier authentication.                *)
THEOREM LockoutOnlyByCrossing == Spec => LockoutNeedsCrossing
<1> DEFINE Crossing ==
      ActiveAdmins # {} /\ ActiveAdmins' = {}
        => \E r \in Requests : /\ req[r].pc = "authorised"
                               /\ req[r].user \in Admins
                               /\ account[req[r].user] = "inactive"
<1>1. StateInv /\ AdminsExist /\ [Next]_vars => [Crossing]_vars
  <2> SUFFICES ASSUME StateInv, AdminsExist, Next, ActiveAdmins # {}, ActiveAdmins' = {}
               PROVE  \E r \in Requests : /\ req[r].pc = "authorised"
                                          /\ req[r].user \in Admins
                                          /\ account[req[r].user] = "inactive"
    OBVIOUS
  <2>1. PICK r \in Requests, target \in Users, active \in BOOLEAN : SetUserActive(r, target, active)
    <3>1. ASSUME NEW q \in Requests, NEW v \in Users, RegisterCreateUser(q, v) PROVE FALSE
      BY <3>1, AccountsAssumption DEF RegisterCreateUser, ActiveAdmins, StateInv, TypeOK
    <3>2. ~ UNCHANGED account
      BY DEF ActiveAdmins
    <3> QED
      BY <3>1, <3>2 DEF Next, Serve, Tick, Logout, LoginReadUser, RefreshReadRow,
         RefreshReadUser, RefreshRevoke, CreateRefreshToken, Generated, SignPair,
         Authenticate, EndRequest
  <2>2. req[r].pc = "authorised" /\ req[r].user \in Admins /\ req[r].user # target
    BY <2>1 DEF SetUserActive
  <2>3. account'[req[r].user] = account[req[r].user]
    BY <2>1, <2>2, AccountsAssumption DEF SetUserActive, StateInv, TypeOK
  <2>4. account[req[r].user] # "active"
    BY <2>2, <2>3 DEF ActiveAdmins
  <2>5. account[req[r].user] # "absent"
    BY <2>2 DEF AdminsExist
  <2> QED BY <2>2, <2>4, <2>5, AccountsAssumption DEF StateInv, TypeOK
<1>2. Init => AdminsExist
  BY AccountsAssumption DEF Init, AdminsExist
<1>3. StateInv /\ AdminsExist /\ [Next]_vars => AdminsExist'
  <2> SUFFICES ASSUME StateInv, AdminsExist, [Next]_vars, NEW u \in Admins
               PROVE  account'[u] # "absent"
    BY DEF AdminsExist
  <2>1. \/ UNCHANGED account
        \/ \E r \in Requests, v \in Users : RegisterCreateUser(r, v)
        \/ \E r \in Requests, v \in Users, active \in BOOLEAN : SetUserActive(r, v, active)
    BY DEF Next, Serve, vars, Tick, Logout, LoginReadUser, RefreshReadRow, RefreshReadUser,
           RefreshRevoke, CreateRefreshToken, Generated, SignPair, Authenticate, EndRequest
  <2> USE AccountsAssumption DEF AdminsExist, StateInv, TypeOK
  <2>2. CASE UNCHANGED account
    BY <2>2
  <2>3. ASSUME NEW r \in Requests, NEW v \in Users, RegisterCreateUser(r, v)
        PROVE  account'[u] # "absent"
    BY <2>3 DEF RegisterCreateUser
  <2>4. ASSUME NEW r \in Requests, NEW v \in Users, NEW active \in BOOLEAN,
               SetUserActive(r, v, active)
        PROVE  account'[u] # "absent"
    BY <2>4 DEF SetUserActive
  <2> QED BY <2>1, <2>2, <2>3, <2>4
<1> QED BY <1>1, <1>2, <1>3, StateInvariant, PTL DEF Spec, LockoutNeedsCrossing
-----------------------------------------------------------------------------
(* That the handlers implement TokenServer.                                 *)

(* The rows TokenServer speaks of: those that exist, those a check accepts, *)
(* those that are being redeemed and those that have a replacement.         *)
Issued   == {t \in TokenIds : refresh_tokens[t].status # "none"}
Live     == {t \in TokenIds : Usable(refresh_tokens[t])}
Open     == {t \in TokenIds : Redeeming(t) # {}}
Replaced == {t \in TokenIds : Children(t) # {}}

(* The mapping, unfolded.                                                   *)
LEMMA RotationSteps ==
  /\ \A t \in TokenIds :
       /\ t \notin Issued /\ Issued' = Issued \cup {t} /\ Live' = Live \cup {t}
            /\ UNCHANGED <<Open, Replaced>> => Rotation!Next
       /\ t \in Live /\ Open' = Open \cup {t} /\ UNCHANGED <<Issued, Live, Replaced>>
            => Rotation!Next
       /\ t \in Open /\ Open' = Open \ {t} /\ UNCHANGED <<Issued, Live, Replaced>>
            => Rotation!Next
       /\ \A new \in TokenIds :
            /\ t \in Open /\ new \notin Issued /\ Issued' = Issued \cup {new}
            /\ Live' = (Live \ {t}) \cup {new} /\ Replaced' = Replaced \cup {t}
            /\ Open' \in {Open, Open \ {t}}
            => Rotation!Next
  /\ Live' \subseteq Live /\ UNCHANGED <<Issued, Open, Replaced>> => Rotation!Next
  /\ UNCHANGED <<Issued, Live, Open, Replaced>> => UNCHANGED Rotation!rotation
<1>1. ASSUME NEW t \in TokenIds, t \notin Issued, Issued' = Issued \cup {t},
             Live' = Live \cup {t}, UNCHANGED <<Open, Replaced>>
      PROVE  Rotation!Next
  <2>1. Rotation!Grant(t)
    BY <1>1 DEF Rotation!Grant, Issued, Live, Open, Replaced
  <2> QED BY <2>1 DEF Rotation!Next
<1>2. ASSUME NEW t \in TokenIds, t \in Live, Open' = Open \cup {t},
             UNCHANGED <<Issued, Live, Replaced>>
      PROVE  Rotation!Next
  <2>1. Rotation!Accept(t)
    BY <1>2 DEF Rotation!Accept, Issued, Live, Open, Replaced
  <2> QED BY <2>1 DEF Rotation!Next
<1>3. ASSUME NEW t \in TokenIds, t \in Open, Open' = Open \ {t},
             UNCHANGED <<Issued, Live, Replaced>>
      PROVE  Rotation!Next
  <2>1. Rotation!GiveUp(t)
    BY <1>3 DEF Rotation!GiveUp, Issued, Live, Open, Replaced
  <2> QED BY <2>1 DEF Rotation!Next
<1>4. ASSUME NEW t \in TokenIds, NEW new \in TokenIds, t \in Open, new \notin Issued,
             Issued' = Issued \cup {new}, Live' = (Live \ {t}) \cup {new},
             Replaced' = Replaced \cup {t}, Open' \in {Open, Open \ {t}}
      PROVE  Rotation!Next
  <2>1. Rotation!Exchange(t, new)
    BY <1>4 DEF Rotation!Exchange, Issued, Live, Open, Replaced
  <2> QED BY <2>1 DEF Rotation!Next
<1>5. ASSUME Live' \subseteq Live, UNCHANGED <<Issued, Open, Replaced>> PROVE Rotation!Next
  <2>1. Rotation!Retire
    BY <1>5 DEF Rotation!Retire, Issued, Live, Open, Replaced
  <2> QED BY <2>1 DEF Rotation!Next
<1>6. UNCHANGED <<Issued, Live, Open, Replaced>> => UNCHANGED Rotation!rotation
  BY DEF Rotation!rotation, Issued, Live, Open, Replaced
<1> QED BY <1>1, <1>2, <1>3, <1>4, <1>5, <1>6

(* What the table says changes only with the table and the clock, and what  *)
(* is being redeemed only with the requests.                                *)
LEMMA TableKept ==
  /\ UNCHANGED <<now, refresh_tokens>> => UNCHANGED <<Issued, Live, Replaced>>
  /\ UNCHANGED req => UNCHANGED Open
  BY DEF Issued, Live, Replaced, Open, Usable, Children, Redeeming

(* A token is being redeemed when some request is redeeming it.             *)
Redeems(k, t) == k.presented = t /\ k.pc \in {"readUser", "revoke", "issue"}

LEMMA OpenMeans ==
  /\ \A t : t \in Open <=> t \in TokenIds /\ \E r \in Requests : Redeems(req[r], t)
  /\ \A t : t \in Open' <=> t \in TokenIds /\ \E r \in Requests : Redeems(req'[r], t)
  BY DEF Open, Redeeming, Redeems

(* A request moves to a state k.                                            *)
LEMMA OpenAfter ==
  ASSUME TypeOK, NEW r \in Requests, NEW k, req' = [req EXCEPT ![r] = k]
  PROVE  /\ (\A t \in TokenIds : Redeems(k, t) <=> Redeems(req[r], t)) => Open' = Open
         /\ \A t \in TokenIds :
              /\ Redeems(k, t) /\ (\A u \in TokenIds : ~Redeems(req[r], u))
                   => Open' = Open \cup {t}
              /\ Redeems(req[r], t) /\ (\A u \in TokenIds : ~Redeems(k, u))
                   => Open' \in {Open, Open \ {t}}
<1>1. \A q \in Requests : req'[q] = IF q = r THEN k ELSE req[q]
  BY DEF TypeOK
<1>2. (\A t \in TokenIds : Redeems(k, t) <=> Redeems(req[r], t)) => Open' = Open
  BY <1>1, OpenMeans
<1>3. \A k1, t, u : Redeems(k1, t) /\ Redeems(k1, u) => t = u
  BY DEF Redeems
<1>4. ASSUME NEW t \in TokenIds, Redeems(k, t), \A u \in TokenIds : ~Redeems(req[r], u)
      PROVE  Open' = Open \cup {t}
  <2>1. \A x : x \in Open' <=> x \in Open \cup {t}
    BY <1>1, <1>3, <1>4, OpenMeans
  <2> QED BY <2>1
<1>5. ASSUME NEW t \in TokenIds, Redeems(req[r], t), \A u \in TokenIds : ~Redeems(k, u)
      PROVE  Open' \in {Open, Open \ {t}}
  <2>1. \A x : x # t => (x \in Open' <=> x \in Open)
    BY <1>1, <1>3, <1>5, OpenMeans
  <2>2. t \in Open
    BY <1>5, OpenMeans
  <2>3. CASE t \in Open'
    <3>1. \A x : x \in Open' <=> x \in Open
      BY <2>1, <2>2, <2>3
    <3>2. Open' = Open
      BY <3>1
    <3> QED BY <3>2
  <2>4. CASE t \notin Open'
    <3>1. \A x : x \in Open' <=> x \in Open \ {t}
      BY <2>1, <2>4
    <3>2. Open' = Open \ {t}
      BY <3>1
    <3> QED BY <3>2
  <2> QED BY <2>3, <2>4
<1> QED BY <1>2, <1>4, <1>5

(* A request that gives its redemption up, or had none.                     *)
LEMMA Leaves ==
  ASSUME TypeOK, NEW r \in Requests, Finish(r), UNCHANGED <<now, refresh_tokens>>
  PROVE  Rotation!Next \/ UNCHANGED Rotation!rotation
<1>1. \A u \in TokenIds : ~Redeems(Idle, u)
  BY DEF Redeems, Idle
<1>2. UNCHANGED <<Issued, Live, Replaced>>
  BY TableKept
<1>3. CASE \E t \in TokenIds : Redeems(req[r], t)
  <2>1. PICK t \in TokenIds : Redeems(req[r], t)
    BY <1>3
  <2>2. t \in Open /\ Open' \in {Open, Open \ {t}}
    BY <1>1, <2>1, OpenAfter, OpenMeans DEF Finish
  <2> QED BY <1>2, <2>2, RotationSteps
<1>4. CASE \A t \in TokenIds : ~Redeems(req[r], t)
  <2>1. Open' = Open
    BY <1>1, <1>4, OpenAfter DEF Finish
  <2> QED BY <1>2, <2>1, RotationSteps
<1> QED BY <1>3, <1>4

(* A token is revoked: no row comes or goes, and fewer are usable.          *)
LEMMA RevokeRetires ==
  ASSUME TypeOK, NEW t \in TokenIds, RevokeRefreshToken(t), UNCHANGED now
  PROVE  Live' \subseteq Live /\ UNCHANGED <<Issued, Replaced>>
<1>1. \A c \in TokenIds :
        /\ refresh_tokens'[c].expires_at = refresh_tokens[c].expires_at
        /\ refresh_tokens'[c].parent = refresh_tokens[c].parent
        /\ (refresh_tokens'[c].status = "none") <=> (refresh_tokens[c].status = "none")
        /\ refresh_tokens'[c].status = "live" => refresh_tokens[c].status = "live"
  BY RevokeEffect DEF TypeOK, Row
<1>2. Issued' = Issued
  BY <1>1 DEF Issued
<1>3. Live' \subseteq Live
  BY <1>1 DEF Live, Usable
<1>4. \A c \in TokenIds : Children(c)' = Children(c)
  BY <1>1 DEF Children
<1>5. Replaced' = Replaced
  BY <1>4 DEF Replaced
<1> QED BY <1>2, <1>3, <1>5

(* issue() inserts a row: a new token, in exchange for the one presented,   *)
(* which is revoked by then.                                                *)
LEMMA InsertRotates ==
  ASSUME StateInv, NEW r \in Requests, CreateRefreshToken(r)
  PROVE  Rotation!Next
<1> USE DEF StateInv
<1> DEFINE t == req[r].presented
<1>1. PICK id \in Generated :
        /\ refresh_tokens' = [refresh_tokens EXCEPT
                                ![id] = [status     |-> "live",
                                         user_id    |-> req[r].user,
                                         expires_at |-> now + RefreshTTL,
                                         parent     |-> t]]
        /\ req' = [req EXCEPT ![r] = [@ EXCEPT !.pc = "sign", !.inserted = id,
                                                 !.expires = now + RefreshTTL]]
  BY DEF CreateRefreshToken
<1>2. /\ id \in TokenIds /\ refresh_tokens[id].status = "none"
      /\ req[r].pc = "issue" /\ now' = now /\ t \in TokenIds \cup {NoToken}
  BY DEF CreateRefreshToken, Generated, TypeOK, Request
<1>3. \A c \in TokenIds :
        refresh_tokens'[c] = IF c = id THEN [status     |-> "live",
                                             user_id    |-> req[r].user,
                                             expires_at |-> now + RefreshTTL,
                                             parent     |-> t]
                             ELSE refresh_tokens[c]
  BY <1>1, <1>2 DEF TypeOK
<1>4. id \notin Issued /\ Issued' = Issued \cup {id}
  BY <1>2, <1>3 DEF Issued
<1>5. Live' = Live \cup {id}
  BY <1>2, <1>3, TTLAssumption DEF Live, Usable, TypeOK
<1>6. \A c : c \in Replaced' <=> c \in Replaced \/ (c \in TokenIds /\ c = t)
  <2>1. \A c \in TokenIds : Children(c)' = IF c = t THEN Children(c) \cup {id} ELSE Children(c)
    BY <1>2, <1>3 DEF Children
  <2> QED BY <2>1 DEF Replaced
<1>7. \A u \in TokenIds :
        ~Redeems([req[r] EXCEPT !.pc = "sign", !.inserted = id, !.expires = now + RefreshTTL], u)
  BY <1>2 DEF Redeems, TypeOK, Request
<1>8. CASE t = NoToken
  <2>1. Open' = Open
    <3>1. \A u \in TokenIds : ~Redeems(req[r], u)
      BY <1>8, TokensAssumption DEF Redeems
    <3> QED BY <1>1, <1>7, <3>1, OpenAfter
  <2>2. Replaced' = Replaced
    BY <1>6, <1>8, TokensAssumption
  <2> QED BY <1>2, <1>4, <1>5, <2>1, <2>2, RotationSteps
<1>9. CASE t \in TokenIds
  <2>1. Redeems(req[r], t)
    BY <1>2 DEF Redeems
  <2>2. t \in Open /\ Open' \in {Open, Open \ {t}}
    BY <1>1, <1>7, <1>9, <2>1, OpenAfter, OpenMeans
  <2>3. t \notin Live
    BY <1>2, <1>9, TokensAssumption DEF Live, Usable, HandlerInv
  <2>4. Live' = (Live \ {t}) \cup {id} /\ Replaced' = Replaced \cup {t}
    BY <1>5, <1>6, <1>9, <2>3
  <2> QED BY <1>2, <1>4, <1>9, <2>2, <2>4, RotationSteps
<1> QED BY <1>2, <1>8, <1>9

(* Every step of the handlers is a step of TokenServer, or a stutter.       *)
LEMMA NextRotates ==
  StateInv /\ [Next]_vars => Rotation!Next \/ UNCHANGED Rotation!rotation
<1> SUFFICES ASSUME StateInv, [Next]_vars
             PROVE  Rotation!Next \/ UNCHANGED Rotation!rotation
  OBVIOUS
<1> USE DEF StateInv
<1>1. CASE Tick
  <2>1. UNCHANGED <<Issued, Open, Replaced>>
    BY <1>1, TableKept DEF Tick, Issued, Replaced, Children
  <2>2. Live' \subseteq Live
    BY <1>1, TimeAssumption DEF Tick, Live, Usable, TypeOK, Row
  <2> QED BY <2>1, <2>2, RotationSteps
<1>2. ASSUME NEW jwt \in held, Logout(jwt)
      PROVE  Rotation!Next \/ UNCHANGED Rotation!rotation
  <2>1. jwt.jti \in TokenIds /\ UNCHANGED Open
    BY <1>2, TableKept DEF TypeOK, RefreshClaims, Logout
  <2>2. CASE RevokeRefreshToken(jwt.jti)
    BY <1>2, <2>1, <2>2, RevokeRetires, RotationSteps DEF Logout
  <2>3. CASE UNCHANGED refresh_tokens
    BY <1>2, <2>1, <2>3, TableKept, RotationSteps DEF Logout
  <2> QED BY <1>2, <2>2, <2>3 DEF Logout
<1>3. ASSUME NEW r \in Requests, NEW k, req' = [req EXCEPT ![r] = k],
             \A t \in TokenIds : Redeems(k, t) <=> Redeems(req[r], t),
             UNCHANGED <<now, refresh_tokens>>
      PROVE  UNCHANGED Rotation!rotation
  <2>1. UNCHANGED <<Issued, Live, Replaced>> /\ Open' = Open
    BY <1>3, TableKept, OpenAfter
  <2> QED BY <2>1, RotationSteps
<1>4. ASSUME NEW r \in Requests, NEW u \in Users, RegisterCreateUser(r, u) \/ LoginReadUser(r, u)
      PROVE  UNCHANGED Rotation!rotation
  <2>1. /\ req' = [req EXCEPT ![r] = Issuing(u, NoToken)]
        /\ req[r].pc = "idle" /\ UNCHANGED <<now, refresh_tokens>>
    BY <1>4 DEF RegisterCreateUser, LoginReadUser
  <2>2. \A t \in TokenIds : ~Redeems(Issuing(u, NoToken), t) /\ ~Redeems(req[r], t)
    BY <2>1, TokensAssumption DEF Redeems, Issuing, Idle
  <2> QED BY <1>3, <2>1, <2>2
<1>5. ASSUME NEW r \in Requests, NEW jwt \in held, RefreshReadRow(r, jwt) PROVE Rotation!Next
  <2> DEFINE t == jwt.jti
             k == [Idle EXCEPT !.pc = "readUser", !.presented = t, !.user = jwt.sub]
  <2>1. /\ t \in TokenIds /\ Usable(refresh_tokens[t]) /\ req[r].pc = "idle"
        /\ req' = [req EXCEPT ![r] = k] /\ UNCHANGED <<now, refresh_tokens>>
    BY <1>5 DEF RefreshReadRow, TypeOK, RefreshClaims
  <2>2. Redeems(k, t) /\ \A u \in TokenIds : ~Redeems(req[r], u)
    BY <2>1 DEF Redeems, Idle
  <2>3. Open' = Open \cup {t} /\ UNCHANGED <<Issued, Live, Replaced>>
    <3> HIDE DEF k
    <3> QED BY <2>1, <2>2, OpenAfter, TableKept
  <2>4. t \in Live
    BY <2>1 DEF Live
  <2> QED BY <2>1, <2>3, <2>4, RotationSteps
<1>6. ASSUME NEW r \in Requests, NEW jwt \in access, Authenticate(r, jwt)
      PROVE  UNCHANGED Rotation!rotation
  <2> DEFINE k == [Idle EXCEPT !.pc = "authorised", !.user = jwt.sub]
  <2>1. /\ req[r].pc = "idle" /\ req' = [req EXCEPT ![r] = k]
        /\ UNCHANGED <<now, refresh_tokens>>
    BY <1>6 DEF Authenticate
  <2>2. \A t \in TokenIds : ~Redeems(k, t) /\ ~Redeems(req[r], t)
    BY <2>1 DEF Redeems, Idle
  <2> HIDE DEF k
  <2> QED BY <1>3, <2>1, <2>2
<1>7. ASSUME NEW r \in Requests, NEW pc \in {"revoke", "issue"}, Goto(r, pc),
             req[r].pc \in {"readUser", "revoke"}
      PROVE  Open' = Open
  <2>1. \A t \in TokenIds : Redeems([req[r] EXCEPT !.pc = pc], t) <=> Redeems(req[r], t)
    BY <1>7 DEF Redeems, TypeOK, Request
  <2> QED BY <1>7, <2>1, OpenAfter DEF Goto
<1>8. ASSUME NEW r \in Requests, RefreshReadUser(r)
      PROVE  Rotation!Next \/ UNCHANGED Rotation!rotation
  <2>1. CASE Goto(r, "revoke")
    BY <1>7, <1>8, <2>1, TableKept, RotationSteps DEF RefreshReadUser
  <2>2. CASE Finish(r)
    BY <1>8, <2>2, Leaves DEF RefreshReadUser
  <2> QED BY <1>8, <2>1, <2>2 DEF RefreshReadUser
<1>9. ASSUME NEW r \in Requests, RefreshRevoke(r) PROVE Rotation!Next
  <2>1. req[r].presented \in TokenIds
    BY <1>9 DEF RefreshRevoke, HandlerInv
  <2>2. Live' \subseteq Live /\ UNCHANGED <<Issued, Replaced>>
    BY <1>9, <2>1, RevokeRetires DEF RefreshRevoke
  <2>3. Open' = Open
    BY <1>7, <1>9 DEF RefreshRevoke
  <2> QED BY <2>2, <2>3, RotationSteps
<1>10. ASSUME NEW r \in Requests,
              SignPair(r) \/ EndRequest(r)
                \/ \E target \in Users, active \in BOOLEAN : SetUserActive(r, target, active)
       PROVE  Rotation!Next \/ UNCHANGED Rotation!rotation
  BY <1>10, Leaves DEF SignPair, EndRequest, SetUserActive
<1>11. CASE UNCHANGED vars
  BY <1>11, TableKept, RotationSteps DEF vars
<1> QED
  BY <1>1, <1>2, <1>4, <1>5, <1>6, <1>8, <1>9, <1>10, <1>11, InsertRotates DEF Next, Serve

(* The handlers implement TokenServer, for any number of concurrent         *)
(* requests: a token is exchanged only by a redemption that found it        *)
(* usable, and once exchanged, expired or revoked it is never usable again. *)
THEOREM RotationImplemented == Spec => Rotates
<1>1. Init => Rotation!Init
  BY DEF Init, Rotation!Init, NoRow, Idle, Usable, Redeeming, Children
<1>2. StateInv /\ [Next]_vars => [Rotation!Next]_(Rotation!rotation)
  BY NextRotates
<1>3. Spec => []StateInv
  BY InitStateInv, NextStateInv, PTL DEF Spec
<1> QED BY <1>1, <1>2, <1>3, PTL DEF Spec, Rotates, Rotation!Spec
=============================================================================
