---------------------------- MODULE AuthSessions ----------------------------
(***************************************************************************)
(* The session half of the API (backend/internal/auth): registration,      *)
(* login, refresh token rotation, logout, access token authentication and  *)
(* the admin switch that activates or deactivates an account.              *)
(*                                                                         *)
(* The handlers run concurrently and use no transaction: every repository  *)
(* call is one SQL statement that commits by itself.  An action is         *)
(* therefore one statement, with the local computation of the handler up   *)
(* to the next statement; what a handler remembers between two statements  *)
(* is in "req".                                                            *)
(***************************************************************************)
EXTENDS Integers, FiniteSets

CONSTANTS
  Users,       \* accounts, one per normalised email address
  Admins,      \* the accounts whose role is ADMIN, created out of band
  TokenIds,    \* values gen_random_uuid() can give a refresh_tokens row
  Requests,    \* requests the server can be working on at the same time
  AccessTTL,   \* JWT_ACCESS_TTL, in clock ticks
  RefreshTTL,  \* JWT_REFRESH_TTL, in clock ticks
  Second,      \* clock ticks in a second: the clock is finer than a JWT's claims
  StartTime,   \* the clock at the start, on a full second or between two
  MaxTime,     \* bound on the clock
  Nobody,      \* no account
  NoToken      \* no refresh token

ASSUME AccountsAssumption == Admins \subseteq Users /\ Nobody \notin Users
ASSUME TokensAssumption   == IsFiniteSet(TokenIds) /\ NoToken \notin TokenIds
ASSUME RequestsAssumption == IsFiniteSet(Requests)
ASSUME TTLAssumption      == /\ AccessTTL \in Nat /\ RefreshTTL \in Nat
                             /\ 0 < AccessTTL /\ AccessTTL < RefreshTTL
ASSUME SecondAssumption   == Second \in Nat \ {0}
ASSUME TimeAssumption     == StartTime \in Nat /\ MaxTime \in Nat

VARIABLES
  now,             \* the clock
  account,         \* users.is_active of each account, "absent" before INSERT
  refresh_tokens,  \* the table: one row per issued refresh token
  held,            \* refresh JWTs that reached a client
  access,          \* access JWTs that reached a client
  req              \* the requests being served

vars == <<now, account, refresh_tokens, held, access, req>>

-----------------------------------------------------------------------------
(* A row of refresh_tokens.  "status" stands for the row's existence and    *)
(* for revoked_at; "parent" is a history field that no code reads: the      *)
(* token whose redemption created the row.                                  *)
Row == [status     : {"none", "live", "revoked"},
        user_id    : Users \cup {Nobody},
        expires_at : Nat,
        parent     : TokenIds \cup {NoToken}]

NoRow == [status |-> "none", user_id |-> Nobody, expires_at |-> 0, parent |-> NoToken]

RefreshClaims == [jti : TokenIds, sub : Users, exp : Nat]
AccessClaims  == [sub : Users, exp : Nat]

(* What a handler holds between two statements: the account it works for,   *)
(* the refresh token presented, and the row it inserted with its expiry.    *)
Request == [pc        : {"idle", "readUser", "revoke", "issue", "sign", "authorised"},
            user      : Users \cup {Nobody},
            presented : TokenIds \cup {NoToken},
            inserted  : TokenIds \cup {NoToken},
            expires   : Nat]

Idle == [pc |-> "idle", user |-> Nobody, presented |-> NoToken,
         inserted |-> NoToken, expires |-> 0]

Init ==
  /\ now = StartTime
  /\ account = [u \in Users |-> IF u \in Admins THEN "active" ELSE "absent"]
  /\ refresh_tokens = [t \in TokenIds |-> NoRow]
  /\ held = {}
  /\ access = {}
  /\ req = [r \in Requests |-> Idle]

-----------------------------------------------------------------------------
Goto(r, pc) == req' = [req EXCEPT ![r].pc = pc]

Finish(r) == req' = [req EXCEPT ![r] = Idle]

(* Mutant: issue() signs before it has recorded the token.                  *)
IssuingUnrecorded(u, t) == [Idle EXCEPT !.pc = "sign", !.user = u, !.presented = t]

(* A handler bound for issue(): the state the request moves to.             *)
Issuing(u, t) == [Idle EXCEPT !.pc = "issue", !.user = u, !.presented = t]

(* Bound: a request that will insert a row starts only while TokenIds has   *)
(* an id left for it and for every request already on its way to insert.    *)
RowsLeft ==
  Cardinality({r \in Requests : req[r].pc \in {"readUser", "revoke", "issue"}})
    < Cardinality({t \in TokenIds : refresh_tokens[t].status = "none"})

(* The id gen_random_uuid() gives the next row.  Ids are only compared for  *)
(* equality, so it does not matter which of the unused ones it is.           *)
Generated ==
  {id \in TokenIds :
     /\ refresh_tokens[id].status = "none"
     /\ id = CHOOSE free \in TokenIds : refresh_tokens[free].status = "none"}

(* jwt.NewNumericDate: a claim holds whole seconds, what is left of the     *)
(* second is cut off.  The column of a row keeps it.                        *)
NumericDate(t) == t - (t % Second)

(* RefreshRecord.Usable. *)
Usable(row) == row.status = "live" /\ now < row.expires_at

Tick ==
  /\ now < MaxTime
  /\ now' = now + 1
  /\ UNCHANGED <<account, refresh_tokens, held, access, req>>

(* Register up to and including the INSERT INTO users.  An email already    *)
(* taken violates the unique index and leaves everything as it was.         *)
RegisterCreateUser(r, u) ==
  /\ req[r].pc = "idle"
  /\ RowsLeft
  /\ account[u] = "absent"
  /\ account' = [account EXCEPT ![u] = "active"]
  /\ req' = [req EXCEPT ![r] = Issuing(u, NoToken)]
  /\ UNCHANGED <<now, refresh_tokens, held, access>>

(* Mutant: Login does not look at is_active.                                *)
LoginReadUserAnyStatus(r, u) ==
  /\ req[r].pc = "idle"
  /\ RowsLeft
  /\ account[u] # "absent"
  /\ req' = [req EXCEPT ![r] = Issuing(u, NoToken)]
  /\ UNCHANGED <<now, account, refresh_tokens, held, access>>

(* Login with the right password: reads the account, refuses an inactive    *)
(* one.                                                                     *)
LoginReadUser(r, u) ==
  /\ req[r].pc = "idle"
  /\ RowsLeft
  /\ account[u] = "active"
  /\ req' = [req EXCEPT ![r] = Issuing(u, NoToken)]
  /\ UNCHANGED <<now, account, refresh_tokens, held, access>>

(* Mutant: the row is looked up without a look at revoked_at.               *)
RefreshReadRowRevoked(r, jwt) ==
  /\ req[r].pc = "idle"
  /\ RowsLeft
  /\ now < jwt.exp
  /\ now < refresh_tokens[jwt.jti].expires_at
  /\ refresh_tokens[jwt.jti].user_id = jwt.sub
  /\ req' = [req EXCEPT ![r] = [Idle EXCEPT !.pc = "readUser", !.presented = jwt.jti,
                                            !.user = jwt.sub]]
  /\ UNCHANGED <<now, account, refresh_tokens, held, access>>

(* Refresh: parse the JWT, then SELECT its row and check it.                *)
RefreshReadRow(r, jwt) ==
  /\ req[r].pc = "idle"
  /\ RowsLeft
  /\ now < jwt.exp
  /\ Usable(refresh_tokens[jwt.jti])
  /\ refresh_tokens[jwt.jti].user_id = jwt.sub
  /\ req' = [req EXCEPT ![r] = [Idle EXCEPT !.pc = "readUser", !.presented = jwt.jti,
                                            !.user = jwt.sub]]
  /\ UNCHANGED <<now, account, refresh_tokens, held, access>>

(* Mutant: the replacement is issued without revoking the presented token.  *)
RefreshReadUserUnrevoked(r) ==
  /\ req[r].pc = "readUser"
  /\ IF account[req[r].user] = "active" THEN Goto(r, "issue") ELSE Finish(r)
  /\ UNCHANGED <<now, account, refresh_tokens, held, access>>

(* Refresh: SELECT the account; an inactive one ends the request with       *)
(* ErrAccountInactive.                                                      *)
RefreshReadUser(r) ==
  /\ req[r].pc = "readUser"
  /\ IF account[req[r].user] = "active" THEN Goto(r, "revoke") ELSE Finish(r)
  /\ UNCHANGED <<now, account, refresh_tokens, held, access>>

(* UPDATE refresh_tokens SET revoked_at ... WHERE revoked_at IS NULL.       *)
RevokeRefreshToken(t) ==
  refresh_tokens' = [refresh_tokens EXCEPT
                       ![t].status = IF @ = "live" THEN "revoked" ELSE @]

(* Refresh: revoke the presented token.  The statement's row count is not   *)
(* looked at, so a token someone else revoked meanwhile changes nothing.    *)
RefreshRevoke(r) ==
  /\ req[r].pc = "revoke"
  /\ RevokeRefreshToken(req[r].presented)
  /\ Goto(r, "issue")
  /\ UNCHANGED <<now, account, held, access>>

(* Mutant: the row of a revoked token is written over.                      *)
CreateRefreshTokenOver(r) ==
  /\ req[r].pc = "issue"
  /\ \E id \in TokenIds :
       /\ refresh_tokens[id].status # "live"
       /\ refresh_tokens' = [refresh_tokens EXCEPT
                               ![id] = [status     |-> "live",
                                        user_id    |-> req[r].user,
                                        expires_at |-> now + RefreshTTL,
                                        parent     |-> req[r].presented]]
       /\ req' = [req EXCEPT ![r] = [@ EXCEPT !.pc = "sign", !.inserted = id,
                                                !.expires = now + RefreshTTL]]
  /\ UNCHANGED <<now, account, held, access>>

(* issue(): RefreshExpiry, then INSERT INTO refresh_tokens.                 *)
CreateRefreshToken(r) ==
  /\ req[r].pc = "issue"
  /\ \E id \in Generated :
       /\ refresh_tokens' = [refresh_tokens EXCEPT
                               ![id] = [status     |-> "live",
                                        user_id    |-> req[r].user,
                                        expires_at |-> now + RefreshTTL,
                                        parent     |-> req[r].presented]]
       /\ req' = [req EXCEPT ![r] = [@ EXCEPT !.pc = "sign", !.inserted = id,
                                                !.expires = now + RefreshTTL]]
  /\ UNCHANGED <<now, account, held, access>>

(* Mutant: the expiry is computed again when the token is signed.           *)
SignPairLater(r) ==
  /\ req[r].pc = "sign"
  /\ access' = access \cup {[sub |-> req[r].user, exp |-> NumericDate(now + AccessTTL)]}
  /\ held' = held \cup {[jti |-> req[r].inserted, sub |-> req[r].user,
                         exp |-> NumericDate(now + RefreshTTL)]}
  /\ Finish(r)
  /\ UNCHANGED <<now, account, refresh_tokens>>

(* Mutant: when signing fails the row is taken back and issue() tries again. *)
SignPairRetried(r) ==
  /\ req[r].pc = "sign"
  /\ UNCHANGED <<now, account>>
  /\ \/ /\ access' = access \cup {[sub |-> req[r].user, exp |-> NumericDate(now + AccessTTL)]}
        /\ held' = held \cup {[jti |-> req[r].inserted, sub |-> req[r].user,
                               exp |-> NumericDate(req[r].expires)]}
        /\ Finish(r)
        /\ UNCHANGED refresh_tokens
     \/ /\ refresh_tokens' = [refresh_tokens EXCEPT ![req[r].inserted] = NoRow]
        /\ req' = [req EXCEPT ![r] = Issuing(@.user, @.presented)]
        /\ UNCHANGED <<held, access>>

(* issue(): sign both halves of the pair and answer the client.             *)
SignPair(r) ==
  /\ req[r].pc = "sign"
  /\ access' = access \cup {[sub |-> req[r].user, exp |-> NumericDate(now + AccessTTL)]}
  /\ held' = held \cup {[jti |-> req[r].inserted, sub |-> req[r].user,
                         exp |-> NumericDate(req[r].expires)]}
  /\ Finish(r)
  /\ UNCHANGED <<now, account, refresh_tokens>>

(* Logout: a token that does not parse (here: an expired one) is accepted   *)
(* and nothing is done, any other is revoked by one statement.              *)
Logout(jwt) ==
  /\ IF now < jwt.exp THEN RevokeRefreshToken(jwt.jti) ELSE UNCHANGED refresh_tokens
  /\ UNCHANGED <<now, account, held, access, req>>

(* RequireAuth: parse the access JWT, SELECT the account, refuse it when it *)
(* is inactive; otherwise the request goes on with that account.            *)
Authenticate(r, jwt) ==
  /\ req[r].pc = "idle"
  /\ now < jwt.exp
  /\ account[jwt.sub] = "active"
  /\ req' = [req EXCEPT ![r] = [Idle EXCEPT !.pc = "authorised", !.user = jwt.sub]]
  /\ UNCHANGED <<now, account, refresh_tokens, held, access>>

(* Mutant: an administrator may act on the own account.                     *)
SetUserActiveAnyone(r, target, active) ==
  /\ req[r].pc = "authorised"
  /\ req[r].user \in Admins
  /\ account[target] # "absent"
  /\ account' = [account EXCEPT ![target] = IF active THEN "active" ELSE "inactive"]
  /\ Finish(r)
  /\ UNCHANGED <<now, refresh_tokens, held, access>>

(* POST /admin/users/{id}/deactivate and /reactivate: RequireRole(ADMIN),   *)
(* SetUserActive, SetActive.                                                *)
SetUserActive(r, target, active) ==
  /\ req[r].pc = "authorised"
  /\ req[r].user \in Admins
  /\ req[r].user # target
  /\ account[target] # "absent"
  /\ account' = [account EXCEPT ![target] = IF active THEN "active" ELSE "inactive"]
  /\ Finish(r)
  /\ UNCHANGED <<now, refresh_tokens, held, access>>

(* The request ends without touching this component: another endpoint's     *)
(* handler, a role refused, a failed statement, a client that hung up or a  *)
(* server that was killed.  What was committed stays.                       *)
EndRequest(r) ==
  /\ req[r].pc # "idle"
  /\ Finish(r)
  /\ UNCHANGED <<now, account, refresh_tokens, held, access>>

Serve(r) ==
  \/ EndRequest(r)
  \/ RefreshReadUser(r)
  \/ RefreshRevoke(r)
  \/ CreateRefreshToken(r)
  \/ SignPair(r)
  \/ \E target \in Users, active \in BOOLEAN : SetUserActive(r, target, active)

Next ==
  \/ Tick
  \/ \E jwt \in held : Logout(jwt)
  \/ \E r \in Requests :
       \/ \E u \in Users : RegisterCreateUser(r, u) \/ LoginReadUser(r, u)
       \/ \E jwt \in held : RefreshReadRow(r, jwt)
       \/ \E jwt \in access : Authenticate(r, jwt)
       \/ Serve(r)

Spec == Init /\ [][Next]_vars

(* Every accepted request is eventually answered: net/http runs a handler   *)
(* in its own goroutine, and a statement returns or fails.  Nothing makes   *)
(* clients send requests, and the clock need not advance.                   *)
FairSpec == Spec /\ \A r \in Requests : WF_vars(Serve(r))

-----------------------------------------------------------------------------
(* Properties.                                                             *)

(* Every variable stays within its type.                                   *)
TypeOK ==
  /\ now \in Nat
  /\ account \in [Users -> {"absent", "active", "inactive"}]
  /\ refresh_tokens \in [TokenIds -> Row]
  /\ held \subseteq RefreshClaims
  /\ access \subseteq AccessClaims
  /\ req \in [Requests -> Request]

Children(t) ==
  {c \in TokenIds : refresh_tokens[c].status # "none" /\ refresh_tokens[c].parent = t}

(* The requests that found t usable and have not inserted its replacement.  *)
Redeeming(t) ==
  {r \in Requests : req[r].presented = t /\ req[r].pc \in {"readUser", "revoke", "issue"}}

(* What the comment on Refresh promises (service.go): the presented token   *)
(* is single use, so at most one replacement is ever issued for it.         *)
SingleUse ==
  \A c, d \in TokenIds :
    /\ refresh_tokens[c].status # "none"
    /\ refresh_tokens[d].status # "none"
    /\ refresh_tokens[c].parent = refresh_tokens[d].parent
    /\ refresh_tokens[c].parent # NoToken
    => c = d

(* The replacements issued for t, and those its open redemptions may issue. *)
Redemptions(t) == Cardinality(Children(t)) + Cardinality(Redeeming(t))

(* What rotation does guarantee: only redemptions that overlapped can each  *)
(* bring a replacement.  From the moment a token is revoked no further      *)
(* redemption of it starts, and each one under way brings one replacement   *)
(* at the most, whatever statements of other requests come in between: so   *)
(* one presented again after its replacement was issued brings nothing.     *)
OnlyOverlapping ==
  [][\A t \in TokenIds :
       refresh_tokens[t].status = "revoked" => Redemptions(t)' <= Redemptions(t)]_vars

(* Hence the replacements of one token never outnumber the requests the     *)
(* server works on at the same time.                                        *)
RedemptionsBounded == \A t \in TokenIds : Redemptions(t) <= Cardinality(Requests)

(* A replacement exists only for a token that is revoked, whatever failed   *)
(* or overlapped on the way: there is no moment at which both the old and   *)
(* the new token can start a refresh.                                       *)
ReplacedIsRevoked ==
  \A t \in TokenIds : Children(t) # {} => refresh_tokens[t].status = "revoked"

(* The promise TokenServer states, in terms of this module's table: a row   *)
(* is a token, and its children are what it was exchanged for.              *)
Rotation == INSTANCE TokenServer WITH
  Tokens    <- TokenIds,
  issued    <- {t \in TokenIds : refresh_tokens[t].status # "none"},
  live      <- {t \in TokenIds : Usable(refresh_tokens[t])},
  redeeming <- {t \in TokenIds : Redeeming(t) # {}},
  rotated   <- {t \in TokenIds : Children(t) # {}}

(* A token is exchanged only by a redemption that found it usable, it is    *)
(* unusable once it was exchanged, expired or revoked, and nothing makes it *)
(* usable again: the handlers' statements, interleaved and broken off in    *)
(* any way, implement the rotation the clients count on.                    *)
Rotates == Rotation!Spec

(* A refresh JWT in a client's hands has a row, of the same account, that   *)
(* expires no sooner than the JWT and less than a second after it (issue    *)
(* and RefreshExpiry), however long the steps between reading the clock,    *)
(* the INSERT and signing took: a JWT that still parses is never refused    *)
(* for its row's expiry.  They need not be equal, the claim has no          *)
(* fraction of a second.                                                    *)
RowAgreesWithClaims ==
  \A jwt \in held :
    LET row == refresh_tokens[jwt.jti] IN
    /\ row.status # "none"
    /\ row.user_id = jwt.sub
    /\ jwt.exp <= row.expires_at
    /\ row.expires_at < jwt.exp + Second

(* The requests that have seen u active and may still act for it.           *)
PastActiveCheck(u) ==
  {r \in Requests : req[r].user = u /\ req[r].pc \in {"revoke", "issue", "sign", "authorised"}}

(* While an account is inactive no request newly gets past the check, by    *)
(* login, by refresh or with an unexpired access token: only what was       *)
(* already past it when the account was deactivated can still finish.       *)
DeactivationStopsNewWork ==
  [][\A u \in Users :
       account[u] = "inactive" /\ account'[u] = "inactive"
         => PastActiveCheck(u)' \subseteq PastActiveCheck(u)]_vars

(* A revoked refresh token stays revoked and keeps its row: neither a       *)
(* reactivated account, nor a refresh or logout that overlaps it, nor a     *)
(* later INSERT brings the token back to life.                              *)
RevocationIsFinal ==
  [][\A t \in TokenIds :
       refresh_tokens[t].status = "revoked" => refresh_tokens'[t] = refresh_tokens[t]]_vars

ActiveAdmins == {u \in Admins : account[u] = "active"}

(* SetUserActive refuses the caller's own account so that no admin is       *)
(* locked out by a slip.  The last active admin can still be deactivated,   *)
(* but only by an admin who was deactivated after being authenticated.      *)
LockoutNeedsCrossing ==
  [][ActiveAdmins # {} /\ ActiveAdmins' = {}
       => \E r \in Requests : /\ req[r].pc = "authorised"
                              /\ req[r].user \in Admins
                              /\ account[req[r].user] = "inactive"]_vars

(* A deactivated account that is left so is eventually cut off entirely.    *)
DeactivationDrains ==
  \A u \in Users :
    account[u] = "inactive" ~> (PastActiveCheck(u) = {} \/ account[u] = "active")
=============================================================================
