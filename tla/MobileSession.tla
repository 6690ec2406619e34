---------------------------- MODULE MobileSession ----------------------------
(***************************************************************************)
(* The session of the mobile app: services/api.ts with its single          *)
(* in-flight refresh, AuthProvider, and the tokens in the platform's       *)
(* keystore, under one key each.  Unlike in the browser (WebSession) every *)
(* access to the tokens is asynchronous, and the app can be killed between *)
(* the two writes of a pair.                                               *)
(*                                                                         *)
(* The keystore (external) carries requests out in the order they were     *)
(* made; what awaited one goes on when it is done.  The server is the part *)
(* of AuthSessions a client sees.  Pairs are numbered as they are issued;  *)
(* 0 is no token.                                                          *)
(***************************************************************************)
EXTENDS Integers, Sequences

CONSTANTS
  PageCalls, \* API calls the screens can have outstanding
  Me,        \* the call AuthProvider makes at startup
  MaxPairs,  \* bound: token pairs the server issues
  MaxKills   \* bound: how often the app is killed

ASSUME MobileAssumption == Me \notin PageCalls /\ MaxPairs \in Nat /\ MaxKills \in Nat

VARIABLES
  issued,    \* server: how many pairs it has issued
  fresh,     \* server: pairs whose access token is accepted
  live,      \* server: pairs whose refresh token is usable
  session,   \* history: the first pair of the session each pair belongs to
  keys,      \* the keystore: the pairs its two tokens are of
  queue,     \* requests to the keystore that are not done
  status,    \* AuthProvider's status, or "off" while the app does not run
  login,     \* the login or register that is outstanding
  refresh,   \* inFlightRefresh
  call,      \* the API calls outstanding
  presented, \* history: how often this run has presented a refresh token
  kills,
  overtaken  \* history: was there a logout while a refresh was under way?

server  == <<issued, fresh, live, session>>
store   == <<keys, queue>>
past    == <<presented, kills, overtaken>>
mobVars == <<server, store, status, login, refresh, call, past>>

Pairs == 1..MaxPairs
Calls == PageCalls \cup {Me}

(* "spent" is a promise that resolved to false and is kept.                 *)
NoRefresh == [pc |-> "none", pair |-> 0, result |-> 0]
NoCall    == [pc |-> "idle", pair |-> 0]
NoLogin   == [pc |-> "idle", pair |-> 0]

MobInit ==
  /\ issued = 0 /\ fresh = {} /\ live = {} /\ session = [p \in Pairs |-> 0]
  /\ keys = [access |-> 0, refresh |-> 0] /\ queue = <<>>
  /\ status = "off" /\ login = NoLogin /\ refresh = NoRefresh
  /\ call = [c \in Calls |-> NoCall]
  /\ presented = [p \in Pairs |-> 0] /\ kills = 0
  /\ overtaken = FALSE

-----------------------------------------------------------------------------
(* storage/tokens.ts: each request names what goes on when it is done, and  *)
(* for which calls.  A removal behind another one changes nothing, so a     *)
(* "void clearTokens()" that nobody awaits joins it.                        *)

Read(then, who)        == [kind |-> "read", pair |-> 0, then |-> then, who |-> who]
Write(pair, then, who) == [kind |-> "write", pair |-> pair, then |-> then, who |-> who]

Last(q) == q[Len(q)]

Voided(q) ==
  IF q # <<>> /\ Last(q).kind = "write" /\ Last(q).pair = 0 THEN q
  ELSE Append(q, Write(0, "nothing", {}))

(* readTokens: two tokens, or none.                                         *)
Pair == IF keys.access = 0 \/ keys.refresh = 0 THEN [access |-> 0, refresh |-> 0] ELSE keys

NextIs(kind, then) == queue # <<>> /\ Head(queue).kind = kind /\ Head(queue).then = then

(* Mutant: clearTokens removes one of the two keys.                         *)
WrittenHalf ==
  keys' = [access  |-> Head(queue).pair,
           refresh |-> IF Head(queue).pair = 0 THEN keys.refresh ELSE Head(queue).pair]

(* A write is done.                                                         *)
Written == keys' = [access |-> Head(queue).pair, refresh |-> Head(queue).pair]

-----------------------------------------------------------------------------
(* AuthProvider and the screens.                                            *)

(* Which screens there are: RootNavigator picks the flow of the status, and *)
(* of the user's role the tabs or, for an administrator,                    *)
(* NotAvailableScreen.                                                      *)
Screens ==
  CASE status = "loading"       -> {"SplashScreen"}
    [] status = "anonymous"     -> {"LoginScreen", "RegisterScreen"}
    [] status = "authenticated" -> {"tabs", "AccountScreen", "NotAvailableScreen"}
    [] OTHER                    -> {}

(* The app starts: AuthProvider reads the tokens.                           *)
Launch ==
  /\ status = "off"
  /\ status' = "loading" /\ queue' = <<Read("start", {Me})>>
  /\ UNCHANGED <<server, keys, login, refresh, call, past>>

(* Mutant: without tokens the status stays what it is.                      *)
StartForgets ==
  /\ NextIs("read", "start")
  /\ IF Pair.access = 0 THEN queue' = Tail(queue) /\ UNCHANGED call
     ELSE /\ queue' = Append(Tail(queue), Read("send", {Me}))
          /\ call' = [call EXCEPT ![Me].pc = "reading"]
  /\ UNCHANGED <<server, keys, status, login, refresh, past>>

(* Without tokens nobody is signed in; otherwise GET /auth/me decides.      *)
Start ==
  /\ NextIs("read", "start")
  /\ IF Pair.access = 0
     THEN status' = "anonymous" /\ queue' = Tail(queue) /\ UNCHANGED call
     ELSE /\ queue' = Append(Tail(queue), Read("send", {Me}))
          /\ call' = [call EXCEPT ![Me].pc = "reading"]
          /\ UNCHANGED status
  /\ UNCHANGED <<server, keys, login, refresh, past>>

(* LoginScreen or RegisterScreen, whose button waits until login is done    *)
(* (bound: only one of the two screens, which are one stack, waits).        *)
Submit ==
  /\ Screens \cap {"LoginScreen", "RegisterScreen"} # {} /\ login.pc = "idle"
  /\ login' = [login EXCEPT !.pc = "sent"]
  /\ UNCHANGED <<server, store, status, refresh, call, past>>

SubmitFailed ==
  /\ login.pc \in {"sent", "answered"} /\ login' = NoLogin
  /\ UNCHANGED <<server, store, status, refresh, call, past>>

(* adopt: the tokens are stored, and then the status changes.               *)
Adopt ==
  /\ login.pc = "answered" /\ login' = [login EXCEPT !.pc = "storing"]
  /\ queue' = Append(queue, Write(login.pair, "adopted", {}))
  /\ UNCHANGED <<server, keys, status, refresh, call, past>>

Adopted ==
  /\ NextIs("write", "adopted") /\ Written /\ queue' = Tail(queue)
  /\ status' = "authenticated" /\ login' = NoLogin
  /\ UNCHANGED <<server, refresh, call, past>>

(* AccountScreen and NotAvailableScreen: logout reads the tokens, ...       *)
Logout ==
  /\ Screens \cap {"AccountScreen", "NotAvailableScreen"} # {}
  /\ \A i \in DOMAIN queue : queue[i].then # "logout"
  /\ queue' = Append(queue, Read("logout", {}))
  /\ UNCHANGED <<server, keys, status, login, refresh, call, past>>

(* ... signs out without waiting for the removal, and revokes the token,    *)
(* which the server may or may not hear.                                    *)
LoggedOut ==
  /\ NextIs("read", "logout")
  /\ queue' = Voided(Tail(queue)) /\ status' = "anonymous"
  /\ live' \in {live, live \ {Pair.refresh}}
  /\ overtaken' = (overtaken \/ refresh.pc \in {"reading", "sent", "answered", "storing"})
  /\ UNCHANGED <<issued, fresh, session, keys, login, refresh, call, presented, kills>>

(* The app is killed.  A write that was under way may have reached either   *)
(* key.                                                                     *)
Kill ==
  /\ status # "off" /\ kills < MaxKills /\ kills' = kills + 1
  /\ keys' \in IF queue # <<>> /\ Head(queue).kind = "write"
               THEN [access  : {keys.access, Head(queue).pair},
                     refresh : {keys.refresh, Head(queue).pair}]
               ELSE {keys}
  /\ status' = "off" /\ queue' = <<>> /\ login' = NoLogin /\ refresh' = NoRefresh
  /\ call' = [c \in Calls |-> NoCall] /\ presented' = [p \in Pairs |-> 0]
  /\ UNCHANGED <<server, overtaken>>

-----------------------------------------------------------------------------
(* services/api.ts: request, send and refreshSession.                       *)

(* The calls that await the refresh go on: sent again with what is stored   *)
(* then, or ending the session as each of them does.                        *)
Waiters == {c \in Calls : call[c].pc = "waiting"}

Wake(cs, to) == [c \in Calls |-> IF c \in cs THEN [pc |-> to, pair |-> 0] ELSE call[c]]

GoOn(q)   == Append(q, Read("resend", Waiters))
GiveUp(q) == IF Waiters = {} THEN q ELSE Append(q, Write(0, "ended", Waiters))

Send(c) ==
  /\ "tabs" \in Screens /\ c \in PageCalls /\ call[c].pc = "idle"
  /\ queue' = Append(queue, Read("send", {c}))
  /\ call' = [call EXCEPT ![c].pc = "reading"]
  /\ UNCHANGED <<server, keys, status, login, refresh, past>>

(* The request leaves with the stored token, or without one.                *)
Sent ==
  /\ NextIs("read", "send") \/ NextIs("read", "resend")
  /\ queue' = Tail(queue)
  /\ call' = [c \in Calls |->
                IF c \notin Head(queue).who THEN call[c]
                ELSE [pc   |-> IF Head(queue).then = "send" THEN "sent" ELSE "retried",
                      pair |-> Pair.access]]
  /\ UNCHANGED <<server, keys, status, login, refresh, past>>

(* An answer that is not 401.                                               *)
Accepted(c) ==
  /\ call[c].pc \in {"sent", "retried"} /\ call[c].pair \in fresh
  /\ call' = [call EXCEPT ![c] = NoCall]
  /\ status' = IF c = Me THEN "authenticated" ELSE status
  /\ UNCHANGED <<server, store, login, refresh, past>>

(* Another error, no answer in time, or 401 after the retry.  AuthProvider  *)
(* signs out when its own call fails.                                       *)
Failed(c) ==
  /\ call[c].pc \in {"sent", "retried"}
  /\ call' = [call EXCEPT ![c] = NoCall]
  /\ IF c = Me THEN queue' = Voided(queue) /\ status' = "anonymous"
     ELSE UNCHANGED <<queue, status>>
  /\ UNCHANGED <<server, keys, login, refresh, past>>

(* Mutant: a 401 does not look for a refresh that is under way.             *)
UnauthorizedAlone(c) ==
  /\ call[c].pc = "sent" /\ call[c].pair \notin fresh
  /\ refresh' = [NoRefresh EXCEPT !.pc = "reading"]
  /\ queue' = Append(queue, Read("refresh", {}))
  /\ call' = [call EXCEPT ![c] = [pc |-> "waiting", pair |-> 0]]
  /\ UNCHANGED <<server, keys, status, login, past>>

(* The first 401: a refresh under way is awaited, one that failed for want  *)
(* of tokens is false at once, and otherwise one begins.                    *)
Unauthorized(c) ==
  /\ call[c].pc = "sent" /\ call[c].pair \notin fresh
  /\ IF refresh.pc = "spent"
     THEN /\ queue' = Append(queue, Write(0, "ended", {c}))
          /\ call' = [call EXCEPT ![c] = [pc |-> "ending", pair |-> 0]]
          /\ UNCHANGED refresh
     ELSE /\ call' = [call EXCEPT ![c] = [pc |-> "waiting", pair |-> 0]]
          /\ IF refresh.pc = "none"
             THEN /\ refresh' = [refresh EXCEPT !.pc = "reading"]
                  /\ queue' = Append(queue, Read("refresh", {}))
             ELSE UNCHANGED <<queue, refresh>>
  /\ UNCHANGED <<server, keys, status, login, past>>

Present ==
  /\ NextIs("read", "refresh")
  /\ IF Pair.refresh = 0
     THEN /\ refresh' = [NoRefresh EXCEPT !.pc = "spent"]
          /\ queue' = GiveUp(Tail(queue)) /\ call' = Wake(Waiters, "ending")
          /\ UNCHANGED presented
     ELSE /\ refresh' = [pc |-> "sent", pair |-> Pair.refresh, result |-> 0]
          /\ presented' = [presented EXCEPT ![Pair.refresh] = IF @ = 2 THEN 2 ELSE @ + 1]
          /\ queue' = Tail(queue) /\ UNCHANGED call
  /\ UNCHANGED <<server, keys, status, login, kills, overtaken>>

(* The refresh is answered: the new pair is stored, or the session ends.    *)
RefreshAnswered ==
  /\ refresh.pc = "answered"
  /\ refresh' = [refresh EXCEPT !.pc = "storing"]
  /\ queue' = Append(queue, IF refresh.result # 0 THEN Write(refresh.result, "stored", {})
                            ELSE Write(0, "refused", {}))
  /\ UNCHANGED <<server, keys, status, login, call, past>>

Stored ==
  /\ NextIs("write", "stored") /\ Written
  /\ refresh' = NoRefresh /\ queue' = GoOn(Tail(queue)) /\ call' = Wake(Waiters, "reading")
  /\ UNCHANGED <<server, status, login, past>>

(* No answer: the tokens are left alone here, but not by the calls that     *)
(* waited.                                                                  *)
RefreshUnanswered ==
  /\ refresh.pc \in {"sent", "answered"}
  /\ refresh' = NoRefresh /\ queue' = GiveUp(queue) /\ call' = Wake(Waiters, "ending")
  /\ UNCHANGED <<server, keys, status, login, past>>

(* endSession: the removal is done and the listeners are called, which is   *)
(* signOutLocally; then refreshSession, or the call, returns.               *)
Refused ==
  /\ NextIs("write", "refused") /\ Written
  /\ status' = "anonymous"
  /\ refresh' = NoRefresh
  /\ queue' = GiveUp(Voided(Tail(queue))) /\ call' = Wake(Waiters, "ending")
  /\ UNCHANGED <<server, login, past>>

Ended ==
  /\ NextIs("write", "ended") /\ Written
  /\ status' = "anonymous"
  /\ queue' = Voided(Tail(queue)) /\ call' = Wake(Head(queue).who, "idle")
  /\ UNCHANGED <<server, login, refresh, past>>

Cleared ==
  /\ NextIs("write", "nothing") /\ Written /\ queue' = Tail(queue)
  /\ UNCHANGED <<server, status, login, refresh, call, past>>

-----------------------------------------------------------------------------
(* The server.                                                              *)

(* A new pair of the session that pair p began, or of a new one.            *)
Issue(p) ==
  /\ issued < MaxPairs
  /\ issued' = issued + 1
  /\ fresh' = fresh \cup {issued + 1}
  /\ session' = [session EXCEPT ![issued + 1] = IF p = 0 THEN issued + 1 ELSE session[p]]
  /\ live' = (live \ {p}) \cup {issued + 1}

ServeLogin ==
  /\ login.pc = "sent" /\ Issue(0)
  /\ login' = [pc |-> "answered", pair |-> issued + 1]
  /\ UNCHANGED <<store, status, refresh, call, past>>

(* Rotation for a usable token, or an answer that is not ok: 401, 403 for   *)
(* an inactive account, 500 or 503.  (Who presents a token is the only one  *)
(* here, so nothing shows between the check of it and its exchange.)        *)
ServeRefresh ==
  /\ refresh.pc = "sent"
  /\ \/ /\ refresh.pair \in live
        /\ Issue(refresh.pair)
        /\ refresh' = [refresh EXCEPT !.pc = "answered", !.result = issued + 1]
     \/ /\ refresh' = [refresh EXCEPT !.pc = "answered"]
        /\ UNCHANGED server
  /\ UNCHANGED <<store, status, login, call, past>>

(* An access token expires; a refresh token expires or is revoked.          *)
Expire ==
  /\ \/ \E p \in fresh : fresh' = fresh \ {p} /\ UNCHANGED live
     \/ \E p \in live : live' = live \ {p} /\ UNCHANGED fresh
  /\ UNCHANGED <<issued, session, store, status, login, refresh, call, past>>

-----------------------------------------------------------------------------

Keystore ==
  Start \/ Adopted \/ LoggedOut \/ Sent \/ Present \/ Stored \/ Refused \/ Ended \/ Cleared

RefreshStep == ServeRefresh \/ RefreshAnswered \/ RefreshUnanswered

CallStep(c) == Accepted(c) \/ Failed(c) \/ Unauthorized(c)

MobNext ==
  \/ Launch \/ Submit \/ SubmitFailed \/ Adopt \/ Logout \/ Kill
  \/ Keystore \/ RefreshStep \/ ServeLogin \/ Expire
  \/ \E c \in Calls : Send(c) \/ CallStep(c)

(* The keystore answers, and every request is answered or runs into the     *)
(* timeout of send.                                                         *)
MobSpec ==
  /\ MobInit /\ [][MobNext]_mobVars
  /\ WF_mobVars(Keystore) /\ WF_mobVars(RefreshStep) /\ \A c \in Calls : WF_mobVars(CallStep(c))

-----------------------------------------------------------------------------
(* Properties.                                                              *)

(* "Without this, a screen issuing three parallel calls on an expired token *)
(* would fire three refreshes": while the app runs it presents a refresh    *)
(* token once, although between a 401 and the request there is a read of    *)
(* the keystore, and tokens are removed without waiting.                    *)
RefreshedOnce == \A p \in Pairs : presented[p] <= 1

(* The two tokens of the keystore are of one session, so a refresh never    *)
(* turns the signed-in account into another one, however one kill tears a   *)
(* write or a removal.  (Two kills can: the token a torn removal leaves is  *)
(* hidden from readTokens, and the next login's torn write makes it a pair  *)
(* again.  So can a refresh that a logout overtook: it stores its pair all  *)
(* the same.)                                                               *)
OneSessionStored ==
  kills <= 1 /\ ~overtaken /\ keys.access # 0 /\ keys.refresh # 0
    => session[keys.access] = session[keys.refresh]

(* The splash screen ends: whatever is stored, also a torn pair, and        *)
(* whatever becomes of the requests, the session is resolved.               *)
SplashEnds == (status = "loading") ~> (status # "loading")
=============================================================================
