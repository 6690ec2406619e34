----------------------------- MODULE WebSession -----------------------------
(***************************************************************************)
(* The session of the web client: the API client (lib/api.ts) with its     *)
(* single in-flight refresh, AuthProvider, and the token pair in           *)
(* localStorage, which every tab of the browser shares.                    *)
(*                                                                         *)
(* What runs in a tab between two waits on the network is one action:      *)
(* JavaScript does not interleave it.  The server is TokenServer: between   *)
(* the check of a refresh token and its exchange other tabs, and requests  *)
(* of pages that are gone, present the same token.  Token pairs are         *)
(* numbered in the order they are issued; 0 is no pair.                    *)
(***************************************************************************)
EXTENDS Integers, FiniteSets

CONSTANTS
  Tabs,      \* tabs of one browser
  PageCalls, \* API calls a page can have outstanding
  Me,        \* the call AuthProvider makes when the page loads
  MaxPairs   \* bound: token pairs the server issues

ASSUME CallsAssumption == Me \notin PageCalls
ASSUME PairsAssumption == MaxPairs \in Nat

VARIABLES
  issued,     \* server: how many pairs it has issued
  fresh,      \* server: pairs whose access token is accepted
  live,       \* server: pairs whose refresh token is usable
  rotated,    \* history: pairs that were exchanged for another
  late,       \* server: accepted pairs whose exchange no page waits for
  storage,    \* the pair in localStorage
  ui,         \* AuthProvider's status in each tab
  notice,     \* tabs with a storage event to handle
  refresh,    \* inFlightRefresh of each tab
  call,       \* the calls each tab has outstanding
  presented,  \* history: how often each page has presented the stored pair
  cut         \* history: the stored pair, once a reload cut off its refresh

tokens  == <<issued, fresh, live, rotated>>
server  == <<tokens, late>>
history == <<presented, cut>>
vars    == <<server, storage, ui, notice, refresh, call, history>>

Pairs == 1..MaxPairs
Calls == PageCalls \cup {Me}

(* "spent" is a promise that has resolved to false and is still kept.       *)
NoRefresh == [pc |-> "none", pair |-> 0, result |-> 0]
NoCall    == [pc |-> "idle", pair |-> 0]
Waiting   == [pc |-> "waiting", pair |-> 0]

Init ==
  /\ issued = 0 /\ fresh = {} /\ live = {} /\ rotated = {} /\ late = {}
  /\ storage = 0 /\ ui = [t \in Tabs |-> "anonymous"] /\ notice = {}
  /\ refresh = [t \in Tabs |-> NoRefresh]
  /\ call = [t \in Tabs |-> [c \in Calls |-> NoCall]]
  /\ presented = [t \in Tabs |-> 0] /\ cut = 0

-----------------------------------------------------------------------------
(* The server.                                                             *)

(* Mutant: the pair is handed out although its row could not be inserted.   *)
IssueUnrecorded(p) ==
  /\ issued < MaxPairs
  /\ fresh' = fresh \cup {issued + 1}
  /\ rotated' = rotated \cup ({p} \ {0})
  /\ UNCHANGED <<issued, live>>

(* A new pair, for a new session or, in exchange for p, for the same one.   *)
Issue(p) ==
  /\ issued < MaxPairs
  /\ issued' = issued + 1
  /\ fresh' = fresh \cup {issued + 1}
  /\ live' = (live \cup {issued + 1}) \ {p}
  /\ rotated' = rotated \cup ({p} \ {0})

AccessExpires(p) ==
  /\ p \in fresh
  /\ fresh' = fresh \ {p}
  /\ UNCHANGED <<issued, live, rotated, late, storage, ui, notice, refresh, call,
                 history>>

(* The refresh token runs out, or is revoked: by a redemption that goes no  *)
(* further, or by a logout that presented it and arrives at last.           *)
RefreshExpires(p) ==
  /\ p \in live
  /\ live' = live \ {p}
  /\ UNCHANGED <<issued, fresh, rotated, late, storage, ui, notice, refresh, call,
                 history>>

(* POST /auth/refresh finds the presented token usable.                     *)
AcceptRefresh(t) ==
  /\ refresh[t].pc = "sent"
  /\ refresh[t].pair \in live
  /\ refresh' = [refresh EXCEPT ![t].pc = "accepted"]
  /\ UNCHANGED <<server, storage, ui, notice, call, history>>

(* It goes on to exchange the token, whatever others have done to it since. *)
ExchangeRefresh(t) ==
  /\ refresh[t].pc = "accepted"
  /\ Issue(refresh[t].pair)
  /\ refresh' = [refresh EXCEPT ![t].pc = "answered", ![t].result = issued + 1]
  /\ UNCHANGED <<late, storage, ui, notice, call, history>>

(* Any answer that is not ok: 401 for a token that is not usable, 403 for   *)
(* an inactive account, 500 or 503.                                         *)
FailRefresh(t) ==
  /\ refresh[t].pc \in {"sent", "accepted"}
  /\ refresh' = [refresh EXCEPT ![t].pc = "answered"]
  /\ UNCHANGED <<server, storage, ui, notice, call, history>>

(* The page no longer waits, but a token the server has accepted may still  *)
(* be exchanged.  (One that arrives only now could as well have been        *)
(* accepted before.)                                                        *)
Leave(t) == late' = IF refresh[t].pc = "accepted" THEN late \cup {refresh[t].pair} ELSE late

(* It is, and nobody learns of the new pair.  (When several wait for the    *)
(* same token the others change nothing more.)                              *)
ExchangeLate(p) ==
  /\ p \in late
  /\ Issue(p)
  /\ late' = late \ {p}
  /\ UNCHANGED <<storage, ui, notice, refresh, call, history>>

-----------------------------------------------------------------------------
(* What happens in a tab.                                                  *)

(* writeTokens and clearTokens.  Nothing was done yet with what is stored   *)
(* now; what was stored before does not come back.                          *)
Store(p) == storage' = p /\ presented' = [t \in Tabs |-> 0] /\ cut' = 0

(* clearTokens and signOutLocally.  Only a removal that changes something   *)
(* fires a storage event, and only in the other tabs.                       *)
SignOut(t) ==
  /\ Store(0)
  /\ ui' = [ui EXCEPT ![t] = "anonymous"]
  /\ notice' = IF storage = 0 THEN notice ELSE notice \cup (Tabs \ {t})

SameSession == UNCHANGED <<storage, ui, notice, history>>

(* Every call that awaits the refresh goes on as f says, in the same turn.  *)
Wake(t, f) ==
  call' = [call EXCEPT ![t] = [c \in Calls |->
             IF call[t][c].pc = "waiting" THEN f ELSE call[t][c]]]

(* The page is loaded, or loaded again: what it kept in memory is gone.     *)
Load(t) ==
  /\ ui' = [ui EXCEPT ![t] = IF storage = 0 THEN "anonymous" ELSE "loading"]
  /\ call' = [call EXCEPT ![t] = [c \in Calls |->
                IF c = Me /\ storage # 0 THEN [pc |-> "sent", pair |-> storage] ELSE NoCall]]
  /\ refresh' = [refresh EXCEPT ![t] = NoRefresh]
  /\ notice' = notice \ {t}
  /\ presented' = [presented EXCEPT ![t] = 0]
  /\ cut' = IF refresh[t].pair = storage THEN storage ELSE cut
  /\ Leave(t)
  /\ UNCHANGED <<tokens, storage>>

(* login or register, and adopt.                                            *)
Login(t) ==
  /\ ui[t] = "anonymous"
  /\ Issue(0)
  /\ Store(issued + 1)
  /\ ui' = [ui EXCEPT ![t] = "authenticated"]
  /\ UNCHANGED <<late, notice, refresh, call>>

(* The local session is dropped, whatever becomes of the revocation that is *)
(* sent then.                                                               *)
Logout(t) ==
  /\ ui[t] = "authenticated"
  /\ SignOut(t)
  /\ live' \in {live, live \ {storage}}
  /\ UNCHANGED <<issued, fresh, rotated, late, refresh, call>>

(* The storage listener of AuthProvider.                                    *)
HandleNotice(t) ==
  /\ t \in notice
  /\ notice' = notice \ {t}
  /\ ui' = IF storage = 0 THEN [ui EXCEPT ![t] = "anonymous"] ELSE ui
  /\ UNCHANGED <<server, storage, refresh, call, history>>

(* A signed-in page calls the API with the pair that is stored now.         *)
Send(t, c) ==
  /\ ui[t] = "authenticated"
  /\ call[t][c].pc = "idle"
  /\ call' = [call EXCEPT ![t][c] = [pc |-> "sent", pair |-> storage]]
  /\ UNCHANGED <<server, storage, ui, notice, refresh, history>>

(* The call is answered with anything but 401.                              *)
Accepted(t, c) ==
  /\ call[t][c].pc \in {"sent", "retried"}
  /\ call[t][c].pair \in fresh
  /\ call' = [call EXCEPT ![t][c] = NoCall]
  /\ ui' = IF c = Me THEN [ui EXCEPT ![t] = "authenticated"] ELSE ui
  /\ UNCHANGED <<server, storage, notice, refresh, history>>

(* The call fails for good: 401 after the retry, another error, no network. *)
(* AuthProvider takes a failure of its own call for the end of the session. *)
Failed(t, c) ==
  /\ call[t][c].pc \in {"sent", "retried"}
  /\ call' = [call EXCEPT ![t][c] = NoCall]
  /\ IF c = Me THEN SignOut(t) ELSE SameSession
  /\ UNCHANGED <<server, refresh>>

(* Mutant: every 401 starts a refresh of its own.                           *)
UnauthorizedAlone(t, c) ==
  /\ call[t][c].pc = "sent"
  /\ call[t][c].pair \notin fresh
  /\ storage # 0
  /\ refresh' = [refresh EXCEPT ![t] = [pc |-> "sent", pair |-> storage, result |-> 0]]
  /\ presented' = [presented EXCEPT ![t] = IF @ = 2 THEN 2 ELSE @ + 1]
  /\ call' = [call EXCEPT ![t][c] = Waiting]
  /\ UNCHANGED <<server, storage, ui, notice, cut>>

(* The first 401: refreshSession.  A refresh under way is joined.  Without  *)
(* one, the stored pair is presented.  When nothing is stored the refresh   *)
(* is false at once, and stays in inFlightRefresh for every later call.     *)
Unauthorized(t, c) ==
  /\ call[t][c].pc = "sent"
  /\ call[t][c].pair \notin fresh
  /\ \/ /\ refresh[t].pc \in {"sent", "accepted", "answered"}
        /\ call' = [call EXCEPT ![t][c] = Waiting]
        /\ SameSession
        /\ UNCHANGED refresh
     \/ /\ refresh[t].pc = "none" /\ storage # 0
        /\ refresh' = [refresh EXCEPT ![t] = [pc |-> "sent", pair |-> storage, result |-> 0]]
        /\ presented' = [presented EXCEPT ![t] = IF @ = 2 THEN 2 ELSE @ + 1]
        /\ call' = [call EXCEPT ![t][c] = Waiting]
        /\ UNCHANGED <<storage, ui, notice, cut>>
     \/ /\ refresh[t].pc = "spent" \/ (refresh[t].pc = "none" /\ storage = 0)
        /\ refresh' = [refresh EXCEPT ![t].pc = "spent"]
        /\ call' = [call EXCEPT ![t][c] = NoCall]
        /\ SignOut(t)
  /\ UNCHANGED server

(* The refresh is answered: the new pair is stored and the waiting calls    *)
(* are sent again, or the session ends and they fail.                       *)
RefreshAnswered(t) ==
  /\ refresh[t].pc = "answered"
  /\ refresh' = [refresh EXCEPT ![t] = NoRefresh]
  /\ IF refresh[t].result # 0
     THEN /\ Store(refresh[t].result)
          /\ Wake(t, [pc |-> "retried", pair |-> refresh[t].result])
          /\ UNCHANGED <<ui, notice>>
     ELSE SignOut(t) /\ Wake(t, NoCall)
  /\ UNCHANGED server

(* Mutant: the tokens are left alone, as the comment in refreshSession has  *)
(* it.                                                                      *)
RefreshUnansweredKeeps(t) ==
  /\ refresh[t].pc \in {"sent", "accepted", "answered"}
  /\ refresh' = [refresh EXCEPT ![t] = NoRefresh]
  /\ Leave(t)
  /\ Wake(t, NoCall)
  /\ SameSession
  /\ UNCHANGED tokens

(* No answer, or not in time: the refresh is false, and each call that      *)
(* waits for it ends the session.                                           *)
RefreshUnanswered(t) ==
  /\ refresh[t].pc \in {"sent", "accepted", "answered"}
  /\ refresh' = [refresh EXCEPT ![t] = NoRefresh]
  /\ Leave(t)
  /\ SignOut(t)
  /\ Wake(t, NoCall)
  /\ UNCHANGED tokens

CallStep(t, c) == Accepted(t, c) \/ Failed(t, c) \/ Unauthorized(t, c)

RefreshStep(t) == RefreshAnswered(t) \/ RefreshUnanswered(t)

ServerStep ==
  \/ \E p \in Pairs : AccessExpires(p) \/ RefreshExpires(p) \/ ExchangeLate(p)
  \/ \E t \in Tabs : AcceptRefresh(t) \/ ExchangeRefresh(t) \/ FailRefresh(t)

TabStep(t) ==
  \/ Load(t) \/ Login(t) \/ Logout(t) \/ HandleNotice(t)
  \/ \E c \in PageCalls : Send(t, c)
  \/ \E c \in Calls : CallStep(t, c)
  \/ RefreshStep(t)

Next == ServerStep \/ \E t \in Tabs : TabStep(t)

Spec == Init /\ [][Next]_vars

-----------------------------------------------------------------------------
(* Properties.                                                             *)

(* The type of every variable.                                              *)
TypeOK ==
  /\ issued \in 0..MaxPairs
  /\ fresh \subseteq 1..issued /\ live \subseteq 1..issued /\ rotated \subseteq 1..issued
  /\ late \subseteq 1..issued
  /\ storage \in 0..issued
  /\ ui \in [Tabs -> {"loading", "anonymous", "authenticated"}]
  /\ notice \subseteq Tabs
  /\ refresh \in [Tabs -> [pc : {"none", "sent", "accepted", "answered", "spent"},
                           pair : 0..issued, result : 0..issued]]
  /\ call \in [Tabs -> [Calls -> [pc : {"idle", "sent", "waiting", "retried"},
                                  pair : 0..issued]]]
  /\ presented \in [Tabs -> 0..2] /\ cut \in 0..issued

(* What inFlightRefresh is for: however many calls of a page meet a 401 at  *)
(* whatever time, the page presents a refresh token once, so that it never  *)
(* invalidates its own.                                                     *)
PresentedOnce == \A t \in Tabs : presented[t] <= 1

(* The browser holds a token the server has already replaced only while the *)
(* answer with its replacement is on the way, or after a reload that cut    *)
(* that answer off.                                                         *)
StoredIsCurrent ==
  storage \in rotated =>
    \/ cut = storage
    \/ \E t \in Tabs : refresh[t].pc = "answered" /\ refresh[t].pair = storage

(* What the comment on logout in AuthProvider says: "The local session is   *)
(* dropped whatever the server says".  A browser that holds no tokens       *)
(* holds none until somebody signs in.                                      *)
LoggedOutStaysOut ==
  [][storage = 0 /\ storage' # 0 =>
       \E t \in Tabs : ui[t] = "anonymous" /\ ui'[t] = "authenticated"]_vars

(* The server the tabs talk to is a TokenServer: it exchanges only tokens   *)
(* it has accepted, though maybe more than once, and accepts none again.    *)
Rotation == INSTANCE TokenServer WITH
  Tokens    <- Pairs,
  issued    <- 1..issued,
  redeeming <- {refresh[t].pair : t \in {u \in Tabs : refresh[u].pc = "accepted"}} \cup late

Rotates == Rotation!Spec
=============================================================================
