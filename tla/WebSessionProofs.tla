-------------------------- MODULE WebSessionProofs --------------------------
(***************************************************************************)
(* What the single in-flight refresh guarantees for any number of tabs,    *)
(* calls and token pairs.                                                  *)
(***************************************************************************)
EXTENDS WebSession, TLAPS

(* What a call and a refresh can be once n pairs have been issued.          *)
CallsUpTo(n)     == [pc : {"idle", "sent", "waiting", "retried"}, pair : 0..n]
RefreshesUpTo(n) == [pc : {"none", "sent", "accepted", "answered", "spent"},
                     pair : 0..n, result : 0..n]

(* Only an answered refresh has a pair to store.  Until it is stored no     *)
(* page has seen that pair: it is not the stored one, nobody has presented  *)
(* it and nobody else waits for it.                                         *)
PendingUnseen ==
  \A t \in Tabs :
    LET new == refresh[t].result IN
    new # 0 =>
      /\ refresh[t].pc = "answered"
      /\ new # storage
      /\ new \notin rotated
      /\ \A u \in Tabs : /\ refresh[u].pair # new
                         /\ u # t => refresh[u].result # new

(* A page that has presented the stored pair waits for the answer.          *)
PresentedInFlight ==
  \A t \in Tabs :
    presented[t] # 0 =>
      refresh[t].pc \in {"sent", "accepted", "answered"} /\ refresh[t].pair = storage

(* What may still be exchanged although no page waits for it is stored only *)
(* after a reload, and is not about to be stored.                           *)
LateUnheld ==
  \A p \in late : /\ p = storage => cut = storage
                  /\ \A t \in Tabs : refresh[t].result # p

(* What is accepted is a pair.                                              *)
AcceptedPair == \A t \in Tabs : refresh[t].pc = "accepted" => refresh[t].pair # 0

IInv ==
  /\ TypeOK
  /\ PendingUnseen
  /\ PresentedInFlight
  /\ LateUnheld
  /\ AcceptedPair
  /\ PresentedOnce
  /\ StoredIsCurrent

-----------------------------------------------------------------------------
(* A page that starts has neither refresh nor calls nor tokens.             *)
LEMMA InitIInv == Init => IInv
<1> SUFFICES ASSUME Init PROVE IInv
  OBVIOUS
<1>1. TypeOK
  BY PairsAssumption DEF Init, TypeOK, NoRefresh, NoCall
<1>2. /\ PendingUnseen /\ PresentedInFlight /\ LateUnheld /\ AcceptedPair
      /\ PresentedOnce /\ StoredIsCurrent
  BY PairsAssumption
     DEF Init, PendingUnseen, PresentedInFlight, LateUnheld, AcceptedPair, PresentedOnce,
         StoredIsCurrent, NoRefresh
<1> QED BY <1>1, <1>2 DEF IInv

-----------------------------------------------------------------------------
(* Type correctness.                                                       *)

(* A pair that is handed out is the next one.                               *)
LEMMA IssueType ==
  ASSUME TypeOK, NEW p \in 0..issued, Issue(p)
  PROVE  /\ issued' = issued + 1 /\ issued' \in 0..MaxPairs
         /\ fresh' \subseteq 1..issued' /\ live' \subseteq 1..issued'
         /\ rotated' \subseteq 1..issued'
         /\ rotated' = rotated \cup ({p} \ {0})
  BY PairsAssumption DEF TypeOK, Issue

(* What was of its type with the pairs issued so far stays so when more     *)
(* are.                                                                     *)
LEMMA UpToGrows ==
  ASSUME NEW m \in Nat, NEW n \in Nat, m <= n
  PROVE  /\ 1..m \subseteq 1..n /\ 0..m \subseteq 0..n
         /\ CallsUpTo(m) \subseteq CallsUpTo(n)
         /\ RefreshesUpTo(m) \subseteq RefreshesUpTo(n)
<1>1. 1..m \subseteq 1..n /\ 0..m \subseteq 0..n
  OBVIOUS
<1> QED BY <1>1 DEF CallsUpTo, RefreshesUpTo

(* Each call of a tab is replaced by one that is allowed.                   *)
LEMMA CallType ==
  ASSUME NEW n \in Nat, call \in [Tabs -> [Calls -> CallsUpTo(n)]], NEW t \in Tabs
  PROVE  /\ \A c \in Calls, k \in CallsUpTo(n) :
              [call EXCEPT ![t][c] = k] \in [Tabs -> [Calls -> CallsUpTo(n)]]
         /\ \A calls \in [Calls -> CallsUpTo(n)] :
              [call EXCEPT ![t] = calls] \in [Tabs -> [Calls -> CallsUpTo(n)]]
  OBVIOUS

(* The steps of the server.                                                 *)
LEMMA ServerType == ASSUME TypeOK, ServerStep PROVE TypeOK'
<1> USE PairsAssumption
<1>1. ASSUME NEW p \in Pairs, AccessExpires(p) \/ RefreshExpires(p) PROVE TypeOK'
  BY <1>1 DEF AccessExpires, RefreshExpires, TypeOK, history
<1>2. ASSUME NEW p \in 0..issued, Issue(p), UNCHANGED <<storage, ui, notice, call, history>>,
             late' \subseteq late, refresh' \in [Tabs -> RefreshesUpTo(issued')]
      PROVE  TypeOK'
  <2>1. issued \in Nat
    BY DEF TypeOK
  <2>2. /\ issued' = issued + 1 /\ issued' \in 0..MaxPairs
        /\ fresh' \subseteq 1..issued' /\ live' \subseteq 1..issued'
        /\ rotated' \subseteq 1..issued'
    BY <1>2, IssueType
  <2>3. /\ storage' \in 0..issued' /\ late' \subseteq 1..issued'
        /\ ui' \in [Tabs -> {"loading", "anonymous", "authenticated"}]
        /\ notice' \subseteq Tabs
        /\ presented' \in [Tabs -> 0..2] /\ cut' \in 0..issued'
    <3>1. storage' \in 0..issued' /\ late' \subseteq 1..issued' /\ cut' \in 0..issued'
      BY <1>2, <2>1, <2>2, UpToGrows DEF TypeOK, history
    <3>2. /\ ui' \in [Tabs -> {"loading", "anonymous", "authenticated"}]
          /\ notice' \subseteq Tabs
          /\ presented' \in [Tabs -> 0..2]
      BY <1>2 DEF TypeOK, history
    <3> QED BY <3>1, <3>2
  <2>4. call' \in [Tabs -> [Calls -> CallsUpTo(issued')]]
    BY <1>2, <2>1, <2>2, UpToGrows DEF TypeOK, CallsUpTo
  <2> QED BY <1>2, <2>2, <2>3, <2>4 DEF TypeOK, CallsUpTo, RefreshesUpTo
<1>3. refresh \in [Tabs -> RefreshesUpTo(issued)] /\ issued \in Nat
  BY DEF TypeOK, RefreshesUpTo
<1>4. ASSUME issued' = issued + 1 PROVE refresh \in [Tabs -> RefreshesUpTo(issued')]
  BY <1>3, <1>4, UpToGrows
<1>5. ASSUME NEW t \in Tabs, AcceptRefresh(t) \/ FailRefresh(t) PROVE TypeOK'
  <2>1. \A pc \in {"accepted", "answered"} :
          [refresh EXCEPT ![t].pc = pc] \in [Tabs -> RefreshesUpTo(issued)]
    BY <1>3 DEF RefreshesUpTo
  <2>2. refresh' \in [Tabs -> RefreshesUpTo(issued)]
    BY <1>5, <2>1 DEF AcceptRefresh, FailRefresh
  <2>3. UNCHANGED <<server, storage, ui, notice, call, history>>
    BY <1>5 DEF AcceptRefresh, FailRefresh
  <2> QED BY <2>2, <2>3 DEF TypeOK, RefreshesUpTo, server, tokens, history
<1>6. ASSUME NEW t \in Tabs, ExchangeRefresh(t) PROVE TypeOK'
  <2>1. refresh[t].pair \in 0..issued /\ Issue(refresh[t].pair) /\ issued' = issued + 1
    BY <1>3, <1>6 DEF ExchangeRefresh, Issue, RefreshesUpTo
  <2>2. refresh' \in [Tabs -> RefreshesUpTo(issued')]
    BY <1>3, <1>4, <1>6, <2>1 DEF ExchangeRefresh, RefreshesUpTo
  <2> QED BY <1>2, <1>6, <2>1, <2>2 DEF ExchangeRefresh
<1>7. ASSUME NEW p \in Pairs, ExchangeLate(p) PROVE TypeOK'
  <2>1. p \in 0..issued /\ Issue(p) /\ issued' = issued + 1
    BY <1>7 DEF ExchangeLate, Issue, TypeOK
  <2> QED BY <1>2, <1>4, <1>7, <2>1 DEF ExchangeLate
<1> QED BY <1>1, <1>5, <1>6, <1>7 DEF ServerStep

(* Signing out leaves nothing stored, and waking the calls that wait gives  *)
(* each the same next state.                                                *)
LEMMA SignOutType ==
  ASSUME TypeOK, NEW t \in Tabs, SignOut(t)
  PROVE  /\ storage' = 0
         /\ ui' \in [Tabs -> {"loading", "anonymous", "authenticated"}]
         /\ notice' \subseteq Tabs
         /\ presented' \in [Tabs -> 0..2] /\ cut' = 0
  BY DEF TypeOK, SignOut, Store

LEMMA WakeType ==
  ASSUME NEW n \in Nat, call \in [Tabs -> [Calls -> CallsUpTo(n)]], NEW t \in Tabs,
         NEW k \in CallsUpTo(n), Wake(t, k)
  PROVE  call' \in [Tabs -> [Calls -> CallsUpTo(n)]]
<1>1. [c \in Calls |-> IF call[t][c].pc = "waiting" THEN k ELSE call[t][c]]
        \in [Calls -> CallsUpTo(n)]
  OBVIOUS
<1>2. call' = [call EXCEPT ![t] =
                 [c \in Calls |-> IF call[t][c].pc = "waiting" THEN k ELSE call[t][c]]]
  BY DEF Wake
<1> QED BY <1>1, <1>2, CallType

(* The steps of a tab.                                                      *)
LEMMA TabType == ASSUME TypeOK, AcceptedPair, NEW t \in Tabs, TabStep(t) PROVE TypeOK'
<1> USE PairsAssumption
<1>1. /\ issued \in Nat /\ storage \in 0..issued /\ Me \in Calls
      /\ call \in [Tabs -> [Calls -> CallsUpTo(issued)]]
      /\ refresh \in [Tabs -> RefreshesUpTo(issued)]
      /\ \A c \in PageCalls : c \in Calls
  <2>1. issued \in Nat /\ storage \in 0..issued
    BY DEF TypeOK
  <2>2. /\ call \in [Tabs -> [Calls -> CallsUpTo(issued)]]
        /\ refresh \in [Tabs -> RefreshesUpTo(issued)]
    BY DEF TypeOK, CallsUpTo, RefreshesUpTo
  <2> QED BY <2>1, <2>2 DEF Calls
<1>2. /\ NoCall \in CallsUpTo(issued) /\ Waiting \in CallsUpTo(issued)
      /\ \A p \in 0..issued, pc \in {"sent", "retried"} :
           [pc |-> pc, pair |-> p] \in CallsUpTo(issued)
      /\ NoRefresh \in RefreshesUpTo(issued)
      /\ \A p \in 0..issued :
           [pc |-> "sent", pair |-> p, result |-> 0] \in RefreshesUpTo(issued)
      /\ [refresh[t] EXCEPT !.pc = "spent"] \in RefreshesUpTo(issued)
      /\ refresh[t].pair \in 0..issued /\ refresh[t].result \in 0..issued
  BY <1>1 DEF NoCall, Waiting, NoRefresh, CallsUpTo, RefreshesUpTo
<1> DEFINE ServerTypes == /\ issued \in 0..MaxPairs
                          /\ fresh \subseteq 1..issued /\ live \subseteq 1..issued
                          /\ rotated \subseteq 1..issued /\ late \subseteq 1..issued
           UiTypes == /\ ui \in [Tabs -> {"loading", "anonymous", "authenticated"}]
                      /\ notice \subseteq Tabs
           HistoryTypes == presented \in [Tabs -> 0..2] /\ cut \in 0..issued
           CallTypes == call \in [Tabs -> [Calls -> CallsUpTo(issued)]]
           RefreshTypes == refresh \in [Tabs -> RefreshesUpTo(issued)]
<1>3. ASSUME ServerTypes', UiTypes', HistoryTypes', CallTypes', RefreshTypes',
             storage' \in 0..issued'
      PROVE  TypeOK'
  BY <1>3 DEF TypeOK, CallsUpTo, RefreshesUpTo
<1>4. ServerTypes /\ UiTypes /\ HistoryTypes
  BY DEF TypeOK
<1> HIDE DEF ServerTypes, UiTypes, HistoryTypes, CallTypes, RefreshTypes
<1>5. /\ UNCHANGED server => ServerTypes' /\ issued' = issued
      /\ UNCHANGED <<ui, notice>> => UiTypes'
      /\ UNCHANGED history /\ issued' = issued => HistoryTypes'
      /\ UNCHANGED call /\ issued' = issued => CallTypes'
      /\ UNCHANGED refresh /\ issued' = issued => RefreshTypes'
  BY <1>1, <1>4 DEF ServerTypes, UiTypes, HistoryTypes, CallTypes, RefreshTypes, server, tokens, history
<1>6. /\ \A calls : issued' = issued /\ calls \in [Tabs -> [Calls -> CallsUpTo(issued)]]
                    /\ call' = calls => CallTypes'
      /\ \A r \in RefreshesUpTo(issued) :
           issued' = issued /\ refresh' = [refresh EXCEPT ![t] = r] => RefreshTypes'
  BY <1>1 DEF CallTypes, RefreshTypes
<1>7. SignOut(t) /\ issued' = issued => UiTypes' /\ HistoryTypes' /\ storage' = 0
  BY <1>1, SignOutType DEF UiTypes, HistoryTypes
<1>leave. ASSUME Leave(t), UNCHANGED tokens PROVE ServerTypes' /\ issued' = issued
  <2>1. refresh[t].pc = "accepted" => refresh[t].pair \in 1..issued
    BY <1>1, <1>2 DEF AcceptedPair
  <2>2. late' \subseteq 1..issued
    BY <1>4, <1>leave, <2>1 DEF Leave, ServerTypes
  <2> QED BY <1>4, <1>leave, <2>2 DEF ServerTypes, tokens
<1>8. ASSUME NEW k \in CallsUpTo(issued), Wake(t, k), issued' = issued PROVE CallTypes'
  BY <1>1, <1>6, <1>8, WakeType
<1>9. ASSUME NEW c \in Calls, NEW k \in CallsUpTo(issued), issued' = issued,
             call' = [call EXCEPT ![t][c] = k]
      PROVE  CallTypes'
  BY <1>1, <1>6, <1>9, CallType
<1>10. CASE Load(t)
  <2>1. [c \in Calls |-> IF c = Me /\ storage # 0 THEN [pc |-> "sent", pair |-> storage]
                         ELSE NoCall] \in [Calls -> CallsUpTo(issued)]
    BY <1>1, <1>2
  <2>2. ServerTypes' /\ issued' = issued
    BY <1>10, <1>leave DEF Load
  <2>3. CallTypes'
    BY <1>1, <1>6, <1>10, <2>1, <2>2, CallType DEF Load
  <2>4. UiTypes' /\ HistoryTypes'
    BY <1>1, <1>4, <1>10, <2>2 DEF Load, UiTypes, HistoryTypes
  <2> QED BY <1>1, <1>2, <1>3, <1>6, <1>10, <2>2, <2>3, <2>4 DEF Load
<1>11. CASE Login(t)
  <2>1. Issue(0) /\ 0 \in 0..issued
    BY <1>1, <1>11 DEF Login
  <2>2. ServerTypes' /\ issued' = issued + 1
    <3>1. late' = late
      BY <1>11 DEF Login
    <3> QED BY <1>1, <1>4, <2>1, <3>1, IssueType, UpToGrows DEF ServerTypes
  <2>3. storage' \in 0..issued' /\ UiTypes' /\ HistoryTypes'
    BY <1>1, <1>4, <1>11, <2>2 DEF Login, Store, UiTypes, HistoryTypes
  <2>4. CallTypes' /\ RefreshTypes'
    BY <1>1, <1>11, <2>2, UpToGrows DEF Login, CallTypes, RefreshTypes
  <2> QED BY <1>3, <2>2, <2>3, <2>4
<1>12. CASE Logout(t)
  <2>1. ServerTypes' /\ issued' = issued
    BY <1>4, <1>12 DEF Logout, ServerTypes
  <2> QED BY <1>1, <1>3, <1>5, <1>7, <1>12, <2>1 DEF Logout
<1>13. CASE HandleNotice(t)
  <2>1. UiTypes'
    BY <1>4, <1>13 DEF HandleNotice, UiTypes
  <2> QED BY <1>1, <1>3, <1>5, <1>13, <2>1 DEF HandleNotice
<1>14. ASSUME NEW c \in PageCalls, Send(t, c) PROVE TypeOK'
  <2>1. CallTypes'
    BY <1>1, <1>2, <1>5, <1>9, <1>14 DEF Send
  <2> QED BY <1>1, <1>3, <1>5, <1>14, <2>1 DEF Send
<1>15. ASSUME NEW c \in Calls, Accepted(t, c) PROVE TypeOK'
  <2>1. CallTypes' /\ UiTypes'
    BY <1>1, <1>2, <1>4, <1>5, <1>9, <1>15 DEF Accepted, UiTypes
  <2> QED BY <1>1, <1>3, <1>5, <1>15, <2>1 DEF Accepted
<1>16. ASSUME NEW c \in Calls, Failed(t, c) PROVE TypeOK'
  <2>1. CallTypes'
    BY <1>1, <1>2, <1>5, <1>9, <1>16 DEF Failed
  <2>2. UiTypes' /\ HistoryTypes' /\ storage' \in 0..issued
    BY <1>1, <1>5, <1>7, <1>16 DEF Failed, SameSession
  <2> QED BY <1>1, <1>3, <1>5, <1>16, <2>1, <2>2 DEF Failed
<1>17. ASSUME NEW c \in Calls, Unauthorized(t, c) PROVE TypeOK'
  <2>1. ServerTypes' /\ issued' = issued
    BY <1>5, <1>17 DEF Unauthorized
  <2>2. CallTypes'
    BY <1>1, <1>2, <1>9, <1>17, <2>1 DEF Unauthorized
  <2>3. UiTypes' /\ storage' \in 0..issued
    BY <1>1, <1>5, <1>7, <1>17 DEF Unauthorized, SameSession
  <2>4. RefreshTypes'
    <3>1. \/ UNCHANGED refresh
          \/ refresh' = [refresh EXCEPT ![t] = [pc |-> "sent", pair |-> storage, result |-> 0]]
          \/ refresh' = [refresh EXCEPT ![t] = [refresh[t] EXCEPT !.pc = "spent"]]
      BY <1>17 DEF Unauthorized
    <3> QED BY <1>1, <1>2, <1>5, <1>6, <2>1, <3>1
  <2>5. HistoryTypes'
    <3>1. \/ UNCHANGED history
          \/ SignOut(t)
          \/ /\ presented' = [presented EXCEPT ![t] = IF @ = 2 THEN 2 ELSE @ + 1]
             /\ UNCHANGED cut
      BY <1>17 DEF Unauthorized, SameSession
    <3>2. CASE /\ presented' = [presented EXCEPT ![t] = IF @ = 2 THEN 2 ELSE @ + 1]
               /\ UNCHANGED cut
      <4>1. \A n \in 0..2 : (IF n = 2 THEN 2 ELSE n + 1) \in 0..2
        OBVIOUS
      <4>2. presented' \in [Tabs -> 0..2]
        BY <1>4, <3>2, <4>1 DEF HistoryTypes
      <4> QED BY <1>4, <2>1, <3>2, <4>2 DEF HistoryTypes
    <3> QED BY <1>5, <1>7, <2>1, <3>1, <3>2
  <2> QED BY <1>3, <2>1, <2>2, <2>3, <2>4, <2>5
<1>18. CASE RefreshAnswered(t)
  <2>1. ServerTypes' /\ issued' = issued /\ RefreshTypes'
    BY <1>2, <1>5, <1>6, <1>18 DEF RefreshAnswered
  <2>2. CallTypes'
    BY <1>2, <1>8, <1>18, <2>1 DEF RefreshAnswered
  <2>3. UiTypes' /\ HistoryTypes' /\ storage' \in 0..issued
    <3>1. CASE Store(refresh[t].result) /\ UNCHANGED <<ui, notice>>
      BY <1>1, <1>2, <1>5, <2>1, <3>1 DEF Store, HistoryTypes
    <3> QED BY <1>1, <1>7, <1>18, <2>1, <3>1 DEF RefreshAnswered
  <2> QED BY <1>3, <2>1, <2>2, <2>3
<1>19. CASE RefreshUnanswered(t)
  <2>1. ServerTypes' /\ issued' = issued
    BY <1>leave, <1>19 DEF RefreshUnanswered
  <2>2. RefreshTypes' /\ CallTypes'
    BY <1>2, <1>6, <1>8, <1>19, <2>1 DEF RefreshUnanswered
  <2>3. UiTypes' /\ HistoryTypes' /\ storage' \in 0..issued
    BY <1>1, <1>7, <1>19, <2>1 DEF RefreshUnanswered
  <2> QED BY <1>3, <2>1, <2>2, <2>3
<1> QED
  BY <1>10, <1>11, <1>12, <1>13, <1>14, <1>15, <1>16, <1>17, <1>18, <1>19
     DEF TabStep, CallStep, RefreshStep

-----------------------------------------------------------------------------
(* The invariants, by what a step does to the stored pair and the refreshes.*)

Safe ==
  /\ PendingUnseen /\ PresentedInFlight /\ LateUnheld /\ AcceptedPair
  /\ PresentedOnce /\ StoredIsCurrent

pairsSeen == <<issued, rotated, late, storage, refresh, presented, cut>>

(* What the lemmas below use of the types.                                  *)
LEMMA Types ==
  ASSUME TypeOK
  PROVE  /\ issued \in Nat /\ issued <= MaxPairs /\ storage \in 0..issued
         /\ rotated \subseteq 1..issued /\ late \subseteq 1..issued
         /\ refresh \in [Tabs -> RefreshesUpTo(issued)]
         /\ presented \in [Tabs -> 0..2]
  BY PairsAssumption DEF TypeOK, RefreshesUpTo

(* A step that touches none of it.                                          *)
LEMMA QuietSafe == Safe /\ UNCHANGED pairsSeen => Safe'
  BY DEF Safe, pairsSeen, PendingUnseen, PresentedInFlight, LateUnheld, AcceptedPair,
         PresentedOnce, StoredIsCurrent

(* Something else is stored: nothing, or a pair no page has presented and   *)
(* the server has not exchanged.  The refresh it came with, if any, is over.*)
LEMMA StoreSafe ==
  ASSUME TypeOK, Safe, NEW t \in Tabs, NEW p \in 0..issued', Store(p),
         NEW r \in RefreshesUpTo(issued), refresh' = [refresh EXCEPT ![t] = r],
         r = refresh[t] \/ (r.result = 0 /\ r.pair \in {0, refresh[t].pair} /\ r.pc # "accepted"),
         p # 0 => /\ p \notin rotated \cup late
                  /\ \A u \in Tabs : refresh'[u].result # p,
         issued' \in Nat, issued <= issued', rotated' = rotated,
         late' = late \/ late' = late \cup {refresh[t].pair},
         late' # late => r.result = 0 /\ refresh[t].pair # 0 /\ refresh[t].pair # p
  PROVE  Safe'
<1> USE Types DEF Safe, RefreshesUpTo, Store
<1>1. \A u \in Tabs : refresh'[u] = IF u = t THEN r ELSE refresh[u]
  OBVIOUS
<1>2. PendingUnseen'
  BY <1>1 DEF PendingUnseen
<1>3. PresentedInFlight' /\ PresentedOnce'
  BY DEF PresentedInFlight, PresentedOnce
<1>4. AcceptedPair'
  BY <1>1 DEF AcceptedPair
<1>5. LateUnheld'
  <2>1. \A u \in Tabs : refresh'[u].result # 0 => refresh[u].result = refresh'[u].result
    BY <1>1
  <2>2. \A q \in late' : q # 0 /\ q # p
    BY DEF LateUnheld
  <2>3. \A q \in late', u \in Tabs : refresh'[u].result # q
    BY <2>1, <2>2 DEF LateUnheld, PendingUnseen
  <2> QED BY <2>2, <2>3 DEF LateUnheld
<1>6. StoredIsCurrent'
  BY DEF StoredIsCurrent
<1> QED BY <1>2, <1>3, <1>4, <1>5, <1>6

(* The page is loaded again: a refresh it waited for is cut off.            *)
LEMMA LoadSafe == ASSUME TypeOK, Safe, NEW t \in Tabs, Load(t) PROVE Safe'
<1> USE Types DEF Safe, RefreshesUpTo
<1>1. /\ refresh' = [refresh EXCEPT ![t] = NoRefresh]
      /\ presented' = [presented EXCEPT ![t] = 0]
      /\ cut' = IF refresh[t].pair = storage THEN storage ELSE cut
      /\ Leave(t)
      /\ UNCHANGED <<issued, rotated, storage>>
  BY DEF Load, tokens
<1>2. /\ \A u \in Tabs : refresh'[u] = IF u = t THEN NoRefresh ELSE refresh[u]
      /\ \A u \in Tabs : presented'[u] = IF u = t THEN 0 ELSE presented[u]
      /\ NoRefresh.result = 0 /\ NoRefresh.pair = 0 /\ NoRefresh.pc = "none"
  BY <1>1 DEF NoRefresh
<1>3. PendingUnseen'
  BY <1>1, <1>2 DEF PendingUnseen
<1>4. PresentedInFlight' /\ PresentedOnce'
  BY <1>1, <1>2 DEF PresentedInFlight, PresentedOnce
<1>5. AcceptedPair'
  BY <1>2 DEF AcceptedPair
<1>6. LateUnheld'
  <2>1. ASSUME NEW q \in late' PROVE (q = storage => cut' = storage) /\ \A u \in Tabs : refresh'[u].result # q
    <3>1. q \in late \/ (q = refresh[t].pair /\ q # 0)
      BY <1>1, <2>1 DEF Leave, AcceptedPair
    <3>2. q # 0
      BY <3>1
    <3>3. q = storage => cut' = storage
      BY <1>1, <3>1 DEF LateUnheld
    <3>4. \A u \in Tabs : refresh[u].result # q
      BY <3>1 DEF LateUnheld, PendingUnseen
    <3> QED BY <1>2, <3>2, <3>3, <3>4
  <2> QED BY <1>1, <2>1 DEF LateUnheld
<1>7. StoredIsCurrent'
  BY <1>1, <1>2 DEF StoredIsCurrent
<1> QED BY <1>3, <1>4, <1>5, <1>6, <1>7

(* A page presents the stored pair: it had not presented it before, because *)
(* it would still be waiting for the answer.                                *)
LEMMA PresentSafe ==
  ASSUME TypeOK, Safe, NEW t \in Tabs, storage # 0, refresh[t].pc = "none",
         refresh' = [refresh EXCEPT ![t] = [pc |-> "sent", pair |-> storage, result |-> 0]],
         presented' = [presented EXCEPT ![t] = IF @ = 2 THEN 2 ELSE @ + 1],
         UNCHANGED <<issued, rotated, late, storage, cut>>
  PROVE  Safe'
<1> USE Types DEF Safe, RefreshesUpTo
<1>1. presented[t] = 0
  BY DEF PresentedInFlight
<1>2. \A u \in Tabs :
        /\ presented'[u] = IF u = t THEN 1 ELSE presented[u]
        /\ refresh'[u] = IF u = t THEN [pc |-> "sent", pair |-> storage, result |-> 0]
                         ELSE refresh[u]
  BY <1>1
<1>3. PendingUnseen'
  BY <1>2 DEF PendingUnseen
<1>4. PresentedInFlight' /\ PresentedOnce'
  BY <1>2 DEF PresentedInFlight, PresentedOnce
<1>5. AcceptedPair' /\ LateUnheld'
  <2>1. AcceptedPair'
    BY <1>2 DEF AcceptedPair
  <2>2. \A u \in Tabs : refresh'[u].result \in {0, refresh[u].result}
    BY <1>2
  <2>3. LateUnheld'
    BY <2>2 DEF LateUnheld
  <2> QED BY <2>1, <2>3
<1>6. StoredIsCurrent'
  BY <1>2 DEF StoredIsCurrent
<1> QED BY <1>3, <1>4, <1>5, <1>6

(* A refresh goes on without a pair: accepted, or answered.                 *)
LEMMA MovesSafe ==
  ASSUME TypeOK, Safe, NEW t \in Tabs, AcceptRefresh(t) \/ FailRefresh(t)
  PROVE  Safe'
<1> USE Types DEF Safe, RefreshesUpTo
<1>1. UNCHANGED <<issued, rotated, late, storage, presented, cut>>
  BY DEF AcceptRefresh, FailRefresh, server, tokens, history
<1>2. /\ refresh[t].pc \in {"sent", "accepted"}
      /\ \A u \in Tabs : /\ refresh'[u].pair = refresh[u].pair
                         /\ refresh'[u].result = refresh[u].result
                         /\ u # t => refresh'[u].pc = refresh[u].pc
      /\ refresh'[t].pc \in {"accepted", "answered"}
  BY DEF AcceptRefresh, FailRefresh
<1>3. PendingUnseen'
  BY <1>1, <1>2 DEF PendingUnseen
<1>4. PresentedInFlight' /\ PresentedOnce'
  BY <1>1, <1>2 DEF PresentedInFlight, PresentedOnce
<1>5. AcceptedPair'
  <2>1. refresh'[t].pc = "accepted" => refresh[t].pair # 0
    BY <1>2 DEF AcceptRefresh, FailRefresh, TypeOK
  <2> QED BY <1>2, <2>1 DEF AcceptedPair
<1>6. LateUnheld'
  BY <1>1, <1>2 DEF LateUnheld
<1>7. StoredIsCurrent'
  BY <1>1, <1>2 DEF StoredIsCurrent
<1> QED BY <1>3, <1>4, <1>5, <1>6, <1>7

(* The server exchanges the pair a tab presented for one nobody has seen.   *)
LEMMA ExchangeSafe == ASSUME TypeOK, Safe, NEW t \in Tabs, ExchangeRefresh(t) PROVE Safe'
<1> USE Types DEF Safe, RefreshesUpTo
<1>1. /\ issued' = issued + 1
      /\ rotated' = rotated \cup ({refresh[t].pair} \ {0})
      /\ UNCHANGED <<late, storage, presented, cut>>
  BY DEF ExchangeRefresh, Issue, history
<1>2. /\ refresh' = [refresh EXCEPT ![t].pc = "answered", ![t].result = issued + 1]
      /\ refresh[t].pc = "accepted"
  BY DEF ExchangeRefresh
<1>3. /\ \A u \in Tabs : /\ refresh'[u].pair = refresh[u].pair
                         /\ u # t => refresh'[u].pc = refresh[u].pc
                         /\ u # t => refresh'[u].result = refresh[u].result
      /\ refresh'[t].pc = "answered" /\ refresh'[t].result = issued + 1
  BY <1>2
<1>4. PendingUnseen'
  BY <1>1, <1>2, <1>3 DEF PendingUnseen
<1>5. PresentedInFlight' /\ PresentedOnce' /\ AcceptedPair'
  <2>1. PresentedInFlight'
    BY <1>1, <1>2, <1>3 DEF PresentedInFlight
  <2>2. PresentedOnce'
    BY <1>1 DEF PresentedOnce
  <2>3. AcceptedPair'
    BY <1>3 DEF AcceptedPair
  <2> QED BY <2>1, <2>2, <2>3
<1>6. LateUnheld'
  <2>1. \A p \in late : p # issued + 1
    OBVIOUS
  <2>2. ASSUME NEW p \in late, NEW u \in Tabs PROVE refresh'[u].result # p
    BY <1>3, <2>1 DEF LateUnheld
  <2> QED BY <1>1, <2>2 DEF LateUnheld
<1>7. StoredIsCurrent'
  BY <1>1, <1>2, <1>3 DEF StoredIsCurrent
<1> QED BY <1>4, <1>5, <1>6, <1>7

(* The server exchanges a pair for a page that is gone.                     *)
LEMMA LateSafe == ASSUME TypeOK, Safe, NEW p \in Pairs, ExchangeLate(p) PROVE Safe'
<1> USE Types DEF Safe, RefreshesUpTo
<1>1. /\ p \in late /\ issued' = issued + 1 /\ rotated' = rotated \cup ({p} \ {0})
      /\ late' = late \ {p} /\ UNCHANGED <<storage, refresh, presented, cut>>
  BY DEF ExchangeLate, Issue, history
<1>2. PendingUnseen' /\ LateUnheld'
  BY <1>1 DEF PendingUnseen, LateUnheld
<1>3. PresentedInFlight' /\ PresentedOnce' /\ AcceptedPair'
  BY <1>1 DEF PresentedInFlight, PresentedOnce, AcceptedPair
<1>4. StoredIsCurrent'
  BY <1>1 DEF StoredIsCurrent, LateUnheld
<1> QED BY <1>2, <1>3, <1>4

-----------------------------------------------------------------------------
(* Every step of a tab keeps the invariants.                                *)
LEMMA TabSafe == ASSUME TypeOK, Safe, NEW t \in Tabs, TabStep(t) PROVE Safe'
<1>1. /\ refresh \in [Tabs -> RefreshesUpTo(issued)]
      /\ refresh = [refresh EXCEPT ![t] = refresh[t]]
      /\ refresh[t] \in RefreshesUpTo(issued)
      /\ refresh[t].pair \in {0, refresh[t].pair}
      /\ issued \in Nat /\ issued <= issued /\ 0 \in 0..issued
      /\ rotated \subseteq 1..issued /\ late \subseteq 1..issued
      /\ \A u \in Tabs : refresh[u].result \in 0..issued
  <2>1. /\ refresh \in [Tabs -> RefreshesUpTo(issued)] /\ issued \in Nat
        /\ rotated \subseteq 1..issued /\ late \subseteq 1..issued
    BY Types
  <2> QED BY <2>1 DEF RefreshesUpTo
<1>2. NoRefresh \in RefreshesUpTo(issued)
        /\ NoRefresh.result = 0 /\ NoRefresh.pair = 0 /\ NoRefresh.pc = "none"
  BY Types DEF NoRefresh, RefreshesUpTo
<1>3. ASSUME SignOut(t), UNCHANGED <<issued, rotated, late, refresh>> PROVE Safe'
  BY <1>1, <1>3, StoreSafe DEF SignOut
<1>4. ASSUME SignOut(t), refresh' = [refresh EXCEPT ![t] = NoRefresh],
             Leave(t) \/ UNCHANGED late, UNCHANGED <<issued, rotated>>
      PROVE  Safe'
  <2>1. late' = late \/ (late' = late \cup {refresh[t].pair} /\ refresh[t].pair # 0)
    BY <1>4 DEF Leave, Safe, AcceptedPair
  <2> QED BY <1>1, <1>2, <1>4, <2>1, StoreSafe DEF SignOut
<1>5. CASE Login(t)
  <2>1. /\ Store(issued + 1) /\ issued' = issued + 1
        /\ rotated' = rotated /\ UNCHANGED <<late, refresh>>
    BY <1>5 DEF Login, Issue
  <2>2. /\ issued + 1 \notin rotated \cup late
        /\ \A u \in Tabs : refresh'[u].result # issued + 1
        /\ issued' \in Nat /\ issued <= issued' /\ issued + 1 \in 0..issued'
    BY <1>1, <2>1
  <2> QED BY <1>1, <2>1, <2>2, StoreSafe
<1>6. CASE Logout(t)
  BY <1>3, <1>6 DEF Logout
<1>7. CASE HandleNotice(t)
  BY <1>7, QuietSafe DEF HandleNotice, server, tokens, history, pairsSeen
<1>8. ASSUME NEW c \in PageCalls, Send(t, c) PROVE Safe'
  BY <1>8, QuietSafe DEF Send, server, tokens, history, pairsSeen
<1>9. ASSUME NEW c \in Calls, Accepted(t, c) PROVE Safe'
  BY <1>9, QuietSafe DEF Accepted, server, tokens, history, pairsSeen
<1>10. ASSUME NEW c \in Calls, Failed(t, c) PROVE Safe'
  BY <1>3, <1>10, QuietSafe DEF Failed, SameSession, server, tokens, history, pairsSeen
<1>11. ASSUME NEW c \in Calls, Unauthorized(t, c) PROVE Safe'
  <2>1. UNCHANGED <<issued, rotated, late>>
    BY <1>11 DEF Unauthorized, server, tokens
  <2>2. CASE SameSession /\ UNCHANGED refresh
    BY <2>1, <2>2, QuietSafe DEF SameSession, history, pairsSeen
  <2>3. CASE /\ refresh[t].pc = "none" /\ storage # 0
             /\ refresh' = [refresh EXCEPT ![t] = [pc |-> "sent", pair |-> storage, result |-> 0]]
             /\ presented' = [presented EXCEPT ![t] = IF @ = 2 THEN 2 ELSE @ + 1]
             /\ UNCHANGED <<storage, cut>>
    BY <2>1, <2>3, PresentSafe
  <2>4. CASE /\ refresh[t].pc \in {"none", "spent"}
             /\ refresh' = [refresh EXCEPT ![t].pc = "spent"]
             /\ SignOut(t)
    <3> DEFINE spent == [refresh[t] EXCEPT !.pc = "spent"]
    <3>1. refresh[t].result = 0
      BY <1>1, <2>4 DEF Safe, PendingUnseen
    <3>2. /\ spent \in RefreshesUpTo(issued) /\ spent.result = 0
          /\ spent.pair = refresh[t].pair /\ spent.pc = "spent"
      BY <1>1, <3>1 DEF RefreshesUpTo
    <3>3. refresh' = [refresh EXCEPT ![t] = spent] /\ Store(0)
      BY <2>4 DEF SignOut
    <3> HIDE DEF spent
    <3> QED BY <1>1, <2>1, <3>2, <3>3, StoreSafe
  <2> QED BY <1>11, <2>2, <2>3, <2>4 DEF Unauthorized
<1>12. CASE RefreshAnswered(t)
  <2>1. /\ refresh' = [refresh EXCEPT ![t] = NoRefresh]
        /\ UNCHANGED <<issued, rotated, late>>
    BY <1>12 DEF RefreshAnswered, server, tokens
  <2>2. CASE refresh[t].result # 0
    <3> DEFINE p == refresh[t].result
    <3>1. Store(p) /\ p \in 0..issued /\ p \notin rotated \cup late
      BY <1>1, <1>12, <2>2 DEF RefreshAnswered, Safe, PendingUnseen, LateUnheld
    <3>2. \A u \in Tabs : refresh'[u].result # p
      BY <1>1, <1>2, <2>1, <2>2 DEF Safe, PendingUnseen
    <3> QED BY <1>1, <1>2, <2>1, <3>1, <3>2, StoreSafe
  <2>3. CASE refresh[t].result = 0
    BY <1>4, <1>12, <2>1, <2>3 DEF RefreshAnswered
  <2> QED BY <2>2, <2>3
<1>13. CASE RefreshUnanswered(t)
  BY <1>4, <1>13 DEF RefreshUnanswered, tokens
<1> QED
  BY <1>5, <1>6, <1>7, <1>8, <1>9, <1>10, <1>11, <1>12, <1>13, LoadSafe
     DEF TabStep, CallStep, RefreshStep

(* Every step keeps the inductive invariant.                                *)
LEMMA NextIInv == IInv /\ [Next]_vars => IInv'
<1> SUFFICES ASSUME IInv, [Next]_vars PROVE IInv'
  OBVIOUS
<1>1. TypeOK /\ Safe /\ AcceptedPair /\ (TypeOK' /\ Safe' => IInv')
  BY DEF IInv, Safe
<1>2. CASE ServerStep
  <2>1. ASSUME NEW p \in Pairs, AccessExpires(p) \/ RefreshExpires(p) PROVE Safe'
    BY <1>1, <2>1, QuietSafe DEF AccessExpires, RefreshExpires, history, pairsSeen
  <2> QED
    BY <1>1, <1>2, <2>1, ServerType, MovesSafe, ExchangeSafe, LateSafe DEF ServerStep
<1>3. ASSUME NEW u \in Tabs, TabStep(u) PROVE IInv'
  BY <1>1, <1>3, TabType, TabSafe
<1>4. CASE UNCHANGED vars
  <2>1. TypeOK'
    BY <1>1, <1>4 DEF vars, server, tokens, history, TypeOK
  <2> QED BY <1>1, <1>4, <2>1, QuietSafe DEF vars, server, tokens, history, pairsSeen
<1> QED BY <1>2, <1>3, <1>4 DEF Next

(* The inductive invariant holds throughout every behaviour.                *)
THEOREM WebInvariant == Spec => []IInv
  BY InitIInv, NextIInv, PTL DEF Spec

(* Every variable of the tabs, the browser and the server keeps its type.   *)
THEOREM TypeCorrect == Spec => []TypeOK
<1>1. IInv => TypeOK
  BY DEF IInv
<1> QED BY <1>1, WebInvariant, PTL

(* However many calls meet a 401 at once, a page presents each refresh      *)
(* token once.                                                              *)
THEOREM PresentsOnce == Spec => []PresentedOnce
<1>1. IInv => PresentedOnce
  BY DEF IInv
<1> QED BY <1>1, WebInvariant, PTL

(* A superseded token is stored only until its replacement arrives, or      *)
(* after a reload that cut the replacement off, whatever other tabs do.     *)
THEOREM StoresCurrent == Spec => []StoredIsCurrent
<1>1. IInv => StoredIsCurrent
  BY DEF IInv
<1> QED BY <1>1, WebInvariant, PTL

-----------------------------------------------------------------------------
(* That the server the tabs talk to is a TokenServer.                       *)

(* What it may still exchange, for a page that waits or for one that is     *)
(* gone.                                                                    *)
Accepting == {refresh[t].pair : t \in {u \in Tabs : refresh[u].pc = "accepted"}} \cup late

LEMMA AcceptingMeans ==
  /\ \A p : p \in Accepting <=>
            \/ p \in late
            \/ \E u \in Tabs : refresh[u].pc = "accepted" /\ refresh[u].pair = p
  /\ \A p : p \in Accepting' <=>
            \/ p \in late'
            \/ \E u \in Tabs : refresh'[u].pc = "accepted" /\ refresh'[u].pair = p
  BY DEF Accepting

(* A pair that is exchanged: the new one is the next in order.              *)
LEMMA ExchangeImplemented ==
  ASSUME TypeOK, NEW p \in 1..issued, p \in Accepting, Issue(p),
         Accepting' \in {Accepting, Accepting \ {p}}
  PROVE  Rotation!Next
<1>1. issued \in Nat /\ issued < MaxPairs /\ live \subseteq 1..issued
  BY DEF TypeOK, Issue
<1>2. PICK new \in Pairs : new = issued + 1
  BY <1>1, PairsAssumption DEF Pairs
<1>3. p \in Pairs /\ new \notin 1..issued /\ (1..issued)' = (1..issued) \cup {new}
  <2>1. issued' = issued + 1
    BY DEF Issue
  <2> QED BY <1>1, <1>2, <2>1, PairsAssumption DEF Pairs
<1>4. live' = (live \ {p}) \cup {new} /\ rotated' = rotated \cup {p}
  <2>1. p # issued + 1 /\ p # 0
    BY <1>1
  <2> QED BY <1>2, <2>1 DEF Issue
<1>5. Rotation!Exchange(p, new)
  <2>1. p \in Accepting /\ (Accepting' = Accepting \/ Accepting' = Accepting \ {p})
    OBVIOUS
  <2> QED BY <1>3, <1>4, <2>1, ZenonT(60) DEF Rotation!Exchange, Accepting
<1> QED BY <1>3, <1>5 DEF Rotation!Next

(* A pair is no longer exchanged for the page it was accepted from; another *)
(* may still wait for it.                                                   *)
LEMMA AcceptingAfter ==
  ASSUME TypeOK, NEW t \in Tabs,
         \A u \in Tabs \ {t} : refresh'[u].pc = refresh[u].pc /\ refresh'[u].pair = refresh[u].pair,
         refresh'[t].pc # "accepted"
  PROVE  /\ UNCHANGED late =>
              IF refresh[t].pc = "accepted"
              THEN Accepting' \in {Accepting, Accepting \ {refresh[t].pair}}
              ELSE Accepting' = Accepting
         /\ Leave(t) => Accepting' = Accepting
<1>1. ASSUME UNCHANGED late, refresh[t].pc = "accepted"
      PROVE  Accepting' \in {Accepting, Accepting \ {refresh[t].pair}}
  <2>1. \A q : q # refresh[t].pair => (q \in Accepting' <=> q \in Accepting)
    BY <1>1, AcceptingMeans
  <2>2. refresh[t].pair \in Accepting
    BY <1>1, AcceptingMeans
  <2>3. CASE refresh[t].pair \in Accepting'
    <3>1. \A q : q \in Accepting' <=> q \in Accepting
      BY <2>1, <2>2, <2>3
    <3>2. Accepting' = Accepting
      BY <3>1 DEF Accepting
    <3> QED BY <3>2
  <2>4. CASE refresh[t].pair \notin Accepting'
    <3>1. \A q : q \in Accepting' <=> q \in Accepting \ {refresh[t].pair}
      BY <2>1, <2>4
    <3>2. Accepting' = Accepting \ {refresh[t].pair}
      BY <3>1 DEF Accepting
    <3> QED BY <3>2
  <2> QED BY <2>3, <2>4
<1>2. ASSUME UNCHANGED late, refresh[t].pc # "accepted" PROVE Accepting' = Accepting
  <2>1. \A q : q \in Accepting' <=> q \in Accepting
    BY <1>2, AcceptingMeans
  <2> QED BY <2>1 DEF Accepting
<1>3. ASSUME Leave(t) PROVE Accepting' = Accepting
  <2>1. \A q : q \in late' <=> q \in late \/ (refresh[t].pc = "accepted" /\ q = refresh[t].pair)
    BY <1>3 DEF Leave
  <2>2. \A q : q \in Accepting' <=> q \in Accepting
    BY <2>1, AcceptingMeans
  <2> QED BY <2>2 DEF Accepting
<1> QED BY <1>1, <1>2, <1>3

(* The steps that exchange nothing.                                         *)
LEMMA RotationOutcomes ==
  /\ UNCHANGED <<issued, live, rotated, Accepting>> => UNCHANGED Rotation!rotation
  /\ live' \subseteq live /\ UNCHANGED <<issued, rotated, Accepting>> => Rotation!Next
  /\ \A p \in Pairs :
       /\ p \in live /\ Accepting' = Accepting \cup {p} /\ UNCHANGED <<issued, live, rotated>>
            => Rotation!Next
       /\ p \in Accepting /\ Accepting' = Accepting \ {p} /\ UNCHANGED <<issued, live, rotated>>
            => Rotation!Next
<1>1. UNCHANGED <<issued, live, rotated, Accepting>> => UNCHANGED Rotation!rotation
  BY DEF Rotation!rotation, Accepting
<1>2. ASSUME live' \subseteq live, UNCHANGED <<issued, rotated, Accepting>> PROVE Rotation!Next
  <2>1. Rotation!Retire
    BY <1>2 DEF Rotation!Retire, Accepting
  <2> QED BY <2>1 DEF Rotation!Next
<1>3. ASSUME NEW p \in Pairs, p \in live, Accepting' = Accepting \cup {p},
             UNCHANGED <<issued, live, rotated>>
      PROVE  Rotation!Next
  <2>1. Rotation!Accept(p)
    BY <1>3 DEF Rotation!Accept, Accepting
  <2> QED BY <2>1 DEF Rotation!Next
<1>4. ASSUME NEW p \in Pairs, p \in Accepting, Accepting' = Accepting \ {p},
             UNCHANGED <<issued, live, rotated>>
      PROVE  Rotation!Next
  <2>1. Rotation!GiveUp(p)
    BY <1>4 DEF Rotation!GiveUp, Accepting
  <2> QED BY <2>1 DEF Rotation!Next
<1> QED BY <1>1, <1>2, <1>3, <1>4

(* Every step is a step of TokenServer, or a stutter.                       *)
LEMMA NextRotates ==
  IInv /\ [Next]_vars => Rotation!Next \/ UNCHANGED Rotation!rotation
<1> SUFFICES ASSUME IInv, [Next]_vars
             PROVE  Rotation!Next \/ UNCHANGED Rotation!rotation
  OBVIOUS
<1> DEFINE Goal == Rotation!Next \/ UNCHANGED Rotation!rotation
<1>1. /\ TypeOK /\ AcceptedPair
      /\ issued \in Nat /\ issued <= MaxPairs /\ late \subseteq 1..issued
      /\ 1..issued \subseteq Pairs
  <2>1. TypeOK /\ AcceptedPair
    BY DEF IInv
  <2>2. /\ issued \in Nat /\ issued <= MaxPairs /\ late \subseteq 1..issued
        /\ refresh \in [Tabs -> RefreshesUpTo(issued)]
    BY <2>1, Types
  <2>3. 1..issued \subseteq Pairs
    BY <2>2, PairsAssumption DEF Pairs
  <2> QED BY <2>1, <2>2, <2>3
<1>pair. ASSUME NEW t \in Tabs, refresh[t].pc = "accepted"
         PROVE  refresh[t].pair \in 1..issued /\ refresh[t].pair \in Pairs
  <2>1. refresh[t].pair \in 0..issued /\ refresh[t].pair # 0
    BY <1>1, <1>pair DEF TypeOK, AcceptedPair
  <2> QED BY <1>1, <2>1
<1>2. UNCHANGED <<refresh, late>> => Accepting' = Accepting
  BY DEF Accepting
<1>3. ASSUME UNCHANGED <<tokens, late, refresh>> PROVE Goal
  BY <1>2, <1>3, RotationOutcomes DEF tokens
<1>4. ASSUME NEW p \in Pairs, AccessExpires(p) \/ RefreshExpires(p) PROVE Goal
  BY <1>2, <1>4, RotationOutcomes DEF AccessExpires, RefreshExpires
<1>5. ASSUME NEW p \in Pairs, ExchangeLate(p) PROVE Goal
  <2>1. p \in late /\ Issue(p) /\ late' = late \ {p} /\ UNCHANGED refresh
    BY <1>5 DEF ExchangeLate
  <2>2. p \in Accepting
    BY <2>1, AcceptingMeans
  <2>3. \A q : q # p => (q \in Accepting' <=> q \in Accepting)
    BY <2>1, AcceptingMeans
  <2>4. Accepting' \in {Accepting, Accepting \ {p}}
    <3>1. CASE p \in Accepting'
      <4>1. \A q : q \in Accepting' <=> q \in Accepting
        BY <2>2, <2>3, <3>1
      <4>2. Accepting' = Accepting
        BY <4>1 DEF Accepting
      <4> QED BY <4>2
    <3>2. CASE p \notin Accepting'
      <4>1. \A q : q \in Accepting' <=> q \in Accepting \ {p}
        BY <2>3, <3>2
      <4>2. Accepting' = Accepting \ {p}
        BY <4>1 DEF Accepting
      <4> QED BY <4>2
    <3> QED BY <3>1, <3>2
  <2> QED BY <1>1, <2>1, <2>2, <2>4, ExchangeImplemented
<1>6. ASSUME NEW t \in Tabs, AcceptRefresh(t) PROVE Goal
  <2> DEFINE p == refresh[t].pair
  <2>1. /\ p \in live /\ UNCHANGED <<issued, live, rotated, late>>
        /\ \A u \in Tabs : /\ refresh'[u].pair = refresh[u].pair
                           /\ u # t => refresh'[u].pc = refresh[u].pc
        /\ refresh[t].pc = "sent" /\ refresh'[t].pc = "accepted"
    BY <1>1, <1>6 DEF AcceptRefresh, server, tokens, TypeOK
  <2>2. p \in Pairs
    BY <1>1, <2>1 DEF TypeOK
  <2>3. \A q : q \in Accepting' <=> q \in Accepting \cup {p}
    BY <2>1, AcceptingMeans
  <2>4. Accepting' = Accepting \cup {p}
    BY <2>3 DEF Accepting
  <2> QED BY <2>1, <2>2, <2>4, RotationOutcomes
<1>7. ASSUME NEW t \in Tabs, ExchangeRefresh(t) \/ FailRefresh(t)
      PROVE  /\ \A u \in Tabs \ {t} : /\ refresh'[u].pc = refresh[u].pc
                                      /\ refresh'[u].pair = refresh[u].pair
             /\ refresh'[t].pc # "accepted" /\ UNCHANGED late
  BY <1>1, <1>7 DEF ExchangeRefresh, FailRefresh, server, TypeOK
<1>8. ASSUME NEW t \in Tabs, ExchangeRefresh(t) PROVE Goal
  <2> DEFINE p == refresh[t].pair
  <2>1. refresh[t].pc = "accepted" /\ Issue(p)
    BY <1>8 DEF ExchangeRefresh
  <2>2. p \in Accepting
    BY <2>1, AcceptingMeans
  <2>3. p \in 1..issued
    BY <1>pair, <2>1
  <2>4. Accepting' \in {Accepting, Accepting \ {p}}
    BY <1>1, <1>7, <1>8, <2>1, AcceptingAfter
  <2> QED BY <1>1, <2>1, <2>2, <2>3, <2>4, ExchangeImplemented
<1>9. ASSUME NEW t \in Tabs, FailRefresh(t) PROVE Goal
  <2>1. UNCHANGED <<issued, live, rotated>>
    BY <1>9 DEF FailRefresh, server, tokens
  <2>2. CASE refresh[t].pc = "accepted"
    <3> DEFINE p == refresh[t].pair
    <3>1. p \in Pairs /\ p \in Accepting
      <4>1. p \in Accepting
        BY <2>2, AcceptingMeans
      <4> QED BY <1>pair, <2>2, <4>1
    <3>2. Accepting' = Accepting \/ Accepting' = Accepting \ {p}
      BY <1>1, <1>7, <1>9, <2>2, AcceptingAfter
    <3> QED BY <2>1, <3>1, <3>2, RotationOutcomes
  <2>3. CASE refresh[t].pc # "accepted"
    <3>1. Accepting' = Accepting
      BY <1>1, <1>7, <1>9, <2>3, AcceptingAfter
    <3> QED BY <2>1, <3>1, RotationOutcomes
  <2> QED BY <2>2, <2>3
<1>10. ASSUME NEW t \in Tabs, Login(t) PROVE Goal
  <2>1. Issue(0) /\ Accepting' = Accepting
    BY <1>2, <1>10 DEF Login
  <2>2. issued < MaxPairs /\ live \subseteq 1..issued
    BY <1>1, <2>1 DEF Issue, TypeOK
  <2>3. PICK new \in Pairs : new = issued + 1
    BY <1>1, <2>2, PairsAssumption DEF Pairs
  <2>4. /\ new \notin 1..issued /\ (1..issued)' = (1..issued) \cup {new}
        /\ live' = live \cup {new} /\ rotated' = rotated
    <3>1. issued' = issued + 1
      BY <2>1 DEF Issue
    <3>2. new \notin 1..issued /\ (1..issued)' = (1..issued) \cup {new}
      BY <1>1, <2>3, <3>1
    <3>3. live' = live \cup {new} /\ rotated' = rotated
      BY <1>1, <2>1, <2>2, <2>3 DEF Issue
    <3> QED BY <3>2, <3>3
  <2>5. Rotation!Grant(new)
    BY <2>1, <2>3, <2>4 DEF Rotation!Grant, Accepting
  <2> QED BY <2>3, <2>5 DEF Rotation!Next
<1>11. ASSUME NEW t \in Tabs, Logout(t) PROVE Goal
  <2>1. UNCHANGED <<issued, rotated, Accepting>> /\ live' \subseteq live
    BY <1>2, <1>11 DEF Logout
  <2> QED BY <2>1, RotationOutcomes
<1>12. ASSUME NEW t \in Tabs, NEW r, refresh' = [refresh EXCEPT ![t] = r], r.pc # "accepted",
              UNCHANGED tokens,
              Leave(t) \/ (UNCHANGED late /\ refresh[t].pc # "accepted")
       PROVE  Goal
  <2>1. /\ \A u \in Tabs \ {t} : /\ refresh'[u].pc = refresh[u].pc
                                 /\ refresh'[u].pair = refresh[u].pair
        /\ refresh'[t].pc # "accepted"
    BY <1>1, <1>12 DEF TypeOK
  <2>2. Accepting' = Accepting
    BY <1>1, <1>12, <2>1, AcceptingAfter
  <2> QED BY <1>12, <2>2, RotationOutcomes DEF tokens
<1>13. ASSUME NEW t \in Tabs, Load(t) \/ RefreshUnanswered(t) \/ RefreshAnswered(t) PROVE Goal
  BY <1>12, <1>13 DEF Load, RefreshUnanswered, RefreshAnswered, NoRefresh, server
<1>14. ASSUME NEW t \in Tabs, NEW c \in Calls, Unauthorized(t, c) PROVE Goal
  <2>1. UNCHANGED <<tokens, late>>
    BY <1>14 DEF Unauthorized, server
  <2>2. CASE UNCHANGED refresh
    BY <1>3, <2>1, <2>2
  <2>3. CASE /\ refresh[t].pc \in {"none", "spent"}
             /\ \/ refresh' = [refresh EXCEPT ![t] = [pc |-> "sent", pair |-> storage, result |-> 0]]
                \/ refresh' = [refresh EXCEPT ![t] = [refresh[t] EXCEPT !.pc = "spent"]]
    <3>1. /\ [pc |-> "sent", pair |-> storage, result |-> 0].pc # "accepted"
          /\ [refresh[t] EXCEPT !.pc = "spent"].pc # "accepted"
      BY <1>1 DEF TypeOK
    <3> QED BY <1>12, <2>1, <2>3, <3>1
  <2> QED BY <1>14, <2>2, <2>3 DEF Unauthorized
<1>15. ASSUME NEW t \in Tabs, TabStep(t) PROVE Goal
  <2>1. HandleNotice(t) \/ (\E c \in PageCalls : Send(t, c))
          \/ (\E c \in Calls : Accepted(t, c) \/ Failed(t, c)) => UNCHANGED <<tokens, late, refresh>>
    BY DEF HandleNotice, Send, Accepted, Failed, server
  <2> HIDE DEF Goal
  <2> QED
    BY <1>3, <1>10, <1>11, <1>13, <1>14, <1>15, <2>1 DEF TabStep, CallStep, RefreshStep
<1>16. ASSUME UNCHANGED vars PROVE Goal
  BY <1>3, <1>16 DEF vars, server
<1> HIDE DEF Goal
<1>17. ASSUME ServerStep PROVE Goal
  BY <1>4, <1>5, <1>6, <1>8, <1>9, <1>17 DEF ServerStep
<1>18. Goal
  BY <1>15, <1>16, <1>17 DEF Next
<1> QED BY <1>18 DEF Goal

(* The server as the tabs see it implements TokenServer, as AuthSessions    *)
(* does: it exchanges only what it has accepted, and accepts nothing that   *)
(* was exchanged, expired or revoked.                                       *)
THEOREM ServerRotates == Spec => Rotates
<1>1. Init => Rotation!Init
  BY DEF Init, Rotation!Init, NoRefresh
<1>2. IInv /\ [Next]_vars => [Rotation!Next]_(Rotation!rotation)
  BY NextRotates
<1> QED BY <1>1, <1>2, WebInvariant, PTL DEF Spec, Rotates, Rotation!Spec
=============================================================================
