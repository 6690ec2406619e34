------------------------- MODULE MobileSessionProofs -------------------------
(***************************************************************************)
(* The running app presents a refresh token once, and the two tokens in the *)
(* keystore are of one session, for any number of calls and pairs.         *)
(***************************************************************************)
EXTENDS MobileSession, TLAPS

Reads  == {"start", "send", "resend", "refresh", "logout"}
Writes == {"adopted", "stored", "refused", "ended", "nothing"}

(* A request to the keystore.                                               *)
Entry ==
  {e \in [kind : {"read", "write"}, pair : Nat, then : Reads \cup Writes, who : SUBSET Calls] :
     /\ e.kind = "write" <=> e.then \in Writes
     /\ e.then = "start" => e.who = {Me}}

Types ==
  /\ issued \in 0..MaxPairs
  /\ keys \in [access : 0..issued, refresh : 0..issued]
  /\ status \in {"off", "loading", "anonymous", "authenticated"}
  /\ login \in [pc : {"idle", "sent", "answered", "storing"}, pair : 0..issued]
  /\ refresh \in [pc : {"none", "spent", "reading", "sent", "answered", "storing"},
                  pair : Nat, result : 0..issued]
  /\ call \in [Calls -> [pc : {"idle", "reading", "sent", "retried", "waiting", "ending"},
                         pair : Nat]]
  /\ presented \in [Pairs -> 0..1]
  /\ \A p \in Pairs : p > issued => presented[p] = 0

-----------------------------------------------------------------------------
(* The queue: one request for each thing that waits for one.                *)

Absent(q, thens) == \A i \in DOMAIN q : q[i].then \notin thens
Solo(q, thens)   == \A i, j \in DOMAIN q : q[i].then \in thens /\ q[j].then \in thens => i = j

Ending == {"stored", "refused"}

(* The calls for which a request was made wait for that one.                *)
Bound(e, cl) ==
  \A c \in e.who : cl[c].pc = IF e.then = "ended" THEN "ending"
                              ELSE IF e.then = "start" THEN "idle" ELSE "reading"

(* What a request writes.                                                   *)
Writing(e, rf, lg) ==
  \/ e.pair = 0
  \/ e.then = "stored" /\ e.pair = rf.result
  \/ e.then = "adopted" /\ e.pair = lg.pair

(* The queue q fits the refresh rf, the login lg and the calls cl.          *)
Orderly(q, rf, lg, cl) ==
  /\ q \in Seq(Entry)
  /\ Solo(q, {"refresh"})  /\ (rf.pc # "reading" => Absent(q, {"refresh"}))
  /\ Solo(q, Ending)       /\ (rf.pc # "storing" => Absent(q, Ending))
  /\ Solo(q, {"adopted"})  /\ (lg.pc # "storing" => Absent(q, {"adopted"}))
  /\ \A i \in DOMAIN q : Writing(q[i], rf, lg) /\ Bound(q[i], cl)
  /\ \A i, j \in DOMAIN q : i # j => q[i].who \cap q[j].who = {}

(* The keys k are not of a token that was presented, as counted by pr.      *)
Clean(k, pr) == k.access = 0 \/ k.refresh = 0 \/ pr[k.refresh] = 0

(* Whoever reads the keystore in order to refresh finds no token that was   *)
(* presented: not now, or not once a write before it is done.               *)
Ready(q, k, rf, pr) ==
  /\ \A i \in DOMAIN q : q[i].then = "refresh" =>
       Clean(k, pr) \/ \E j \in 1..(i - 1) : q[j].kind = "write"
  /\ rf.pc \in {"none", "spent", "storing"} =>
       Clean(k, pr) \/ \E j \in DOMAIN q : q[j].kind = "write"

(* The pair p is not stored yet.                                            *)
NotYet(p, k, pr) == p # 0 => pr[p] = 0 /\ p # k.refresh

Spare ==
  /\ NotYet(refresh.result, keys, presented) /\ NotYet(login.pair, keys, presented)
  /\ refresh.result = login.pair => login.pair = 0

(* A refresh has somebody who waits for it.                                 *)
Awaited == refresh.pc \notin {"none", "spent"} => \E c \in Calls : call[c].pc = "waiting"

Off ==
  status = "off" => /\ queue = <<>> /\ login = NoLogin /\ refresh = NoRefresh
                    /\ \A c \in Calls : call[c].pc = "idle"

IInv ==
  /\ Types /\ Spare /\ Awaited /\ Off
  /\ Orderly(queue, refresh, login, call)
  /\ Ready(queue, keys, refresh, presented)

-----------------------------------------------------------------------------
(* What happens to the queue: its head is taken, one is added, or what it   *)
(* refers to changes.                                                       *)

LEMMA Dropped ==
  ASSUME NEW q \in Seq(Entry), q # <<>>
  PROVE  /\ Tail(q) \in Seq(Entry) /\ Head(q) \in Entry /\ Head(q) = q[1] /\ 1 \in DOMAIN q
         /\ \A i \in DOMAIN Tail(q) : i + 1 \in DOMAIN q /\ Tail(q)[i] = q[i + 1] /\ i \in Nat \ {0}
         /\ \A i \in DOMAIN q : i # 1 => i - 1 \in DOMAIN Tail(q)
  OBVIOUS

LEMMA Added ==
  ASSUME NEW q \in Seq(Entry), NEW e \in Entry
  PROVE  /\ Append(q, e) \in Seq(Entry)
         /\ DOMAIN Append(q, e) = DOMAIN q \cup {Len(q) + 1} /\ Len(q) + 1 \notin DOMAIN q
         /\ \A i \in DOMAIN q : Append(q, e)[i] = q[i]
         /\ Append(q, e)[Len(q) + 1] = e
  OBVIOUS

LEMMA SoloDropped ==
  ASSUME NEW q \in Seq(Entry), q # <<>>, NEW thens, Solo(q, thens)
  PROVE  /\ Solo(Tail(q), thens)
         /\ Absent(q, thens) => Absent(Tail(q), thens)
         /\ Head(q).then \in thens => Absent(Tail(q), thens)
<1>1. Solo(Tail(q), thens)
  BY Dropped DEF Solo
<1>2. Absent(q, thens) => Absent(Tail(q), thens)
  BY Dropped DEF Absent
<1>3. Head(q).then \in thens => Absent(Tail(q), thens)
  <2> SUFFICES ASSUME Head(q).then \in thens, NEW i \in DOMAIN Tail(q), Tail(q)[i].then \in thens
               PROVE  FALSE
    BY DEF Absent
  <2>1. i + 1 \in DOMAIN q /\ q[i + 1].then \in thens /\ q[1].then \in thens /\ 1 \in DOMAIN q
        /\ i \in Nat \ {0}
    BY Dropped
  <2>2. i + 1 = 1
    BY <2>1 DEF Solo
  <2> QED BY <2>1, <2>2
<1> QED BY <1>1, <1>2, <1>3

LEMMA SoloAdded ==
  ASSUME NEW q \in Seq(Entry), NEW e \in Entry, NEW thens, Solo(q, thens),
         e.then \in thens => Absent(q, thens)
  PROVE  /\ Solo(Append(q, e), thens)
         /\ e.then \notin thens /\ Absent(q, thens) => Absent(Append(q, e), thens)
<1>1. Solo(Append(q, e), thens)
  <2> SUFFICES ASSUME NEW i \in DOMAIN Append(q, e), NEW j \in DOMAIN Append(q, e),
                      Append(q, e)[i].then \in thens, Append(q, e)[j].then \in thens
               PROVE  i = j
    BY DEF Solo
  <2>1. CASE i \in DOMAIN q /\ j \in DOMAIN q
    BY <2>1, Added DEF Solo
  <2>2. CASE i \notin DOMAIN q \/ j \notin DOMAIN q
    BY <2>2, Added DEF Absent
  <2> QED BY <2>1, <2>2
<1>2. e.then \notin thens /\ Absent(q, thens) => Absent(Append(q, e), thens)
  BY Added DEF Absent
<1> QED BY <1>1, <1>2

LEMMA OrderlyFacts ==
  ASSUME NEW q, NEW rf, NEW lg, NEW cl, Orderly(q, rf, lg, cl)
  PROVE  /\ q \in Seq(Entry)
         /\ rf.pc # "reading" => Absent(q, {"refresh"})
         /\ rf.pc # "storing" => Absent(q, Ending)
         /\ lg.pc # "storing" => Absent(q, {"adopted"})
         /\ \A i \in DOMAIN q : q[i] \in Entry /\ Bound(q[i], cl)
  BY DEF Orderly

LEMMA OrderlyDrop ==
  ASSUME NEW q, NEW rf, NEW lg, NEW cl, Orderly(q, rf, lg, cl), q # <<>>
  PROVE  /\ Orderly(Tail(q), rf, lg, cl)
         /\ Head(q) \in Entry /\ Writing(Head(q), rf, lg) /\ Bound(Head(q), cl)
         /\ Head(q).then = "refresh" => Absent(Tail(q), {"refresh"})
         /\ Head(q).then \in Ending => Absent(Tail(q), Ending)
         /\ Head(q).then = "adopted" => Absent(Tail(q), {"adopted"})
         /\ \A i \in DOMAIN Tail(q) : Tail(q)[i].who \cap Head(q).who = {}
<1>1. q \in Seq(Entry) /\ Tail(q) \in Seq(Entry) /\ Head(q) \in Entry
  BY Dropped DEF Orderly
<1>2. /\ Solo(Tail(q), {"refresh"}) /\ (rf.pc # "reading" => Absent(Tail(q), {"refresh"}))
      /\ Head(q).then = "refresh" => Absent(Tail(q), {"refresh"})
  BY <1>1, SoloDropped DEF Orderly
<1>3. /\ Solo(Tail(q), Ending) /\ (rf.pc # "storing" => Absent(Tail(q), Ending))
      /\ Head(q).then \in Ending => Absent(Tail(q), Ending)
  BY <1>1, SoloDropped DEF Orderly
<1>4. /\ Solo(Tail(q), {"adopted"}) /\ (lg.pc # "storing" => Absent(Tail(q), {"adopted"}))
      /\ Head(q).then = "adopted" => Absent(Tail(q), {"adopted"})
  BY <1>1, SoloDropped DEF Orderly
<1>5. \A i \in DOMAIN Tail(q) : Writing(Tail(q)[i], rf, lg) /\ Bound(Tail(q)[i], cl)
  BY <1>1, Dropped DEF Orderly
<1>6. Writing(Head(q), rf, lg) /\ Bound(Head(q), cl)
  BY <1>1, Dropped DEF Orderly
<1>7. \A i, j \in DOMAIN Tail(q) : i # j => Tail(q)[i].who \cap Tail(q)[j].who = {}
  <2> SUFFICES ASSUME NEW i \in DOMAIN Tail(q), NEW j \in DOMAIN Tail(q), i # j
               PROVE  Tail(q)[i].who \cap Tail(q)[j].who = {}
    OBVIOUS
  <2>1. /\ i + 1 \in DOMAIN q /\ j + 1 \in DOMAIN q /\ i + 1 # j + 1
        /\ Tail(q)[i] = q[i + 1] /\ Tail(q)[j] = q[j + 1]
    BY <1>1, Dropped
  <2> QED BY <2>1 DEF Orderly
<1>8. \A i \in DOMAIN Tail(q) : Tail(q)[i].who \cap Head(q).who = {}
  <2> SUFFICES ASSUME NEW i \in DOMAIN Tail(q)
               PROVE  Tail(q)[i].who \cap Head(q).who = {}
    OBVIOUS
  <2>1. /\ i + 1 \in DOMAIN q /\ 1 \in DOMAIN q /\ i + 1 # 1
        /\ Tail(q)[i] = q[i + 1] /\ Head(q) = q[1]
    BY <1>1, Dropped
  <2> QED BY <2>1 DEF Orderly
<1> QED BY <1>1, <1>2, <1>3, <1>4, <1>5, <1>6, <1>7, <1>8 DEF Orderly

LEMMA OrderlyChange ==
  ASSUME NEW q, NEW rf, NEW lg, NEW cl, Orderly(q, rf, lg, cl),
         NEW rf2, NEW lg2, NEW cl2,
         rf2.pc # "reading" => Absent(q, {"refresh"}),
         rf2.pc # "storing" => Absent(q, Ending),
         rf2.result = rf.result \/ Absent(q, Ending),
         lg2.pc # "storing" => Absent(q, {"adopted"}),
         lg2.pair = lg.pair \/ Absent(q, {"adopted"}),
         \A i \in DOMAIN q : \A c \in q[i].who : cl2[c].pc = cl[c].pc
  PROVE  Orderly(q, rf2, lg2, cl2)
<1>1. \A i \in DOMAIN q : Writing(q[i], rf2, lg2)
  BY DEF Orderly, Writing, Absent, Ending
<1>2. \A i \in DOMAIN q : Bound(q[i], cl2)
  BY DEF Orderly, Bound
<1> QED BY <1>1, <1>2 DEF Orderly

LEMMA OrderlyAdd ==
  ASSUME NEW q, NEW rf, NEW lg, NEW cl, Orderly(q, rf, lg, cl), NEW e \in Entry,
         e.then = "refresh" => rf.pc = "reading" /\ Absent(q, {"refresh"}),
         e.then \in Ending => rf.pc = "storing" /\ Absent(q, Ending),
         e.then = "adopted" => lg.pc = "storing" /\ Absent(q, {"adopted"}),
         Writing(e, rf, lg), Bound(e, cl),
         \A i \in DOMAIN q : q[i].who \cap e.who = {}
  PROVE  Orderly(Append(q, e), rf, lg, cl)
<1>1. q \in Seq(Entry) /\ Append(q, e) \in Seq(Entry)
  BY Added DEF Orderly
<1>2. /\ Solo(Append(q, e), {"refresh"})
      /\ rf.pc # "reading" => Absent(Append(q, e), {"refresh"})
  BY <1>1, SoloAdded DEF Orderly
<1>3. /\ Solo(Append(q, e), Ending)
      /\ rf.pc # "storing" => Absent(Append(q, e), Ending)
  BY <1>1, SoloAdded DEF Orderly
<1>4. /\ Solo(Append(q, e), {"adopted"})
      /\ lg.pc # "storing" => Absent(Append(q, e), {"adopted"})
  BY <1>1, SoloAdded DEF Orderly
<1>5. \A i \in DOMAIN Append(q, e) : Writing(Append(q, e)[i], rf, lg) /\ Bound(Append(q, e)[i], cl)
  BY <1>1, Added DEF Orderly
<1>6. \A i, j \in DOMAIN Append(q, e) :
        i # j => Append(q, e)[i].who \cap Append(q, e)[j].who = {}
  BY <1>1, Added DEF Orderly
<1> QED BY <1>1, <1>2, <1>3, <1>4, <1>5, <1>6 DEF Orderly

LEMMA ReadyDrop ==
  ASSUME NEW q \in Seq(Entry), NEW k, NEW rf, NEW pr, Ready(q, k, rf, pr),
         q # <<>>, Head(q).kind = "read"
  PROVE  Ready(Tail(q), k, rf, pr)
<1>1. Clean(k, pr) => Ready(Tail(q), k, rf, pr)
  BY DEF Ready
<1>2. ASSUME NEW i \in DOMAIN Tail(q), Tail(q)[i].then = "refresh", ~Clean(k, pr)
      PROVE  \E j \in 1..(i - 1) : Tail(q)[j].kind = "write"
  <2>1. i + 1 \in DOMAIN q /\ q[i + 1].then = "refresh" /\ i \in Nat
    BY <1>2, Dropped
  <2>2. PICK j \in 1..i : q[j].kind = "write"
    BY <2>1, <1>2 DEF Ready
  <2>3. j # 1 /\ j \in DOMAIN q
    BY <2>1, <2>2, Dropped
  <2>4. j - 1 \in DOMAIN Tail(q) /\ Tail(q)[j - 1] = q[j] /\ j - 1 \in 1..(i - 1)
    BY <2>1, <2>2, <2>3
  <2> QED BY <2>2, <2>4
<1>3. ASSUME rf.pc \in {"none", "spent", "storing"}, ~Clean(k, pr)
      PROVE  \E j \in DOMAIN Tail(q) : Tail(q)[j].kind = "write"
  <2>1. PICK j \in DOMAIN q : q[j].kind = "write"
    BY <1>3 DEF Ready
  <2>2. j # 1
    BY <2>1, Dropped
  <2>3. j - 1 \in DOMAIN Tail(q) /\ Tail(q)[j - 1] = q[j]
    BY <2>2
  <2> QED BY <2>1, <2>3
<1> QED BY <1>1, <1>2, <1>3 DEF Ready

(* A refresh that ends, or begins, leaves or finds a write behind it.       *)
LEMMA ReadyAdd ==
  ASSUME NEW q \in Seq(Entry), NEW k, NEW rf, NEW pr, Ready(q, k, rf, pr),
         NEW e \in Entry, NEW rf2,
         e.then = "refresh" => rf.pc = "none",
         rf2.pc \in {"none", "spent", "storing"} =>
           rf.pc \in {"none", "spent", "storing"} \/ e.kind = "write"
  PROVE  Ready(Append(q, e), k, rf2, pr)
<1>1. ASSUME NEW i \in DOMAIN q, q[i].then = "refresh", ~Clean(k, pr)
      PROVE  \E j \in 1..(i - 1) : Append(q, e)[j].kind = "write"
  <2>1. PICK j \in 1..(i - 1) : q[j].kind = "write"
    BY <1>1 DEF Ready
  <2>2. j \in DOMAIN q
    OBVIOUS
  <2> QED BY <2>1, <2>2, Added
<1>2. ASSUME rf.pc \in {"none", "spent", "storing"}, ~Clean(k, pr)
      PROVE  \E j \in 1..Len(q) : Append(q, e)[j].kind = "write"
  <2>1. PICK j \in DOMAIN q : q[j].kind = "write"
    BY <1>2 DEF Ready
  <2> QED BY <2>1, Added
<1>3. ASSUME NEW i \in DOMAIN Append(q, e), Append(q, e)[i].then = "refresh", ~Clean(k, pr)
      PROVE  \E j \in 1..(i - 1) : Append(q, e)[j].kind = "write"
  <2>1. CASE i \in DOMAIN q
    BY <2>1, <1>1, <1>3, Added
  <2>2. CASE i = Len(q) + 1
    <3>1. i - 1 = Len(q) /\ e.then = "refresh"
      BY <2>2, <1>3, Added
    <3> QED BY <3>1, <1>2, <1>3
  <2> QED BY <2>1, <2>2, Added
<1>4. ASSUME rf2.pc \in {"none", "spent", "storing"}, ~Clean(k, pr)
      PROVE  \E j \in DOMAIN Append(q, e) : Append(q, e)[j].kind = "write"
  <2>1. CASE e.kind = "write"
    BY <2>1, Added
  <2>2. CASE rf.pc \in {"none", "spent", "storing"}
    BY <2>2, <1>2, <1>4, Added
  <2> QED BY <2>1, <2>2, <1>4
<1> QED BY <1>3, <1>4 DEF Ready

-----------------------------------------------------------------------------
(* The requests, and what endings and wakings add to the queue.             *)

LEMMA Requests ==
  ASSUME NEW who \in SUBSET Calls
  PROVE  /\ \A then \in Reads : then # "start" \/ who = {Me} => Read(then, who) \in Entry
         /\ \A then \in Writes, pair \in Nat : Write(pair, then, who) \in Entry
         /\ \A then : LET e == Read(then, who) IN
              e.kind = "read" /\ e.then = then /\ e.pair = 0 /\ e.who = who
         /\ \A then, pair : LET e == Write(pair, then, who) IN
              e.kind = "write" /\ e.then = then /\ e.pair = pair /\ e.who = who
<1>1. \A then \in Reads : then # "start" \/ who = {Me} => Read(then, who) \in Entry
  BY DEF Read, Entry, Reads, Writes
<1>2. \A then \in Writes, pair \in Nat : Write(pair, then, who) \in Entry
  BY DEF Write, Entry, Reads, Writes
<1> QED BY <1>1, <1>2 DEF Read, Write

LEMMA VoidedFits ==
  ASSUME NEW q, NEW rf, NEW lg, NEW cl, Orderly(q, rf, lg, cl)
  PROVE  /\ Orderly(Voided(q), rf, lg, cl)
         /\ \A k, pr : Ready(q, k, rf, pr) => Ready(Voided(q), k, rf, pr)
         /\ \A thens : "nothing" \notin thens /\ Absent(q, thens) => Absent(Voided(q), thens)
         /\ \A i \in DOMAIN Voided(q) :
              \/ i \in DOMAIN q /\ Voided(q)[i] = q[i]
              \/ Voided(q)[i].who = {}
<1> DEFINE e == Write(0, "nothing", {})
<1>1. e \in Entry /\ e.kind = "write" /\ e.then = "nothing" /\ e.pair = 0 /\ e.who = {}
  BY Requests DEF Writes
<1>2. q \in Seq(Entry)
  BY DEF Orderly
<1>3. Voided(q) = q \/ Voided(q) = Append(q, e)
  BY DEF Voided
<1> HIDE DEF e
<1>4. Orderly(Append(q, e), rf, lg, cl)
  BY <1>1, OrderlyAdd DEF Writing, Bound, Ending
<1>5. \A k, pr : Ready(q, k, rf, pr) => Ready(Append(q, e), k, rf, pr)
  BY <1>1, <1>2, ReadyAdd
<1>6. \A thens : "nothing" \notin thens /\ Absent(q, thens) => Absent(Append(q, e), thens)
  BY <1>1, <1>2, Added DEF Absent
<1>7. \A i \in DOMAIN Append(q, e) :
        \/ i \in DOMAIN q /\ Append(q, e)[i] = q[i]
        \/ Append(q, e)[i].who = {}
  BY <1>1, <1>2, Added
<1> QED BY <1>3, <1>4, <1>5, <1>6, <1>7

(* The calls that wait for the refresh are in nobody's request.             *)
LEMMA WakeFits ==
  ASSUME Types, NEW q, NEW rf, NEW lg, Orderly(q, rf, lg, call), NEW to
  PROVE  /\ \A i \in DOMAIN q : \A c \in q[i].who : Wake(Waiters, to)[c].pc = call[c].pc
         /\ \A i \in DOMAIN q : q[i].who \cap Waiters = {}
         /\ \A c \in Waiters : Wake(Waiters, to)[c].pc = to
         /\ Waiters \in SUBSET Calls
<1>1. \A i \in DOMAIN q : q[i] \in Entry /\ Bound(q[i], call)
  BY DEF Orderly
<1>2. \A i \in DOMAIN q : q[i].who \cap Waiters = {}
  BY <1>1 DEF Bound, Waiters
<1>3. \A i \in DOMAIN q : q[i].who \subseteq Calls
  BY <1>1 DEF Entry
<1>4. \A c \in Calls : c \notin Waiters => Wake(Waiters, to)[c] = call[c]
  BY DEF Wake
<1>5. \A c \in Waiters : Wake(Waiters, to)[c].pc = to
  BY DEF Wake, Waiters
<1> QED BY <1>2, <1>3, <1>4, <1>5 DEF Waiters

LEMMA GiveUpFits ==
  ASSUME Types, NEW q, NEW rf, NEW lg, Orderly(q, rf, lg, call),
         Absent(q, {"refresh"}), Absent(q, Ending), NEW rf2
  PROVE  /\ Orderly(GiveUp(q), rf2, lg, Wake(Waiters, "ending"))
         /\ \A k, pr : Ready(q, k, rf, pr) /\ Waiters # {} => Ready(GiveUp(q), k, rf2, pr)
<1> DEFINE cl == Wake(Waiters, "ending")
           e == Write(0, "ended", Waiters)
<1>1. /\ \A i \in DOMAIN q : \A c \in q[i].who : cl[c].pc = call[c].pc
      /\ \A i \in DOMAIN q : q[i].who \cap Waiters = {}
      /\ \A c \in Waiters : cl[c].pc = "ending"
      /\ Waiters \in SUBSET Calls
  BY WakeFits
<1>2. e \in Entry /\ e.kind = "write" /\ e.then = "ended" /\ e.pair = 0 /\ e.who = Waiters
  BY <1>1, Requests DEF Writes
<1>3. q \in Seq(Entry) /\ (lg.pc # "storing" => Absent(q, {"adopted"}))
  BY DEF Orderly
<1>4. GiveUp(q) = IF Waiters = {} THEN q ELSE Append(q, e)
  BY DEF GiveUp
<1> HIDE DEF cl, e
<1>5. Orderly(q, rf2, lg, cl)
  BY <1>1, <1>3, OrderlyChange
<1>6. Orderly(Append(q, e), rf2, lg, cl)
  BY <1>1, <1>2, <1>5, OrderlyAdd DEF Writing, Bound, Ending
<1>7. \A k, pr : Ready(q, k, rf, pr) => Ready(Append(q, e), k, rf2, pr)
  BY <1>2, <1>3, ReadyAdd
<1> QED BY <1>4, <1>5, <1>6, <1>7 DEF cl

-----------------------------------------------------------------------------
LEMMA InitIInv == MobInit => IInv
<1> SUFFICES ASSUME MobInit PROVE IInv
  OBVIOUS
<1>1. Types
  BY MobileAssumption DEF MobInit, Types, NoLogin, NoRefresh, NoCall, Pairs
<1>2. Spare /\ Awaited /\ Off
  BY DEF MobInit, Spare, Awaited, Off, NotYet, NoLogin, NoRefresh, NoCall
<1>3. Orderly(queue, refresh, login, call)
  BY DEF MobInit, Orderly, Solo, Absent
<1>4. Ready(queue, keys, refresh, presented)
  BY DEF MobInit, Ready, Clean
<1> QED BY <1>1, <1>2, <1>3, <1>4 DEF IInv

(* What every step may use of the request at the head of the queue.         *)
LEMMA HeadFacts ==
  ASSUME IInv, queue # <<>>
  PROVE  /\ queue \in Seq(Entry) /\ Head(queue) \in Entry
         /\ Orderly(Tail(queue), refresh, login, call)
         /\ Writing(Head(queue), refresh, login) /\ Bound(Head(queue), call)
         /\ Head(queue).kind = "read" => Ready(Tail(queue), keys, refresh, presented)
         /\ status # "off"
         /\ Head(queue).then = "refresh" =>
              refresh.pc = "reading" /\ Absent(Tail(queue), {"refresh"}) /\ Clean(keys, presented)
         /\ Head(queue).then \in Ending =>
              refresh.pc = "storing" /\ Absent(Tail(queue), Ending)
         /\ Head(queue).then = "adopted" =>
              login.pc = "storing" /\ Absent(Tail(queue), {"adopted"})
         /\ \A i \in DOMAIN Tail(queue) : Tail(queue)[i].who \cap Head(queue).who = {}
<1>1. Orderly(queue, refresh, login, call) /\ queue \in Seq(Entry)
  BY DEF IInv, Orderly
<1>2. Head(queue) = queue[1] /\ 1 \in DOMAIN queue
  BY <1>1, Dropped
<1>3. Head(queue).then = "refresh" => refresh.pc = "reading" /\ Clean(keys, presented)
  BY <1>1, <1>2 DEF IInv, Orderly, Absent, Ready
<1>4. Head(queue).then \in Ending => refresh.pc = "storing"
  BY <1>1, <1>2 DEF Orderly, Absent
<1>5. Head(queue).then = "adopted" => login.pc = "storing"
  BY <1>1, <1>2 DEF Orderly, Absent
<1>6. status # "off"
  BY DEF IInv, Off
<1>7. Head(queue).kind = "read" => Ready(Tail(queue), keys, refresh, presented)
  BY <1>1, ReadyDrop DEF IInv
<1> QED BY <1>1, <1>3, <1>4, <1>5, <1>6, <1>7, OrderlyDrop

(* A write that is done leaves a token that was not presented, or none.     *)
LEMMA WrittenClean ==
  ASSUME IInv, queue # <<>>, Written
  PROVE  /\ Clean(keys', presented)
         /\ keys' \in [access : 0..issued, refresh : 0..issued]
         /\ keys'.refresh = Head(queue).pair
<1>1. Writing(Head(queue), refresh, login)
  BY HeadFacts
<1>2. Head(queue).pair \in {0, refresh.result, login.pair}
  BY <1>1 DEF Writing
<1>3. keys' = [access |-> Head(queue).pair, refresh |-> Head(queue).pair]
  BY DEF Written
<1> QED BY <1>2, <1>3 DEF IInv, Types, Spare, NotYet, Clean

-----------------------------------------------------------------------------
(* AuthProvider and the screens.                                            *)

LEMMA LaunchStep == IInv /\ Launch => IInv'
<1> SUFFICES ASSUME IInv, Launch PROVE IInv'
  OBVIOUS
<1> DEFINE e == Read("start", {Me})
<1>1. /\ queue = <<>> /\ queue' = <<e>> /\ call[Me].pc = "idle" /\ status' = "loading"
      /\ UNCHANGED <<issued, keys, login, refresh, call, presented>>
  BY DEF Launch, IInv, Off, server, past, Calls
<1>2. e \in Entry /\ e.then = "start" /\ e.kind = "read" /\ e.pair = 0 /\ e.who = {Me}
  BY Requests DEF Calls, Reads
<1> HIDE DEF e
<1>3. queue' = Append(queue, e)
  BY <1>1
<1>4. Orderly(queue, refresh, login, call) /\ queue \in Seq(Entry)
      /\ Ready(queue, keys, refresh, presented)
  BY DEF IInv, Orderly
<1>5. Orderly(queue', refresh', login', call')
  <2>1. Writing(e, refresh, login) /\ Bound(e, call) /\ e.then \notin Ending
    BY <1>1, <1>2 DEF Writing, Bound, Ending
  <2>2. \A i \in DOMAIN queue : queue[i].who \cap e.who = {}
    BY <1>1
  <2>3. Orderly(Append(queue, e), refresh, login, call)
    BY <1>2, <1>4, <2>1, <2>2, OrderlyAdd
  <2> QED BY <1>1, <1>3, <2>3
<1>6. Ready(queue', keys', refresh', presented')
  BY <1>1, <1>2, <1>3, <1>4, ReadyAdd
<1>7. Types' /\ Spare' /\ Awaited' /\ Off'
  BY <1>1 DEF IInv, Types, Spare, NotYet, Awaited, Off
<1> QED BY <1>5, <1>6, <1>7 DEF IInv

LEMMA StartStep == IInv /\ Start => IInv'
<1> SUFFICES ASSUME IInv, Start PROVE IInv'
  OBVIOUS
<1>1. /\ queue # <<>> /\ Head(queue).kind = "read" /\ Head(queue).then = "start"
      /\ UNCHANGED <<issued, keys, login, refresh, presented>>
  BY DEF Start, NextIs, server, past
<1>2. /\ Orderly(Tail(queue), refresh, login, call) /\ Tail(queue) \in Seq(Entry)
      /\ Ready(Tail(queue), keys, refresh, presented) /\ status # "off"
  BY <1>1, HeadFacts DEF Orderly
<1>3. CASE Pair.access = 0
  <2>1. queue' = Tail(queue) /\ call' = call /\ status' = "anonymous"
    BY <1>3 DEF Start
  <2>2. Types' /\ Spare' /\ Awaited' /\ Off'
    BY <1>1, <2>1 DEF IInv, Types, Spare, NotYet, Awaited, Off
  <2> QED BY <1>1, <1>2, <2>1, <2>2 DEF IInv
<1>4. CASE Pair.access # 0
  <2> DEFINE e == Read("send", {Me})
  <2>1. /\ queue' = Append(Tail(queue), e) /\ call' = [call EXCEPT ![Me].pc = "reading"]
        /\ status' = status
    BY <1>4 DEF Start
  <2>2. e \in Entry /\ e.then = "send" /\ e.kind = "read" /\ e.pair = 0 /\ e.who = {Me}
    BY Requests DEF Calls, Reads
  <2> HIDE DEF e
  <2>3. /\ Me \in Calls /\ call \in [Calls -> [pc : {"idle", "reading", "sent", "retried",
                                                     "waiting", "ending"}, pair : Nat]]
    BY DEF Calls, IInv, Types
  <2>4. /\ \A c \in Calls : c # Me => call'[c] = call[c]
        /\ call'[Me].pc = "reading" /\ Types'
    BY <1>1, <2>1, <2>3, <1>2 DEF IInv, Types
  <2>5. call[Me].pc = "idle" /\ \A i \in DOMAIN Tail(queue) : Me \notin Tail(queue)[i].who
    BY <1>1, HeadFacts DEF Bound, Entry
  <2>6. \A i \in DOMAIN Tail(queue) : \A c \in Tail(queue)[i].who : call'[c].pc = call[c].pc
    <3>1. \A i \in DOMAIN Tail(queue) : Tail(queue)[i] \in Entry
      BY <1>2, OrderlyFacts
    <3>2. \A i \in DOMAIN Tail(queue) : Tail(queue)[i].who \subseteq Calls
      BY <3>1 DEF Entry
    <3> QED BY <2>4, <2>5, <3>2
  <2>7. Orderly(Tail(queue), refresh, login, call')
    BY <1>2, <2>6, OrderlyFacts, OrderlyChange
  <2>8. Orderly(queue', refresh', login', call')
    BY <1>1, <2>1, <2>2, <2>4, <2>5, <2>7, OrderlyAdd DEF Writing, Bound, Ending
  <2>9. Ready(queue', keys', refresh', presented')
    BY <1>1, <1>2, <2>1, <2>2, ReadyAdd
  <2>10. Spare' /\ Awaited' /\ Off'
    BY <1>1, <1>2, <2>1, <2>4, <2>5 DEF IInv, Spare, NotYet, Awaited, Off
  <2> QED BY <2>4, <2>8, <2>9, <2>10 DEF IInv
<1> QED BY <1>3, <1>4

LEMMA SubmitStep == IInv /\ (Submit \/ SubmitFailed) => IInv'
<1> SUFFICES ASSUME IInv, Submit \/ SubmitFailed PROVE IInv'
  OBVIOUS
<1>1. /\ UNCHANGED <<issued, keys, queue, status, refresh, call, presented>>
      /\ login.pc # "storing" /\ login'.pc # "storing" /\ login'.pair \in {0, login.pair}
      /\ login' \in [pc : {"idle", "sent", "answered", "storing"}, pair : 0..issued]
  BY DEF Submit, SubmitFailed, NoLogin, IInv, Types, server, store, past
<1>2. status # "off"
  BY DEF Submit, SubmitFailed, Screens, IInv, Off, NoLogin
<1>3. Orderly(queue, refresh, login, call) /\ Absent(queue, {"adopted"})
  BY <1>1 DEF IInv, Orderly
<1>4. Orderly(queue, refresh, login', call)
  BY <1>1, <1>3, OrderlyFacts, OrderlyChange
<1>5. Types' /\ Spare' /\ Awaited' /\ Off'
  BY <1>1, <1>2 DEF IInv, Types, Spare, NotYet, Awaited, Off
<1> QED BY <1>1, <1>4, <1>5 DEF IInv

LEMMA AdoptStep == IInv /\ Adopt => IInv'
<1> SUFFICES ASSUME IInv, Adopt PROVE IInv'
  OBVIOUS
<1> DEFINE e == Write(login.pair, "adopted", {})
<1>1. /\ UNCHANGED <<issued, keys, status, refresh, call, presented>>
      /\ login.pc = "answered" /\ login' = [login EXCEPT !.pc = "storing"]
      /\ queue' = Append(queue, e)
  BY DEF Adopt, server, past
<1>2. /\ login'.pc = "storing" /\ login'.pair = login.pair /\ login.pair \in 0..issued
      /\ login' \in [pc : {"idle", "sent", "answered", "storing"}, pair : 0..issued]
  BY <1>1 DEF IInv, Types
<1>3. e \in Entry /\ e.then = "adopted" /\ e.kind = "write" /\ e.pair = login.pair /\ e.who = {}
  <2>1. login.pair \in Nat /\ {} \in SUBSET Calls /\ "adopted" \in Writes
    BY <1>2 DEF Writes, IInv, Types
  <2> QED BY <2>1, Requests
<1> HIDE DEF e
<1>4. /\ status # "off" /\ Orderly(queue, refresh, login, call) /\ queue \in Seq(Entry)
      /\ Absent(queue, {"adopted"}) /\ Ready(queue, keys, refresh, presented)
  BY <1>1 DEF IInv, Orderly, Off, NoLogin
<1>5. Orderly(queue, refresh, login', call)
  BY <1>2, <1>4, OrderlyFacts, OrderlyChange
<1>6. Orderly(queue', refresh', login', call')
  BY <1>1, <1>2, <1>3, <1>4, <1>5, OrderlyAdd DEF Writing, Bound, Ending
<1>7. Ready(queue', keys', refresh', presented')
  BY <1>1, <1>3, <1>4, ReadyAdd
<1>8. Types' /\ Spare' /\ Awaited' /\ Off'
  BY <1>1, <1>2, <1>4 DEF IInv, Types, Spare, NotYet, Awaited, Off
<1> QED BY <1>6, <1>7, <1>8 DEF IInv

LEMMA AdoptedStep == IInv /\ Adopted => IInv'
<1> SUFFICES ASSUME IInv, Adopted PROVE IInv'
  OBVIOUS
<1>1. /\ UNCHANGED <<issued, refresh, call, presented>>
      /\ queue # <<>> /\ Head(queue).then = "adopted" /\ Written /\ queue' = Tail(queue)
      /\ status' = "authenticated" /\ login' = NoLogin
  BY DEF Adopted, NextIs, server, past
<1>2. /\ Orderly(Tail(queue), refresh, login, call) /\ Absent(Tail(queue), {"adopted"})
      /\ Writing(Head(queue), refresh, login)
  BY <1>1, HeadFacts
<1>3. Orderly(Tail(queue), refresh, NoLogin, call)
  BY <1>2, OrderlyFacts, OrderlyChange
<1>4. /\ Clean(keys', presented) /\ keys' \in [access : 0..issued, refresh : 0..issued]
      /\ keys'.refresh = Head(queue).pair
  BY <1>1, WrittenClean
<1>5. Ready(queue', keys', refresh', presented')
  BY <1>1, <1>4 DEF Ready
<1>6. Head(queue).pair \in {0, login.pair}
  BY <1>1, <1>2 DEF Writing
<1>7. Spare'
  BY <1>1, <1>4, <1>6 DEF IInv, Types, Spare, NotYet, NoLogin
<1>8. Types' /\ Awaited' /\ Off'
  BY <1>1, <1>4 DEF IInv, Types, Awaited, Off, NoLogin
<1> QED BY <1>1, <1>3, <1>5, <1>7, <1>8 DEF IInv

LEMMA LogoutStep == IInv /\ Logout => IInv'
<1> SUFFICES ASSUME IInv, Logout PROVE IInv'
  OBVIOUS
<1> DEFINE e == Read("logout", {})
<1>1. /\ UNCHANGED <<issued, keys, status, login, refresh, call, presented>>
      /\ queue' = Append(queue, e) /\ status = "authenticated"
  BY DEF Logout, Screens, server, past, IInv, Types
<1>2. e \in Entry /\ e.then = "logout" /\ e.kind = "read" /\ e.pair = 0 /\ e.who = {}
  BY Requests DEF Reads
<1> HIDE DEF e
<1>3. /\ Orderly(queue, refresh, login, call) /\ queue \in Seq(Entry)
      /\ Ready(queue, keys, refresh, presented)
  BY OrderlyFacts DEF IInv
<1>4. Orderly(queue', refresh', login', call')
  BY <1>1, <1>2, <1>3, OrderlyAdd DEF Writing, Bound, Ending
<1>5. Ready(queue', keys', refresh', presented')
  BY <1>1, <1>2, <1>3, ReadyAdd
<1>6. Types' /\ Spare' /\ Awaited' /\ Off'
  BY <1>1 DEF IInv, Types, Spare, NotYet, Awaited, Off
<1> QED BY <1>4, <1>5, <1>6 DEF IInv

LEMMA LoggedOutStep == IInv /\ LoggedOut => IInv'
<1> SUFFICES ASSUME IInv, LoggedOut PROVE IInv'
  OBVIOUS
<1>1. /\ UNCHANGED <<issued, keys, login, refresh, call, presented>>
      /\ queue # <<>> /\ Head(queue).kind = "read" /\ status' = "anonymous"
      /\ queue' = Voided(Tail(queue))
  BY DEF LoggedOut, NextIs
<1>2. Orderly(Tail(queue), refresh, login, call) /\ Ready(Tail(queue), keys, refresh, presented)
  BY <1>1, HeadFacts
<1>3. Orderly(queue', refresh', login', call') /\ Ready(queue', keys', refresh', presented')
  BY <1>1, <1>2, VoidedFits
<1>4. Types' /\ Spare' /\ Awaited' /\ Off'
  BY <1>1 DEF IInv, Types, Spare, NotYet, Awaited, Off
<1> QED BY <1>3, <1>4 DEF IInv

LEMMA KillStep == IInv /\ Kill => IInv'
<1> SUFFICES ASSUME IInv, Kill PROVE IInv'
  OBVIOUS
<1>1. /\ issued' = issued /\ status' = "off" /\ queue' = <<>>
      /\ login' = NoLogin /\ refresh' = NoRefresh
      /\ call' = [c \in Calls |-> NoCall] /\ presented' = [p \in Pairs |-> 0]
  BY DEF Kill, server
<1>2. keys' \in [access : 0..issued, refresh : 0..issued]
  <2>1. CASE queue = <<>> \/ Head(queue).kind # "write"
    BY <2>1 DEF Kill, IInv, Types
  <2>2. CASE queue # <<>> /\ Head(queue).kind = "write"
    <3>1. Head(queue).pair \in 0..issued
      BY <2>2, HeadFacts DEF Writing, IInv, Types
    <3>2. keys' \in [access  : {keys.access, Head(queue).pair},
                     refresh : {keys.refresh, Head(queue).pair}]
      BY <2>2 DEF Kill
    <3>3. keys.access \in 0..issued /\ keys.refresh \in 0..issued
      BY DEF IInv, Types
    <3> QED BY <3>1, <3>2, <3>3
  <2> QED BY <2>1, <2>2
<1>3. Types'
  BY <1>1, <1>2 DEF IInv, Types, NoLogin, NoRefresh, NoCall
<1>4. Spare' /\ Awaited' /\ Off'
  BY <1>1 DEF Spare, NotYet, Awaited, Off, NoLogin, NoRefresh, NoCall
<1>5. Orderly(queue', refresh', login', call')
  BY <1>1 DEF Orderly, Solo, Absent
<1>6. Ready(queue', keys', refresh', presented')
  <2>1. keys'.refresh = 0 \/ keys'.refresh \in Pairs
    <3>1. keys'.refresh \in 0..issued /\ issued \in 0..MaxPairs
      BY <1>2 DEF IInv, Types
    <3> QED BY <3>1, MobileAssumption DEF Pairs
  <2>2. Clean(keys', presented')
    BY <1>1, <2>1 DEF Clean
  <2> QED BY <2>2 DEF Ready
<1> QED BY <1>3, <1>4, <1>5, <1>6 DEF IInv

-----------------------------------------------------------------------------
(* The calls.                                                               *)

CallStates == {"idle", "reading", "sent", "retried", "waiting", "ending"}

(* A call that nobody in the queue q goes on with may change.               *)
LEMMA CallFits ==
  ASSUME IInv, NEW q, NEW rf, NEW lg, Orderly(q, rf, lg, call), NEW c \in Calls,
         NEW k, call' = [call EXCEPT ![c] = k],
         \A i \in DOMAIN q : c \notin q[i].who
  PROVE  Orderly(q, rf, lg, call')
<1>1. \A i \in DOMAIN q : q[i] \in Entry
  BY OrderlyFacts
<1>2. \A i \in DOMAIN q : q[i].who \subseteq Calls
  BY <1>1 DEF Entry
<1>3. \A d \in Calls : d # c => call'[d] = call[d]
  BY DEF IInv, Types
<1>4. \A i \in DOMAIN q : \A d \in q[i].who : call'[d].pc = call[d].pc
  BY <1>2, <1>3
<1>5. /\ rf.pc # "reading" => Absent(q, {"refresh"})
      /\ rf.pc # "storing" => Absent(q, Ending)
      /\ lg.pc # "storing" => Absent(q, {"adopted"})
  BY OrderlyFacts
<1> QED BY <1>4, <1>5, OrderlyChange

(* The calls on their way to the server, or not made, are such.             *)
LEMMA NotQueued ==
  ASSUME IInv, NEW c \in Calls,
         call[c].pc \in {"sent", "retried", "waiting"} \/ (call[c].pc = "idle" /\ c # Me)
  PROVE  \A i \in DOMAIN queue : c \notin queue[i].who
<1>1. \A i \in DOMAIN queue : queue[i] \in Entry /\ Bound(queue[i], call)
  BY OrderlyFacts DEF IInv
<1> QED BY <1>1 DEF Bound, Entry

LEMMA SendStep == \A c \in Calls : IInv /\ Send(c) => IInv'
<1> SUFFICES ASSUME NEW c \in Calls, IInv, Send(c) PROVE IInv'
  OBVIOUS
<1> DEFINE e == Read("send", {c})
           k == [call[c] EXCEPT !.pc = "reading"]
<1>1. /\ UNCHANGED <<issued, keys, status, login, refresh, presented>>
      /\ status = "authenticated" /\ c # Me /\ call[c].pc = "idle"
      /\ queue' = Append(queue, e)
  BY MobileAssumption DEF Send, Screens, server, past, IInv, Types
<1>2. call' = [call EXCEPT ![c] = k] /\ k \in [pc : CallStates, pair : Nat] /\ k.pc = "reading"
  BY DEF Send, IInv, Types, CallStates
<1> HIDE DEF k
<1>3. e \in Entry /\ e.then = "send" /\ e.kind = "read" /\ e.pair = 0 /\ e.who = {c}
  BY Requests DEF Reads
<1> HIDE DEF e
<1>4. /\ Orderly(queue, refresh, login, call) /\ queue \in Seq(Entry)
      /\ Ready(queue, keys, refresh, presented)
  BY OrderlyFacts DEF IInv
<1>5. \A i \in DOMAIN queue : c \notin queue[i].who
  BY <1>1, NotQueued
<1>6. Orderly(queue, refresh, login, call')
  BY <1>2, <1>4, <1>5, CallFits
<1>7. Types' /\ call'[c] = k /\ \A d \in Calls : d # c => call'[d] = call[d]
  BY <1>1, <1>2 DEF IInv, Types, CallStates
<1>8. Orderly(queue', refresh', login', call')
  <2>1. Writing(e, refresh, login) /\ Bound(e, call') /\ e.then \notin Ending
    BY <1>2, <1>3, <1>7 DEF Writing, Bound, Ending
  <2> QED BY <1>1, <1>3, <1>5, <1>6, <2>1, OrderlyAdd
<1>9. Ready(queue', keys', refresh', presented')
  BY <1>1, <1>3, <1>4, ReadyAdd
<1>10. Spare' /\ Awaited' /\ Off'
  BY <1>1, <1>7 DEF IInv, Spare, NotYet, Awaited, Off
<1> QED BY <1>7, <1>8, <1>9, <1>10 DEF IInv

LEMMA SentStep == IInv /\ Sent => IInv'
<1> SUFFICES ASSUME IInv, Sent PROVE IInv'
  OBVIOUS
<1>1. /\ UNCHANGED <<issued, keys, status, login, refresh, presented>>
      /\ queue # <<>> /\ Head(queue).kind = "read" /\ Head(queue).then \in {"send", "resend"}
      /\ queue' = Tail(queue)
  BY DEF Sent, NextIs, server, past
<1>2. /\ Orderly(Tail(queue), refresh, login, call) /\ Ready(Tail(queue), keys, refresh, presented)
      /\ status # "off" /\ Head(queue) \in Entry
      /\ \A i \in DOMAIN Tail(queue) : Tail(queue)[i].who \cap Head(queue).who = {}
      /\ \A c \in Head(queue).who : call[c].pc = "reading"
  BY <1>1, HeadFacts DEF Bound
<1>3. Pair.access \in Nat
  BY DEF Pair, IInv, Types
<1>4. /\ call' \in [Calls -> [pc : CallStates, pair : Nat]]
      /\ \A c \in Calls : c \notin Head(queue).who => call'[c] = call[c]
  BY <1>3 DEF Sent, IInv, Types, CallStates
<1>5. \A i \in DOMAIN Tail(queue) : Tail(queue)[i].who \subseteq Calls
  <2>1. \A i \in DOMAIN Tail(queue) : Tail(queue)[i] \in Entry
    BY <1>2, OrderlyFacts
  <2> QED BY <2>1 DEF Entry
<1>6. \A i \in DOMAIN Tail(queue) : \A c \in Tail(queue)[i].who : call'[c].pc = call[c].pc
  BY <1>2, <1>4, <1>5
<1>7. Orderly(Tail(queue), refresh, login, call')
  BY <1>2, <1>6, OrderlyFacts, OrderlyChange
<1>8. Types' /\ Spare' /\ Off'
  BY <1>1, <1>2, <1>4 DEF IInv, Types, Spare, NotYet, Off, CallStates
<1>9. Awaited'
  BY <1>1, <1>2, <1>4 DEF IInv, Awaited
<1> QED BY <1>1, <1>2, <1>7, <1>8, <1>9 DEF IInv

LEMMA AcceptedStep == \A c \in Calls : IInv /\ Accepted(c) => IInv'
<1> SUFFICES ASSUME NEW c \in Calls, IInv, Accepted(c) PROVE IInv'
  OBVIOUS
<1>1. /\ UNCHANGED <<issued, keys, queue, login, refresh, presented>>
      /\ call[c].pc \in {"sent", "retried"} /\ call' = [call EXCEPT ![c] = NoCall]
      /\ status' \in {status, "authenticated"}
  BY DEF Accepted, server, store, past
<1>2. status # "off"
  BY <1>1 DEF IInv, Off
<1>3. \A i \in DOMAIN queue : c \notin queue[i].who
  BY <1>1, NotQueued
<1>4. Orderly(queue, refresh, login, call')
  BY <1>1, <1>3, CallFits DEF IInv
<1>5. Types' /\ \A d \in Calls : d # c => call'[d] = call[d]
  BY <1>1 DEF IInv, Types, NoCall
<1>6. Spare' /\ Awaited' /\ Off'
  BY <1>1, <1>2, <1>5 DEF IInv, Spare, NotYet, Awaited, Off
<1> QED BY <1>1, <1>4, <1>5, <1>6 DEF IInv

LEMMA FailedStep == \A c \in Calls : IInv /\ Failed(c) => IInv'
<1> SUFFICES ASSUME NEW c \in Calls, IInv, Failed(c) PROVE IInv'
  OBVIOUS
<1>1. /\ UNCHANGED <<issued, keys, login, refresh, presented>>
      /\ call[c].pc \in {"sent", "retried"} /\ call' = [call EXCEPT ![c] = NoCall]
      /\ queue' \in {queue, Voided(queue)} /\ status' \in {status, "anonymous"}
  BY DEF Failed, server, past
<1>2. status # "off"
  BY <1>1 DEF IInv, Off
<1>3. \A i \in DOMAIN queue : c \notin queue[i].who
  BY <1>1, NotQueued
<1>4. Orderly(queue, refresh, login, call') /\ Ready(queue, keys, refresh, presented)
  BY <1>1, <1>3, CallFits DEF IInv
<1>5. Orderly(queue', refresh', login', call') /\ Ready(queue', keys', refresh', presented')
  BY <1>1, <1>4, VoidedFits
<1>6. Types' /\ \A d \in Calls : d # c => call'[d] = call[d]
  BY <1>1 DEF IInv, Types, NoCall
<1>7. Spare' /\ Awaited' /\ Off'
  BY <1>1, <1>2, <1>6 DEF IInv, Spare, NotYet, Awaited, Off
<1> QED BY <1>5, <1>6, <1>7 DEF IInv

RefreshType ==
  [pc : {"none", "spent", "reading", "sent", "answered", "storing"}, pair : Nat, result : 0..issued]

LEMMA UnauthorizedStep == \A c \in Calls : IInv /\ Unauthorized(c) => IInv'
<1> SUFFICES ASSUME NEW c \in Calls, IInv, Unauthorized(c) PROVE IInv'
  OBVIOUS
<1>1. /\ UNCHANGED <<issued, keys, status, login, presented>>
      /\ call[c].pc = "sent"
  BY DEF Unauthorized, server, past
<1>2. status # "off"
  BY <1>1 DEF IInv, Off
<1>3. \A i \in DOMAIN queue : c \notin queue[i].who
  BY <1>1, NotQueued
<1>4. /\ Orderly(queue, refresh, login, call) /\ queue \in Seq(Entry)
      /\ Ready(queue, keys, refresh, presented)
      /\ refresh.pc # "reading" => Absent(queue, {"refresh"})
      /\ refresh.pc # "storing" => Absent(queue, Ending)
      /\ login.pc # "storing" => Absent(queue, {"adopted"})
      /\ refresh \in RefreshType
  BY OrderlyFacts DEF IInv, Types, RefreshType
<1>5. CASE refresh.pc = "spent"
  <2> DEFINE e == Write(0, "ended", {c})
             k == [pc |-> "ending", pair |-> 0]
  <2>1. /\ queue' = Append(queue, e) /\ refresh' = refresh
        /\ call' = [call EXCEPT ![c] = k] /\ k.pc = "ending"
        /\ k \in [pc : CallStates, pair : Nat]
    BY <1>5 DEF Unauthorized, CallStates
  <2>2. e \in Entry /\ e.then = "ended" /\ e.kind = "write" /\ e.pair = 0 /\ e.who = {c}
    <3>1. {c} \in SUBSET Calls /\ "ended" \in Writes /\ 0 \in Nat
      BY DEF Writes
    <3> QED BY <3>1, Requests
  <2> HIDE DEF e, k
  <2>3. Orderly(queue, refresh, login, call')
    BY <1>3, <1>4, <2>1, CallFits
  <2>4. Types' /\ call'[c] = k
    BY <1>1, <2>1 DEF IInv, Types, CallStates
  <2>5. Writing(e, refresh, login) /\ Bound(e, call') /\ e.then \notin Ending
    BY <2>1, <2>2, <2>4 DEF Writing, Bound, Ending
  <2>6. Orderly(queue', refresh', login', call')
    BY <1>1, <1>3, <2>1, <2>2, <2>3, <2>5, OrderlyAdd
  <2>7. Ready(queue', keys', refresh', presented')
    BY <1>1, <1>4, <2>1, <2>2, ReadyAdd
  <2>8. Spare' /\ Awaited' /\ Off'
    BY <1>1, <1>2, <1>5, <2>1 DEF IInv, Spare, NotYet, Awaited, Off
  <2> QED BY <2>4, <2>6, <2>7, <2>8 DEF IInv
<1> DEFINE k == [pc |-> "waiting", pair |-> 0]
<1>6. refresh.pc # "spent" =>
        /\ call' = [call EXCEPT ![c] = k] /\ k.pc = "waiting"
        /\ k \in [pc : CallStates, pair : Nat]
  BY DEF Unauthorized, CallStates
<1> HIDE DEF k
<1>7. refresh.pc # "spent" =>
        /\ Orderly(queue, refresh, login, call')
        /\ call'[c].pc = "waiting"
  BY <1>3, <1>4, <1>6, CallFits DEF IInv, Types
<1>8. CASE refresh.pc \notin {"spent", "none"}
  <2>1. queue' = queue /\ refresh' = refresh
    BY <1>8 DEF Unauthorized
  <2>2. Types'
    BY <1>1, <1>6, <1>8, <2>1 DEF IInv, Types, CallStates
  <2>3. Spare' /\ Awaited' /\ Off'
    BY <1>1, <1>2, <1>7, <1>8, <2>1 DEF IInv, Spare, NotYet, Awaited, Off
  <2> QED BY <1>1, <1>4, <1>7, <1>8, <2>1, <2>2, <2>3 DEF IInv
<1>9. CASE refresh.pc = "none"
  <2> DEFINE e == Read("refresh", {})
  <2>1. /\ queue' = Append(queue, e) /\ refresh' = [refresh EXCEPT !.pc = "reading"]
    BY <1>9 DEF Unauthorized
  <2>2. /\ refresh' \in RefreshType /\ refresh'.pc = "reading"
        /\ refresh'.result = refresh.result
    BY <1>4, <2>1 DEF RefreshType
  <2>3. e \in Entry /\ e.then = "refresh" /\ e.kind = "read" /\ e.pair = 0 /\ e.who = {}
    BY Requests DEF Reads
  <2> HIDE DEF e
  <2>4. Orderly(queue, refresh', login, call')
    <3>1. Orderly(queue, refresh, login, call')
      BY <1>7, <1>9
    <3> QED BY <1>4, <1>9, <2>2, <3>1, OrderlyChange
  <2>5. Writing(e, refresh', login) /\ Bound(e, call') /\ e.then \notin Ending
    BY <2>3 DEF Writing, Bound, Ending
  <2>6. Orderly(queue', refresh', login', call')
    BY <1>1, <1>4, <1>9, <2>1, <2>2, <2>3, <2>4, <2>5, OrderlyAdd
  <2>7. Ready(queue', keys', refresh', presented')
    BY <1>1, <1>4, <1>9, <2>1, <2>2, <2>3, ReadyAdd
  <2>8. Types'
    BY <1>1, <1>6, <1>9, <2>2 DEF IInv, Types, CallStates, RefreshType
  <2>9. Spare' /\ Awaited' /\ Off'
    BY <1>1, <1>2, <1>7, <1>9, <2>2 DEF IInv, Spare, NotYet, Awaited, Off
  <2> QED BY <2>6, <2>7, <2>8, <2>9 DEF IInv
<1> QED BY <1>5, <1>8, <1>9

-----------------------------------------------------------------------------
(* The refresh.                                                             *)

LEMMA WakeTypes ==
  ASSUME IInv, NEW cs, NEW to \in CallStates
  PROVE  /\ Wake(cs, to) \in [Calls -> [pc : CallStates, pair : Nat]]
         /\ \A c \in Calls : c \notin cs => Wake(cs, to)[c] = call[c]
  BY DEF Wake, IInv, Types, CallStates

(* The token that is presented was not presented before.                    *)
LEMMA PresentStep == IInv /\ Present => IInv'
<1> SUFFICES ASSUME IInv, Present PROVE IInv'
  OBVIOUS
<1>1. /\ UNCHANGED <<issued, keys, status, login>>
      /\ queue # <<>> /\ Head(queue).kind = "read" /\ Head(queue).then = "refresh"
  BY DEF Present, NextIs, server
<1>2. /\ Orderly(Tail(queue), refresh, login, call) /\ Ready(Tail(queue), keys, refresh, presented)
      /\ status # "off" /\ Clean(keys, presented)
      /\ refresh.pc = "reading" /\ Absent(Tail(queue), {"refresh"})
  BY <1>1, HeadFacts
<1>3. Absent(Tail(queue), Ending) /\ (login.pc # "storing" => Absent(Tail(queue), {"adopted"}))
  BY <1>2, OrderlyFacts
<1>4. CASE Pair.refresh = 0
  <2>1. /\ refresh' = [NoRefresh EXCEPT !.pc = "spent"] /\ presented' = presented
        /\ queue' = GiveUp(Tail(queue)) /\ call' = Wake(Waiters, "ending")
    BY <1>4 DEF Present
  <2>2. Orderly(queue', refresh', login', call')
    BY <1>1, <1>2, <1>3, <2>1, GiveUpFits DEF IInv
  <2>3. Clean(keys, presented)
    BY <1>2
  <2>4. Ready(queue', keys', refresh', presented')
    BY <1>1, <2>1, <2>3 DEF Ready
  <2>5. Types'
    <3>1. call' \in [Calls -> [pc : CallStates, pair : Nat]]
      BY <2>1, WakeTypes DEF CallStates
    <3>2. refresh' = [pc |-> "spent", pair |-> 0, result |-> 0]
      BY <2>1 DEF NoRefresh
    <3>3. refresh' \in RefreshType /\ issued \in Nat
      BY <3>2 DEF RefreshType, IInv, Types
    <3>4. presented' = presented /\ UNCHANGED <<issued, keys, status, login>>
      BY <1>1, <2>1
    <3> QED BY <3>1, <3>3, <3>4 DEF IInv, Types, CallStates, RefreshType
  <2>6. Spare' /\ Awaited' /\ Off'
    BY <1>1, <1>2, <2>1 DEF IInv, Spare, NotYet, Awaited, Off, NoRefresh
  <2> QED BY <2>2, <2>4, <2>5, <2>6 DEF IInv
<1>5. CASE Pair.refresh # 0
  <2>1. /\ refresh' = [pc |-> "sent", pair |-> Pair.refresh, result |-> 0]
        /\ presented' = [presented EXCEPT ![Pair.refresh] =
                           IF presented[Pair.refresh] = 2 THEN 2 ELSE presented[Pair.refresh] + 1]
        /\ queue' = Tail(queue) /\ call' = call
    BY <1>5 DEF Present
  <2>2. Pair.refresh = keys.refresh /\ keys.refresh \in 1..issued /\ keys.refresh \in Pairs
        /\ presented[keys.refresh] = 0
    <3>1. Pair.refresh = keys.refresh /\ keys.access # 0 /\ keys.refresh # 0
      BY <1>5 DEF Pair
    <3>2. keys.refresh \in 0..issued /\ issued \in 0..MaxPairs
      BY DEF IInv, Types
    <3> QED BY <1>2, <3>1, <3>2, MobileAssumption DEF Clean, Pairs
  <2>3. /\ presented' \in [Pairs -> 0..1]
        /\ \A p \in Pairs : p # keys.refresh => presented'[p] = presented[p]
    BY <2>1, <2>2 DEF IInv, Types
  <2>4. Orderly(Tail(queue), refresh', login, call)
    BY <1>2, <1>3, <2>1, OrderlyChange
  <2>5. Ready(queue', keys', refresh', presented')
    BY <1>2, <2>1 DEF Ready, Absent
  <2>6. Types'
    <3>1. \A p \in Pairs : p > issued => presented'[p] = 0
      BY <2>2, <2>3 DEF IInv, Types
    <3> QED BY <1>1, <2>1, <2>2, <2>3, <3>1 DEF IInv, Types
  <2>7. Spare'
    <3>1. login.pair = 0 \/ login.pair \in Pairs
      BY MobileAssumption DEF IInv, Types, Pairs
    <3> QED BY <1>1, <2>1, <2>3, <3>1 DEF IInv, Spare, NotYet
  <2>8. Awaited' /\ Off'
    BY <1>1, <1>2, <2>1 DEF IInv, Awaited, Off
  <2> QED BY <1>1, <2>1, <2>4, <2>5, <2>6, <2>7, <2>8 DEF IInv
<1> QED BY <1>4, <1>5

LEMMA RefreshAnsweredStep == IInv /\ RefreshAnswered => IInv'
<1> SUFFICES ASSUME IInv, RefreshAnswered PROVE IInv'
  OBVIOUS
<1>1. /\ UNCHANGED <<issued, keys, status, login, call, presented>>
      /\ refresh.pc = "answered" /\ refresh' = [refresh EXCEPT !.pc = "storing"]
  BY DEF RefreshAnswered, server, past
<1>2. /\ refresh \in RefreshType /\ refresh' \in RefreshType /\ refresh'.pc = "storing"
      /\ refresh'.result = refresh.result /\ status # "off"
  BY <1>1 DEF RefreshType, IInv, Types, Off, NoRefresh
<1>3. /\ Orderly(queue, refresh, login, call) /\ queue \in Seq(Entry)
      /\ Ready(queue, keys, refresh, presented)
      /\ Absent(queue, {"refresh"}) /\ Absent(queue, Ending)
      /\ login.pc # "storing" => Absent(queue, {"adopted"})
  BY <1>1, OrderlyFacts DEF IInv
<1>4. PICK e \in Entry :
        /\ queue' = Append(queue, e) /\ e.kind = "write" /\ e.who = {}
        /\ \/ e.then = "stored" /\ e.pair = refresh.result
           \/ e.then = "refused" /\ e.pair = 0
  <2>1. refresh.result \in Nat /\ {} \in SUBSET Calls /\ {"stored", "refused"} \subseteq Writes
    BY <1>2 DEF RefreshType, IInv, Types, Writes
  <2>2. CASE refresh.result # 0
    <3>1. queue' = Append(queue, Write(refresh.result, "stored", {}))
      BY <2>2 DEF RefreshAnswered
    <3>2. LET e == Write(refresh.result, "stored", {}) IN
          e \in Entry /\ e.kind = "write" /\ e.then = "stored" /\ e.pair = refresh.result /\ e.who = {}
      BY <2>1 DEF Write, Entry, Reads, Writes
    <3> QED BY <3>1, <3>2
  <2>3. CASE refresh.result = 0
    <3>1. queue' = Append(queue, Write(0, "refused", {}))
      BY <2>3 DEF RefreshAnswered
    <3>2. LET e == Write(0, "refused", {}) IN
          e \in Entry /\ e.kind = "write" /\ e.then = "refused" /\ e.pair = 0 /\ e.who = {}
      BY <2>1, Requests
    <3> QED BY <3>1, <3>2
  <2> QED BY <2>2, <2>3
<1>5. Orderly(queue, refresh', login, call)
  BY <1>2, <1>3, OrderlyChange
<1>6. Orderly(queue', refresh', login', call')
  <2>1. Writing(e, refresh', login) /\ Bound(e, call)
        /\ e.then \in Ending /\ e.then \notin {"refresh", "adopted"}
    BY <1>2, <1>4 DEF Writing, Bound, Ending
  <2>2. \A i \in DOMAIN queue : queue[i].who \cap e.who = {}
    BY <1>4
  <2>3. Orderly(Append(queue, e), refresh', login, call)
    BY <1>2, <1>3, <1>5, <2>1, <2>2, OrderlyAdd
  <2> QED BY <1>1, <1>4, <2>3
<1>7. Ready(queue', keys', refresh', presented')
  <2>1. e.then # "refresh"
    BY <1>4
  <2>2. Ready(Append(queue, e), keys, refresh', presented)
    BY <1>3, <1>4, <2>1, ReadyAdd
  <2> QED BY <1>1, <1>4, <2>2
<1>8. Types' /\ Spare' /\ Awaited' /\ Off'
  BY <1>1, <1>2 DEF IInv, Types, Spare, NotYet, Awaited, Off, RefreshType
<1> QED BY <1>6, <1>7, <1>8 DEF IInv

(* The pair is stored, and the calls that waited are sent again.            *)
LEMMA StoredStep == IInv /\ Stored => IInv'
<1> SUFFICES ASSUME IInv, Stored PROVE IInv'
  OBVIOUS
<1> DEFINE e == Read("resend", Waiters)
<1>1. /\ UNCHANGED <<issued, status, login, presented>>
      /\ queue # <<>> /\ Head(queue).then \in Ending /\ Written
      /\ refresh' = NoRefresh /\ queue' = Append(Tail(queue), e)
      /\ call' = Wake(Waiters, "reading") /\ Head(queue).then = "stored"
  BY DEF Stored, NextIs, GoOn, Ending, server, past
<1>2. /\ Orderly(Tail(queue), refresh, login, call) /\ Absent(Tail(queue), Ending)
      /\ refresh.pc = "storing" /\ status # "off" /\ Writing(Head(queue), refresh, login)
  BY <1>1, HeadFacts
<1>3. /\ Absent(Tail(queue), {"refresh"})
      /\ login.pc # "storing" => Absent(Tail(queue), {"adopted"})
  BY <1>2, OrderlyFacts
<1>4. /\ \A i \in DOMAIN Tail(queue) : \A c \in Tail(queue)[i].who : call'[c].pc = call[c].pc
      /\ \A i \in DOMAIN Tail(queue) : Tail(queue)[i].who \cap Waiters = {}
      /\ \A c \in Waiters : call'[c].pc = "reading"
      /\ Waiters \in SUBSET Calls
  BY <1>1, <1>2, WakeFits DEF IInv
<1>5. e \in Entry /\ e.then = "resend" /\ e.kind = "read" /\ e.pair = 0 /\ e.who = Waiters
  BY <1>4, Requests DEF Reads
<1> HIDE DEF e
<1>6. Orderly(Tail(queue), NoRefresh, login, call')
  BY <1>2, <1>3, <1>4, OrderlyChange
<1>7. Orderly(queue', refresh', login', call')
  <2>1. Writing(e, NoRefresh, login) /\ Bound(e, call') /\ e.then \notin Ending
    BY <1>4, <1>5 DEF Writing, Bound, Ending
  <2> QED BY <1>1, <1>4, <1>5, <1>6, <2>1, OrderlyAdd
<1>8. /\ Clean(keys', presented) /\ keys' \in [access : 0..issued, refresh : 0..issued]
      /\ keys'.refresh = Head(queue).pair
  BY <1>1, WrittenClean
<1>9. Ready(queue', keys', refresh', presented')
  BY <1>1, <1>8 DEF Ready
<1>10. Spare'
  <2>1. Head(queue).pair = 0 \/ Head(queue).pair = refresh.result
    BY <1>1, <1>2 DEF Writing
  <2> QED BY <1>1, <1>8, <2>1 DEF IInv, Spare, NotYet, NoRefresh
<1>11. Types'
  <2>1. call' \in [Calls -> [pc : CallStates, pair : Nat]]
    BY <1>1, WakeTypes DEF CallStates
  <2> QED BY <1>1, <1>8, <2>1 DEF IInv, Types, CallStates, NoRefresh
<1>12. Awaited' /\ Off'
  BY <1>1, <1>2 DEF Awaited, Off, NoRefresh
<1> QED BY <1>7, <1>9, <1>10, <1>11, <1>12 DEF IInv

(* The waiting calls remove the token that was presented: Awaited says that *)
(* there is one.                                                            *)
LEMMA RefreshUnansweredStep == IInv /\ RefreshUnanswered => IInv'
<1> SUFFICES ASSUME IInv, RefreshUnanswered PROVE IInv'
  OBVIOUS
<1>1. /\ UNCHANGED <<issued, keys, status, login, presented>>
      /\ refresh.pc \in {"sent", "answered"} /\ refresh' = NoRefresh
      /\ queue' = GiveUp(queue) /\ call' = Wake(Waiters, "ending")
  BY DEF RefreshUnanswered, server, past
<1>2. status # "off" /\ Waiters # {}
  BY <1>1 DEF IInv, Off, NoRefresh, Awaited, Waiters
<1>3. /\ Orderly(queue, refresh, login, call) /\ Ready(queue, keys, refresh, presented)
      /\ Absent(queue, {"refresh"}) /\ Absent(queue, Ending)
  BY <1>1, OrderlyFacts DEF IInv
<1>4. Orderly(queue', refresh', login', call') /\ Ready(queue', keys', refresh', presented')
  BY <1>1, <1>2, <1>3, GiveUpFits DEF IInv
<1>5. Types'
  <2>1. call' \in [Calls -> [pc : CallStates, pair : Nat]]
    BY <1>1, WakeTypes DEF CallStates
  <2> QED BY <1>1, <2>1 DEF IInv, Types, CallStates, NoRefresh
<1>6. Spare' /\ Awaited' /\ Off'
  BY <1>1, <1>2 DEF IInv, Spare, NotYet, Awaited, Off, NoRefresh
<1> QED BY <1>4, <1>5, <1>6 DEF IInv

LEMMA RefusedStep == IInv /\ Refused => IInv'
<1> SUFFICES ASSUME IInv, Refused PROVE IInv'
  OBVIOUS
<1> DEFINE q == Voided(Tail(queue))
<1>1. /\ UNCHANGED <<issued, login, presented>>
      /\ queue # <<>> /\ Head(queue).then = "refused" /\ Written
      /\ status' = "anonymous" /\ refresh' = NoRefresh
      /\ queue' = GiveUp(q) /\ call' = Wake(Waiters, "ending")
  BY DEF Refused, NextIs, server, past
<1>2. /\ Orderly(Tail(queue), refresh, login, call) /\ Absent(Tail(queue), Ending)
      /\ refresh.pc = "storing" /\ Writing(Head(queue), refresh, login)
  BY <1>1, HeadFacts DEF Ending
<1>3. Absent(Tail(queue), {"refresh"})
  BY <1>2, OrderlyFacts
<1>4. Orderly(q, refresh, login, call) /\ Absent(q, {"refresh"}) /\ Absent(q, Ending)
  BY <1>2, <1>3, VoidedFits DEF Ending
<1> HIDE DEF q
<1>5. Orderly(queue', refresh', login', call')
  BY <1>1, <1>4, GiveUpFits DEF IInv
<1>6. /\ Clean(keys', presented) /\ keys' \in [access : 0..issued, refresh : 0..issued]
      /\ keys'.refresh = Head(queue).pair /\ Head(queue).pair = 0
  BY <1>1, <1>2, WrittenClean DEF Writing
<1>7. Ready(queue', keys', refresh', presented')
  BY <1>1, <1>6 DEF Ready
<1>8. Types'
  <2>1. call' \in [Calls -> [pc : CallStates, pair : Nat]]
    BY <1>1, WakeTypes DEF CallStates
  <2> QED BY <1>1, <1>6, <2>1 DEF IInv, Types, CallStates, NoRefresh
<1>9. Spare' /\ Awaited' /\ Off'
  BY <1>1, <1>6 DEF IInv, Spare, NotYet, Awaited, Off, NoRefresh
<1> QED BY <1>5, <1>7, <1>8, <1>9 DEF IInv

LEMMA EndedStep == IInv /\ Ended => IInv'
<1> SUFFICES ASSUME IInv, Ended PROVE IInv'
  OBVIOUS
<1> DEFINE cs == Head(queue).who
<1>1. /\ UNCHANGED <<issued, login, refresh, presented>>
      /\ queue # <<>> /\ Head(queue).then = "ended" /\ Written
      /\ status' = "anonymous" /\ queue' = Voided(Tail(queue)) /\ call' = Wake(cs, "idle")
  BY DEF Ended, NextIs, server, past
<1>2. /\ Orderly(Tail(queue), refresh, login, call) /\ Writing(Head(queue), refresh, login)
      /\ \A i \in DOMAIN Tail(queue) : Tail(queue)[i].who \cap cs = {}
      /\ \A c \in cs : call[c].pc = "ending"
  BY <1>1, HeadFacts DEF Bound
<1>3. /\ call' \in [Calls -> [pc : CallStates, pair : Nat]]
      /\ \A c \in Calls : c \notin cs => call'[c] = call[c]
  BY <1>1, WakeTypes DEF CallStates
<1> HIDE DEF cs
<1>4. \A i \in DOMAIN Tail(queue) : Tail(queue)[i].who \subseteq Calls
  <2>1. \A i \in DOMAIN Tail(queue) : Tail(queue)[i] \in Entry
    BY <1>2, OrderlyFacts
  <2> QED BY <2>1 DEF Entry
<1>5. \A i \in DOMAIN Tail(queue) : \A c \in Tail(queue)[i].who : call'[c].pc = call[c].pc
  BY <1>2, <1>3, <1>4
<1>6. Orderly(Tail(queue), refresh, login, call')
  <2>1. /\ refresh.pc # "reading" => Absent(Tail(queue), {"refresh"})
        /\ refresh.pc # "storing" => Absent(Tail(queue), Ending)
        /\ login.pc # "storing" => Absent(Tail(queue), {"adopted"})
    BY <1>2, OrderlyFacts
  <2> QED BY <1>2, <1>5, <2>1, OrderlyChange
<1>7. Orderly(queue', refresh', login', call')
  BY <1>1, <1>6, VoidedFits
<1>8. /\ Clean(keys', presented) /\ keys' \in [access : 0..issued, refresh : 0..issued]
      /\ keys'.refresh = Head(queue).pair /\ Head(queue).pair = 0
  BY <1>1, <1>2, WrittenClean DEF Writing
<1>9. Ready(queue', keys', refresh', presented')
  BY <1>1, <1>8 DEF Ready
<1>10. Types'
  BY <1>1, <1>3, <1>8 DEF IInv, Types, CallStates
<1>11. Spare' /\ Awaited' /\ Off'
  BY <1>1, <1>2, <1>3, <1>8 DEF IInv, Spare, NotYet, Awaited, Off
<1> QED BY <1>7, <1>9, <1>10, <1>11 DEF IInv

LEMMA ClearedStep == IInv /\ Cleared => IInv'
<1> SUFFICES ASSUME IInv, Cleared PROVE IInv'
  OBVIOUS
<1>1. /\ UNCHANGED <<issued, status, login, refresh, call, presented>>
      /\ queue # <<>> /\ Head(queue).then = "nothing" /\ Written /\ queue' = Tail(queue)
  BY DEF Cleared, NextIs, server, past
<1>2. /\ Orderly(Tail(queue), refresh, login, call) /\ Writing(Head(queue), refresh, login)
      /\ status # "off"
  BY <1>1, HeadFacts
<1>3. /\ Clean(keys', presented) /\ keys' \in [access : 0..issued, refresh : 0..issued]
      /\ keys'.refresh = Head(queue).pair /\ Head(queue).pair = 0
  BY <1>1, <1>2, WrittenClean DEF Writing
<1>4. Ready(queue', keys', refresh', presented')
  BY <1>1, <1>3 DEF Ready
<1>5. Types' /\ Spare' /\ Awaited' /\ Off'
  BY <1>1, <1>2, <1>3 DEF IInv, Types, Spare, NotYet, Awaited, Off
<1> QED BY <1>1, <1>2, <1>4, <1>5 DEF IInv

-----------------------------------------------------------------------------
(* The server.                                                              *)

(* A pair that is issued was not presented and is nowhere else.             *)
LEMMA IssuedIsNew ==
  ASSUME IInv, NEW p, Issue(p)
  PROVE  /\ issued' = issued + 1 /\ issued' \in 0..MaxPairs /\ presented[issued'] = 0
         /\ issued' \notin {0, keys.refresh, login.pair, refresh.result}
         /\ 0..issued \subseteq 0..issued'
<1>1. issued' = issued + 1 /\ issued \in 0..MaxPairs /\ issued < MaxPairs
  BY DEF Issue, IInv, Types
<1>2. keys.refresh \in 0..issued /\ login.pair \in 0..issued /\ refresh.result \in 0..issued
  BY DEF IInv, Types
<1>3. issued' \in Pairs /\ issued' > issued
  BY <1>1, MobileAssumption DEF Pairs
<1>4. presented[issued'] = 0
  BY <1>3 DEF IInv, Types
<1> QED BY <1>1, <1>2, <1>4, MobileAssumption

LEMMA ServeLoginStep == IInv /\ ServeLogin => IInv'
<1> SUFFICES ASSUME IInv, ServeLogin PROVE IInv'
  OBVIOUS
<1>1. /\ UNCHANGED <<keys, queue, status, refresh, call, presented>>
      /\ login.pc = "sent" /\ login' = [pc |-> "answered", pair |-> issued + 1] /\ Issue(0)
  BY DEF ServeLogin, store, past
<1>2. /\ issued' = issued + 1 /\ issued' \in 0..MaxPairs /\ presented[issued'] = 0
      /\ issued' \notin {0, keys.refresh, login.pair, refresh.result}
      /\ 0..issued \subseteq 0..issued'
  BY <1>1, IssuedIsNew
<1>3. status # "off"
  BY <1>1 DEF IInv, Off, NoLogin
<1>4. Orderly(queue, refresh, login, call) /\ Absent(queue, {"adopted"})
  BY <1>1, OrderlyFacts DEF IInv
<1>5. Orderly(queue, refresh, login', call)
  BY <1>1, <1>4, OrderlyFacts, OrderlyChange
<1>6. Types'
  <2>1. keys' \in [access : 0..issued', refresh : 0..issued']
    BY <1>1, <1>2 DEF IInv, Types
  <2>2. refresh' \in [pc : {"none", "spent", "reading", "sent", "answered", "storing"},
                      pair : Nat, result : 0..issued']
    BY <1>1, <1>2 DEF IInv, Types
  <2>3. issued' \in 0..issued'
    BY <1>2, MobileAssumption
  <2>4. \A x \in Pairs : x > issued' => presented'[x] = 0
    BY <1>1, <1>2 DEF IInv, Types, Pairs
  <2> QED BY <1>1, <1>2, <2>1, <2>2, <2>3, <2>4 DEF IInv, Types
<1>7. Spare' /\ Awaited' /\ Off'
  BY <1>1, <1>2, <1>3 DEF IInv, Spare, NotYet, Awaited, Off
<1> QED BY <1>1, <1>5, <1>6, <1>7 DEF IInv

LEMMA ServeRefreshStep == IInv /\ ServeRefresh => IInv'
<1> SUFFICES ASSUME IInv, ServeRefresh PROVE IInv'
  OBVIOUS
<1>1. /\ UNCHANGED <<keys, queue, status, login, call, presented>> /\ refresh.pc = "sent"
      /\ refresh \in RefreshType
  BY DEF ServeRefresh, store, past, IInv, Types, RefreshType
<1>2. status # "off"
  BY <1>1 DEF IInv, Off, NoRefresh
<1>3. /\ Orderly(queue, refresh, login, call)
      /\ Absent(queue, {"refresh"}) /\ Absent(queue, Ending)
      /\ login.pc # "storing" => Absent(queue, {"adopted"})
  BY <1>1, OrderlyFacts DEF IInv
<1>4. CASE /\ Issue(refresh.pair)
           /\ refresh' = [refresh EXCEPT !.pc = "answered", !.result = issued + 1]
  <2>2. /\ issued' = issued + 1 /\ issued' \in 0..MaxPairs /\ presented[issued'] = 0
        /\ issued' \notin {0, keys.refresh, login.pair, refresh.result}
        /\ 0..issued \subseteq 0..issued'
    BY <1>4, IssuedIsNew
  <2>3. issued' \in 0..issued'
    BY <2>2, MobileAssumption
  <2>4. /\ refresh'.pc = "answered" /\ refresh'.result = issued'
        /\ refresh' \in [pc : {"none", "spent", "reading", "sent", "answered", "storing"},
                         pair : Nat, result : 0..issued']
    BY <1>1, <1>4, <2>2, <2>3 DEF RefreshType
  <2>5. Orderly(queue, refresh', login, call)
    BY <1>3, <2>4, OrderlyChange
  <2>6. Ready(queue, keys, refresh', presented)
    BY <2>4 DEF IInv, Ready
  <2>7. Types'
    <3>1. keys' \in [access : 0..issued', refresh : 0..issued']
      BY <1>1, <2>2 DEF IInv, Types
    <3>2. login' \in [pc : {"idle", "sent", "answered", "storing"}, pair : 0..issued']
      BY <1>1, <2>2 DEF IInv, Types
    <3>3. \A x \in Pairs : x > issued' => presented'[x] = 0
      BY <1>1, <2>2 DEF IInv, Types, Pairs
    <3> QED BY <1>1, <2>2, <2>4, <3>1, <3>2, <3>3 DEF IInv, Types
  <2>8. Spare' /\ Awaited' /\ Off'
    BY <1>1, <1>2, <2>2, <2>4 DEF IInv, Spare, NotYet, Awaited, Off
  <2> QED BY <1>1, <2>5, <2>6, <2>7, <2>8 DEF IInv
<1>5. CASE refresh' = [refresh EXCEPT !.pc = "answered"] /\ UNCHANGED server
  <2>1. issued' = issued
    BY <1>5 DEF server
  <2>2. refresh' \in RefreshType /\ refresh'.pc = "answered" /\ refresh'.result = refresh.result
    BY <1>1, <1>5 DEF RefreshType
  <2>3. Orderly(queue, refresh', login, call)
    BY <1>3, <2>2, OrderlyChange
  <2>4. Ready(queue, keys, refresh', presented)
    BY <2>2 DEF IInv, Ready
  <2>5. Types' /\ Spare' /\ Awaited' /\ Off'
    BY <1>1, <1>2, <1>5, <2>1, <2>2 DEF IInv, Types, Spare, NotYet, Awaited, Off, RefreshType
  <2> QED BY <1>1, <2>3, <2>4, <2>5 DEF IInv
<1> QED BY <1>4, <1>5 DEF ServeRefresh

(* The steps that touch nothing the invariant speaks of.                    *)
LEMMA ElsewhereStep == IInv /\ (Expire \/ UNCHANGED mobVars) => IInv'
<1> SUFFICES ASSUME IInv, Expire \/ UNCHANGED mobVars PROVE IInv'
  OBVIOUS
<1>1. UNCHANGED <<issued, keys, queue, status, login, refresh, call, presented>>
  BY DEF Expire, mobVars, server, store, past
<1> QED BY <1>1 DEF IInv, Types, Spare, NotYet, Awaited, Off

-----------------------------------------------------------------------------

LEMMA NextIInv == IInv /\ [MobNext]_mobVars => IInv'
<1> SUFFICES ASSUME IInv, [MobNext]_mobVars PROVE IInv'
  OBVIOUS
<1>1. CASE Launch \/ Submit \/ SubmitFailed \/ Adopt \/ Logout \/ Kill
  BY <1>1, LaunchStep, SubmitStep, AdoptStep, LogoutStep, KillStep
<1>2. CASE Keystore
  BY <1>2, StartStep, AdoptedStep, LoggedOutStep, SentStep, PresentStep, StoredStep,
     RefusedStep, EndedStep, ClearedStep DEF Keystore
<1>3. CASE RefreshStep
  BY <1>3, ServeRefreshStep, RefreshAnsweredStep, RefreshUnansweredStep DEF RefreshStep
<1>4. CASE ServeLogin \/ Expire \/ UNCHANGED mobVars
  BY <1>4, ServeLoginStep, ElsewhereStep
<1>5. ASSUME NEW c \in Calls, Send(c) \/ CallStep(c)
      PROVE  IInv'
  BY <1>5, SendStep, AcceptedStep, FailedStep, UnauthorizedStep DEF CallStep
<1> QED BY <1>1, <1>2, <1>3, <1>4, <1>5 DEF MobNext

(* Whoever is about to read a token for a refresh finds one that was not    *)
(* presented, none, or a write that comes first (services/api.ts with       *)
(* storage/tokens.ts).                                                      *)
THEOREM MobileInvariant == MobSpec => []IInv
<1>1. MobInit => IInv
  BY InitIInv
<1>2. IInv /\ [MobNext]_mobVars => IInv'
  BY NextIInv
<1> QED BY <1>1, <1>2, PTL DEF MobSpec

(* While the app runs it presents a refresh token once, for any number of   *)
(* calls, pairs and kills: inFlightRefresh does what its comment says.      *)
THEOREM RefreshedOnceEver == MobSpec => []RefreshedOnce
<1>1. IInv => RefreshedOnce
  BY DEF IInv, Types, RefreshedOnce
<1> QED BY <1>1, MobileInvariant, PTL
-----------------------------------------------------------------------------
(* The two tokens that are stored are of one session.                       *)

UnderWay == {"sent", "answered", "storing"}

(* Who waits for what, whatever is stored: a login is outstanding only      *)
(* while nobody is signed in, at startup only AuthProvider's call is made,  *)
(* and a refresh begins when the removals of the calls before it are done.  *)
Staged(q, st, rf, lg, cl) ==
  /\ lg.pc # "idle" => st = "anonymous"
  /\ st = "loading" => Absent(q, {"logout"}) /\ \A c \in PageCalls : cl[c].pc = "idle"
  /\ cl[Me].pc \in {"reading", "sent", "retried", "waiting"} => st = "loading"
  /\ \A i \in DOMAIN q : q[i].then = "start" => st = "loading" /\ Len(q) = 1
  /\ \A i \in DOMAIN q : q[i].then = "ended" => q[i].who # {}
  /\ rf.pc \in UnderWay => Absent(q, {"ended"})
  /\ \A i, j \in DOMAIN q : q[i].then = "refresh" /\ q[j].then = "ended" => j < i

(* The tokens are gone by the time the queue q gets to its i-th request.    *)
Gone(q, k, i) == k.access = 0 \/ \E j \in 1..(i - 1) : q[j].kind = "write" /\ q[j].pair = 0

(* Until the app is killed: whoever may log in does so behind the removal   *)
(* of what was stored, and a refresh is of the session that is stored.      *)
OneSession(q, k, st, rf, ss) ==
  /\ k.access = k.refresh
  /\ st = "anonymous" =>
       /\ rf.pc \notin UnderWay /\ Gone(q, k, Len(q) + 1)
       /\ \A i \in DOMAIN q : q[i].then \in {"refresh", "adopted"} => Gone(q, k, i)
  /\ rf.pc \in UnderWay => k.access = 0 \/ ss[k.access] = ss[rf.pair]

Sessions ==
  /\ session \in [Pairs -> Nat]
  /\ refresh.pc \in UnderWay =>
       /\ refresh.pair \in 1..issued
       /\ refresh.result # 0 => session[refresh.result] = session[refresh.pair]

Calm == kills = 0 /\ ~overtaken

JInv ==
  /\ Staged(queue, status, refresh, login, call)
  /\ Sessions /\ kills \in Nat
  /\ Calm => OneSession(queue, keys, status, refresh, session)
  /\ OneSessionStored

LEMMA StagedDrop ==
  ASSUME NEW q \in Seq(Entry), q # <<>>, NEW st, NEW rf, NEW lg, NEW cl, Staged(q, st, rf, lg, cl)
  PROVE  Staged(Tail(q), st, rf, lg, cl) /\ Absent(Tail(q), {"start"})
<1>1. \A i \in DOMAIN Tail(q) : i + 1 \in DOMAIN q /\ Tail(q)[i] = q[i + 1] /\ i \in Nat \ {0}
  BY Dropped
<1>2. Absent(Tail(q), {"start"})
  <2> SUFFICES ASSUME NEW i \in DOMAIN Tail(q), Tail(q)[i].then = "start" PROVE FALSE
    BY DEF Absent
  <2>1. i + 1 \in DOMAIN q /\ Len(q) = 1 /\ i \in Nat \ {0}
    BY <1>1 DEF Staged
  <2> QED BY <2>1
<1>3. \A thens : Absent(q, thens) => Absent(Tail(q), thens)
  BY <1>1 DEF Absent
<1>4. \A i \in DOMAIN Tail(q) : Tail(q)[i].then = "ended" => Tail(q)[i].who # {}
  BY <1>1 DEF Staged
<1>5. \A i, j \in DOMAIN Tail(q) :
        Tail(q)[i].then = "refresh" /\ Tail(q)[j].then = "ended" => j < i
  <2> SUFFICES ASSUME NEW i \in DOMAIN Tail(q), NEW j \in DOMAIN Tail(q),
                      Tail(q)[i].then = "refresh", Tail(q)[j].then = "ended"
               PROVE  j < i
    OBVIOUS
  <2>1. j + 1 < i + 1 /\ i \in Nat /\ j \in Nat
    BY <1>1 DEF Staged
  <2> QED BY <2>1
<1> QED BY <1>2, <1>3, <1>4, <1>5 DEF Staged, Absent

LEMMA StagedAdd ==
  ASSUME NEW q \in Seq(Entry), NEW st, NEW rf, NEW lg, NEW cl, Staged(q, st, rf, lg, cl),
         NEW e \in Entry, e.then # "start", Absent(q, {"start"}),
         e.then = "logout" => st # "loading",
         e.then = "ended" => e.who # {} /\ rf.pc \notin UnderWay /\ Absent(q, {"refresh"})
  PROVE  Staged(Append(q, e), st, rf, lg, cl) /\ Absent(Append(q, e), {"start"})
<1>1. /\ DOMAIN Append(q, e) = DOMAIN q \cup {Len(q) + 1} /\ Append(q, e)[Len(q) + 1] = e
      /\ \A i \in DOMAIN q : Append(q, e)[i] = q[i] /\ i < Len(q) + 1
      /\ Len(q) + 1 \notin DOMAIN q
  BY Added
<1>2. \A thens : Absent(q, thens) /\ e.then \notin thens => Absent(Append(q, e), thens)
  BY <1>1 DEF Absent
<1>3. \A i \in DOMAIN Append(q, e) : Append(q, e)[i].then = "ended" => Append(q, e)[i].who # {}
  BY <1>1 DEF Staged
<1>4. ASSUME NEW i \in DOMAIN Append(q, e), NEW j \in DOMAIN Append(q, e),
             Append(q, e)[i].then = "refresh", Append(q, e)[j].then = "ended"
      PROVE  j < i
  <2>1. CASE i \in DOMAIN q
    <3>1. j \in DOMAIN q
      BY <2>1, <1>1, <1>4 DEF Absent
    <3> QED BY <2>1, <3>1, <1>1, <1>4 DEF Staged
  <2>2. CASE i = Len(q) + 1
    <3>1. j # Len(q) + 1
      BY <2>2, <1>1, <1>4
    <3> QED BY <2>2, <3>1, <1>1
  <2> QED BY <2>1, <2>2, <1>1
<1> QED BY <1>2, <1>3, <1>4 DEF Staged, Absent

LEMMA StagedChange ==
  ASSUME NEW q, NEW st, NEW rf, NEW lg, NEW cl, Staged(q, st, rf, lg, cl),
         NEW st2, NEW rf2, NEW lg2, NEW cl2,
         lg2.pc # "idle" => st2 = "anonymous",
         st2 = "loading" => st = "loading" /\ \A c \in PageCalls : cl2[c].pc = "idle",
         cl2[Me].pc \in {"reading", "sent", "retried", "waiting"} => st2 = "loading",
         st2 = st \/ Absent(q, {"start"}),
         rf2.pc \in UnderWay => Absent(q, {"ended"})
  PROVE  Staged(q, st2, rf2, lg2, cl2)
  BY DEF Staged, Absent

LEMMA GoneDrop ==
  ASSUME NEW q \in Seq(Entry), q # <<>>, Head(q).kind = "read", NEW k, NEW i \in 1..Len(q),
         Gone(q, k, i + 1)
  PROVE  Gone(Tail(q), k, i)
<1> SUFFICES ASSUME k.access # 0
             PROVE  \E j \in 1..(i - 1) : Tail(q)[j].kind = "write" /\ Tail(q)[j].pair = 0
  BY DEF Gone
<1>1. PICK j \in 1..i : q[j].kind = "write" /\ q[j].pair = 0
  BY DEF Gone
<1>2. j # 1 /\ j \in DOMAIN q
  BY <1>1, Dropped
<1>3. j - 1 \in 1..(i - 1) /\ j - 1 \in DOMAIN Tail(q)
  BY <1>1, <1>2, Dropped
<1>4. Tail(q)[j - 1] = q[(j - 1) + 1] /\ (j - 1) + 1 = j
  BY <1>1, <1>3, Dropped
<1> QED BY <1>1, <1>3, <1>4

LEMMA GoneAdd ==
  ASSUME NEW q \in Seq(Entry), NEW e, NEW k, NEW i \in 1..(Len(q) + 1), Gone(q, k, i)
  PROVE  Gone(Append(q, e), k, i)
  BY DEF Gone

LEMMA GoneLater ==
  ASSUME NEW q, NEW k, NEW i \in Nat, NEW j \in Nat, i <= j, Gone(q, k, i)
  PROVE  Gone(q, k, j)
  BY DEF Gone

LEMMA OneSessionDrop ==
  ASSUME NEW q \in Seq(Entry), q # <<>>, Head(q).kind = "read", NEW k, NEW st, NEW rf, NEW ss,
         OneSession(q, k, st, rf, ss)
  PROVE  OneSession(Tail(q), k, st, rf, ss)
<1> SUFFICES ASSUME st = "anonymous"
             PROVE  /\ Gone(Tail(q), k, Len(Tail(q)) + 1)
                    /\ \A i \in DOMAIN Tail(q) :
                         Tail(q)[i].then \in {"refresh", "adopted"} => Gone(Tail(q), k, i)
  BY DEF OneSession
<1>1. Gone(Tail(q), k, Len(Tail(q)) + 1)
  <2>1. Len(Tail(q)) + 1 \in 1..Len(q) /\ Len(q) + 1 = (Len(Tail(q)) + 1) + 1
    OBVIOUS
  <2>2. Gone(q, k, (Len(Tail(q)) + 1) + 1)
    BY <2>1 DEF OneSession
  <2> QED BY <2>1, <2>2, GoneDrop
<1>2. ASSUME NEW i \in DOMAIN Tail(q), Tail(q)[i].then \in {"refresh", "adopted"}
      PROVE  Gone(Tail(q), k, i)
  <2>1. i + 1 \in DOMAIN q /\ Tail(q)[i] = q[i + 1] /\ i \in 1..Len(q)
    BY Dropped
  <2>2. Gone(q, k, i + 1)
    BY <1>2, <2>1 DEF OneSession
  <2> QED BY <2>1, <2>2, GoneDrop
<1> QED BY <1>1, <1>2

LEMMA OneSessionAdd ==
  ASSUME NEW q \in Seq(Entry), NEW e \in Entry, NEW k, NEW st, NEW rf, NEW ss,
         OneSession(q, k, st, rf, ss)
  PROVE  OneSession(Append(q, e), k, st, rf, ss)
<1> SUFFICES ASSUME st = "anonymous"
             PROVE  /\ Gone(Append(q, e), k, Len(Append(q, e)) + 1)
                    /\ \A i \in DOMAIN Append(q, e) :
                         Append(q, e)[i].then \in {"refresh", "adopted"} => Gone(Append(q, e), k, i)
  BY DEF OneSession
<1>1. Len(q) \in Nat /\ Len(Append(q, e)) = Len(q) + 1 /\ DOMAIN q = 1..Len(q)
  OBVIOUS
<1>2. Gone(Append(q, e), k, Len(q) + 1)
  <2>1. Gone(q, k, Len(q) + 1) /\ Len(q) + 1 \in 1..(Len(q) + 1)
    BY <1>1 DEF OneSession
  <2> QED BY <2>1, GoneAdd
<1>3. Gone(Append(q, e), k, Len(Append(q, e)) + 1)
  BY <1>1, <1>2, GoneLater
<1>4. ASSUME NEW i \in DOMAIN Append(q, e), Append(q, e)[i].then \in {"refresh", "adopted"}
      PROVE  Gone(Append(q, e), k, i)
  <2>1. CASE i \in DOMAIN q
    <3>1. Append(q, e)[i] = q[i] /\ i \in 1..(Len(q) + 1)
      BY <2>1, <1>1, Added
    <3>2. Gone(q, k, i)
      BY <2>1, <3>1, <1>4 DEF OneSession
    <3> QED BY <3>1, <3>2, GoneAdd
  <2>2. CASE i = Len(q) + 1
    BY <2>2, <1>2
  <2> QED BY <2>1, <2>2, Added
<1> QED BY <1>3, <1>4

(* Nothing is stored any more, whatever the queue holds.                    *)
LEMMA OneSessionEmptied ==
  ASSUME NEW q, NEW k, k.access = 0, k.refresh = 0, NEW st, NEW rf, NEW ss,
         st = "anonymous" => rf.pc \notin UnderWay
  PROVE  OneSession(q, k, st, rf, ss)
  BY DEF OneSession, Gone

(* Somebody signs out: the removal goes to the end of the queue.            *)
LEMMA OneSessionVoided ==
  ASSUME NEW q \in Seq(Entry), NEW k, k.access = k.refresh, NEW rf, rf.pc \notin UnderWay, NEW ss,
         Absent(q, {"refresh", "adopted"})
  PROVE  OneSession(Voided(q), k, "anonymous", rf, ss)
<1> DEFINE e == Write(0, "nothing", {})
<1>1. e \in Entry /\ e.kind = "write" /\ e.then = "nothing" /\ e.pair = 0
  BY Requests DEF Writes
<1>2. \/ Voided(q) = q /\ q # <<>> /\ Last(q).kind = "write" /\ Last(q).pair = 0
      \/ Voided(q) = Append(q, e)
  BY DEF Voided
<1> HIDE DEF e
<1>3. CASE Voided(q) = q /\ q # <<>> /\ Last(q).kind = "write" /\ Last(q).pair = 0
  <2>1. Len(q) \in 1..((Len(q) + 1) - 1) /\ q[Len(q)].kind = "write" /\ q[Len(q)].pair = 0
    BY <1>3 DEF Last
  <2>2. Gone(q, k, Len(q) + 1)
    BY <2>1 DEF Gone
  <2> QED BY <1>3, <2>2 DEF OneSession, Absent
<1>4. CASE Voided(q) = Append(q, e)
  <2>1. /\ DOMAIN Append(q, e) = DOMAIN q \cup {Len(q) + 1} /\ Append(q, e)[Len(q) + 1] = e
        /\ \A i \in DOMAIN q : Append(q, e)[i] = q[i]
        /\ Len(Append(q, e)) = Len(q) + 1 /\ Len(q) \in Nat
    BY <1>1, Added
  <2>2. Gone(Append(q, e), k, Len(Append(q, e)) + 1)
    BY <1>1, <2>1 DEF Gone
  <2>3. Absent(Append(q, e), {"refresh", "adopted"})
    BY <1>1, <2>1 DEF Absent
  <2> QED BY <1>4, <2>2, <2>3 DEF OneSession, Absent
<1> QED BY <1>2, <1>3, <1>4

LEMMA StagedVoided ==
  ASSUME NEW q \in Seq(Entry), NEW st, NEW rf, NEW lg, NEW cl, Staged(q, st, rf, lg, cl),
         Absent(q, {"start"})
  PROVE  Staged(Voided(q), st, rf, lg, cl) /\ Absent(Voided(q), {"start"})
<1> DEFINE e == Write(0, "nothing", {})
<1>1. e \in Entry /\ e.then = "nothing"
  <2>1. {} \in SUBSET Calls /\ "nothing" \in Writes /\ 0 \in Nat
    BY DEF Writes
  <2> QED BY <2>1, Requests
<1>2. Voided(q) = q \/ Voided(q) = Append(q, e)
  BY DEF Voided
<1> HIDE DEF e
<1> QED BY <1>1, <1>2, StagedAdd

LEMMA OneSessionVoidedToo ==
  ASSUME NEW q \in Seq(Entry), NEW k, NEW st, NEW rf, NEW ss, OneSession(q, k, st, rf, ss)
  PROVE  OneSession(Voided(q), k, st, rf, ss)
<1> DEFINE e == Write(0, "nothing", {})
<1>1. e \in Entry
  BY Requests DEF Writes
<1>2. Voided(q) = q \/ Voided(q) = Append(q, e)
  BY DEF Voided
<1> HIDE DEF e
<1> QED BY <1>1, <1>2, OneSessionAdd

(* The calls that waited for a refresh remove what is stored.               *)
LEMMA GiveUpStaged ==
  ASSUME Types, NEW q \in Seq(Entry), NEW st, NEW rf, NEW lg, NEW cl, Staged(q, st, rf, lg, cl),
         Absent(q, {"start"}), Absent(q, {"refresh"}), rf.pc \notin UnderWay
  PROVE  /\ Staged(GiveUp(q), st, rf, lg, cl)
         /\ \A k, ss : OneSession(q, k, st, rf, ss) => OneSession(GiveUp(q), k, st, rf, ss)
<1> DEFINE e == Write(0, "ended", Waiters)
<1>1. e \in Entry /\ e.kind = "write" /\ e.then = "ended" /\ e.pair = 0 /\ e.who = Waiters
  <2>1. Waiters \in SUBSET Calls /\ "ended" \in Writes /\ 0 \in Nat
    BY DEF Waiters, Writes
  <2> QED BY <2>1, Requests
<1>2. GiveUp(q) = IF Waiters = {} THEN q ELSE Append(q, e)
  BY DEF GiveUp
<1> HIDE DEF e
<1>3. Waiters # {} => Staged(Append(q, e), st, rf, lg, cl)
  BY <1>1, StagedAdd
<1>4. \A k, ss : OneSession(q, k, st, rf, ss) => OneSession(Append(q, e), k, st, rf, ss)
  BY <1>1, OneSessionAdd
<1> QED BY <1>2, <1>3, <1>4

(* Once a call is made the app has started.                                 *)
LEMMA Begun ==
  ASSUME IInv, JInv, NEW c \in Calls, call[c].pc # "idle"
  PROVE  Absent(queue, {"start"}) /\ (status = "loading" => c = Me)
<1>1. status = "loading" => c = Me
  BY DEF JInv, Staged, Calls
<1>2. \A i \in DOMAIN queue : queue[i].then = "start" => status = "loading" /\ call[Me].pc = "idle"
  <2>1. \A i \in DOMAIN queue : queue[i] \in Entry /\ Bound(queue[i], call)
    BY OrderlyFacts DEF IInv
  <2> QED BY <2>1 DEF JInv, Staged, Entry, Bound
<1> QED BY <1>1, <1>2 DEF Absent

(* A refresh is under way once the app has started, and at startup it is    *)
(* AuthProvider's call that waits for it.                                   *)
LEMMA Refreshing ==
  ASSUME IInv, JInv, refresh.pc \notin {"none", "spent"}
  PROVE  Absent(queue, {"start"}) /\ (status = "loading" => call[Me].pc = "waiting")
<1>1. PICK c \in Calls : call[c].pc = "waiting"
  BY DEF IInv, Awaited
<1> QED BY <1>1, Begun

LEMMA NotLoading ==
  ASSUME JInv, status # "loading"
  PROVE  /\ Absent(queue, {"start"})
         /\ call[Me].pc \notin {"reading", "sent", "retried", "waiting"}
  BY DEF JInv, Staged, Absent

(* What a woken call becomes; at startup only AuthProvider's can be one.    *)
LEMMA Woken ==
  ASSUME IInv, JInv, NEW cs, NEW to, \A c \in cs \cap Calls : call[c].pc # "idle"
  PROVE  /\ status = "loading" => \A c \in PageCalls : Wake(cs, to)[c].pc = "idle"
         /\ Wake(cs, to)[Me].pc = IF Me \in cs THEN to ELSE call[Me].pc
<1>1. PageCalls \subseteq Calls /\ Me \in Calls
  BY DEF Calls
<1>2. status = "loading" => \A c \in PageCalls : call[c].pc = "idle"
  BY DEF JInv, Staged
<1> QED BY <1>1, <1>2 DEF Wake

-----------------------------------------------------------------------------

LEMMA InitJInv == MobInit => JInv
<1> SUFFICES ASSUME MobInit PROVE JInv
  OBVIOUS
<1>1. Staged(queue, status, refresh, login, call)
  BY DEF MobInit, Staged, Absent, NoLogin, NoRefresh, NoCall, UnderWay, Calls
<1>2. Sessions /\ kills \in Nat
  BY DEF MobInit, Sessions, NoRefresh, UnderWay
<1>3. OneSession(queue, keys, status, refresh, session) /\ OneSessionStored
  BY DEF MobInit, OneSession, OneSessionStored, NoRefresh, UnderWay
<1> QED BY <1>1, <1>2, <1>3 DEF JInv

LEMMA LaunchSession == IInv /\ JInv /\ Launch => JInv'
<1> SUFFICES ASSUME IInv, JInv, Launch PROVE JInv'
  OBVIOUS
<1> DEFINE e == Read("start", {Me})
<1>1. /\ queue' = <<e>> /\ status' = "loading"
      /\ login = NoLogin /\ refresh = NoRefresh /\ \A c \in Calls : call[c].pc = "idle"
      /\ UNCHANGED <<issued, session, keys, login, refresh, call, kills, overtaken>>
  BY DEF Launch, IInv, Off, server, past
<1>2. e.then = "start"
  BY DEF Read
<1> HIDE DEF e
<1>3. Staged(queue', status', refresh', login', call')
  BY <1>1, <1>2 DEF Staged, Absent, NoLogin, NoRefresh, UnderWay, Calls
<1>4. Sessions' /\ (Calm' => OneSession(queue', keys', status', refresh', session'))
  BY <1>1 DEF JInv, Sessions, Calm, OneSession, NoRefresh, UnderWay
<1>5. OneSessionStored'
  BY <1>1 DEF JInv, OneSessionStored
<1> QED BY <1>1, <1>3, <1>4, <1>5 DEF JInv

LEMMA StartSession == IInv /\ JInv /\ Start => JInv'
<1> SUFFICES ASSUME IInv, JInv, Start PROVE JInv'
  OBVIOUS
<1>1. /\ queue # <<>> /\ Head(queue).kind = "read" /\ Head(queue).then = "start"
      /\ UNCHANGED <<issued, session, keys, login, refresh, kills, overtaken>>
  BY DEF Start, NextIs, server, past
<1>2. /\ queue \in Seq(Entry) /\ Head(queue) \in Entry /\ Bound(Head(queue), call)
      /\ Head(queue) = queue[1] /\ 1 \in DOMAIN queue
  BY <1>1, HeadFacts, Dropped
<1>3. status = "loading" /\ call[Me].pc = "idle" /\ \A c \in PageCalls : call[c].pc = "idle"
  BY <1>1, <1>2 DEF JInv, Staged, Bound, Entry
<1>4. refresh.pc \notin UnderWay
  BY <1>3 DEF IInv, Awaited, Calls, UnderWay
<1>5. /\ Staged(Tail(queue), status, refresh, login, call) /\ Absent(Tail(queue), {"start"})
      /\ Tail(queue) \in Seq(Entry)
  BY <1>1, <1>2, StagedDrop, Dropped DEF JInv
<1>6. Sessions' /\ OneSessionStored' /\ kills' \in Nat
  BY <1>1 DEF JInv, Sessions, OneSessionStored
<1>7. CASE Pair.access = 0
  <2>1. queue' = Tail(queue) /\ call' = call /\ status' = "anonymous"
    BY <1>7 DEF Start
  <2>2. Staged(queue', status', refresh', login', call')
    BY <1>1, <1>3, <1>4, <1>5, <2>1, StagedChange
  <2>3. Calm' => keys'.access = 0 /\ keys'.refresh = 0
    BY <1>1, <1>7 DEF JInv, Calm, OneSession, Pair
  <2>4. Calm' => OneSession(queue', keys', status', refresh', session')
    BY <1>1, <1>4, <2>3, OneSessionEmptied
  <2> QED BY <1>6, <2>2, <2>4 DEF JInv
<1>8. CASE Pair.access # 0
  <2> DEFINE e == Read("send", {Me})
  <2>1. queue' = Append(Tail(queue), e) /\ call' = [call EXCEPT ![Me].pc = "reading"]
        /\ status' = status
    BY <1>8 DEF Start
  <2>2. e \in Entry /\ e.then = "send"
    BY Requests DEF Calls, Reads
  <2> HIDE DEF e
  <2>3. \A c \in PageCalls : call'[c] = call[c]
    BY <2>1, MobileAssumption DEF Calls, IInv, Types
  <2>4. Staged(Tail(queue), status, refresh, login, call')
    <3>1. /\ login.pc # "idle" => status = "anonymous"
          /\ refresh.pc \in UnderWay => Absent(Tail(queue), {"ended"})
      BY <1>4 DEF JInv, Staged
    <3> QED BY <1>3, <1>5, <2>3, <3>1, StagedChange
  <2>5. Staged(queue', status', refresh', login', call')
    BY <1>1, <1>5, <2>1, <2>2, <2>4, StagedAdd
  <2>6. Calm' => OneSession(queue', keys', status', refresh', session')
    BY <1>1, <1>3, <1>4, <2>1 DEF JInv, Calm, OneSession
  <2> QED BY <1>6, <2>5, <2>6 DEF JInv
<1> QED BY <1>7, <1>8

LEMMA SubmitSession == IInv /\ JInv /\ (Submit \/ SubmitFailed) => JInv'
<1> SUFFICES ASSUME IInv, JInv, Submit \/ SubmitFailed PROVE JInv'
  OBVIOUS
<1>1. /\ UNCHANGED <<issued, session, keys, queue, status, refresh, call, kills, overtaken>>
      /\ login'.pc # "idle" => status = "anonymous"
  BY DEF Submit, SubmitFailed, Screens, NoLogin, server, store, past
<1>2. Staged(queue', status', refresh', login', call')
  BY <1>1 DEF JInv, Staged
<1> QED BY <1>1, <1>2 DEF JInv, Sessions, Calm, OneSessionStored

LEMMA AdoptSession == IInv /\ JInv /\ Adopt => JInv'
<1> SUFFICES ASSUME IInv, JInv, Adopt PROVE JInv'
  OBVIOUS
<1> DEFINE e == Write(login.pair, "adopted", {})
<1>1. /\ UNCHANGED <<issued, session, keys, status, refresh, call, kills, overtaken>>
      /\ login.pc = "answered" /\ queue' = Append(queue, e)
  BY DEF Adopt, server, past
<1>2. e \in Entry /\ e.then = "adopted"
  <2>1. login.pair \in Nat /\ {} \in SUBSET Calls /\ "adopted" \in Writes
    BY DEF Writes, IInv, Types
  <2> QED BY <2>1, Requests
<1> HIDE DEF e
<1>3. status = "anonymous" /\ Absent(queue, {"start"}) /\ queue \in Seq(Entry)
  BY <1>1, NotLoading DEF JInv, Staged, IInv, Orderly
<1>4. Staged(queue, status, refresh, login', call)
  BY <1>3 DEF JInv, Staged
<1>5. Staged(queue', status', refresh', login', call')
  BY <1>1, <1>2, <1>3, <1>4, StagedAdd
<1>6. Calm' => OneSession(queue', keys', status', refresh', session')
  BY <1>1, <1>2, <1>3, OneSessionAdd DEF JInv, Calm
<1> QED BY <1>1, <1>5, <1>6 DEF JInv, Sessions, OneSessionStored

LEMMA AdoptedSession == IInv /\ JInv /\ Adopted => JInv'
<1> SUFFICES ASSUME IInv, JInv, Adopted PROVE JInv'
  OBVIOUS
<1>1. /\ UNCHANGED <<issued, session, refresh, call, kills, overtaken>>
      /\ queue # <<>> /\ Head(queue).then = "adopted" /\ Written /\ queue' = Tail(queue)
      /\ status' = "authenticated" /\ login' = NoLogin
  BY DEF Adopted, NextIs, server, past
<1>2. queue \in Seq(Entry) /\ login.pc = "storing"
  BY <1>1, HeadFacts
<1>3. status = "anonymous"
  BY <1>2 DEF JInv, Staged
<1>4. Staged(Tail(queue), status, refresh, login, call) /\ Absent(Tail(queue), {"start"})
  BY <1>1, <1>2, StagedDrop DEF JInv
<1>5. Staged(queue', status', refresh', login', call')
  BY <1>1, <1>3, <1>4 DEF Staged, Absent, NoLogin
<1>6. keys'.access = keys'.refresh
  BY <1>1 DEF Written
<1>7. Calm' => OneSession(queue', keys', status', refresh', session')
  BY <1>1, <1>3, <1>6 DEF JInv, Calm, OneSession
<1> QED BY <1>1, <1>5, <1>6, <1>7 DEF JInv, Sessions, OneSessionStored

LEMMA LogoutSession == IInv /\ JInv /\ Logout => JInv'
<1> SUFFICES ASSUME IInv, JInv, Logout PROVE JInv'
  OBVIOUS
<1> DEFINE e == Read("logout", {})
<1>1. /\ UNCHANGED <<issued, session, keys, status, login, refresh, call, kills, overtaken>>
      /\ queue' = Append(queue, e) /\ status = "authenticated"
  BY DEF Logout, Screens, server, past, IInv, Types
<1>2. e \in Entry /\ e.then = "logout"
  BY Requests DEF Reads
<1> HIDE DEF e
<1>3. Absent(queue, {"start"}) /\ queue \in Seq(Entry)
  BY <1>1, NotLoading DEF IInv, Orderly
<1>4. Staged(queue', status', refresh', login', call')
  BY <1>1, <1>2, <1>3, StagedAdd DEF JInv
<1>5. Calm' => OneSession(queue', keys', status', refresh', session')
  BY <1>1, <1>2, <1>3, OneSessionAdd DEF JInv, Calm
<1> QED BY <1>1, <1>4, <1>5 DEF JInv, Sessions, OneSessionStored

(* A logout that no refresh was under way at removes what is stored before  *)
(* anybody can log in or refresh.                                           *)
LEMMA LoggedOutSession == IInv /\ JInv /\ LoggedOut => JInv'
<1> SUFFICES ASSUME IInv, JInv, LoggedOut PROVE JInv'
  OBVIOUS
<1>1. /\ UNCHANGED <<issued, session, keys, login, refresh, call, kills>>
      /\ queue # <<>> /\ Head(queue).kind = "read" /\ Head(queue).then = "logout"
      /\ status' = "anonymous" /\ queue' = Voided(Tail(queue))
      /\ overtaken' = (overtaken \/ refresh.pc \in {"reading", "sent", "answered", "storing"})
  BY DEF LoggedOut, NextIs
<1>2. /\ queue \in Seq(Entry) /\ Tail(queue) \in Seq(Entry) /\ status # "off"
      /\ Orderly(Tail(queue), refresh, login, call)
      /\ Head(queue) = queue[1] /\ 1 \in DOMAIN queue
  BY <1>1, HeadFacts, Dropped
<1>3. status # "loading"
  BY <1>1, <1>2 DEF JInv, Staged, Absent
<1>4. Staged(Tail(queue), status, refresh, login, call) /\ Absent(Tail(queue), {"start"})
  BY <1>1, <1>2, StagedDrop DEF JInv
<1>5. Staged(Tail(queue), "anonymous", refresh, login, call)
  BY <1>3, <1>4 DEF Staged, Absent
<1>6. Staged(queue', status', refresh', login', call')
  BY <1>1, <1>2, <1>4, <1>5, StagedVoided
<1>7. ASSUME Calm' PROVE OneSession(queue', keys', status', refresh', session')
  <2>1. /\ refresh.pc \notin {"reading", "sent", "answered", "storing"}
        /\ OneSession(queue, keys, status, refresh, session)
    BY <1>1, <1>7 DEF JInv, Calm
  <2>2. CASE status = "anonymous"
    <3>1. OneSession(Tail(queue), keys, status, refresh, session)
      BY <1>1, <1>2, <2>1, OneSessionDrop
    <3> QED BY <1>1, <1>2, <2>2, <3>1, OneSessionVoidedToo
  <2>3. CASE status # "anonymous"
    <3>1. login.pc = "idle"
      BY <2>3 DEF JInv, Staged
    <3>2. Absent(Tail(queue), {"refresh"}) /\ Absent(Tail(queue), {"adopted"})
      BY <1>2, <2>1, <3>1, OrderlyFacts
    <3>3. /\ Absent(Tail(queue), {"refresh", "adopted"}) /\ keys.access = keys.refresh
          /\ refresh.pc \notin UnderWay
      BY <2>1, <3>2 DEF Absent, OneSession, UnderWay
    <3> QED BY <1>1, <1>2, <3>3, OneSessionVoided
  <2> QED BY <2>2, <2>3
<1> QED BY <1>1, <1>6, <1>7 DEF JInv, Sessions, OneSessionStored

(* However one kill tears a write, what it leaves is of one session: what   *)
(* is overwritten is of the session of what is written, or gone.            *)
LEMMA KillSession == IInv /\ JInv /\ Kill => JInv'
<1> SUFFICES ASSUME IInv, JInv, Kill PROVE JInv'
  OBVIOUS
<1>1. /\ UNCHANGED <<issued, session, overtaken>> /\ kills' = kills + 1 /\ kills \in Nat
      /\ status' = "off" /\ queue' = <<>> /\ login' = NoLogin /\ refresh' = NoRefresh
      /\ call' = [c \in Calls |-> NoCall]
  BY DEF Kill, server, JInv
<1>2. Staged(queue', status', refresh', login', call')
  BY <1>1 DEF Staged, Absent, NoLogin, NoRefresh, NoCall, UnderWay, Calls
<1>3. Sessions' /\ kills' \in Nat /\ ~Calm'
  BY <1>1 DEF JInv, Sessions, NoRefresh, UnderWay, Calm
<1>4. ASSUME kills' <= 1, ~overtaken', keys'.access # 0, keys'.refresh # 0
      PROVE  session'[keys'.access] = session'[keys'.refresh]
  <2>1. OneSession(queue, keys, status, refresh, session)
    BY <1>1, <1>4 DEF JInv, Calm
  <2>2. keys.access = keys.refresh
    BY <2>1 DEF OneSession
  <2>3. CASE keys' = keys
    BY <1>1, <2>2, <2>3
  <2>4. CASE keys' # keys
    <3>1. /\ queue # <<>> /\ Head(queue).kind = "write"
          /\ keys' \in [access  : {keys.access, Head(queue).pair},
                         refresh : {keys.refresh, Head(queue).pair}]
      BY <2>4 DEF Kill
    <3>2. keys'.access \in {keys.access, Head(queue).pair}
          /\ keys'.refresh \in {keys.access, Head(queue).pair}
      BY <2>2, <3>1
    <3>3. /\ Writing(Head(queue), refresh, login)
          /\ Head(queue).then \in Ending => refresh.pc = "storing"
          /\ Head(queue).then = "adopted" => login.pc = "storing"
          /\ Head(queue) = queue[1] /\ 1 \in DOMAIN queue
      BY <3>1, HeadFacts, Dropped
    <3>4. ASSUME Head(queue).pair # 0, keys.access # 0
          PROVE  session[Head(queue).pair] = session[keys.access]
      <4>1. CASE Head(queue).then = "adopted"
        <5>1. status = "anonymous"
          BY <3>3, <4>1 DEF JInv, Staged
        <5>2. Gone(queue, keys, 1)
          BY <2>1, <3>3, <4>1, <5>1 DEF OneSession
        <5> QED BY <3>4, <5>2 DEF Gone
      <4>2. CASE Head(queue).then = "stored" /\ Head(queue).pair = refresh.result
        <5>1. refresh.pc \in UnderWay
          BY <3>3, <4>2 DEF Ending, UnderWay
        <5> QED BY <2>1, <3>4, <4>2, <5>1 DEF OneSession, JInv, Sessions
      <4> QED BY <3>3, <3>4, <4>1, <4>2 DEF Writing
    <3> QED BY <1>1, <1>4, <3>2, <3>4
  <2> QED BY <2>3, <2>4
<1>5. OneSessionStored'
  BY <1>4 DEF OneSessionStored
<1> QED BY <1>2, <1>3, <1>5 DEF JInv

-----------------------------------------------------------------------------

LEMMA SendSession == \A c \in Calls : IInv /\ JInv /\ Send(c) => JInv'
<1> SUFFICES ASSUME NEW c \in Calls, IInv, JInv, Send(c) PROVE JInv'
  OBVIOUS
<1> DEFINE e == Read("send", {c})
<1>1. /\ UNCHANGED <<issued, session, keys, status, login, refresh, kills, overtaken>>
      /\ status = "authenticated" /\ c # Me
      /\ queue' = Append(queue, e) /\ call' = [call EXCEPT ![c].pc = "reading"]
  BY MobileAssumption DEF Send, Screens, server, past, IInv, Types
<1>2. e \in Entry /\ e.then = "send"
  BY Requests DEF Reads
<1> HIDE DEF e
<1>3. Absent(queue, {"start"}) /\ queue \in Seq(Entry)
  BY <1>1, NotLoading DEF IInv, Orderly
<1>4. call'[Me] = call[Me]
  BY <1>1 DEF IInv, Types, Calls
<1>5. Staged(queue, status, refresh, login, call')
  BY <1>1, <1>4 DEF JInv, Staged
<1>6. Staged(queue', status', refresh', login', call')
  BY <1>1, <1>2, <1>3, <1>5, StagedAdd
<1>7. Calm' => OneSession(queue', keys', status', refresh', session')
  BY <1>1, <1>2, <1>3, OneSessionAdd DEF JInv, Calm
<1> QED BY <1>1, <1>6, <1>7 DEF JInv, Sessions, OneSessionStored

LEMMA SentSession == IInv /\ JInv /\ Sent => JInv'
<1> SUFFICES ASSUME IInv, JInv, Sent PROVE JInv'
  OBVIOUS
<1>1. /\ UNCHANGED <<issued, session, keys, status, login, refresh, kills, overtaken>>
      /\ queue # <<>> /\ Head(queue).kind = "read" /\ Head(queue).then \in {"send", "resend"}
      /\ queue' = Tail(queue)
  BY DEF Sent, NextIs, server, past
<1>2. /\ queue \in Seq(Entry) /\ \A c \in Head(queue).who : call[c].pc = "reading"
  BY <1>1, HeadFacts DEF Bound
<1>3. \A c \in Calls : c \notin Head(queue).who => call'[c] = call[c]
  BY DEF Sent
<1>4. status = "loading" => \A c \in PageCalls : call'[c].pc = "idle"
  BY <1>2, <1>3 DEF JInv, Staged, Calls
<1>5. call'[Me].pc \in {"reading", "sent", "retried", "waiting"} => status = "loading"
  BY <1>2, <1>3 DEF JInv, Staged, Calls
<1>6. Staged(Tail(queue), status, refresh, login, call)
  BY <1>1, <1>2, StagedDrop DEF JInv
<1>7. Staged(queue', status', refresh', login', call')
  BY <1>1, <1>4, <1>5, <1>6 DEF Staged
<1>8. Calm' => OneSession(queue', keys', status', refresh', session')
  BY <1>1, <1>2, OneSessionDrop DEF JInv, Calm
<1> QED BY <1>1, <1>7, <1>8 DEF JInv, Sessions, OneSessionStored

LEMMA AcceptedSession == \A c \in Calls : IInv /\ JInv /\ Accepted(c) => JInv'
<1> SUFFICES ASSUME NEW c \in Calls, IInv, JInv, Accepted(c) PROVE JInv'
  OBVIOUS
<1>1. /\ UNCHANGED <<issued, session, keys, queue, login, refresh, kills, overtaken>>
      /\ call[c].pc \in {"sent", "retried"} /\ call' = [call EXCEPT ![c] = NoCall]
      /\ status' = IF c = Me THEN "authenticated" ELSE status
  BY DEF Accepted, server, store, past
<1>2. /\ \A d \in Calls : call'[d] = IF d = c THEN NoCall ELSE call[d]
      /\ PageCalls \subseteq Calls /\ Me \in Calls
  BY <1>1 DEF IInv, Types, Calls
<1>3. Absent(queue, {"start"})
  BY <1>1, Begun
<1>4. c = Me => status = "loading" /\ login.pc = "idle"
  BY <1>1 DEF JInv, Staged
<1>5. Staged(queue', status', refresh', login', call')
  BY <1>1, <1>2, <1>3, <1>4 DEF JInv, Staged, Absent, NoCall
<1>6. Calm' => OneSession(queue', keys', status', refresh', session')
  BY <1>1 DEF JInv, Calm, OneSession
<1> QED BY <1>1, <1>5, <1>6 DEF JInv, Sessions, OneSessionStored

LEMMA FailedSession == \A c \in Calls : IInv /\ JInv /\ Failed(c) => JInv'
<1> SUFFICES ASSUME NEW c \in Calls, IInv, JInv, Failed(c) PROVE JInv'
  OBVIOUS
<1>1. /\ UNCHANGED <<issued, session, keys, login, refresh, kills, overtaken>>
      /\ call[c].pc \in {"sent", "retried"} /\ call' = [call EXCEPT ![c] = NoCall]
      /\ IF c = Me THEN queue' = Voided(queue) /\ status' = "anonymous"
         ELSE UNCHANGED <<queue, status>>
  BY DEF Failed, server, past
<1>2. /\ \A d \in Calls : call'[d] = IF d = c THEN NoCall ELSE call[d]
      /\ PageCalls \subseteq Calls /\ Me \in Calls
  BY <1>1 DEF IInv, Types, Calls
<1>3. Absent(queue, {"start"}) /\ queue \in Seq(Entry) /\ Orderly(queue, refresh, login, call)
  BY <1>1, Begun DEF IInv, Orderly
<1>4. Sessions' /\ OneSessionStored' /\ kills' \in Nat
  BY <1>1 DEF JInv, Sessions, OneSessionStored
<1>5. CASE c # Me
  <2>1. Staged(queue', status', refresh', login', call')
    BY <1>1, <1>2, <1>5 DEF JInv, Staged, NoCall
  <2> QED BY <1>1, <1>4, <1>5, <2>1 DEF JInv, Calm
<1>6. CASE c = Me
  <2>1. status = "loading" /\ login.pc = "idle"
    BY <1>1, <1>6 DEF JInv, Staged
  <2>2. refresh.pc \in {"none", "spent"}
    BY <1>1, <1>6, <2>1, Refreshing
  <2>3. Staged(queue, "anonymous", refresh, login, call')
    BY <1>2, <1>3, <1>6, <2>1 DEF JInv, Staged, Absent, NoCall
  <2>4. Staged(queue', status', refresh', login', call')
    BY <1>1, <1>3, <1>6, <2>3, StagedVoided
  <2>5. ASSUME Calm' PROVE OneSession(queue', keys', status', refresh', session')
    <3>1. keys.access = keys.refresh /\ refresh.pc \notin UnderWay
      BY <1>1, <2>2, <2>5 DEF JInv, Calm, OneSession, UnderWay
    <3>2. Absent(queue, {"refresh"}) /\ Absent(queue, {"adopted"})
      BY <1>3, <2>1, <2>2, OrderlyFacts
    <3>3. Absent(queue, {"refresh", "adopted"})
      BY <3>2 DEF Absent
    <3> QED BY <1>1, <1>3, <1>6, <3>1, <3>3, OneSessionVoided
  <2> QED BY <1>4, <2>4, <2>5 DEF JInv
<1> QED BY <1>5, <1>6

LEMMA UnauthorizedSession == \A c \in Calls : IInv /\ JInv /\ Unauthorized(c) => JInv'
<1> SUFFICES ASSUME NEW c \in Calls, IInv, JInv, Unauthorized(c) PROVE JInv'
  OBVIOUS
<1>1. /\ UNCHANGED <<issued, session, keys, status, login, kills, overtaken>>
      /\ call[c].pc = "sent"
      /\ \E pc \in {"ending", "waiting"} : call' = [call EXCEPT ![c] = [pc |-> pc, pair |-> 0]]
  BY DEF Unauthorized, server, past
<1>2. /\ Absent(queue, {"start"}) /\ queue \in Seq(Entry) /\ Orderly(queue, refresh, login, call)
      /\ status = "loading" => c = Me
  BY <1>1, Begun DEF IInv, Orderly
<1>3. /\ \A d \in Calls : d # c => call'[d] = call[d]
      /\ PageCalls \subseteq Calls /\ Me \in Calls /\ Me \notin PageCalls
  BY <1>1, MobileAssumption DEF IInv, Types, Calls
<1>4. /\ status = "loading" => \A d \in PageCalls : call'[d].pc = "idle"
      /\ c = Me => status = "loading"
  BY <1>1, <1>2, <1>3 DEF JInv, Staged
<1>5. Staged(queue, status, refresh, login, call')
  BY <1>3, <1>4 DEF JInv, Staged
<1>6. kills' \in Nat /\ OneSessionStored'
  BY <1>1 DEF JInv, OneSessionStored
<1>7. CASE refresh.pc = "spent"
  <2> DEFINE e == Write(0, "ended", {c})
  <2>1. queue' = Append(queue, e) /\ refresh' = refresh
    BY <1>7 DEF Unauthorized
  <2>2. e \in Entry /\ e.then = "ended" /\ e.kind = "write" /\ e.pair = 0 /\ e.who = {c}
    <3>1. {c} \in SUBSET Calls /\ "ended" \in Writes /\ 0 \in Nat
      BY DEF Writes
    <3>2. Write(0, "ended", {c}) \in Entry
      BY <3>1, Requests
    <3>3. e \in Entry
      BY <3>2
    <3>4. e.then = "ended" /\ e.kind = "write" /\ e.pair = 0 /\ e.who = {c}
      BY DEF Write
    <3> QED BY <3>3, <3>4
  <2> HIDE DEF e
  <2>3. Absent(queue, {"refresh"}) /\ refresh.pc \notin UnderWay
    BY <1>2, <1>7, OrderlyFacts DEF UnderWay
  <2>4. Staged(queue', status', refresh', login', call')
    BY <1>1, <1>2, <1>5, <2>1, <2>2, <2>3, StagedAdd
  <2>5. Calm' => OneSession(queue', keys', status', refresh', session')
    BY <1>1, <1>2, <2>1, <2>2, OneSessionAdd DEF JInv, Calm
  <2> QED BY <1>1, <1>6, <2>1, <2>4, <2>5 DEF JInv, Sessions
<1>8. CASE refresh.pc \notin {"spent", "none"}
  <2>1. queue' = queue /\ refresh' = refresh
    BY <1>8 DEF Unauthorized
  <2> QED BY <1>1, <1>5, <1>6, <2>1 DEF JInv, Sessions, Calm
<1>9. CASE refresh.pc = "none"
  <2> DEFINE e == Read("refresh", {})
  <2>1. /\ queue' = Append(queue, e) /\ refresh' = [refresh EXCEPT !.pc = "reading"]
    BY <1>9 DEF Unauthorized
  <2>2. refresh'.pc = "reading" /\ "reading" \notin UnderWay
    BY <2>1 DEF IInv, Types, UnderWay
  <2>3. e \in Entry /\ e.then = "refresh"
    BY Requests DEF Reads
  <2> HIDE DEF e
  <2>4. Staged(queue, status, refresh', login, call')
    BY <1>5, <2>2 DEF Staged
  <2>5. Staged(queue', status', refresh', login', call')
    BY <1>1, <1>2, <2>1, <2>3, <2>4, StagedAdd
  <2>6. ASSUME Calm' PROVE OneSession(queue', keys', status', refresh', session')
    <3>1. OneSession(queue, keys, status, refresh', session)
      BY <1>1, <2>2, <2>6 DEF JInv, Calm, OneSession
    <3> QED BY <1>1, <1>2, <2>1, <2>3, <3>1, OneSessionAdd
  <2> QED BY <1>1, <1>6, <2>2, <2>5, <2>6 DEF JInv, Sessions
<1> QED BY <1>7, <1>8, <1>9

(* Who presents a token does so for somebody who is signed in, and the      *)
(* token is of the session that is stored.                                  *)
LEMMA PresentSession == IInv /\ JInv /\ Present => JInv'
<1> SUFFICES ASSUME IInv, JInv, Present PROVE JInv'
  OBVIOUS
<1>1. /\ UNCHANGED <<issued, session, keys, status, login, kills, overtaken>>
      /\ queue # <<>> /\ Head(queue).kind = "read" /\ Head(queue).then = "refresh"
  BY DEF Present, NextIs, server
<1>2. /\ queue \in Seq(Entry) /\ Tail(queue) \in Seq(Entry) /\ refresh.pc = "reading"
      /\ Absent(Tail(queue), {"refresh"}) /\ Head(queue) = queue[1] /\ 1 \in DOMAIN queue
  BY <1>1, HeadFacts, Dropped
<1>3. Staged(Tail(queue), status, refresh, login, call) /\ Absent(Tail(queue), {"start"})
  BY <1>1, <1>2, StagedDrop DEF JInv
<1>4. kills' \in Nat /\ OneSessionStored' /\ Types
  BY <1>1 DEF IInv, JInv, OneSessionStored
<1>5. Calm' => OneSession(Tail(queue), keys, status, refresh, session)
  BY <1>1, <1>2, OneSessionDrop DEF JInv, Calm
<1>6. CASE Pair.refresh = 0
  <2>1. /\ refresh' = [NoRefresh EXCEPT !.pc = "spent"]
        /\ queue' = GiveUp(Tail(queue)) /\ call' = Wake(Waiters, "ending")
    BY <1>6 DEF Present
  <2>2. refresh'.pc = "spent" /\ refresh'.pc \notin UnderWay
    BY <2>1 DEF NoRefresh, UnderWay
  <2>3. /\ status = "loading" => \A c \in PageCalls : call'[c].pc = "idle"
        /\ call'[Me].pc \in {"reading", "sent", "retried", "waiting"} => status = "loading"
    <3>1. \A c \in Waiters \cap Calls : call[c].pc # "idle"
      BY DEF Waiters
    <3> QED BY <2>1, <3>1, Woken DEF JInv, Staged
  <2>4. Staged(Tail(queue), status, refresh', login, call')
    BY <1>3, <2>2, <2>3 DEF Staged
  <2>5. Staged(queue', status', refresh', login', call')
    BY <1>1, <1>2, <1>3, <1>4, <2>1, <2>2, <2>4, GiveUpStaged
  <2>6. Calm' => OneSession(Tail(queue), keys, status, refresh', session)
    BY <1>5, <2>2 DEF OneSession
  <2>7. Calm' => OneSession(queue', keys', status', refresh', session')
    BY <1>1, <1>2, <1>3, <1>4, <2>1, <2>2, <2>4, <2>6, GiveUpStaged
  <2> QED BY <1>1, <1>4, <2>2, <2>5, <2>7 DEF JInv, Sessions
<1>7. CASE Pair.refresh # 0
  <2>1. /\ refresh' = [pc |-> "sent", pair |-> Pair.refresh, result |-> 0]
        /\ queue' = Tail(queue) /\ call' = call
    BY <1>7 DEF Present
  <2>2. /\ refresh'.pc = "sent" /\ refresh'.pair = keys.refresh /\ refresh'.result = 0
        /\ keys.access # 0 /\ keys.refresh \in 1..issued
    BY <1>7, <2>1 DEF Pair, IInv, Types
  <2>3. Absent(Tail(queue), {"ended"})
    <3> SUFFICES ASSUME NEW i \in DOMAIN Tail(queue), Tail(queue)[i].then = "ended" PROVE FALSE
      BY DEF Absent
    <3>1. i + 1 \in DOMAIN queue /\ queue[i + 1].then = "ended" /\ i \in Nat
      BY <1>2, Dropped
    <3>2. i + 1 < 1
      BY <1>1, <1>2, <3>1 DEF JInv, Staged
    <3> QED BY <3>1, <3>2
  <2>4. Staged(queue', status', refresh', login', call')
    BY <1>1, <1>3, <2>1, <2>3 DEF Staged
  <2>5. ASSUME Calm' PROVE OneSession(queue', keys', status', refresh', session')
    <3>1. OneSession(queue, keys, status, refresh, session)
      BY <1>1, <2>5 DEF JInv, Calm
    <3>2. status # "anonymous"
      <4> SUFFICES ASSUME status = "anonymous" PROVE FALSE
        OBVIOUS
      <4>1. Gone(queue, keys, 1)
        BY <1>1, <1>2, <3>1 DEF OneSession
      <4> QED BY <2>2, <4>1 DEF Gone
    <3>3. keys.access = keys.refresh
      BY <3>1 DEF OneSession
    <3> QED BY <1>1, <2>2, <3>2, <3>3 DEF OneSession
  <2>6. Sessions'
    BY <1>1, <2>2 DEF JInv, Sessions
  <2> QED BY <1>4, <2>4, <2>5, <2>6 DEF JInv
<1> QED BY <1>6, <1>7

LEMMA RefreshAnsweredSession == IInv /\ JInv /\ RefreshAnswered => JInv'
<1> SUFFICES ASSUME IInv, JInv, RefreshAnswered PROVE JInv'
  OBVIOUS
<1>1. /\ UNCHANGED <<issued, session, keys, status, login, call, kills, overtaken>>
      /\ refresh.pc = "answered" /\ refresh' = [refresh EXCEPT !.pc = "storing"]
      /\ queue' = Append(queue, IF refresh.result # 0 THEN Write(refresh.result, "stored", {})
                                ELSE Write(0, "refused", {}))
  BY DEF RefreshAnswered, server, past
<1>2. /\ refresh'.pc = "storing" /\ refresh'.pair = refresh.pair
      /\ refresh'.result = refresh.result /\ refresh.result \in Nat
  BY <1>1 DEF IInv, Types
<1>3. PICK e \in Entry : queue' = Append(queue, e) /\ e.then \in Ending
  <2>1. {} \in SUBSET Calls /\ Ending \subseteq Writes /\ Ending = {"stored", "refused"}
    BY DEF Ending, Writes
  <2>2. /\ Write(refresh.result, "stored", {}) \in Entry
        /\ Write(refresh.result, "stored", {}).then = "stored"
        /\ Write(0, "refused", {}) \in Entry /\ Write(0, "refused", {}).then = "refused"
    BY <1>2, <2>1, Requests
  <2> QED BY <1>1, <2>1, <2>2
<1>4. Absent(queue, {"start"}) /\ queue \in Seq(Entry)
  BY <1>1, Refreshing DEF IInv, Orderly
<1>5. Staged(queue, status, refresh', login, call)
  BY <1>1 DEF JInv, Staged, UnderWay
<1>6. Staged(queue', status', refresh', login', call')
  BY <1>1, <1>3, <1>4, <1>5, StagedAdd DEF Ending
<1>7. ASSUME Calm' PROVE OneSession(queue', keys', status', refresh', session')
  <2>1. OneSession(queue, keys, status, refresh', session)
    BY <1>1, <1>2, <1>7 DEF JInv, Calm, OneSession, UnderWay
  <2> QED BY <1>1, <1>3, <1>4, <2>1, OneSessionAdd
<1>8. Sessions'
  BY <1>1, <1>2 DEF JInv, Sessions, UnderWay
<1> QED BY <1>1, <1>6, <1>7, <1>8 DEF JInv, OneSessionStored

LEMMA StoredSession == IInv /\ JInv /\ Stored => JInv'
<1> SUFFICES ASSUME IInv, JInv, Stored PROVE JInv'
  OBVIOUS
<1> DEFINE e == Read("resend", Waiters)
<1>1. /\ UNCHANGED <<issued, session, status, login, kills, overtaken>>
      /\ queue # <<>> /\ Head(queue).then = "stored" /\ Written
      /\ refresh' = NoRefresh /\ queue' = Append(Tail(queue), e)
      /\ call' = Wake(Waiters, "reading")
  BY DEF Stored, NextIs, GoOn, server, past
<1>2. /\ queue \in Seq(Entry) /\ Tail(queue) \in Seq(Entry) /\ refresh.pc = "storing"
  BY <1>1, HeadFacts, Dropped DEF Ending
<1>3. e \in Entry /\ e.kind = "read" /\ e.then = "resend" /\ e.pair = 0 /\ e.who = Waiters
  <2>1. Waiters \in SUBSET Calls /\ "resend" \in Reads
    BY DEF Waiters, Reads
  <2>2. Read("resend", Waiters) \in Entry
    BY <2>1, Requests
  <2>3. e \in Entry
    BY <2>2
  <2>4. e.kind = "read" /\ e.then = "resend" /\ e.pair = 0 /\ e.who = Waiters
    BY DEF Read
  <2> QED BY <2>3, <2>4
<1> HIDE DEF e
<1>4. Staged(Tail(queue), status, refresh, login, call) /\ Absent(Tail(queue), {"start"})
  BY <1>1, <1>2, StagedDrop DEF JInv
<1>5. /\ status = "loading" => \A c \in PageCalls : call'[c].pc = "idle"
      /\ call'[Me].pc \in {"reading", "sent", "retried", "waiting"} => status = "loading"
  <2>1. \A c \in Waiters \cap Calls : call[c].pc # "idle"
    BY DEF Waiters
  <2>2. Me \in Waiters => status = "loading"
    BY DEF JInv, Staged, Waiters
  <2> QED BY <1>1, <2>1, <2>2, Woken DEF JInv, Staged
<1>6. refresh'.pc = "none" /\ refresh'.pc \notin UnderWay
  BY <1>1 DEF NoRefresh, UnderWay
<1>7. Staged(Tail(queue), status, refresh', login, call')
  BY <1>4, <1>5, <1>6 DEF Staged
<1>8. Staged(queue', status', refresh', login', call')
  BY <1>1, <1>2, <1>3, <1>4, <1>7, StagedAdd
<1>9. keys'.access = keys'.refresh
  BY <1>1 DEF Written
<1>10. Calm' => OneSession(queue', keys', status', refresh', session')
  BY <1>1, <1>2, <1>6, <1>9 DEF JInv, Calm, OneSession, UnderWay
<1> QED BY <1>1, <1>6, <1>8, <1>9, <1>10 DEF JInv, Sessions, OneSessionStored

LEMMA RefreshUnansweredSession == IInv /\ JInv /\ RefreshUnanswered => JInv'
<1> SUFFICES ASSUME IInv, JInv, RefreshUnanswered PROVE JInv'
  OBVIOUS
<1>1. /\ UNCHANGED <<issued, session, keys, status, login, kills, overtaken>>
      /\ refresh.pc \in {"sent", "answered"} /\ refresh' = NoRefresh
      /\ queue' = GiveUp(queue) /\ call' = Wake(Waiters, "ending")
  BY DEF RefreshUnanswered, server, past
<1>2. /\ Absent(queue, {"start"}) /\ queue \in Seq(Entry) /\ Types
      /\ Orderly(queue, refresh, login, call)
  BY <1>1, Refreshing DEF IInv, Orderly
<1>3. Absent(queue, {"refresh"})
  BY <1>1, <1>2, OrderlyFacts
<1>4. /\ status = "loading" => \A c \in PageCalls : call'[c].pc = "idle"
      /\ call'[Me].pc \in {"reading", "sent", "retried", "waiting"} => status = "loading"
  <2>1. \A c \in Waiters \cap Calls : call[c].pc # "idle"
    BY DEF Waiters
  <2> QED BY <1>1, <2>1, Woken DEF JInv, Staged
<1>5. refresh'.pc = "none" /\ refresh'.pc \notin UnderWay
  BY <1>1 DEF NoRefresh, UnderWay
<1>6. Staged(queue, status, refresh', login, call')
  BY <1>4, <1>5 DEF JInv, Staged
<1>7. Staged(queue', status', refresh', login', call')
  BY <1>1, <1>2, <1>3, <1>5, <1>6, GiveUpStaged
<1>8. ASSUME Calm' PROVE OneSession(queue', keys', status', refresh', session')
  <2>1. OneSession(queue, keys, status, refresh', session)
    BY <1>1, <1>5, <1>8 DEF JInv, Calm, OneSession
  <2> QED BY <1>1, <1>2, <1>3, <1>5, <1>6, <2>1, GiveUpStaged
<1> QED BY <1>1, <1>5, <1>7, <1>8 DEF JInv, Sessions, OneSessionStored

(* A removal that is done leaves no token.                                  *)
LEMMA Removed ==
  ASSUME IInv, queue # <<>>, Written, Head(queue).then \in {"refused", "ended", "nothing"}
  PROVE  keys'.access = 0 /\ keys'.refresh = 0
<1>1. Head(queue).pair = 0
  BY HeadFacts DEF Writing
<1> QED BY <1>1 DEF Written

LEMMA RefusedSession == IInv /\ JInv /\ Refused => JInv'
<1> SUFFICES ASSUME IInv, JInv, Refused PROVE JInv'
  OBVIOUS
<1> DEFINE q == Voided(Tail(queue))
<1>1. /\ UNCHANGED <<issued, session, login, kills, overtaken>>
      /\ queue # <<>> /\ Head(queue).then = "refused" /\ Written
      /\ status' = "anonymous" /\ refresh' = NoRefresh
      /\ queue' = GiveUp(q) /\ call' = Wake(Waiters, "ending")
  BY DEF Refused, NextIs, server, past
<1>2. /\ queue \in Seq(Entry) /\ Tail(queue) \in Seq(Entry) /\ refresh.pc = "storing"
      /\ Orderly(Tail(queue), refresh, login, call) /\ Types
  BY <1>1, HeadFacts, Dropped DEF Ending, IInv
<1>3. Absent(Tail(queue), {"refresh"})
  BY <1>2, OrderlyFacts
<1>4. Orderly(q, refresh, login, call) /\ Absent(q, {"refresh"}) /\ q \in Seq(Entry)
  BY <1>2, <1>3, VoidedFits DEF Orderly
<1>5. Staged(Tail(queue), status, refresh, login, call) /\ Absent(Tail(queue), {"start"})
  BY <1>1, <1>2, StagedDrop DEF JInv
<1>6. refresh'.pc = "none" /\ refresh'.pc \notin UnderWay
  BY <1>1 DEF NoRefresh, UnderWay
<1>7. call'[Me].pc \notin {"reading", "sent", "retried", "waiting"}
  <2>1. \A c \in Waiters \cap Calls : call[c].pc # "idle"
    BY DEF Waiters
  <2>2. call'[Me].pc = IF Me \in Waiters THEN "ending" ELSE call[Me].pc
    BY <1>1, <2>1, Woken
  <2>3. call[Me].pc \in {"reading", "sent", "retried", "waiting"} => Me \in Waiters
    BY <1>2, Refreshing DEF JInv, Staged, Waiters, Calls
  <2> QED BY <2>2, <2>3
<1>8. Staged(Tail(queue), "anonymous", refresh', login, call')
  BY <1>5, <1>6, <1>7 DEF Staged, Absent
<1>9. Staged(q, "anonymous", refresh', login, call') /\ Absent(q, {"start"})
  BY <1>2, <1>5, <1>8, StagedVoided
<1> HIDE DEF q
<1>10. Staged(queue', status', refresh', login', call')
  BY <1>1, <1>2, <1>4, <1>6, <1>9, GiveUpStaged
<1>11. keys'.access = 0 /\ keys'.refresh = 0
  BY <1>1, Removed
<1>12. OneSession(queue', keys', status', refresh', session')
  BY <1>6, <1>11, OneSessionEmptied
<1> QED BY <1>1, <1>6, <1>10, <1>11, <1>12 DEF JInv, Sessions, OneSessionStored

LEMMA EndedSession == IInv /\ JInv /\ Ended => JInv'
<1> SUFFICES ASSUME IInv, JInv, Ended PROVE JInv'
  OBVIOUS
<1> DEFINE cs == Head(queue).who
<1>1. /\ UNCHANGED <<issued, session, login, refresh, kills, overtaken>>
      /\ queue # <<>> /\ Head(queue).then = "ended" /\ Written
      /\ status' = "anonymous" /\ queue' = Voided(Tail(queue)) /\ call' = Wake(cs, "idle")
  BY DEF Ended, NextIs, server, past
<1>2. /\ queue \in Seq(Entry) /\ Tail(queue) \in Seq(Entry) /\ Head(queue) \in Entry
      /\ Head(queue) = queue[1] /\ 1 \in DOMAIN queue
      /\ \A c \in cs : call[c].pc = "ending"
  BY <1>1, HeadFacts, Dropped DEF Bound
<1>3. cs # {} /\ cs \subseteq Calls /\ refresh.pc \notin UnderWay
  BY <1>1, <1>2 DEF JInv, Staged, Absent, Entry
<1> HIDE DEF cs
<1>4. Staged(Tail(queue), status, refresh, login, call) /\ Absent(Tail(queue), {"start"})
  BY <1>1, <1>2, StagedDrop DEF JInv
<1>5. call'[Me].pc \notin {"reading", "sent", "retried", "waiting"}
  <2>1. call'[Me].pc = IF Me \in cs THEN "idle" ELSE call[Me].pc
    BY <1>1, <1>2, Woken
  <2>2. call[Me].pc \notin {"reading", "sent", "retried", "waiting"}
    <3> SUFFICES ASSUME call[Me].pc \in {"reading", "sent", "retried", "waiting"} PROVE FALSE
      OBVIOUS
    <3>1. status = "loading"
      BY DEF JInv, Staged
    <3>2. PICK c \in cs : call[c].pc = "ending"
      BY <1>2, <1>3
    <3>3. c = Me
      BY <1>3, <3>1, <3>2, Begun
    <3> QED BY <3>2, <3>3
  <2> QED BY <2>1, <2>2
<1>6. Staged(Tail(queue), "anonymous", refresh, login, call')
  BY <1>3, <1>4, <1>5 DEF Staged, Absent
<1>7. Staged(queue', status', refresh', login', call')
  BY <1>1, <1>2, <1>4, <1>6, StagedVoided
<1>8. keys'.access = 0 /\ keys'.refresh = 0
  BY <1>1, Removed
<1>9. OneSession(queue', keys', status', refresh', session')
  BY <1>1, <1>3, <1>8, OneSessionEmptied
<1> QED BY <1>1, <1>7, <1>8, <1>9 DEF JInv, Sessions, OneSessionStored

LEMMA ClearedSession == IInv /\ JInv /\ Cleared => JInv'
<1> SUFFICES ASSUME IInv, JInv, Cleared PROVE JInv'
  OBVIOUS
<1>1. /\ UNCHANGED <<issued, session, status, login, refresh, call, kills, overtaken>>
      /\ queue # <<>> /\ Head(queue).then = "nothing" /\ Written /\ queue' = Tail(queue)
  BY DEF Cleared, NextIs, server, past
<1>2. queue \in Seq(Entry)
  BY DEF IInv, Orderly
<1>3. Staged(queue', status', refresh', login', call')
  BY <1>1, <1>2, StagedDrop DEF JInv
<1>4. keys'.access = 0 /\ keys'.refresh = 0
  BY <1>1, Removed
<1>5. Calm' => (status = "anonymous" => refresh.pc \notin UnderWay)
  BY <1>1 DEF JInv, Calm, OneSession
<1>6. Calm' => OneSession(queue', keys', status', refresh', session')
  BY <1>1, <1>4, <1>5, OneSessionEmptied
<1> QED BY <1>1, <1>3, <1>4, <1>6 DEF JInv, Sessions, OneSessionStored

-----------------------------------------------------------------------------
(* The server.                                                              *)

LEMMA IssuedSession ==
  ASSUME IInv, Sessions, NEW p \in 0..issued, Issue(p)
  PROVE  /\ session' \in [Pairs -> Nat] /\ issued' = issued + 1 /\ issued \in Nat
         /\ \A x \in 1..issued : session'[x] = session[x]
         /\ p # 0 => session'[issued + 1] = session[p]
<1>1. /\ issued' = issued + 1 /\ issued \in 0..MaxPairs /\ issued < MaxPairs
      /\ session' = [session EXCEPT ![issued + 1] = IF p = 0 THEN issued + 1 ELSE session[p]]
  BY DEF Issue, IInv, Types
<1>2. issued + 1 \in Pairs /\ 1..issued \subseteq Pairs /\ issued \in Nat /\ (p # 0 => p \in Pairs)
  BY <1>1, MobileAssumption DEF Pairs
<1>3. (IF p = 0 THEN issued + 1 ELSE session[p]) \in Nat
  BY <1>2 DEF Sessions
<1>4. session \in [Pairs -> Nat]
  BY DEF Sessions
<1>5. \A x \in 1..issued : x # issued + 1
  BY <1>2
<1> QED BY <1>1, <1>2, <1>3, <1>4, <1>5

(* What is stored, and whose refresh is under way, is what it was.          *)
LEMMA IssuedKeeps ==
  ASSUME IInv, JInv, NEW p \in 0..issued, Issue(p),
         UNCHANGED <<keys, queue, status, kills, overtaken>>,
         refresh'.pc \in UnderWay <=> refresh.pc \in UnderWay, refresh'.pair = refresh.pair
  PROVE  OneSessionStored' /\ (Calm' => OneSession(queue', keys', status', refresh', session'))
<1>1. \A x \in 1..issued : session'[x] = session[x]
  BY IssuedSession DEF JInv
<1>2. keys.access \in 0..issued /\ keys.refresh \in 0..issued /\ issued \in Nat
  BY DEF IInv, Types
<1>3. refresh.pc \in UnderWay => refresh.pair \in 1..issued
  BY DEF JInv, Sessions
<1>4. OneSessionStored'
  BY <1>1, <1>2 DEF JInv, OneSessionStored
<1>5. Calm' => OneSession(queue', keys', status', refresh', session')
  BY <1>1, <1>2, <1>3 DEF JInv, Calm, OneSession, Gone
<1> QED BY <1>4, <1>5

LEMMA ServeLoginSession == IInv /\ JInv /\ ServeLogin => JInv'
<1> SUFFICES ASSUME IInv, JInv, ServeLogin PROVE JInv'
  OBVIOUS
<1>1. /\ UNCHANGED <<keys, queue, status, refresh, call, kills, overtaken>>
      /\ login.pc = "sent" /\ login' = [pc |-> "answered", pair |-> issued + 1] /\ Issue(0)
  BY DEF ServeLogin, store, past
<1>2. 0 \in 0..issued
  BY DEF IInv, Types
<1>3. Staged(queue', status', refresh', login', call')
  BY <1>1 DEF JInv, Staged
<1>4. OneSessionStored' /\ (Calm' => OneSession(queue', keys', status', refresh', session'))
  BY <1>1, <1>2, IssuedKeeps
<1>5. Sessions'
  <2>1. /\ session' \in [Pairs -> Nat] /\ issued' = issued + 1 /\ issued \in Nat
        /\ \A x \in 1..issued : session'[x] = session[x]
    BY <1>1, <1>2, IssuedSession DEF JInv
  <2>2. refresh.result \in 0..issued
    BY DEF IInv, Types
  <2> QED BY <1>1, <2>1, <2>2 DEF JInv, Sessions
<1> QED BY <1>1, <1>3, <1>4, <1>5 DEF JInv

LEMMA ServeRefreshSession == IInv /\ JInv /\ ServeRefresh => JInv'
<1> SUFFICES ASSUME IInv, JInv, ServeRefresh PROVE JInv'
  OBVIOUS
<1>1. /\ UNCHANGED <<keys, queue, status, login, call, kills, overtaken>> /\ refresh.pc = "sent"
      /\ refresh.pair \in 1..issued /\ issued \in Nat
  BY DEF ServeRefresh, store, past, JInv, Sessions, UnderWay, IInv, Types
<1>2. refresh'.pc = "answered" /\ refresh'.pair = refresh.pair
  BY DEF ServeRefresh, IInv, Types
<1>3. Staged(queue', status', refresh', login', call')
  BY <1>1, <1>2 DEF JInv, Staged, UnderWay
<1>4. CASE /\ Issue(refresh.pair)
           /\ refresh' = [refresh EXCEPT !.pc = "answered", !.result = issued + 1]
  <2>1. /\ Issue(refresh.pair) /\ refresh.pair \in 0..issued /\ refresh.pair # 0
        /\ refresh'.result = issued + 1
    BY <1>1, <1>4 DEF IInv, Types
  <2>2. OneSessionStored' /\ (Calm' => OneSession(queue', keys', status', refresh', session'))
    BY <1>1, <1>2, <2>1, IssuedKeeps DEF UnderWay
  <2>3. /\ session' \in [Pairs -> Nat] /\ issued' = issued + 1
        /\ session'[refresh.pair] = session[refresh.pair]
        /\ session'[issued + 1] = session[refresh.pair]
    BY <1>1, <2>1, IssuedSession DEF JInv
  <2>4. Sessions'
    BY <1>1, <1>2, <2>1, <2>3 DEF Sessions
  <2> QED BY <1>1, <1>3, <2>2, <2>4 DEF JInv
<1>5. CASE refresh' = [refresh EXCEPT !.pc = "answered"] /\ UNCHANGED server
  <2>1. UNCHANGED <<issued, session>> /\ refresh'.result = refresh.result
    BY <1>5 DEF server, IInv, Types
  <2>2. Sessions' /\ OneSessionStored'
    BY <1>1, <1>2, <2>1 DEF JInv, Sessions, OneSessionStored, UnderWay
  <2>3. Calm' => OneSession(queue', keys', status', refresh', session')
    BY <1>1, <1>2, <2>1 DEF JInv, Calm, OneSession, UnderWay
  <2> QED BY <1>1, <1>3, <2>2, <2>3 DEF JInv
<1> QED BY <1>4, <1>5 DEF ServeRefresh

LEMMA ElsewhereSession == IInv /\ JInv /\ (Expire \/ UNCHANGED mobVars) => JInv'
<1> SUFFICES ASSUME IInv, JInv, Expire \/ UNCHANGED mobVars PROVE JInv'
  OBVIOUS
<1>1. UNCHANGED <<issued, session, keys, queue, status, login, refresh, call, kills, overtaken>>
  BY DEF Expire, mobVars, server, store, past
<1> QED BY <1>1 DEF JInv, Sessions, Calm, OneSessionStored

LEMMA NextJInv == IInv /\ JInv /\ [MobNext]_mobVars => JInv'
<1> SUFFICES ASSUME IInv, JInv, [MobNext]_mobVars PROVE JInv'
  OBVIOUS
<1>1. CASE Launch \/ Submit \/ SubmitFailed \/ Adopt \/ Logout \/ Kill
  BY <1>1, LaunchSession, SubmitSession, AdoptSession, LogoutSession, KillSession
<1>2. CASE Keystore
  BY <1>2, StartSession, AdoptedSession, LoggedOutSession, SentSession, PresentSession,
     StoredSession, RefusedSession, EndedSession, ClearedSession DEF Keystore
<1>3. CASE RefreshStep
  BY <1>3, ServeRefreshSession, RefreshAnsweredSession, RefreshUnansweredSession DEF RefreshStep
<1>4. CASE ServeLogin \/ Expire \/ UNCHANGED mobVars
  BY <1>4, ServeLoginSession, ElsewhereSession
<1>5. ASSUME NEW c \in Calls, Send(c) \/ CallStep(c)
      PROVE  JInv'
  BY <1>5, SendSession, AcceptedSession, FailedSession, UnauthorizedSession DEF CallStep
<1> QED BY <1>1, <1>2, <1>3, <1>4, <1>5 DEF MobNext

(* Whatever is lost or answered late, and wherever one kill tears a write   *)
(* or a removal, the two tokens that are stored are of one session, as long *)
(* as no logout overtook a refresh: the account somebody is signed in to    *)
(* never turns into another one (storage/tokens.ts, services/api.ts,        *)
(* hooks/AuthProvider.tsx).                                                 *)
THEOREM OneSessionEver == MobSpec => []OneSessionStored
<1>1. JInv => OneSessionStored
  BY DEF JInv
<1> QED BY <1>1, InitIInv, NextIInv, InitJInv, NextJInv, PTL DEF MobSpec
=============================================================================
