------------------------- MODULE AvailabilityProofs -------------------------
(***************************************************************************)
(* Proofs about slots: how they come to be (TurfSlots) and what the owner  *)
(* sees of them (AvailabilityPage).                                        *)
(*                                                                         *)
(* TurfSlots, for any number of concurrent generations, any hours,         *)
(* durations, prices and blocks.  NoOverlap is not inductive: a commit     *)
(* adds what a batch has inserted, so the invariant also keeps apart the   *)
(* uncommitted rows of every batch (Separate).  That a batch inserts in    *)
(* order of date and time (Ordered) gives both that its own rows stay      *)
(* apart and, because whoever waits is always at an earlier time than whom *)
(* it waits for, that no circle of waiting batches can close.              *)
(* That commits publish whole batches of one grid makes the table a        *)
(* SlotCalendar; that each step of a generation leaves fewer to come, and  *)
(* that not all of them wait, is why generations end.                      *)
(*                                                                         *)
(* AvailabilityPage, for any number of requests, dates, slots and blocks.  *)
(* What an idle page shows follows from what a page shows at any time:     *)
(* each of its parts is current, unless a request under way has yet to     *)
(* read it or brings the change that the server has made (InStep).  The    *)
(* one step in which its server generates slots is what a generation of    *)
(* TurfSlots that runs alone comes to (GenerationAlone).                   *)
(***************************************************************************)
EXTENDS TurfSlots, AvailabilityPage, TLAPS, FiniteSetTheorems

(* What is inserted and not committed meets neither a committed slot nor    *)
(* another uncommitted one.                                                 *)
Separate ==
  \A r \in Requests : \A a \in gen[r].done :
    /\ \A s \in slots : ~ Conflicts(a, s)
    /\ \A q \in Requests : \A b \in gen[q].done : (r = q /\ a = b) \/ ~ Conflicts(a, b)

(* A batch has inserted what comes before everything it still has to send.  *)
Ordered ==
  \A r \in Requests : \A a \in gen[r].done, c \in gen[r].todo : Precedes(a, c)

OnGrid(s, conf) ==
  /\ conf.duration # 0
  /\ s.start \in Starts(conf)
  /\ s.end = s.start + conf.duration
  /\ s.price = conf.price

(* A generation works for one configuration the turf has had.               *)
Configured ==
  /\ turf \in configs
  /\ \A r \in Requests :
       /\ gen[r].conf \in configs
       /\ gen[r].pc \in {"dates", "ranges"} => gen[r].conf.duration # 0
       /\ \A c \in gen[r].todo \cup gen[r].done : OnGrid(c, gen[r].conf)

(* Before the batch, nothing is inserted.                                   *)
NothingYet ==
  \A r \in Requests : gen[r].pc # "insert" => gen[r].done = {}

IInv ==
  TypeOK /\ NoOverlap /\ OnOneGrid /\ Separate /\ Ordered /\ Configured /\ NothingYet

-----------------------------------------------------------------------------
(* Conflicts and the grid.                                                 *)

(* Two slots that conflict share a minute: each starts before the other     *)
(* ends.                                                                    *)
LEMMA ConflictMeets ==
  ASSUME NEW a, NEW b, a.start \in Nat, a.end \in Nat, b.start \in Nat, b.end \in Nat,
         Conflicts(a, b)
  PROVE  a.date = b.date /\ a.start < b.end /\ b.start < a.end
BY DEF Conflicts, minute_range

(* On one date, intervals that are not empty and start before the other     *)
(* ends do conflict: the service's inequality is the constraint's "&&".     *)
LEMMA MeetingConflicts ==
  ASSUME NEW a, NEW b, a.start \in Nat, a.end \in Nat, b.start \in Nat, b.end \in Nat,
         a.date = b.date, a.start < a.end, b.start < b.end,
         a.start < b.end, b.start < a.end
  PROVE  Conflicts(a, b)
<1>1. CASE a.start <= b.start
  <2>1. b.start \in minute_range(a) \cap minute_range(b)
    BY <1>1 DEF minute_range
  <2> QED BY <2>1 DEF Conflicts
<1>2. CASE b.start < a.start
  <2>1. a.start \in minute_range(a) \cap minute_range(b)
    BY <1>2 DEF minute_range
  <2> QED BY <2>1 DEF Conflicts
<1> QED BY <1>1, <1>2

LEMMA ConflictsSymmetric ==
  ASSUME NEW a, NEW b PROVE Conflicts(a, b) <=> Conflicts(b, a)
BY DEF Conflicts

(* What precedes does not conflict.                                         *)
LEMMA PrecedingIsApart ==
  ASSUME NEW a \in Slot, NEW c \in Slot, Precedes(a, c)
  PROVE  ~ Conflicts(a, c) /\ ~ Conflicts(c, a)
<1>1. /\ a.date \in Nat /\ c.date \in Nat
      /\ a.start \in Nat /\ a.end \in Nat /\ c.start \in Nat /\ c.end \in Nat
  BY NumDatesAssumption, MidnightAssumption DEF Slot, Dates, Times
<1>2. ~ Conflicts(a, c)
  BY <1>1, ConflictMeets DEF Precedes
<1> QED BY <1>2, ConflictsSymmetric

(* What the comment on buildSlotCandidates says: no two candidates of one   *)
(* grid overlap, and by date and time one of them comes first.              *)
THEOREM CandidatesApart ==
  ASSUME NEW conf \in Config, conf.duration # 0,
         NEW a \in Grid(conf, Dates), NEW b \in Grid(conf, Dates)
  PROVE  a = b \/ Precedes(a, b) \/ Precedes(b, a)
<1> DEFINE d == conf.duration
<1>1. PICK da \in Dates, sa \in Starts(conf) : a = SlotAt(conf, da, sa)
  BY DEF Grid
<1>2. PICK db \in Dates, sb \in Starts(conf) : b = SlotAt(conf, db, sb)
  BY DEF Grid
<1>3. /\ d \in Nat /\ d > 0 /\ conf.open \in Nat
      /\ da \in Nat /\ db \in Nat /\ sa \in Nat /\ sb \in Nat
  BY NumDatesAssumption, MidnightAssumption DEF Config, Dates, Times, Starts
<1>4. PICK ka \in Times : sa = conf.open + ka * d
  BY DEF Starts
<1>5. PICK kb \in Times : sb = conf.open + kb * d
  BY DEF Starts
<1>6. ka \in Nat /\ kb \in Nat
  BY MidnightAssumption DEF Times
<1>7. ASSUME NEW k \in Nat, NEW m \in Nat, k < m PROVE k * d + d <= m * d
  <2>1. m - k - 1 \in Nat BY <1>7
  <2> DEFINE e == m - k - 1
  <2>2. m = k + 1 + e /\ e \in Nat BY <2>1
  <2>3. e * d \in Nat /\ k * d \in Nat BY <2>2, <1>3
  <2> HIDE DEF e
  <2>4. (k + 1 + e) * d = k * d + d + e * d BY <2>2, <1>3
  <2> QED BY <2>2, <2>3, <2>4, <1>3
<1>8. CASE ka < kb
  <2>1. sa + d <= sb
    <3>1. ka * d + d <= kb * d BY <1>6, <1>7, <1>8
    <3>2. ka * d \in Nat /\ kb * d \in Nat BY <1>3, <1>6
    <3> QED BY <3>1, <3>2, <1>3, <1>4, <1>5
  <2> QED BY <2>1, <1>1, <1>2, <1>3 DEF SlotAt, Precedes
<1>9. CASE kb < ka
  <2>1. sb + d <= sa
    <3>1. kb * d + d <= ka * d BY <1>6, <1>7, <1>9
    <3>2. ka * d \in Nat /\ kb * d \in Nat BY <1>3, <1>6
    <3> QED BY <3>1, <3>2, <1>3, <1>4, <1>5
  <2> QED BY <2>1, <1>1, <1>2, <1>3 DEF SlotAt, Precedes
<1>10. CASE ka = kb
  BY <1>1, <1>2, <1>3, <1>4, <1>5, <1>10 DEF SlotAt, Precedes
<1> QED BY <1>6, <1>8, <1>9, <1>10

(* Every candidate is a slot, and lies on the grid of the configuration it  *)
(* was built from.                                                          *)
LEMMA CandidateType ==
  ASSUME NEW conf \in Config, conf.duration # 0, NEW from \in Dates, NEW to \in Dates,
         NEW dates, NEW ranges,
         NEW c \in buildSlotCandidates(conf, from, to, dates, ranges)
  PROVE  c \in Slot /\ OnGrid(c, conf)
<1>1. PICK d \in from..to, s \in Starts(conf) : c = SlotAt(conf, d, s)
  BY DEF buildSlotCandidates, Grid
<1>2. /\ conf.duration \in Nat /\ conf.close \in Times /\ conf.price \in Nat
      /\ s \in Times /\ s + conf.duration <= conf.close
  BY DEF Config, Starts
<1>3. d \in Dates
  BY NumDatesAssumption DEF Dates
<1>4. s + conf.duration \in Times
  BY <1>2, MidnightAssumption DEF Times
<1> QED BY <1>1, <1>2, <1>3, <1>4 DEF SlotAt, Slot, OnGrid

LEMMA IdleType ==
  ASSUME NEW conf \in Config
  PROVE  /\ Idle(conf) \in Generation
         /\ Idle(conf).pc = "idle" /\ Idle(conf).conf = conf
         /\ Idle(conf).todo = {} /\ Idle(conf).done = {}
<1>1. 1 \in Dates BY NumDatesAssumption DEF Dates
<1> QED BY <1>1 DEF Idle, Generation

-----------------------------------------------------------------------------
(* The invariant.                                                          *)

LEMMA InitIInv == Init => IInv
<1> SUFFICES ASSUME Init PROVE IInv
  OBVIOUS
<1>1. turf \in Config /\ turf.duration = 0
  <2>1. turf \in [open : Openings, close : Closings, duration : {0}, price : {0}]
    BY DEF Init
  <2>2. /\ turf.open \in Times /\ turf.close \in Times
        /\ turf.duration = 0 /\ turf.price = 0
    BY <2>1, ConfigAssumption DEF Times
  <2>3. turf = [open |-> turf.open, close |-> turf.close,
                duration |-> turf.duration, price |-> turf.price]
    BY <2>1
  <2> QED BY <2>2, <2>3 DEF Config
<1>2. TypeOK
  BY <1>1, IdleType DEF Init, TypeOK
<1>3. NoOverlap /\ OnOneGrid
  BY DEF Init, NoOverlap, OnOneGrid
<1>4. Separate /\ Ordered /\ Configured
  BY <1>1, IdleType DEF Init, Separate, Ordered, Configured
<1>5. NothingYet
  BY <1>1, IdleType DEF Init, NothingYet
<1> QED BY <1>2, <1>3, <1>4, <1>5 DEF IInv

(* What the invariant needs of a step that changes only one request, and    *)
(* does not add to what that request has inserted.                          *)
LEMMA RequestStep ==
  ASSUME IInv, NEW r \in Requests, NEW g \in Generation,
         gen' = [gen EXCEPT ![r] = g],
         UNCHANGED <<turf, slots, blockedDates, blockedRanges, configs>>,
         g.done \subseteq gen[r].done,
         \A a \in g.done, c \in g.todo : Precedes(a, c),
         g.pc # "insert" => g.done = {},
         g.conf \in configs,
         g.pc \in {"dates", "ranges"} => g.conf.duration # 0,
         \A c \in g.todo \cup g.done : OnGrid(c, g.conf)
  PROVE  IInv'
<1> USE DEF IInv
<1>1. /\ gen \in [Requests -> Generation]
      /\ gen' \in [Requests -> Generation]
      /\ \A q \in Requests : gen'[q] = IF q = r THEN g ELSE gen[q]
  BY DEF TypeOK
<1>2. TypeOK'
  BY <1>1 DEF TypeOK
<1>3. NoOverlap' /\ OnOneGrid'
  BY DEF NoOverlap, OnOneGrid, minute_range
<1>4. \A q \in Requests : gen'[q].done \subseteq gen[q].done
  BY <1>1
<1>5. Separate'
  <2> SUFFICES ASSUME NEW q \in Requests, NEW a \in gen'[q].done
               PROVE  /\ \A s \in slots : ~ Conflicts(a, s)
                      /\ \A p \in Requests : \A b \in gen'[p].done :
                           (q = p /\ a = b) \/ ~ Conflicts(a, b)
    BY DEF Separate, Conflicts, minute_range
  <2> QED BY <1>4 DEF Separate
<1>6. Ordered'
  BY <1>1 DEF Ordered, Precedes
<1>7. Configured'
  BY <1>1 DEF Configured, OnGrid, Starts
<1>8. NothingYet'
  BY <1>1 DEF NothingYet
<1> QED BY <1>2, <1>3, <1>5, <1>6, <1>7, <1>8

LEMMA GenerateInv ==
  ASSUME IInv, NEW r \in Requests, NEW from \in Dates, NEW to \in Dates,
         GenerateSlots(r, from, to)
  PROVE  IInv'
<1> DEFINE g == [Idle(turf) EXCEPT !.pc = "dates", !.from = from, !.to = to]
<1>1. turf \in Config /\ turf \in configs
  BY DEF IInv, TypeOK, Configured
<1>2. /\ g \in Generation /\ g.pc = "dates" /\ g.conf = turf
      /\ g.todo = {} /\ g.done = {}
  BY <1>1 DEF Idle, Generation
<1>3. turf.duration # 0 /\ gen' = [gen EXCEPT ![r] = g]
      /\ UNCHANGED <<turf, slots, blockedDates, blockedRanges, configs>>
  BY DEF GenerateSlots
<1> HIDE DEF g
<1> QED BY <1>1, <1>2, <1>3, RequestStep

LEMMA ReadBlockedDatesInv ==
  ASSUME IInv, NEW r \in Requests, ReadBlockedDates(r)
  PROVE  IInv'
<1> DEFINE g == [gen[r] EXCEPT !.pc = "ranges", !.dates = blockedDates]
<1>1. gen[r] \in Generation /\ blockedDates \subseteq Dates
  BY DEF IInv, TypeOK
<1>2. /\ g \in Generation /\ g.pc = "ranges" /\ g.conf = gen[r].conf
      /\ g.todo = gen[r].todo /\ g.done = gen[r].done
  BY <1>1 DEF Generation
<1>3. gen' = [gen EXCEPT ![r] = g] /\ gen[r].pc = "dates"
      /\ UNCHANGED <<turf, slots, blockedDates, blockedRanges, configs>>
  BY DEF ReadBlockedDates, IInv, TypeOK
<1>4. /\ g.conf \in configs /\ g.conf.duration # 0
      /\ \A c \in g.todo \cup g.done : OnGrid(c, g.conf)
  BY <1>2, <1>3 DEF IInv, Configured
<1>5. g.done = {}
  BY <1>2, <1>3 DEF IInv, NothingYet
<1> HIDE DEF g
<1> QED BY <1>2, <1>3, <1>4, <1>5, RequestStep

LEMMA ReadBlockedTimeRangesInv ==
  ASSUME IInv, NEW r \in Requests, ReadBlockedTimeRanges(r)
  PROVE  IInv'
<1> DEFINE todo == buildSlotCandidates(gen[r].conf, gen[r].from, gen[r].to,
                                       gen[r].dates, blockedRanges)
           g == [gen[r] EXCEPT !.pc = "insert", !.todo = todo]
<1>1. /\ gen[r] \in Generation /\ gen[r].pc = "ranges"
      /\ gen[r].conf \in Config /\ gen[r].from \in Dates /\ gen[r].to \in Dates
      /\ gen[r].conf \in configs /\ gen[r].conf.duration # 0
  BY DEF IInv, TypeOK, Configured, ReadBlockedTimeRanges, Generation
<1>2. \A c \in todo : c \in Slot /\ OnGrid(c, gen[r].conf)
  BY <1>1, CandidateType
<1>3. gen[r].done = {}
  BY <1>1 DEF IInv, NothingYet
<1> HIDE DEF todo
<1>4. /\ g \in Generation /\ g.pc = "insert" /\ g.conf = gen[r].conf
      /\ g.todo = todo /\ g.done = {}
  BY <1>1, <1>2, <1>3 DEF Generation
<1>5. gen' = [gen EXCEPT ![r] = g]
      /\ UNCHANGED <<turf, slots, blockedDates, blockedRanges, configs>>
  BY DEF ReadBlockedTimeRanges, todo, IInv, TypeOK
<1> HIDE DEF g
<1> QED BY <1>1, <1>2, <1>4, <1>5, RequestStep

LEMMA SkipSlotInv ==
  ASSUME IInv, NEW r \in Requests, NEW c \in gen[r].todo, SkipSlot(r, c)
  PROVE  IInv'
<1> DEFINE g == [gen[r] EXCEPT !.todo = @ \ {c}]
<1>1. gen[r] \in Generation /\ gen[r].pc = "insert"
  BY DEF IInv, TypeOK, SkipSlot
<1>2. /\ g \in Generation /\ g.pc = "insert" /\ g.conf = gen[r].conf
      /\ g.todo = gen[r].todo \ {c} /\ g.done = gen[r].done
  BY <1>1 DEF Generation
<1>3. gen' = [gen EXCEPT ![r] = g]
      /\ UNCHANGED <<turf, slots, blockedDates, blockedRanges, configs>>
  BY DEF SkipSlot, IInv, TypeOK
<1>4. /\ g.conf \in configs
      /\ \A o \in g.todo \cup g.done : OnGrid(o, g.conf)
      /\ \A a \in g.done, o \in g.todo : Precedes(a, o)
  BY <1>2 DEF IInv, Configured, Ordered
<1> HIDE DEF g
<1> QED BY <1>2, <1>3, <1>4, RequestStep

LEMMA AbandonInv ==
  ASSUME IInv, NEW r \in Requests, Abandon(r)
  PROVE  IInv'
<1> DEFINE g == Idle(gen[r].conf)
<1>1. gen[r].conf \in Config /\ gen[r].conf \in configs
  BY DEF IInv, TypeOK, Configured, Generation
<1>2. /\ g \in Generation /\ g.pc = "idle" /\ g.conf = gen[r].conf
      /\ g.todo = {} /\ g.done = {}
  BY <1>1, IdleType
<1>3. gen' = [gen EXCEPT ![r] = g]
      /\ UNCHANGED <<turf, slots, blockedDates, blockedRanges, configs>>
  BY DEF Abandon
<1> HIDE DEF g
<1> QED BY <1>1, <1>2, <1>3, RequestStep

(* The next candidate is inserted: it comes after everything the batch has  *)
(* inserted, before everything it has still to send, and conflicts with     *)
(* nothing of anybody else.                                                 *)
LEMMA InsertSlotInv ==
  ASSUME IInv, NEW r \in Requests, NEW c \in gen[r].todo, InsertSlot(r, c)
  PROVE  IInv'
<1> DEFINE g == [gen[r] EXCEPT !.todo = @ \ {c}, !.done = @ \cup {c}]
<1>1. /\ gen[r] \in Generation /\ gen[r].pc = "insert" /\ c \in Slot
      /\ gen[r].done \subseteq Slot /\ gen[r].todo \subseteq Slot
  BY DEF IInv, TypeOK, InsertSlot, Generation
<1>2. /\ g \in Generation /\ g.pc = "insert" /\ g.conf = gen[r].conf
      /\ g.todo = gen[r].todo \ {c} /\ g.done = gen[r].done \cup {c}
  <2>1. gen[r].done \cup {c} \in SUBSET Slot /\ gen[r].todo \ {c} \in SUBSET Slot
    BY <1>1
  <2> QED BY <1>1, <2>1 DEF Generation
<1>3. gen' = [gen EXCEPT ![r] = g]
      /\ UNCHANGED <<turf, slots, blockedDates, blockedRanges, configs>>
  BY DEF InsertSlot, IInv, TypeOK
<1> HIDE DEF g
<1>4. \A q \in Requests : gen'[q] = IF q = r THEN g ELSE gen[q]
  BY <1>3 DEF IInv, TypeOK
<1>5. TypeOK'
  BY <1>2, <1>3, <1>4 DEF IInv, TypeOK
<1>6. NoOverlap' /\ OnOneGrid'
  BY <1>3 DEF IInv, NoOverlap, OnOneGrid, minute_range
<1>7. \A a \in gen[r].done : ~ Conflicts(a, c) /\ ~ Conflicts(c, a)
  BY <1>1, PrecedingIsApart DEF IInv, Ordered
<1>8. /\ \A s \in slots : ~ Conflicts(c, s)
      /\ \A q \in Requests \ {r} : \A a \in gen[q].done : ~ Conflicts(c, a) /\ ~ Conflicts(a, c)
  BY ConflictsSymmetric DEF InsertSlot
<1>9. Separate'
  <2> SUFFICES ASSUME NEW q \in Requests, NEW a \in gen'[q].done
               PROVE  /\ \A s \in slots : ~ Conflicts(a, s)
                      /\ \A p \in Requests : \A b \in gen'[p].done :
                           (q = p /\ a = b) \/ ~ Conflicts(a, b)
    BY <1>3 DEF Separate, Conflicts, minute_range
  <2>1. CASE a \in gen[q].done
    BY <2>1, <1>2, <1>4, <1>7, <1>8 DEF IInv, Separate
  <2>2. CASE q = r /\ a = c
    BY <2>2, <1>2, <1>4, <1>7, <1>8
  <2> QED BY <2>1, <2>2, <1>2, <1>4
<1>10. \A o \in gen[r].todo \ {c} : Precedes(c, o)
  BY DEF InsertSlot, IsNext
<1>11. Ordered'
  <2> SUFFICES ASSUME NEW q \in Requests, NEW a \in gen'[q].done, NEW o \in gen'[q].todo
               PROVE  Precedes(a, o)
    BY DEF Ordered, Precedes
  <2> QED BY <1>2, <1>4, <1>10 DEF IInv, Ordered
<1>12. Configured'
  <2>1. \A q \in Requests : /\ gen'[q].conf = gen[q].conf
                            /\ gen'[q].pc = gen[q].pc
                            /\ gen'[q].todo \cup gen'[q].done
                                 \subseteq gen[q].todo \cup gen[q].done
    BY <1>1, <1>2, <1>4
  <2> QED BY <2>1, <1>3 DEF IInv, Configured, OnGrid, Starts
<1>13. NothingYet'
  BY <1>2, <1>4 DEF IInv, NothingYet
<1> QED BY <1>5, <1>6, <1>9, <1>11, <1>12, <1>13 DEF IInv

(* A commit adds what the batch inserted, which conflicts with no slot and  *)
(* with nothing another batch has inserted.                                 *)
LEMMA CommitInv ==
  ASSUME IInv, NEW r \in Requests, Commit(r)
  PROVE  IInv'
<1> DEFINE g == Idle(gen[r].conf)
<1>1. /\ gen[r].conf \in Config /\ gen[r].conf \in configs
      /\ gen[r].done \subseteq Slot
  BY DEF IInv, TypeOK, Configured, Generation
<1>2. /\ g \in Generation /\ g.pc = "idle" /\ g.conf = gen[r].conf
      /\ g.todo = {} /\ g.done = {}
  BY <1>1, IdleType
<1>3. gen' = [gen EXCEPT ![r] = g] /\ slots' = slots \cup gen[r].done
      /\ UNCHANGED <<turf, blockedDates, blockedRanges, configs>>
  BY DEF Commit
<1> HIDE DEF g
<1>4. \A q \in Requests : gen'[q] = IF q = r THEN g ELSE gen[q]
  BY <1>3 DEF IInv, TypeOK
<1>5. TypeOK'
  BY <1>1, <1>2, <1>3, <1>4 DEF IInv, TypeOK
<1>6. \A a \in gen[r].done, s \in slots : ~ Conflicts(a, s) /\ ~ Conflicts(s, a)
  BY ConflictsSymmetric DEF IInv, Separate
<1>7. \A a, b \in gen[r].done : a = b \/ ~ Conflicts(a, b)
  BY DEF IInv, Separate
<1>8. NoOverlap'
  <2> SUFFICES ASSUME NEW a \in slots', NEW b \in slots', a # b
               PROVE  ~ Conflicts(a, b)
    BY DEF NoOverlap, Conflicts, minute_range
  <2>1. CASE a \in slots /\ b \in slots
    BY <2>1 DEF IInv, NoOverlap, Conflicts
  <2> QED BY <2>1, <1>3, <1>6, <1>7
<1>9. OnOneGrid'
  <2>1. \A s \in gen[r].done : OnGrid(s, gen[r].conf)
    BY DEF IInv, Configured
  <2> SUFFICES ASSUME NEW s \in slots'
               PROVE  \E conf \in configs : OnGrid(s, conf)
    BY <1>3 DEF OnOneGrid, OnGrid, Starts
  <2>2. CASE s \in slots
    BY <2>2 DEF IInv, OnOneGrid, OnGrid
  <2> QED BY <2>1, <2>2, <1>1, <1>3
<1>10. Separate'
  <2> SUFFICES ASSUME NEW q \in Requests, NEW a \in gen'[q].done
               PROVE  /\ \A s \in slots' : ~ Conflicts(a, s)
                      /\ \A p \in Requests : \A b \in gen'[p].done :
                           (q = p /\ a = b) \/ ~ Conflicts(a, b)
    BY <1>3 DEF Separate, Conflicts, minute_range
  <2>1. q # r /\ a \in gen[q].done
    BY <1>2, <1>4
  <2>2. \A s \in slots' : ~ Conflicts(a, s)
    BY <2>1, <1>3 DEF IInv, Separate
  <2>3. \A p \in Requests : gen'[p].done \subseteq gen[p].done
    BY <1>2, <1>4
  <2> QED BY <2>1, <2>2, <2>3 DEF IInv, Separate
<1>11. Ordered'
  BY <1>2, <1>4 DEF IInv, Ordered, Precedes
<1>12. Configured'
  BY <1>1, <1>2, <1>3, <1>4 DEF IInv, Configured, OnGrid, Starts
<1>13. NothingYet'
  BY <1>2, <1>4 DEF IInv, NothingYet
<1> QED BY <1>5, <1>8, <1>9, <1>10, <1>11, <1>12, <1>13 DEF IInv

(* The owner's operations on blocks leave every slot and generation alone.  *)
LEMMA BlocksInv ==
  ASSUME IInv, UNCHANGED <<turf, slots, gen, configs>>,
         blockedDates' \subseteq Dates, blockedRanges' \subseteq Ranges
  PROVE  IInv'
BY DEF IInv, TypeOK, NoOverlap, OnOneGrid, Separate, Ordered, Configured, NothingYet,
       Conflicts, minute_range, Precedes, OnGrid, Starts

(* Configuring touches no slot, and the history keeps what it had.          *)
LEMMA ReconfigureInv ==
  ASSUME IInv, NEW conf \in Config, Reconfigure(conf)
  PROVE  IInv'
<1>1. /\ turf' = conf /\ configs' = configs \cup {conf}
      /\ UNCHANGED <<slots, blockedDates, blockedRanges, gen>>
  BY DEF Reconfigure
<1>2. TypeOK' /\ NoOverlap'
  BY <1>1 DEF IInv, TypeOK, NoOverlap, minute_range
<1>3. OnOneGrid'
  BY <1>1 DEF IInv, OnOneGrid, Starts
<1>4. Separate' /\ Ordered' /\ NothingYet'
  BY <1>1 DEF IInv, Separate, Ordered, NothingYet, Conflicts, minute_range, Precedes
<1>5. Configured'
  BY <1>1 DEF IInv, Configured, OnGrid, Starts
<1> QED BY <1>2, <1>3, <1>4, <1>5 DEF IInv

LEMMA DeleteSlotInv ==
  ASSUME IInv, NEW s \in slots, DeleteSlot(s)
  PROVE  IInv'
<1>1. /\ slots' = slots \ {s}
      /\ UNCHANGED <<turf, blockedDates, blockedRanges, gen, configs>>
  BY DEF DeleteSlot
<1>2. TypeOK' /\ NoOverlap' /\ OnOneGrid'
  BY <1>1 DEF IInv, TypeOK, NoOverlap, OnOneGrid, minute_range, Starts
<1>3. Separate' /\ Ordered' /\ NothingYet'
  BY <1>1 DEF IInv, Separate, Ordered, NothingYet, Conflicts, minute_range, Precedes
<1>4. Configured'
  BY <1>1 DEF IInv, Configured, OnGrid, Starts
<1> QED BY <1>2, <1>3, <1>4 DEF IInv

(* A slot that is opened or blocked stays where it was.                     *)
LEMMA SetSlotStatusInv ==
  ASSUME IInv, NEW s \in slots, NEW status \in {"OPEN", "BLOCKED"}, SetSlotStatus(s, status)
  PROVE  IInv'
<1> DEFINE t == [s EXCEPT !.status = status]
<1>1. s \in Slot
  BY DEF IInv, TypeOK
<1>2. /\ t \in Slot /\ t.date = s.date /\ t.start = s.start /\ t.end = s.end
      /\ t.price = s.price
  BY <1>1 DEF Slot
<1>3. /\ slots' = (slots \ {s}) \cup {t}
      /\ UNCHANGED <<turf, blockedDates, blockedRanges, gen, configs>>
  BY DEF SetSlotStatus
<1> HIDE DEF t
<1>4. TypeOK'
  BY <1>2, <1>3 DEF IInv, TypeOK
<1>5. \A a : Conflicts(a, t) <=> Conflicts(a, s)
  BY <1>2 DEF Conflicts, minute_range
<1>6. NoOverlap'
  <2> SUFFICES ASSUME NEW a \in slots', NEW b \in slots', a # b
               PROVE  ~ Conflicts(a, b)
    BY DEF NoOverlap, Conflicts, minute_range
  <2>1. \A x, y \in slots : x # y => ~ Conflicts(x, y)
    BY DEF IInv, NoOverlap, Conflicts
  <2>2. CASE a # t /\ b # t
    BY <2>1, <2>2, <1>3
  <2>3. CASE a = t
    BY <2>1, <2>3, <1>3, <1>5, ConflictsSymmetric
  <2>4. CASE b = t
    BY <2>1, <2>4, <1>3, <1>5
  <2> QED BY <2>2, <2>3, <2>4
<1>7. OnOneGrid'
  <2> SUFFICES ASSUME NEW a \in slots'
               PROVE  \E conf \in configs : OnGrid(a, conf)
    BY <1>3 DEF OnOneGrid, OnGrid, Starts
  <2>1. \A x \in slots : \E conf \in configs : OnGrid(x, conf)
    BY DEF IInv, OnOneGrid, OnGrid
  <2>2. CASE a = t
    BY <2>1, <2>2, <1>2 DEF OnGrid
  <2> QED BY <2>1, <2>2, <1>3
<1>8. Separate'
  BY <1>3, <1>5 DEF IInv, Separate, Conflicts, minute_range
<1>9. Ordered' /\ NothingYet'
  BY <1>3 DEF IInv, Ordered, NothingYet, Precedes
<1>10. Configured'
  BY <1>3 DEF IInv, Configured, OnGrid, Starts
<1> QED BY <1>4, <1>6, <1>7, <1>8, <1>9, <1>10 DEF IInv

LEMMA OwnerStepInv ==
  ASSUME IInv, OwnerStep
  PROVE  IInv'
<1> USE DEF IInv
<1>1. turf \in Config /\ blockedDates \subseteq Dates /\ blockedRanges \subseteq Ranges
  BY DEF TypeOK
<1>2. ASSUME NEW f \in Settings, UpdateSlotSettings(f) PROVE IInv'
  <2>1. f.duration \in Nat /\ f.price \in Nat
    BY ConfigAssumption
  <2>2. [turf EXCEPT !.duration = f.duration, !.price = f.price] \in Config
    BY <1>1, <2>1 DEF Config
  <2> QED BY <1>2, <2>2, ReconfigureInv DEF UpdateSlotSettings
<1>3. ASSUME NEW open \in Openings, NEW close \in Closings, UpdateHours(open, close)
      PROVE  IInv'
  <2>1. open \in Times /\ close \in Times
    BY ConfigAssumption DEF Times
  <2>2. [turf EXCEPT !.open = open, !.close = close] \in Config
    BY <1>1, <2>1 DEF Config
  <2> QED BY <1>3, <2>2, ReconfigureInv DEF UpdateHours
<1>4. ASSUME NEW s \in slots,
             DeleteSlot(s) \/ \E status \in {"OPEN", "BLOCKED"} : SetSlotStatus(s, status)
      PROVE  IInv'
  BY <1>4, DeleteSlotInv, SetSlotStatusInv
<1>5. ASSUME NEW d \in Dates, BlockDate(d) \/ UnblockDate(d) PROVE IInv'
  BY <1>1, <1>5, BlocksInv DEF BlockDate, UnblockDate
<1>6. ASSUME NEW b \in Ranges, BlockTimeRange(b) \/ UnblockTimeRange(b) PROVE IInv'
  BY <1>1, <1>6, BlocksInv DEF BlockTimeRange, UnblockTimeRange
<1> QED BY <1>2, <1>3, <1>4, <1>5, <1>6 DEF OwnerStep

LEMMA NextIInv == IInv /\ [Next]_vars => IInv'
<1> SUFFICES ASSUME IInv, [Next]_vars PROVE IInv'
  OBVIOUS
<1>1. CASE OwnerStep
  BY <1>1, OwnerStepInv
<1>2. ASSUME NEW r \in Requests, NEW from \in Dates, NEW to \in Dates,
             GenerateSlots(r, from, to)
      PROVE  IInv'
  BY <1>2, GenerateInv
<1>3. ASSUME NEW r \in Requests, GenStep(r) PROVE IInv'
  BY <1>3, ReadBlockedDatesInv, ReadBlockedTimeRangesInv, InsertSlotInv, SkipSlotInv,
     CommitInv DEF GenStep
<1>4. ASSUME NEW r \in Requests, Abandon(r) PROVE IInv'
  BY <1>4, AbandonInv
<1>5. CASE UNCHANGED vars
  BY <1>5, BlocksInv DEF vars, IInv, TypeOK
<1> QED BY <1>1, <1>2, <1>3, <1>4, <1>5 DEF Next

(* The inductive invariant holds in every state.                            *)
THEOREM SlotsInvariant == Spec => []IInv
BY InitIInv, NextIInv, PTL DEF Spec

-----------------------------------------------------------------------------
(* Results.                                                                *)

(* Every variable keeps its type.                                           *)
THEOREM TypeCorrect == Spec => []TypeOK
<1>1. IInv => TypeOK BY DEF IInv
<1> QED BY <1>1, SlotsInvariant, PTL

(* No two slots of a turf share a minute, however many generations with     *)
(* whatever settings ran at the same time.                                  *)
THEOREM SlotsApart == Spec => []NoOverlap
<1>1. IInv => NoOverlap BY DEF IInv
<1> QED BY <1>1, SlotsInvariant, PTL

(* Every slot is on the grid, and at the price, of one configuration.       *)
THEOREM SlotsOnOneGrid == Spec => []OnOneGrid
<1>1. IInv => OnOneGrid BY DEF IInv
<1> QED BY <1>1, SlotsInvariant, PTL

(* The service leaves out exactly the candidates the database would report  *)
(* as unavailable.                                                          *)
LEMMA LeftOut == TypeOK => LeftOutIffUnavailable
<1> SUFFICES ASSUME TypeOK, NEW conf \in configs, conf.duration # 0,
                    NEW c \in Grid(conf, Dates)
             PROVE  (/\ c.date \notin blockedDates
                     /\ ~ overlapsAnyRange(c.start, c.end, {b \in blockedRanges : b.date = c.date}))
                    <=> Available(c)
  BY DEF LeftOutIffUnavailable, buildSlotCandidates, Grid, Dates, SlotAt
<1>1. conf \in Config
  BY DEF TypeOK
<1>2. PICK d \in Dates, s \in Starts(conf) : c = SlotAt(conf, d, s)
  BY DEF Grid
<1>3. /\ c.start \in Nat /\ c.end \in Nat /\ c.start < c.end /\ c.status = "OPEN"
  BY <1>1, <1>2, MidnightAssumption DEF SlotAt, Starts, Times, Config
<1>4. ASSUME NEW b \in blockedRanges
      PROVE  Conflicts(c, b) <=> b.date = c.date /\ c.start < b.end /\ b.start < c.end
  <2>1. b.start \in Nat /\ b.end \in Nat /\ b.start < b.end
    BY MidnightAssumption, RangesAssumption DEF TypeOK
  <2> QED BY <1>3, <2>1, ConflictMeets, MeetingConflicts
<1> QED BY <1>3, <1>4 DEF Available, overlapsAnyRange

THEOREM LeftOutUnavailable == Spec => []LeftOutIffUnavailable
BY TypeCorrect, LeftOut, PTL

(* No step of a generation removes or changes a slot that exists.           *)
THEOREM RetrySafe == Spec => RetryIsSafe
<1>1. [Next]_vars => (gen' # gen => slots \subseteq slots')
  BY DEF Next, vars, OwnerStep, UpdateSlotSettings, UpdateHours, Reconfigure, DeleteSlot,
         SetSlotStatus, BlockDate, UnblockDate, BlockTimeRange, UnblockTimeRange,
         GenerateSlots, GenStep, ReadBlockedDates, ReadBlockedTimeRanges, InsertSlot,
         SkipSlot, Commit, Abandon
<1>2. [Next]_vars => [gen' # gen => slots \subseteq slots']_vars
  BY <1>1
<1> QED BY <1>2, PTL DEF Spec, RetryIsSafe

(* Waiting is for what comes later: when r waits for q and q has something  *)
(* left to send, r's next slot starts before q's.                           *)
LEMMA WaitsAscend ==
  ASSUME IInv, NEW r \in Requests, NEW q \in Requests, WaitsFor(r, q),
         NEW c \in gen[r].todo, IsNext(r, c), NEW o \in gen[q].todo
  PROVE  c.date < o.date \/ (c.date = o.date /\ c.start < o.start)
<1>1. /\ c \in Slot /\ o \in Slot
      /\ gen[q].done \subseteq Slot /\ gen[r].todo \subseteq Slot
  BY DEF IInv, TypeOK, Generation
<1>2. PICK n \in gen[r].todo : IsNext(r, n) /\ \E a \in gen[q].done : Conflicts(n, a)
  BY DEF WaitsFor
<1>3. n \in Slot /\ (n = c \/ (Precedes(n, c) /\ Precedes(c, n)))
  BY <1>1, <1>2 DEF IsNext
<1>4. PICK a \in gen[q].done : Conflicts(n, a)
  BY <1>2
<1>5. a \in Slot /\ Precedes(a, o)
  BY <1>1 DEF IInv, Ordered
<1>6. \A x \in Slot : x.date \in Nat /\ x.start \in Nat /\ x.end \in Nat
  BY NumDatesAssumption, MidnightAssumption DEF Slot, Dates, Times
<1>7. n.date = a.date /\ n.start < a.end /\ a.start < n.end
  BY <1>3, <1>4, <1>5, <1>6, ConflictMeets
<1>8. \A x \in gen[r].todo : x.start < x.end
  <2>1. gen[r].conf \in Config
    BY DEF IInv, TypeOK, Generation
  <2>2. gen[r].conf.duration \in Nat
    BY <2>1 DEF Config
  <2>3. \A x \in gen[r].todo : x.end = x.start + gen[r].conf.duration
                              /\ gen[r].conf.duration # 0
    BY DEF IInv, Configured, OnGrid
  <2> QED BY <1>1, <1>6, <2>2, <2>3
<1>9. n = c
  BY <1>1, <1>2, <1>3, <1>6, <1>8 DEF Precedes
<1> QED BY <1>1, <1>5, <1>6, <1>7, <1>9 DEF Precedes

(* The moment a candidate is for, as one number.                            *)
Moment(c) == c.date * (Midnight + 1) + c.start

LEMMA MomentsAscend ==
  ASSUME NEW c \in Slot, NEW o \in Slot,
         c.date < o.date \/ (c.date = o.date /\ c.start < o.start)
  PROVE  Moment(c) < Moment(o)
<1> DEFINE m == Midnight + 1
<1>1. /\ c.date \in Nat /\ o.date \in Nat /\ c.start \in 0..Midnight /\ o.start \in 0..Midnight
      /\ m \in Nat /\ m > 0
  BY NumDatesAssumption, MidnightAssumption DEF Slot, Dates, Times
<1>2. CASE c.date < o.date
  <2> DEFINE e == o.date - c.date - 1
  <2>1. e \in Nat /\ o.date = c.date + 1 + e
    BY <1>1, <1>2
  <2> HIDE DEF e, m
  <2>2. e * m \in Nat /\ c.date * m \in Nat
    BY <1>1, <2>1
  <2>3. (c.date + 1 + e) * m = c.date * m + m + e * m
    BY <1>1, <2>1
  <2>4. c.start < m
    BY <1>1, MidnightAssumption DEF m
  <2>5. c.date * m + c.start < o.date * m + o.start
    BY <1>1, <2>1, <2>2, <2>3, <2>4
  <2> QED BY <2>5 DEF Moment, m
<1>3. CASE c.date = o.date /\ c.start < o.start
  <2> HIDE DEF m
  <2>1. c.date * m \in Nat
    BY <1>1
  <2>2. c.date * m + c.start < o.date * m + o.start
    BY <1>1, <1>3, <2>1
  <2> QED BY <2>2 DEF Moment, m
<1> QED BY <1>2, <1>3

LEMMA MomentBounded ==
  ASSUME NEW c \in Slot
  PROVE  Moment(c) \in Nat /\ Moment(c) <= NumDates * (Midnight + 1) + Midnight
<1> DEFINE m == Midnight + 1
           e == NumDates - c.date
<1>1. /\ c.date \in Nat /\ c.start \in 0..Midnight /\ m \in Nat
      /\ e \in Nat /\ NumDates = c.date + e
  BY NumDatesAssumption, MidnightAssumption DEF Slot, Dates, Times
<1> HIDE DEF m, e
<1>2. c.date * m \in Nat /\ e * m \in Nat /\ (c.date + e) * m = c.date * m + e * m
  BY <1>1
<1>3. c.date * m + c.start \in Nat /\ c.date * m + c.start <= NumDates * m + Midnight
  BY <1>1, <1>2, MidnightAssumption
<1> QED BY <1>3 DEF Moment, m

(* Of any requests, one whose next candidate is latest waits for none of    *)
(* the others.                                                              *)
LEMMA NoCircle == IInv => NoWaitCycle
<1> SUFFICES ASSUME IInv, NEW W \in SUBSET Requests, W # {},
                    \A r \in W : \E q \in W : WaitsFor(r, q)
             PROVE  FALSE
  BY DEF NoWaitCycle
<1> DEFINE Top == NumDates * (Midnight + 1) + Midnight
           Nexts == {c \in Slot : \E r \in W : c \in gen[r].todo /\ IsNext(r, c)}
           Left == {Top - Moment(c) : c \in Nexts}
<1>1. \A r \in W : \E c \in Nexts : c \in gen[r].todo /\ IsNext(r, c)
  BY DEF WaitsFor, IInv, TypeOK, Generation
<1>2. Top \in Nat
  <2>1. NumDates * (Midnight + 1) \in Nat BY NumDatesAssumption, MidnightAssumption
  <2> QED BY <2>1, MidnightAssumption
<1>3. Left \subseteq Nat
  <2>1. \A c \in Nexts : Moment(c) \in Nat /\ Moment(c) <= Top
    BY MomentBounded
  <2> HIDE DEF Top, Nexts
  <2> QED BY <2>1, <1>2
<1>4. Left # {}
  BY <1>1
<1>5. PICK x \in Left : \A y \in Left : ~ (<<y, x>> \in OpToRel(<, Nat))
  <2> HIDE DEF Left
  <2> QED BY <1>3, <1>4, NatLessThanWellFounded, WFMin
<1>6. \A y \in Left : ~ (y < x)
  BY <1>3, <1>5 DEF OpToRel
<1>7. PICK c \in Nexts : x = Top - Moment(c)
  OBVIOUS
<1>8. PICK r \in W : c \in gen[r].todo /\ IsNext(r, c)
  OBVIOUS
<1>9. PICK q \in W : WaitsFor(r, q)
  OBVIOUS
<1>10. PICK o \in Nexts : o \in gen[q].todo /\ IsNext(q, o)
  BY <1>1
<1>11. Moment(c) < Moment(o)
  BY <1>8, <1>9, <1>10, WaitsAscend, MomentsAscend
<1>12. Moment(c) \in Nat /\ Moment(o) \in Nat
  BY MomentBounded
<1>13. Top - Moment(o) \in Left
  OBVIOUS
<1>14. ~ (Top - Moment(o) < Top - Moment(c))
  BY <1>6, <1>7, <1>13
<1> HIDE DEF Top
<1> QED BY <1>2, <1>11, <1>12, <1>14

(* No circle of generations that wait for each other ever closes, however   *)
(* many there are: PostgreSQL never has a deadlock among them to break.     *)
THEOREM WaitsAcyclic == Spec => []NoWaitCycle
BY SlotsInvariant, NoCircle, PTL

-----------------------------------------------------------------------------
(* That generations end, without the part about fairness: some request that *)
(* runs can always take its next step, and only so many steps are left to   *)
(* each.                                                                    *)

(* What a batch has sent and has still to send are slots of its             *)
(* configuration's grid as they come into being.                            *)
Gridded ==
  \A r \in Requests : gen[r].todo \cup gen[r].done \subseteq Grid(gen[r].conf, Dates)

LEMMA GriddedStep == IInv /\ Gridded /\ [Next]_vars => Gridded'
<1> SUFFICES ASSUME IInv, Gridded, [Next]_vars, NEW r \in Requests
             PROVE  gen'[r].todo \cup gen'[r].done \subseteq Grid(gen'[r].conf, Dates)
  BY DEF Gridded, Grid, Starts, SlotAt
<1>1. gen \in [Requests -> Generation] /\ gen[r] \in Generation
      /\ gen[r].todo \cup gen[r].done \subseteq Grid(gen[r].conf, Dates)
  BY DEF IInv, TypeOK, Gridded
<1>2. CASE OwnerStep \/ UNCHANGED vars
  <2>1. gen' = gen
    BY <1>2 DEF OwnerStep, UpdateSlotSettings, UpdateHours, Reconfigure, DeleteSlot,
       SetSlotStatus, BlockDate, UnblockDate, BlockTimeRange, UnblockTimeRange, vars
  <2> QED BY <1>1, <2>1
<1>3. ASSUME NEW q \in Requests, NEW from \in Dates, NEW to \in Dates, GenerateSlots(q, from, to)
      PROVE  gen'[r].todo \cup gen'[r].done \subseteq Grid(gen'[r].conf, Dates)
  <2>1. q = r => gen'[r].todo = {} /\ gen'[r].done = {}
    BY <1>1, <1>3 DEF GenerateSlots, Idle
  <2>2. q # r => gen'[r] = gen[r]
    BY <1>1, <1>3 DEF GenerateSlots
  <2> QED BY <1>1, <2>1, <2>2
<1>4. ASSUME NEW q \in Requests, Commit(q) \/ Abandon(q)
      PROVE  gen'[r].todo \cup gen'[r].done \subseteq Grid(gen'[r].conf, Dates)
  <2>1. q = r => gen'[r].todo = {} /\ gen'[r].done = {}
    BY <1>1, <1>4 DEF Commit, Abandon, Idle
  <2>2. q # r => gen'[r] = gen[r]
    BY <1>1, <1>4 DEF Commit, Abandon
  <2> QED BY <1>1, <2>1, <2>2
<1>5. ASSUME NEW q \in Requests, ReadBlockedDates(q)
      PROVE  gen'[r].todo \cup gen'[r].done \subseteq Grid(gen'[r].conf, Dates)
  <2>1. gen'[r].todo = gen[r].todo /\ gen'[r].done = gen[r].done /\ gen'[r].conf = gen[r].conf
    BY <1>1, <1>5 DEF ReadBlockedDates, Generation
  <2> QED BY <1>1, <2>1
<1>6. ASSUME NEW q \in Requests, ReadBlockedTimeRanges(q)
      PROVE  gen'[r].todo \cup gen'[r].done \subseteq Grid(gen'[r].conf, Dates)
  <2> DEFINE g == [gen[r] EXCEPT !.pc = "insert",
                     !.todo = buildSlotCandidates(gen[r].conf, gen[r].from, gen[r].to,
                                                  gen[r].dates, blockedRanges)]
  <2>1. q # r => gen'[r] = gen[r]
    BY <1>1, <1>6 DEF ReadBlockedTimeRanges
  <2>2. q = r => gen'[r] = g
    BY <1>1, <1>6 DEF ReadBlockedTimeRanges
  <2>3. buildSlotCandidates(gen[r].conf, gen[r].from, gen[r].to, gen[r].dates, blockedRanges)
          \subseteq Grid(gen[r].conf, Dates)
    <3>1. gen[r].from \in Dates /\ gen[r].to \in Dates
      BY <1>1 DEF Generation
    <3>2. (gen[r].from .. gen[r].to) \ gen[r].dates \subseteq Dates
      BY <3>1, NumDatesAssumption DEF Dates
    <3> QED BY <3>2 DEF buildSlotCandidates, Grid
  <2>4. /\ g.todo \subseteq Grid(gen[r].conf, Dates) /\ g.done = gen[r].done
        /\ g.conf = gen[r].conf
    BY <1>1, <2>3 DEF Generation
  <2> HIDE DEF g
  <2> QED BY <1>1, <2>1, <2>2, <2>4
<1>7. ASSUME NEW q \in Requests, NEW c \in gen[q].todo, InsertSlot(q, c) \/ SkipSlot(q, c)
      PROVE  gen'[r].todo \cup gen'[r].done \subseteq Grid(gen'[r].conf, Dates)
  <2>1. q # r => gen'[r] = gen[r]
    BY <1>1, <1>7 DEF InsertSlot, SkipSlot
  <2>2. q = r => /\ gen'[r].todo = gen[r].todo \ {c}
                 /\ gen'[r].done \subseteq gen[r].done \cup {c}
                 /\ gen'[r].conf = gen[r].conf
    BY <1>1, <1>7 DEF InsertSlot, SkipSlot, Generation
  <2> QED BY <1>1, <1>7, <2>1, <2>2
<1> QED BY <1>2, <1>3, <1>4, <1>5, <1>6, <1>7 DEF Next, GenStep

LEMMA AlwaysGridded == Spec => [](IInv /\ Gridded)
<1>1. Init => Gridded
  BY InitIInv, IdleType DEF Init, IInv, TypeOK, Gridded
<1> QED BY <1>1, SlotsInvariant, GriddedStep, PTL DEF Spec

(* While a batch has something to send, one candidate is next.              *)
LEMMA SomeIsNext ==
  ASSUME IInv, Gridded, NEW r \in Requests, gen[r].todo # {}
  PROVE  \E c \in gen[r].todo : IsNext(r, c)
<1> DEFINE Moments == {Moment(c) : c \in gen[r].todo}
<1>1. /\ gen[r].conf \in Config /\ gen[r].todo \subseteq Slot
      /\ gen[r].todo \subseteq Grid(gen[r].conf, Dates)
  BY DEF IInv, TypeOK, Generation, Gridded
<1>2. /\ gen[r].conf.duration \in Nat /\ gen[r].conf.duration > 0
      /\ \A c \in gen[r].todo : c.end = c.start + gen[r].conf.duration
  <2>1. gen[r].conf.duration \in Nat
    BY <1>1 DEF Config
  <2>2. \A c \in gen[r].todo : OnGrid(c, gen[r].conf)
    BY DEF IInv, Configured
  <2> QED BY <2>1, <2>2 DEF OnGrid
<1>3. Moments \subseteq Nat /\ Moments # {}
  BY <1>1, MomentBounded
<1>4. PICK m \in Moments : \A n \in Moments : ~ (<<n, m>> \in OpToRel(<, Nat))
  <2> HIDE DEF Moments
  <2> QED BY <1>3, NatLessThanWellFounded, WFMin
<1>5. PICK c \in gen[r].todo : m = Moment(c)
  OBVIOUS
<1>6. \A o \in gen[r].todo : ~ (Moment(o) < Moment(c))
  BY <1>3, <1>4, <1>5 DEF OpToRel
<1>7. ASSUME NEW o \in gen[r].todo PROVE o = c \/ Precedes(c, o)
  <2>1. o = c \/ Precedes(c, o) \/ Precedes(o, c)
    BY <1>1, <1>2, CandidatesApart
  <2>2. ASSUME Precedes(o, c) PROVE FALSE
    <3>1. o.start \in Nat /\ c.start \in Nat /\ o.end = o.start + gen[r].conf.duration
      BY <1>1, <1>2, MidnightAssumption DEF Slot, Times
    <3>2. o.date < c.date \/ (o.date = c.date /\ o.start < c.start)
      BY <1>2, <2>2, <3>1 DEF Precedes
    <3>3. Moment(o) < Moment(c)
      BY <1>1, <3>2, MomentsAscend
    <3> QED BY <1>6, <3>3
  <2> QED BY <2>1, <2>2
<1> QED BY <1>7 DEF IsNext

(* The guards of GenStep's disjuncts: the statement a request is at can be  *)
(* carried out now.                                                         *)
MayGoOn(r) ==
  \/ gen[r].pc \in {"dates", "ranges"}
  \/ gen[r].pc = "insert" /\ gen[r].todo = {}
  \/ /\ gen[r].pc = "insert"
     /\ \E c \in gen[r].todo :
          /\ IsNext(r, c)
          /\ \/ \E s \in slots : Conflicts(c, s)
             \/ \A q \in Requests \ {r} : \A a \in gen[q].done : ~ Conflicts(c, a)

LEMMA SomeMayGoOn ==
  ASSUME IInv, Gridded, NEW q \in Requests, gen[q].pc # "idle"
  PROVE  \E r \in Requests : gen[r].pc # "idle" /\ MayGoOn(r)
<1> DEFINE W == {r \in Requests : gen[r].pc # "idle"}
<1>1. PICK r \in W : \A p \in W : ~ WaitsFor(r, p)
  <2>1. W \in SUBSET Requests /\ W # {}
    OBVIOUS
  <2> HIDE DEF W
  <2> QED BY <2>1, NoCircle DEF NoWaitCycle
<1>2. gen[r].pc \in {"dates", "ranges", "insert"}
  BY DEF IInv, TypeOK, Generation
<1>3. CASE gen[r].pc = "insert" /\ gen[r].todo # {}
  <2>1. PICK c \in gen[r].todo : IsNext(r, c)
    BY <1>3, SomeIsNext
  <2>2. ASSUME NEW p \in Requests \ {r}, NEW a \in gen[p].done PROVE ~ Conflicts(c, a)
    <3>1. p \in W
      BY DEF IInv, NothingYet
    <3> QED BY <1>1, <2>1, <2>2, <3>1 DEF WaitsFor
  <2> QED BY <1>3, <2>1, <2>2 DEF MayGoOn
<1> QED BY <1>2, <1>3 DEF MayGoOn

(* As long as generations run, one of them can go on: never do they all     *)
(* wait for each other, whatever they have inserted.                        *)
THEOREM SomeGenerationGoesOn ==
  Spec => [](\A q \in Requests : gen[q].pc # "idle" =>
               \E r \in Requests : gen[r].pc # "idle" /\ MayGoOn(r))
<1>1. IInv /\ Gridded => \A q \in Requests : gen[q].pc # "idle" =>
                           \E r \in Requests : gen[r].pc # "idle" /\ MayGoOn(r)
  BY SomeMayGoOn
<1> QED BY <1>1, AlwaysGridded, PTL

(* The steps a request has left to take.                                    *)
StepsLeft(r) ==
  LET all == Cardinality(Grid(gen[r].conf, Dates)) IN
  CASE gen[r].pc = "idle"   -> 0
    [] gen[r].pc = "insert" -> 1 + Cardinality(gen[r].todo)
    [] gen[r].pc = "ranges" -> 2 + all
    [] gen[r].pc = "dates"  -> 3 + all

LEMMA GridFinite ==
  ASSUME NEW conf \in Config
  PROVE  IsFiniteSet(Grid(conf, Dates))
<1> DEFINE f == [p \in Dates \X Starts(conf) |-> SlotAt(conf, p[1], p[2])]
<1>1. IsFiniteSet(Dates) /\ IsFiniteSet(Starts(conf))
  <2>1. IsFiniteSet(Dates) /\ IsFiniteSet(Times)
    BY NumDatesAssumption, MidnightAssumption, FS_Interval DEF Dates, Times
  <2>2. Starts(conf) \in SUBSET Times
    BY DEF Starts
  <2> QED BY <2>1, <2>2, FS_Subset
<1>2. IsFiniteSet(Dates \X Starts(conf))
  BY <1>1, FS_Product
<1>3. f \in Surjection(Dates \X Starts(conf), Grid(conf, Dates))
  <2>1. f \in [Dates \X Starts(conf) -> Grid(conf, Dates)]
    BY DEF Grid
  <2>2. \A c \in Grid(conf, Dates) : \E p \in Dates \X Starts(conf) : f[p] = c
    <3> SUFFICES ASSUME NEW d \in Dates, NEW s \in Starts(conf)
                 PROVE  \E p \in Dates \X Starts(conf) : f[p] = SlotAt(conf, d, s)
      BY DEF Grid
    <3>1. <<d, s>> \in Dates \X Starts(conf) /\ f[<<d, s>>] = SlotAt(conf, d, s)
      OBVIOUS
    <3> QED BY <3>1
  <2> HIDE DEF f
  <2> QED BY <2>1, <2>2 DEF Surjection
<1> HIDE DEF f
<1> QED BY <1>2, <1>3, FS_Surjection

LEMMA StepsCounted ==
  ASSUME IInv, Gridded, NEW r \in Requests
  PROVE  /\ StepsLeft(r) \in Nat
         /\ StepsLeft(r) = 0 <=> gen[r].pc = "idle"
<1>1. gen[r].conf \in Config /\ gen[r].pc \in {"idle", "dates", "ranges", "insert"}
  BY DEF IInv, TypeOK, Generation
<1>2. /\ Cardinality(Grid(gen[r].conf, Dates)) \in Nat
      /\ Cardinality(gen[r].todo) \in Nat
  <2>1. IsFiniteSet(Grid(gen[r].conf, Dates))
    BY <1>1, GridFinite
  <2>2. gen[r].todo \in SUBSET Grid(gen[r].conf, Dates)
    BY DEF Gridded
  <2> QED BY <2>1, <2>2, FS_Subset, FS_CardinalityType
<1> QED BY <1>1, <1>2 DEF StepsLeft

LEMMA FewerStepsLeft ==
  ASSUME IInv, Gridded, IInv', Gridded', NEW r \in Requests, GenStep(r)
  PROVE  StepsLeft(r) \in Nat /\ StepsLeft(r)' \in Nat /\ StepsLeft(r)' < StepsLeft(r)
<1> DEFINE all == Cardinality(Grid(gen[r].conf, Dates))
<1>1. /\ gen \in [Requests -> Generation] /\ gen[r] \in Generation
      /\ gen' \in [Requests -> Generation] /\ gen'[r] \in Generation
      /\ gen[r].conf \in Config
  BY DEF IInv, TypeOK, Generation
<1>2. /\ IsFiniteSet(Grid(gen[r].conf, Dates)) /\ all \in Nat
      /\ IsFiniteSet(gen[r].todo) /\ Cardinality(gen[r].todo) \in Nat
  <2>1. IsFiniteSet(Grid(gen[r].conf, Dates))
    BY <1>1, GridFinite
  <2>2. gen[r].todo \in SUBSET Grid(gen[r].conf, Dates)
    BY DEF Gridded
  <2> QED BY <2>1, <2>2, FS_Subset, FS_CardinalityType
<1>3. CASE ReadBlockedDates(r)
  <2>1. gen[r].pc = "dates" /\ gen'[r].pc = "ranges" /\ gen'[r].conf = gen[r].conf
    BY <1>1, <1>3 DEF ReadBlockedDates, Generation
  <2>2. StepsLeft(r) = 3 + all /\ StepsLeft(r)' = 2 + all
    BY <2>1 DEF StepsLeft, Grid, Starts, SlotAt, Dates, Times
  <2> QED BY <1>2, <2>2
<1>4. CASE ReadBlockedTimeRanges(r)
  <2>1. gen[r].pc = "ranges" /\ gen'[r].pc = "insert" /\ gen'[r].conf = gen[r].conf
    BY <1>1, <1>4 DEF ReadBlockedTimeRanges, Generation
  <2>2. gen'[r].todo \in SUBSET Grid(gen[r].conf, Dates)
    BY <2>1 DEF Gridded, Grid, Starts, SlotAt, Dates, Times
  <2>3. /\ IsFiniteSet(gen'[r].todo) /\ Cardinality(gen'[r].todo) \in Nat
        /\ Cardinality(gen'[r].todo) <= all
    BY <1>2, <2>2, FS_Subset, FS_CardinalityType
  <2>4. StepsLeft(r) = 2 + all /\ StepsLeft(r)' = 1 + Cardinality(gen'[r].todo)
    BY <2>1 DEF StepsLeft
  <2> QED BY <1>2, <2>3, <2>4
<1>5. ASSUME NEW c \in gen[r].todo, InsertSlot(r, c) \/ SkipSlot(r, c)
      PROVE  StepsLeft(r) \in Nat /\ StepsLeft(r)' \in Nat /\ StepsLeft(r)' < StepsLeft(r)
  <2>1. /\ gen[r].pc = "insert" /\ gen'[r].pc = "insert"
        /\ gen'[r].todo = gen[r].todo \ {c}
    BY <1>1, <1>5 DEF InsertSlot, SkipSlot, Generation
  <2>2. Cardinality(gen'[r].todo) = Cardinality(gen[r].todo) - 1
        /\ Cardinality(gen'[r].todo) \in Nat
    BY <1>2, <2>1, FS_RemoveElement, FS_CardinalityType
  <2>3. /\ StepsLeft(r) = 1 + Cardinality(gen[r].todo)
        /\ StepsLeft(r)' = 1 + Cardinality(gen'[r].todo)
    BY <2>1 DEF StepsLeft
  <2> QED BY <1>2, <2>2, <2>3
<1>6. CASE Commit(r)
  <2>1. gen[r].pc = "insert" /\ gen'[r].pc = "idle"
    BY <1>1, <1>6 DEF Commit, Idle
  <2>2. StepsLeft(r) = 1 + Cardinality(gen[r].todo) /\ StepsLeft(r)' = 0
    BY <2>1 DEF StepsLeft
  <2> QED BY <1>2, <2>2
<1> QED BY <1>3, <1>4, <1>5, <1>6 DEF GenStep

(* Whatever changes a running request leaves it fewer steps to take: no     *)
(* statement and no other request sends a generation back, and it is never  *)
(* longer than its grid is large.                                           *)
GenerationsAdvance ==
  [][\A r \in Requests : gen[r].pc # "idle" /\ gen'[r] # gen[r] =>
       StepsLeft(r) \in Nat /\ StepsLeft(r)' \in Nat /\ StepsLeft(r)' < StepsLeft(r)]_vars

THEOREM GenerationsDescend == Spec => GenerationsAdvance
<1> DEFINE Less(r) == StepsLeft(r) \in Nat /\ StepsLeft(r)' \in Nat
                      /\ StepsLeft(r)' < StepsLeft(r)
<1>1. IInv /\ Gridded /\ IInv' /\ Gridded' /\ [Next]_vars =>
        [\A r \in Requests : gen[r].pc # "idle" /\ gen'[r] # gen[r] => Less(r)]_vars
  <2> SUFFICES ASSUME IInv, Gridded, IInv', Gridded', Next, NEW r \in Requests,
                      gen[r].pc # "idle", gen'[r] # gen[r]
               PROVE  Less(r)
    OBVIOUS
  <2>1. gen \in [Requests -> Generation]
    BY DEF IInv, TypeOK
  <2>2. ~ OwnerStep
    BY DEF OwnerStep, UpdateSlotSettings, UpdateHours, Reconfigure, DeleteSlot,
       SetSlotStatus, BlockDate, UnblockDate, BlockTimeRange, UnblockTimeRange
  <2>3. PICK q \in Requests : \/ \E from, to \in Dates : GenerateSlots(q, from, to)
                              \/ GenStep(q)
                              \/ Abandon(q)
    BY <2>2 DEF Next
  <2>4. q = r /\ ~ \E from, to \in Dates : GenerateSlots(q, from, to)
    BY <2>1, <2>3 DEF GenerateSlots, GenStep, ReadBlockedDates, ReadBlockedTimeRanges,
       InsertSlot, SkipSlot, Commit, Abandon
  <2>5. CASE GenStep(r)
    BY <2>5, FewerStepsLeft
  <2>6. CASE Abandon(r)
    <3>1. gen'[r].pc = "idle"
      BY <2>1, <2>6 DEF Abandon, Idle
    <3>2. StepsLeft(r) \in Nat /\ StepsLeft(r) # 0
      BY StepsCounted
    <3>3. StepsLeft(r)' = 0
      BY <3>1 DEF StepsLeft
    <3> QED BY <3>2, <3>3
  <2> QED BY <2>3, <2>4, <2>5, <2>6
<1> QED BY <1>1, AlwaysGridded, PTL DEF Spec, GenerationsAdvance

-----------------------------------------------------------------------------
(* The table as a calendar.  A batch becomes visible as a whole when it     *)
(* commits: Separate and Gridded say that what it has inserted by then is   *)
(* fit to be published.  That every other step concerns one place needs     *)
(* NoOverlap: no two rows, open or blocked, stand for the same place.       *)

(* Every configuration the turf has had, the owner could choose.            *)
Chosen ==
  \A conf \in configs :
    /\ conf.open \in Openings /\ conf.close \in Closings
    /\ conf.duration # 0 =>
         \E f \in Settings : conf.duration = f.duration /\ conf.price = f.price

LEMMA ChosenStep == TypeOK /\ Configured /\ Chosen /\ [Next]_vars => Chosen'
<1> SUFFICES ASSUME TypeOK, Configured, Chosen, [Next]_vars PROVE Chosen'
  OBVIOUS
<1>1. turf \in Config /\ turf \in configs
  BY DEF TypeOK, Configured
<1>2. ASSUME NEW conf \in Config, Reconfigure(conf),
             conf.open \in Openings, conf.close \in Closings,
             conf.duration # 0 =>
               \E f \in Settings : conf.duration = f.duration /\ conf.price = f.price
      PROVE  Chosen'
  BY <1>2 DEF Chosen, Reconfigure
<1>3. ASSUME NEW f \in Settings, UpdateSlotSettings(f) PROVE Chosen'
  <2> DEFINE conf == [turf EXCEPT !.duration = f.duration, !.price = f.price]
  <2>1. f.duration \in Nat /\ f.price \in Nat
    BY ConfigAssumption
  <2>2. /\ conf \in Config /\ conf.open = turf.open /\ conf.close = turf.close
        /\ conf.duration = f.duration /\ conf.price = f.price
    BY <1>1, <2>1 DEF Config
  <2>3. Reconfigure(conf)
    BY <1>3 DEF UpdateSlotSettings
  <2> HIDE DEF conf
  <2> QED BY <1>1, <1>2, <2>2, <2>3 DEF Chosen
<1>4. ASSUME NEW open_ \in Openings, NEW close_ \in Closings, UpdateHours(open_, close_)
      PROVE  Chosen'
  <2> DEFINE conf == [turf EXCEPT !.open = open_, !.close = close_]
  <2>1. open_ \in Times /\ close_ \in Times
    BY ConfigAssumption DEF Times
  <2>2. /\ conf \in Config /\ conf.open = open_ /\ conf.close = close_
        /\ conf.duration = turf.duration /\ conf.price = turf.price
    BY <1>1, <2>1 DEF Config
  <2>3. Reconfigure(conf)
    BY <1>4 DEF UpdateHours
  <2> HIDE DEF conf
  <2> QED BY <1>1, <1>2, <2>2, <2>3 DEF Chosen
<1>5. configs' = configs => Chosen'
  BY DEF Chosen
<1>6. CASE OwnerStep
  BY <1>3, <1>4, <1>5, <1>6 DEF OwnerStep, DeleteSlot, SetSlotStatus, BlockDate, UnblockDate,
     BlockTimeRange, UnblockTimeRange
<1>7. ASSUME NEW r \in Requests, NEW from \in Dates, NEW to \in Dates, GenerateSlots(r, from, to)
      PROVE  Chosen'
  BY <1>5, <1>7 DEF GenerateSlots
<1>8. ASSUME NEW r \in Requests, GenStep(r) \/ Abandon(r) PROVE Chosen'
  BY <1>5, <1>8 DEF GenStep, ReadBlockedDates, ReadBlockedTimeRanges, InsertSlot, SkipSlot,
     Commit, Abandon
<1>9. CASE UNCHANGED vars
  BY <1>5, <1>9 DEF vars
<1> QED BY <1>6, <1>7, <1>8, <1>9 DEF Next

(* The abstract steps, in terms of the two sets they are about.             *)
LEMMA CalendarSteps ==
  /\ \A new, conf : /\ new \subseteq Grid(conf, Dates) /\ Grid(conf, Dates) \in ConfiguredGrids
                    /\ \A p \in new : /\ \A q \in new \ {p} : ~ Conflicts(p, q)
                                      /\ \A q \in OpenPlaces \cup ClosedPlaces : ~ Conflicts(p, q)
                    /\ OpenPlaces' = OpenPlaces \cup new /\ ClosedPlaces' = ClosedPlaces
                    => Calendar!Next
  /\ \A p \in OpenPlaces :
       OpenPlaces' = OpenPlaces \ {p} /\ ClosedPlaces' = ClosedPlaces \cup {p} => Calendar!Next
  /\ \A p \in ClosedPlaces :
       OpenPlaces' = OpenPlaces \cup {p} /\ ClosedPlaces' = ClosedPlaces \ {p} => Calendar!Next
  /\ \A p \in OpenPlaces \cup ClosedPlaces :
       OpenPlaces' = OpenPlaces \ {p} /\ ClosedPlaces' = ClosedPlaces \ {p} => Calendar!Next
  /\ UNCHANGED <<OpenPlaces, ClosedPlaces>> => UNCHANGED Calendar!calendar
<1>1. ASSUME NEW new, NEW conf,
             new \subseteq Grid(conf, Dates), Grid(conf, Dates) \in ConfiguredGrids,
             \A p \in new : /\ \A q \in new \ {p} : ~ Conflicts(p, q)
                            /\ \A q \in OpenPlaces \cup ClosedPlaces : ~ Conflicts(p, q),
             OpenPlaces' = OpenPlaces \cup new, ClosedPlaces' = ClosedPlaces
      PROVE  Calendar!Next
  <2>1. Calendar!Publish(new)
    BY <1>1 DEF Calendar!Publish
  <2> QED BY <1>1, <2>1 DEF Calendar!Next
<1>2. ASSUME NEW p \in OpenPlaces, OpenPlaces' = OpenPlaces \ {p}, ClosedPlaces' = ClosedPlaces \cup {p}
      PROVE  Calendar!Next
  <2>1. Calendar!Close(p)
    BY <1>2 DEF Calendar!Close
  <2> QED BY <2>1 DEF Calendar!Next
<1>3. ASSUME NEW p \in ClosedPlaces, OpenPlaces' = OpenPlaces \cup {p}, ClosedPlaces' = ClosedPlaces \ {p}
      PROVE  Calendar!Next
  <2>1. Calendar!Reopen(p)
    BY <1>3 DEF Calendar!Reopen
  <2> QED BY <2>1 DEF Calendar!Next
<1>4. ASSUME NEW p \in OpenPlaces \cup ClosedPlaces,
             OpenPlaces' = OpenPlaces \ {p}, ClosedPlaces' = ClosedPlaces \ {p}
      PROVE  Calendar!Next
  <2>1. Calendar!Remove(p)
    BY <1>4 DEF Calendar!Remove
  <2> QED BY <2>1 DEF Calendar!Next
<1>5. UNCHANGED <<OpenPlaces, ClosedPlaces>> => UNCHANGED Calendar!calendar
  BY DEF Calendar!calendar
<1> QED BY <1>1, <1>2, <1>3, <1>4, <1>5

(* A row's place keeps all of the row but its status, and no two rows share *)
(* one.                                                                     *)
LEMMA PlaceOfRow ==
  ASSUME NEW s \in Slot
  PROVE  /\ Place(s) \in Slot /\ Place(s).date = s.date /\ Place(s).start = s.start
         /\ Place(s).end = s.end
         /\ s.status = "OPEN" => Place(s) = s
         /\ \A a : Conflicts(a, Place(s)) <=> Conflicts(a, s)
         /\ \A status \in {"OPEN", "BLOCKED"} :
              LET t == [s EXCEPT !.status = status] IN t.status = status /\ Place(t) = Place(s)
<1>1. /\ Place(s) \in Slot /\ Place(s).date = s.date /\ Place(s).start = s.start
      /\ Place(s).end = s.end /\ (s.status = "OPEN" => Place(s) = s)
  BY DEF Place, Slot
<1>2. \A a : Conflicts(a, Place(s)) <=> Conflicts(a, s)
  BY <1>1 DEF Conflicts, minute_range
<1>3. ASSUME NEW status \in {"OPEN", "BLOCKED"}
      PROVE  LET t == [s EXCEPT !.status = status] IN t.status = status /\ Place(t) = Place(s)
  BY DEF Place, Slot
<1> QED BY <1>1, <1>2, <1>3

LEMMA OneRowPerPlace ==
  ASSUME IInv, NEW s \in slots, NEW t \in slots, Place(s) = Place(t)
  PROVE  s = t
<1>1. s \in Slot /\ t \in Slot
  BY DEF IInv, TypeOK
<1>2. s.date = t.date /\ s.start = t.start /\ s.end = t.end
  <2>1. /\ Place(s).date = s.date /\ Place(s).start = s.start /\ Place(s).end = s.end
        /\ Place(t).date = t.date /\ Place(t).start = t.start /\ Place(t).end = t.end
    BY <1>1, PlaceOfRow
  <2> QED BY <2>1
<1>3. s.start \in Nat /\ s.end \in Nat /\ s.start < s.end
  <2>1. PICK conf \in configs : conf.duration # 0 /\ s.end = s.start + conf.duration
    BY DEF IInv, OnOneGrid
  <2>2. conf.duration \in Nat
    BY DEF IInv, TypeOK, Config
  <2>3. s.start \in Nat
    BY <1>1, MidnightAssumption DEF Slot, Times
  <2> QED BY <2>1, <2>2, <2>3
<1>4. s.start \in minute_range(s) \cap minute_range(t)
  BY <1>2, <1>3 DEF minute_range
<1> QED BY <1>2, <1>4 DEF IInv, NoOverlap

(* Where a row is found in the calendar.                                    *)
LEMMA RowsInCalendar ==
  ASSUME IInv
  PROVE  /\ \A s \in slots : s.status = "OPEN" => Place(s) \in OpenPlaces /\ Place(s) \notin ClosedPlaces
         /\ \A s \in slots : s.status = "BLOCKED" => Place(s) \in ClosedPlaces /\ Place(s) \notin OpenPlaces
         /\ \A p \in OpenPlaces : p \in slots /\ Place(p) = p /\ p.status = "OPEN"
         /\ \A p \in ClosedPlaces : \E s \in slots : p = Place(s) /\ s.status = "BLOCKED"
<1>1. slots \subseteq Slot
  BY DEF IInv, TypeOK
<1>2. \A p \in OpenPlaces : p \in slots /\ Place(p) = p /\ p.status = "OPEN"
  BY <1>1, PlaceOfRow DEF OpenPlaces
<1>3. \A p \in ClosedPlaces : \E s \in slots : p = Place(s) /\ s.status = "BLOCKED"
  BY DEF ClosedPlaces
<1>4. \A s \in slots : s.status = "OPEN" => Place(s) \in OpenPlaces
  BY <1>1, PlaceOfRow DEF OpenPlaces
<1>5. \A s \in slots : s.status = "BLOCKED" => Place(s) \in ClosedPlaces
  BY DEF ClosedPlaces
<1> QED BY <1>2, <1>3, <1>4, <1>5, OneRowPerPlace

(* What removing a row, and what changing its status, does to the calendar. *)
LEMMA RowLeaves ==
  ASSUME IInv, NEW s \in slots, slots' = slots \ {s}
  PROVE  OpenPlaces' = OpenPlaces \ {Place(s)} /\ ClosedPlaces' = ClosedPlaces \ {Place(s)}
<1>1. \A t \in slots : Place(t) = Place(s) <=> t = s
  BY OneRowPerPlace
<1>2. \A p : p \in OpenPlaces' <=> p \in OpenPlaces \ {Place(s)}
  <2>1. \A p : p \in OpenPlaces' <=> p \in slots \ {s} /\ p.status = "OPEN"
    BY DEF OpenPlaces
  <2>2. \A p : p \in OpenPlaces <=> p \in slots /\ p.status = "OPEN"
    BY DEF OpenPlaces
  <2> QED BY <1>1, <2>1, <2>2, RowsInCalendar
<1>3. \A p : p \in ClosedPlaces' <=> p \in ClosedPlaces \ {Place(s)}
  <2>1. \A p : p \in ClosedPlaces' <=> \E t \in slots \ {s} : t.status = "BLOCKED" /\ p = Place(t)
    BY DEF ClosedPlaces, Place
  <2>2. \A p : p \in ClosedPlaces <=> \E t \in slots : t.status = "BLOCKED" /\ p = Place(t)
    BY DEF ClosedPlaces
  <2> QED BY <1>1, <2>1, <2>2
<1> QED BY <1>2, <1>3

LEMMA RowTurns ==
  ASSUME IInv, NEW s \in slots, NEW status \in {"OPEN", "BLOCKED"}, SetSlotStatus(s, status)
  PROVE  Calendar!Next \/ UNCHANGED Calendar!calendar
<1> DEFINE t == [s EXCEPT !.status = status]
<1>1. s \in Slot /\ s.status \in {"OPEN", "BLOCKED"}
  BY DEF IInv, TypeOK, Slot
<1>2. t.status = status /\ Place(t) = Place(s) /\ (status = "OPEN" => t = Place(s))
  BY <1>1, PlaceOfRow DEF Place
<1>3. slots' = (slots \ {s}) \cup {t}
  BY DEF SetSlotStatus
<1>4. status = s.status => t = s
  BY <1>1 DEF Slot
<1> HIDE DEF t
<1>5. \A u \in slots : Place(u) = Place(s) <=> u = s
  BY OneRowPerPlace
<1>6. \A p : p \in OpenPlaces' <=> (p \in slots \ {s} \/ p = t) /\ p.status = "OPEN"
  BY <1>3 DEF OpenPlaces
<1>7. \A p : p \in ClosedPlaces' <=>
               \E u : (u \in slots \ {s} \/ u = t) /\ u.status = "BLOCKED" /\ p = Place(u)
  BY <1>3 DEF ClosedPlaces, Place
<1>8. /\ \A p : p \in OpenPlaces <=> p \in slots /\ p.status = "OPEN"
      /\ \A p : p \in ClosedPlaces <=> \E u \in slots : u.status = "BLOCKED" /\ p = Place(u)
  BY DEF OpenPlaces, ClosedPlaces
<1>9. CASE status = s.status
  <2>1. slots' = slots
    BY <1>3, <1>4, <1>9
  <2>2. UNCHANGED <<OpenPlaces, ClosedPlaces>>
    BY <2>1 DEF OpenPlaces, ClosedPlaces, Place
  <2> QED BY <2>2, CalendarSteps
<1>10. CASE s.status = "OPEN" /\ status = "BLOCKED"
  <2>1. Place(s) = s /\ Place(s) \in OpenPlaces
    BY <1>1, <1>10, PlaceOfRow, RowsInCalendar
  <2>2. OpenPlaces' = OpenPlaces \ {Place(s)}
    <3>1. \A p : p \in OpenPlaces' <=> p \in OpenPlaces \ {Place(s)}
      BY <1>2, <1>6, <1>8, <1>10, <2>1
    <3> QED BY <3>1
  <2>3. ClosedPlaces' = ClosedPlaces \cup {Place(s)}
    <3>1. \A p : p \in ClosedPlaces' <=> p \in ClosedPlaces \cup {Place(s)}
      BY <1>2, <1>7, <1>8, <1>10
    <3> QED BY <3>1
  <2> QED BY <2>1, <2>2, <2>3, CalendarSteps
<1>11. CASE s.status = "BLOCKED" /\ status = "OPEN"
  <2>1. Place(s) \in ClosedPlaces
    BY <1>11, RowsInCalendar
  <2>2. OpenPlaces' = OpenPlaces \cup {Place(s)}
    <3>1. \A p : p \in OpenPlaces' <=> p \in OpenPlaces \cup {Place(s)}
      BY <1>2, <1>6, <1>8, <1>11
    <3> QED BY <3>1
  <2>3. ClosedPlaces' = ClosedPlaces \ {Place(s)}
    <3>1. \A p : p \in ClosedPlaces' <=> p \in ClosedPlaces \ {Place(s)}
      BY <1>2, <1>5, <1>7, <1>8, <1>11
    <3> QED BY <3>1
  <2> QED BY <2>1, <2>2, <2>3, CalendarSteps
<1> QED BY <1>1, <1>9, <1>10, <1>11

(* A commit publishes what the batch has inserted.                          *)
LEMMA CommitPublishes ==
  ASSUME IInv, Gridded, Chosen, NEW r \in Requests, Commit(r)
  PROVE  Calendar!Next \/ UNCHANGED Calendar!calendar
<1> DEFINE new == gen[r].done
           conf == gen[r].conf
<1>1. /\ slots \subseteq Slot /\ new \subseteq Slot /\ conf \in Config /\ conf \in configs
      /\ new \subseteq Grid(conf, Dates) /\ slots' = slots \cup new
  BY DEF IInv, TypeOK, Configured, Generation, Gridded, Commit
<1>2. \A c \in new : c.status = "OPEN" /\ OnGrid(c, conf)
  BY <1>1 DEF Grid, SlotAt, IInv, Configured
<1>3. CASE new = {}
  <2>1. slots' = slots
    BY <1>1, <1>3
  <2>2. UNCHANGED <<OpenPlaces, ClosedPlaces>>
    BY <2>1 DEF OpenPlaces, ClosedPlaces, Place
  <2> QED BY <2>2, CalendarSteps
<1>4. CASE new # {}
  <2>1. Grid(conf, Dates) \in ConfiguredGrids
    <3>1. conf.duration # 0
      BY <1>2, <1>4 DEF OnGrid
    <3>2. PICK f \in Settings : conf.duration = f.duration /\ conf.price = f.price
      BY <1>1, <3>1 DEF Chosen
    <3>3. conf.open \in Openings /\ conf.close \in Closings
      BY <1>1 DEF Chosen
    <3>4. conf = [open |-> conf.open, close |-> conf.close,
                  duration |-> f.duration, price |-> f.price]
      BY <1>1, <3>2 DEF Config
    <3> HIDE DEF conf
    <3> QED BY <3>3, <3>4 DEF ConfiguredGrids
  <2>2. ASSUME NEW p \in new
        PROVE  /\ \A q \in new \ {p} : ~ Conflicts(p, q)
               /\ \A q \in OpenPlaces \cup ClosedPlaces : ~ Conflicts(p, q)
    <3>1. \A q \in new \ {p} : ~ Conflicts(p, q)
      BY DEF IInv, Separate
    <3>2. \A s \in slots : ~ Conflicts(p, s) /\ ~ Conflicts(p, Place(s))
      BY <1>1, PlaceOfRow DEF IInv, Separate
    <3> QED BY <3>1, <3>2 DEF OpenPlaces, ClosedPlaces
  <2> HIDE DEF new, conf
  <2>3. OpenPlaces' = OpenPlaces \cup new /\ ClosedPlaces' = ClosedPlaces
    <3>1. \A p : p \in OpenPlaces' <=> p \in OpenPlaces \cup new
      BY <1>1, <1>2 DEF OpenPlaces
    <3>2. \A p : p \in ClosedPlaces' <=> \E u \in slots \cup new : u.status = "BLOCKED" /\ p = Place(u)
      BY <1>1 DEF ClosedPlaces, Place
    <3>3. \A p : p \in ClosedPlaces <=> \E u \in slots : u.status = "BLOCKED" /\ p = Place(u)
      BY DEF ClosedPlaces
    <3> QED BY <1>2, <3>1, <3>2, <3>3
  <2> QED BY <1>1, <2>1, <2>2, <2>3, CalendarSteps
<1> QED BY <1>3, <1>4

LEMMA StepOfCalendar ==
  IInv /\ Gridded /\ Chosen /\ [Next]_vars => [Calendar!Next]_(Calendar!calendar)
<1> SUFFICES ASSUME IInv, Gridded, Chosen, [Next]_vars
             PROVE  Calendar!Next \/ UNCHANGED Calendar!calendar
  OBVIOUS
<1>1. slots' = slots => UNCHANGED Calendar!calendar
  <2>1. slots' = slots => UNCHANGED <<OpenPlaces, ClosedPlaces>>
    BY DEF OpenPlaces, ClosedPlaces, Place
  <2> QED BY <2>1, CalendarSteps
<1>2. ASSUME NEW s \in slots, DeleteSlot(s) PROVE Calendar!Next
  <2>1. Place(s) \in OpenPlaces \cup ClosedPlaces
    BY RowsInCalendar DEF IInv, TypeOK, Slot
  <2> QED BY <1>2, <2>1, RowLeaves, CalendarSteps DEF DeleteSlot
<1>3. CASE OwnerStep
  <2>1. \/ slots' = slots
        \/ \E s \in slots : DeleteSlot(s)
                            \/ \E status \in {"OPEN", "BLOCKED"} : SetSlotStatus(s, status)
    BY <1>3 DEF OwnerStep, UpdateSlotSettings, UpdateHours, Reconfigure, BlockDate, UnblockDate,
       BlockTimeRange, UnblockTimeRange
  <2> QED BY <1>1, <1>2, <2>1, RowTurns
<1>4. ASSUME NEW r \in Requests, NEW from \in Dates, NEW to \in Dates, GenerateSlots(r, from, to)
      PROVE  UNCHANGED Calendar!calendar
  BY <1>1, <1>4 DEF GenerateSlots
<1>5. ASSUME NEW r \in Requests, GenStep(r) \/ Abandon(r)
      PROVE  Calendar!Next \/ UNCHANGED Calendar!calendar
  <2>1. slots' = slots \/ Commit(r)
    BY <1>5 DEF GenStep, Abandon, ReadBlockedDates, ReadBlockedTimeRanges, InsertSlot, SkipSlot
  <2> QED BY <1>1, <2>1, CommitPublishes
<1>6. CASE UNCHANGED vars
  BY <1>1, <1>6 DEF vars
<1> QED BY <1>3, <1>4, <1>5, <1>6 DEF Next

(* However many generations run at once and whatever the owner changes      *)
(* meanwhile, to its readers the table is a calendar: slots are published a *)
(* batch at a time, each of one grid and clear of all others.               *)
THEOREM CalendarKept == Spec => KeepsCalendar
<1>1. Init => Calendar!Init /\ Chosen
  <2>1. Init => Calendar!Init
    BY DEF Init, Calendar!Init, OpenPlaces, ClosedPlaces
  <2>2. Init => Chosen
    BY DEF Init, Chosen
  <2> QED BY <2>1, <2>2
<1>2. IInv /\ Chosen /\ [Next]_vars => Chosen'
  BY ChosenStep DEF IInv
<1> QED BY <1>1, <1>2, StepOfCalendar, AlwaysGridded, PTL DEF Spec, KeepsCalendar, Calendar!Spec

-----------------------------------------------------------------------------
(* What a generation does that nobody interferes with: AvailabilityPage     *)
(* has it as one step of the server, ServeGenerate.                         *)

(* A table after a generation: every candidate that conflicts with none of  *)
(* its slots is added.                                                      *)
Filled(table, conf, from, to, dates, ranges) ==
  table \cup {c \in buildSlotCandidates(conf, from, to, dates, ranges) :
                \A s \in table : ~ Conflicts(c, s)}

(* The request as GenerateSlots leaves it.                                  *)
Accepted(r, conf, from, to) ==
  gen[r] = [Idle(conf) EXCEPT !.pc = "dates", !.from = from, !.to = to]

(* How far a request has come that finds the table, the blocked dates and   *)
(* the blocked ranges as they were at its start.                            *)
Undisturbed(r, table, conf, from, to, dates, ranges) ==
  LET cands == buildSlotCandidates(conf, from, to, dates, ranges) IN
  /\ blockedDates = dates /\ blockedRanges = ranges
  /\ gen[r].pc = "idle" => slots = Filled(table, conf, from, to, dates, ranges)
  /\ gen[r].pc # "idle" =>
       slots = table /\ gen[r].conf = conf /\ gen[r].from = from /\ gen[r].to = to
  /\ gen[r].pc = "ranges" => gen[r].dates = dates
  /\ gen[r].pc = "insert" =>
       /\ gen[r].todo \subseteq cands
       /\ gen[r].done = {c \in cands \ gen[r].todo : \A s \in table : ~ Conflicts(c, s)}

LEMMA UndisturbedStep ==
  ASSUME IInv, NEW r \in Requests, NEW table, NEW conf, NEW from, NEW to, NEW dates, NEW ranges,
         Undisturbed(r, table, conf, from, to, dates, ranges), GenStep(r)
  PROVE  Undisturbed(r, table, conf, from, to, dates, ranges)'
<1> DEFINE cands == buildSlotCandidates(conf, from, to, dates, ranges)
<1> USE DEF Undisturbed
<1>1. gen \in [Requests -> Generation] /\ gen[r] \in Generation
  BY DEF IInv, TypeOK
<1>2. CASE ReadBlockedDates(r)
  <2>1. gen'[r] = [gen[r] EXCEPT !.pc = "ranges", !.dates = blockedDates]
    BY <1>1, <1>2 DEF ReadBlockedDates
  <2>2. gen'[r].pc = "ranges" /\ gen'[r].dates = dates /\ gen'[r].conf = gen[r].conf
        /\ gen'[r].from = gen[r].from /\ gen'[r].to = gen[r].to
    BY <1>1, <2>1 DEF Generation
  <2> QED BY <1>2, <2>2 DEF ReadBlockedDates
<1>3. CASE ReadBlockedTimeRanges(r)
  <2>1. gen'[r] = [gen[r] EXCEPT !.pc = "insert", !.todo = cands]
    BY <1>1, <1>3 DEF ReadBlockedTimeRanges
  <2>2. gen'[r].pc = "insert" /\ gen'[r].todo = cands /\ gen'[r].conf = gen[r].conf
        /\ gen'[r].from = gen[r].from /\ gen'[r].to = gen[r].to /\ gen'[r].done = gen[r].done
    BY <1>1, <2>1 DEF Generation
  <2>3. gen[r].done = {}
    BY <1>3 DEF ReadBlockedTimeRanges, IInv, NothingYet
  <2> HIDE DEF cands
  <2>4. gen'[r].done = {c \in cands \ gen'[r].todo : \A s \in table : ~ Conflicts(c, s)}
    BY <2>2, <2>3
  <2> QED BY <1>3, <2>2, <2>4 DEF ReadBlockedTimeRanges, cands
<1>4. ASSUME NEW c \in gen[r].todo, InsertSlot(r, c)
      PROVE  Undisturbed(r, table, conf, from, to, dates, ranges)'
  <2>1. gen'[r] = [gen[r] EXCEPT !.todo = @ \ {c}, !.done = @ \cup {c}]
    BY <1>1, <1>4 DEF InsertSlot
  <2>2. gen'[r].pc = "insert" /\ gen'[r].todo = gen[r].todo \ {c}
        /\ gen'[r].done = gen[r].done \cup {c}
        /\ gen'[r].conf = gen[r].conf /\ gen'[r].from = gen[r].from /\ gen'[r].to = gen[r].to
    BY <1>1, <1>4, <2>1 DEF Generation, InsertSlot
  <2>3. gen[r].pc = "insert" /\ slots' = table /\ \A s \in table : ~ Conflicts(c, s)
    BY <1>4 DEF InsertSlot
  <2> HIDE DEF cands
  <2>4. gen[r].todo \subseteq cands
        /\ gen[r].done = {x \in cands \ gen[r].todo : \A s \in table : ~ Conflicts(x, s)}
    BY <2>3 DEF cands
  <2>5. gen'[r].todo \subseteq cands
        /\ gen'[r].done = {x \in cands \ gen'[r].todo : \A s \in table : ~ Conflicts(x, s)}
    BY <2>2, <2>3, <2>4
  <2> QED BY <1>4, <2>2, <2>3, <2>5 DEF InsertSlot, cands
<1>5. ASSUME NEW c \in gen[r].todo, SkipSlot(r, c)
      PROVE  Undisturbed(r, table, conf, from, to, dates, ranges)'
  <2>1. gen'[r] = [gen[r] EXCEPT !.todo = @ \ {c}]
    BY <1>1, <1>5 DEF SkipSlot
  <2>2. gen'[r].pc = "insert" /\ gen'[r].todo = gen[r].todo \ {c}
        /\ gen'[r].done = gen[r].done
        /\ gen'[r].conf = gen[r].conf /\ gen'[r].from = gen[r].from /\ gen'[r].to = gen[r].to
    BY <1>1, <1>5, <2>1 DEF Generation, SkipSlot
  <2>3. gen[r].pc = "insert" /\ slots' = table /\ \E s \in table : Conflicts(c, s)
    BY <1>5 DEF SkipSlot
  <2> HIDE DEF cands
  <2>4. gen[r].todo \subseteq cands
        /\ gen[r].done = {x \in cands \ gen[r].todo : \A s \in table : ~ Conflicts(x, s)}
    BY <2>3 DEF cands
  <2>5. gen'[r].todo \subseteq cands
        /\ gen'[r].done = {x \in cands \ gen'[r].todo : \A s \in table : ~ Conflicts(x, s)}
    BY <2>2, <2>3, <2>4
  <2> QED BY <1>5, <2>2, <2>3, <2>5 DEF SkipSlot, cands
<1>6. CASE Commit(r)
  <2>1. gen'[r].pc = "idle"
    BY <1>1, <1>6 DEF Commit, Idle
  <2>2. gen[r].pc = "insert" /\ gen[r].todo = {} /\ slots' = slots \cup gen[r].done
    BY <1>6 DEF Commit
  <2> HIDE DEF cands
  <2>3. gen[r].done = {x \in cands : \A s \in table : ~ Conflicts(x, s)} /\ slots = table
    BY <2>2 DEF cands
  <2>4. slots' = Filled(table, conf, from, to, dates, ranges)
    BY <2>2, <2>3 DEF Filled, cands
  <2> QED BY <1>6, <2>1, <2>4 DEF Commit
<1> QED BY <1>2, <1>3, <1>4, <1>5, <1>6 DEF GenStep

(* A generation that runs alone, with any number of slots already there and *)
(* other requests standing still at any point, ends with every candidate    *)
(* added that conflicts with no slot, and with nothing else changed: read   *)
(* as four statements and one batch it has the effect of one.               *)
THEOREM GenerationAlone ==
  ASSUME NEW CONSTANT r \in Requests, NEW CONSTANT table, NEW CONSTANT conf,
         NEW CONSTANT from, NEW CONSTANT to, NEW CONSTANT dates, NEW CONSTANT ranges
  PROVE  /\ IInv /\ Accepted(r, conf, from, to)
         /\ slots = table /\ blockedDates = dates /\ blockedRanges = ranges
         /\ [][GenStep(r)]_vars
         => [](gen[r].pc = "idle" => slots = Filled(table, conf, from, to, dates, ranges))
<1> DEFINE I == IInv /\ Undisturbed(r, table, conf, from, to, dates, ranges)
<1>1. /\ IInv /\ Accepted(r, conf, from, to)
      /\ slots = table /\ blockedDates = dates /\ blockedRanges = ranges
      => I
  BY DEF Accepted, Undisturbed, Idle
<1>2. I /\ [GenStep(r)]_vars => I'
  <2> SUFFICES ASSUME I, [GenStep(r)]_vars PROVE I'
    OBVIOUS
  <2>1. CASE GenStep(r)
    BY <2>1, NextIInv, UndisturbedStep DEF Next
  <2>2. CASE UNCHANGED vars
    BY <2>2, NextIInv DEF vars, Undisturbed
  <2> QED BY <2>1, <2>2
<1>3. I => (gen[r].pc = "idle" => slots = Filled(table, conf, from, to, dates, ranges))
  BY DEF Undisturbed
<1> QED BY <1>1, <1>2, <1>3, PTL

(* "safe to retry": the same generation once more adds nothing, since each  *)
(* of its candidates is in the table by now or conflicts with a slot there. *)
THEOREM RetryAddsNothing ==
  ASSUME NEW conf \in Config, conf.duration # 0, NEW from \in Dates, NEW to \in Dates,
         NEW table, NEW dates, NEW ranges
  PROVE  LET once == Filled(table, conf, from, to, dates, ranges) IN
         Filled(once, conf, from, to, dates, ranges) = once
<1> DEFINE cands == buildSlotCandidates(conf, from, to, dates, ranges)
           once == Filled(table, conf, from, to, dates, ranges)
<1>1. SUFFICES ASSUME NEW c \in cands, \A s \in once : ~ Conflicts(c, s)
               PROVE  FALSE
  BY DEF Filled
<1>2. c \in Slot /\ OnGrid(c, conf)
  BY CandidateType
<1>3. c.start \in Nat /\ c.end \in Nat /\ c.start < c.end
  BY <1>2, MidnightAssumption DEF Slot, Times, OnGrid, Config
<1>4. Conflicts(c, c)
  BY <1>3, MeetingConflicts
<1>5. \A s \in table : ~ Conflicts(c, s)
  BY <1>1 DEF Filled
<1>6. c \in once
  BY <1>5 DEF Filled
<1> QED BY <1>1, <1>4, <1>6

(* The table as AvailabilityPage sees it: its slot <<d, n>> is the n-th     *)
(* interval of date d on the grid of one configuration.                     *)
PlaceOf(conf, s) == SlotAt(conf, s[1], conf.open + (s[2] - 1) * conf.duration)

SamePlace(a, b) == a.date = b.date /\ a.start = b.start /\ a.end = b.end

RowsAt(table, p) == {t \in table : SamePlace(t, p)}

RowsOf(conf, table) ==
  [s \in Slots |-> IF RowsAt(table, PlaceOf(conf, s)) = {} THEN "none"
                   ELSE (CHOOSE t \in RowsAt(table, PlaceOf(conf, s)) : TRUE).status]

(* The days and the slots of a day are those of the configuration, and a    *)
(* slot is covered by a block of the page when generation leaves it out.    *)
SeenAs(conf, dates, ranges) ==
  /\ LastDate = NumDates
  /\ Starts(conf) = {conf.open + (n - 1) * conf.duration : n \in 1..SlotsPerDay}
  /\ \A s \in Slots :
       LET p == PlaceOf(conf, s) IN
       (\E b \in blocked : Covers(b, s)) <=>
         (p.date \in dates \/ overlapsAnyRange(p.start, p.end, {b \in ranges : b.date = p.date}))

(* On one grid whatever conflicts is at the same place.                     *)
LEMMA GridConflicts ==
  ASSUME NEW conf \in Config, conf.duration # 0,
         NEW p \in Grid(conf, Dates), NEW t \in Slot, OnGrid(t, conf)
  PROVE  Conflicts(p, t) <=> SamePlace(t, p)
<1> DEFINE u == SlotAt(conf, t.date, t.start)
<1>1. u \in Grid(conf, Dates) /\ SamePlace(t, u)
  BY DEF Grid, OnGrid, Slot, SlotAt, SamePlace
<1>2. p = u \/ Precedes(p, u) \/ Precedes(u, p)
  BY <1>1, CandidatesApart
<1>3. PICK d \in Dates, s \in Starts(conf) : p = SlotAt(conf, d, s)
  BY DEF Grid
<1>4. /\ p.start \in Nat /\ p.end \in Nat /\ p.start < p.end /\ p.date \in Nat
      /\ t.start \in Nat /\ t.end \in Nat /\ t.start < t.end /\ t.date \in Nat
  <2>1. conf.duration \in Nat /\ conf.duration > 0 /\ s \in Nat /\ d \in Nat
    BY MidnightAssumption, NumDatesAssumption DEF Config, Starts, Times, Dates
  <2>2. p.start = s /\ p.end = s + conf.duration /\ p.date = d
    BY <1>3 DEF SlotAt
  <2>3. t.start \in Nat /\ t.date \in Nat /\ t.end = t.start + conf.duration
    BY MidnightAssumption, NumDatesAssumption DEF Slot, Times, Dates, OnGrid
  <2> QED BY <2>1, <2>2, <2>3
<1>5. ASSUME SamePlace(t, p) PROVE Conflicts(p, t)
  BY <1>4, <1>5, MeetingConflicts DEF SamePlace
<1>6. ASSUME Conflicts(p, t) PROVE SamePlace(t, p)
  <2>1. p.date = t.date /\ p.start < t.end /\ t.start < p.end
    BY <1>4, <1>6, ConflictMeets
  <2>2. p = u
    BY <1>1, <1>2, <1>4, <2>1 DEF Precedes, SamePlace
  <2> QED BY <1>1, <2>2
<1> QED BY <1>5, <1>6

(* The step ServeGenerate of AvailabilityPage is a generation that runs     *)
(* alone: if the rows of its model stand for the table, they do so          *)
(* afterwards.                                                              *)
THEOREM GenerationServed ==
  ASSUME NEW conf \in Config, conf.duration # 0, NEW from \in Dates, NEW to \in Dates,
         NEW dates, NEW ranges, NEW table \in SUBSET Slot,
         \A t \in table : OnGrid(t, conf),
         SeenAs(conf, dates, ranges),
         rows = RowsOf(conf, table)
  PROVE  Generated(from, to) =
           RowsOf(conf, Filled(table, conf, from, to, dates, ranges))
<1> DEFINE cands == buildSlotCandidates(conf, from, to, dates, ranges)
           after == Filled(table, conf, from, to, dates, ranges)
<1> SUFFICES ASSUME NEW s \in Slots
             PROVE  Generated(from, to)[s] = RowsOf(conf, after)[s]
  BY DEF Generated, RowsOf
<1> DEFINE p == PlaceOf(conf, s)
<1>1. /\ s[1] \in Dates /\ s[2] \in 1..SlotsPerDay
      /\ p.date = s[1] /\ p.status = "OPEN"
      /\ conf.open + (s[2] - 1) * conf.duration \in Starts(conf)
  BY DEF SeenAs, Slots, Days, Dates, PlaceOf, SlotAt
<1>2. p \in Grid(conf, Dates) /\ \A days : s[1] \in days => p \in Grid(conf, days)
  BY <1>1 DEF Grid, PlaceOf
<1>3. \A t \in table : Conflicts(p, t) <=> SamePlace(t, p)
  BY <1>2, GridConflicts
<1>4. rows[s] = IF RowsAt(table, p) = {} THEN "none" ELSE (CHOOSE t \in RowsAt(table, p) : TRUE).status
  BY DEF RowsOf
<1>5. rows[s] = "none" <=> RowsAt(table, p) = {}
  <2>1. \A t \in RowsAt(table, p) : t.status # "none"
    BY DEF RowsAt, Slot
  <2> QED BY <1>4, <2>1
<1>6. \A t \in cands : SamePlace(t, p) => t = p
  <2> SUFFICES ASSUME NEW t \in cands, SamePlace(t, p) PROVE t = p
    OBVIOUS
  <2>1. PICK d \in (from..to) \ dates, x \in Starts(conf) : t = SlotAt(conf, d, x)
    BY DEF buildSlotCandidates, Grid
  <2> QED BY <2>1 DEF SlotAt, SamePlace, PlaceOf
<1>7. p \in cands <=> s[1] \in from..to /\ ~ \E b \in blocked : Covers(b, s)
  <2>1. ASSUME p \in cands
        PROVE  s[1] \in (from..to) \ dates
               /\ ~ overlapsAnyRange(p.start, p.end, {b \in ranges : b.date = p.date})
    <3>1. /\ p \in Grid(conf, (from..to) \ dates)
          /\ ~ overlapsAnyRange(p.start, p.end, {b \in ranges : b.date = p.date})
      BY <2>1 DEF buildSlotCandidates
    <3> HIDE DEF p
    <3>2. PICK d \in (from..to) \ dates, x \in Starts(conf) : p = SlotAt(conf, d, x)
      BY <3>1 DEF Grid
    <3>3. p.date = d
      BY <3>2 DEF SlotAt
    <3> QED BY <1>1, <3>1, <3>2, <3>3
  <2>2. s[1] \in (from..to) \ dates
        /\ ~ overlapsAnyRange(p.start, p.end, {b \in ranges : b.date = p.date}) => p \in cands
    BY <1>2 DEF buildSlotCandidates
  <2> QED BY <1>1, <2>1, <2>2 DEF SeenAs
<1> HIDE DEF p, cands
<1>8. RowsOf(conf, after)[s] =
        IF RowsAt(after, p) = {} THEN "none" ELSE (CHOOSE t \in RowsAt(after, p) : TRUE).status
  BY DEF RowsOf, p
<1>9. after = table \cup {c \in cands : \A t \in table : ~ Conflicts(c, t)}
  BY DEF Filled, cands
<1> HIDE DEF after
<1>10. CASE p \in cands /\ RowsAt(table, p) = {}
  <2>1. \A t \in table : ~ Conflicts(p, t)
    BY <1>3, <1>10 DEF RowsAt
  <2>2. SamePlace(p, p)
    BY DEF SamePlace
  <2>3. RowsAt(after, p) = {p}
    BY <1>6, <1>9, <1>10, <2>1, <2>2 DEF RowsAt
  <2>4. RowsOf(conf, after)[s] = "OPEN"
    BY <1>1, <1>8, <2>3
  <2> QED BY <1>5, <1>7, <1>10, <2>4 DEF Generated
<1>11. CASE ~ (p \in cands /\ RowsAt(table, p) = {})
  <2>1. \A t \in after \ table : ~ SamePlace(t, p)
    <3> SUFFICES ASSUME NEW t \in cands, SamePlace(t, p), \A u \in table : ~ Conflicts(t, u)
                 PROVE  FALSE
      BY <1>9
    <3>1. t = p
      BY <1>6
    <3>2. RowsAt(table, p) = {}
      BY <1>3, <3>1 DEF RowsAt
    <3> QED BY <1>11, <3>1, <3>2
  <2>2. RowsAt(after, p) = RowsAt(table, p)
    BY <1>9, <2>1 DEF RowsAt
  <2>3. RowsOf(conf, after)[s] = rows[s]
    BY <1>4, <1>8, <2>2
  <2> QED BY <1>5, <1>7, <1>11, <2>3 DEF Generated
<1> QED BY <1>10, <1>11

-----------------------------------------------------------------------------
(* The owner's availability page.  What it shows is current, except for     *)
(* what a request that is under way reads, or has changed and brings.       *)

Sent(cl) == {c \in Calls : cl[c] # None}
Done(k)  == k.phase = "answered" /\ k.ok

SlotsRight(pg, rs, bs) == pg.slots = SlotsOf(pg.viewDate, rs, bs)
BlocksRight(pg, bs)    == \A b \in Blocks : \/ pg.listed[b] = IF b \in bs THEN 1 ELSE 0
                                            \/ b[2] \notin pg.listsRead /\ pg.listed[b] = 0

(* Two requests at once are the two loads that follow the turf's.           *)
Alone(pg, cl) ==
  /\ \A c, d \in Sent(cl) :
       c # d => {cl[c].op, cl[d].op} = {"slots", "blocks"}
  /\ \A c \in Sent(cl) :
       /\ cl[c].op # "turf" /\ cl[c].date = pg.viewDate
       /\ cl[c].op = "slots" => ~pg.slotsRead

SlotsFollow(pg, cl, rs, bs) ==
  /\ (\A c \in Sent(cl) : cl[c].op # "slots") => pg.slotsRead \/ pg.slotsError
  /\ pg.slotsRead /\ (\A c \in Sent(cl) : Done(cl[c]) => cl[c].op \in {"blocks", "settings"})
       => SlotsRight(pg, rs, bs)
  /\ \A c \in Sent(cl) :
       /\ Done(cl[c]) /\ cl[c].op \notin {"blocks", "settings"} /\ ~Reloads(cl[c])
       /\ pg.slotsRead \/ cl[c].op = "slots"
       => Succeeded(pg, cl[c]).slots = SlotsOf(pg.viewDate, rs, bs)

BlocksFollow(pg, cl, bs) ==
  /\ (\A c \in Sent(cl) : Done(cl[c]) => cl[c].op \notin {"block", "unblock"})
       => BlocksRight(pg, bs)
  /\ \A c \in Sent(cl) :
       Done(cl[c]) /\ cl[c].op \in {"blocks", "block", "unblock"} =>
         BlocksRight(Succeeded(pg, cl[c]), bs)

SettingsFollow(pg, cl, set) ==
  /\ (\A c \in Sent(cl) : ~(Done(cl[c]) /\ cl[c].op = "settings")) => pg.configured = set
  /\ \A c \in Sent(cl) : Done(cl[c]) /\ cl[c].op = "settings" => cl[c].configured = set

TurfFirst(cl, set) ==
  /\ \A c, d \in Sent(cl) : c = d
  /\ \A c \in Sent(cl) :
       cl[c].op = "turf" /\ (cl[c].phase = "answered" /\ cl[c].ok => cl[c].configured = set)

NothingListed(pg) == pg.listsRead = {} /\ \A b \in Blocks : pg.listed[b] = 0

InStep(pg, cl, set, rs, bs) ==
  pg.past = "serial" =>
    /\ pg.view = "loading" => TurfFirst(cl, set) /\ NothingListed(pg)
    /\ pg.view = "failed" => Sent(cl) = {}
    /\ pg.view = "ready" =>
         /\ Alone(pg, cl) /\ SlotsFollow(pg, cl, rs, bs)
         /\ BlocksFollow(pg, cl, bs) /\ SettingsFollow(pg, cl, set)

PageInStep == InStep(page, call, configured, rows, blocked)

(* A request as it is sent.                                                 *)
LEMMA RequestTyped ==
  ASSUME NEW op \in {"turf", "slots", "blocks"} \cup Writes, NEW item \in ItemsOf(op),
         NEW want \in {"none", "OPEN", "BLOCKED"}, NEW d \in ViewDates
  PROVE  /\ Request(op, item, want, d) \in Call /\ Request(op, item, want, d) # None
         /\ Request(op, item, want, d).op = op /\ Request(op, item, want, d).item = item
         /\ Request(op, item, want, d).want = want /\ Request(op, item, want, d).date = d
         /\ Request(op, item, want, d).phase = "sent" /\ ~Request(op, item, want, d).ok
<1>1. item \in Slots \cup Blocks \cup (Days \X Days) \cup {<<>>}
  BY DEF ItemsOf
<1>2. Request(op, item, want, d) \in Call
  BY <1>1 DEF Request, Call
<1> QED BY <1>2, NoneAssumption DEF Request

LEMMA LoadTyped ==
  ASSUME NEW op \in {"turf", "slots", "blocks"}, NEW d \in ViewDates
  PROVE  /\ Load(op, d) \in Call /\ Load(op, d) # None
         /\ Load(op, d).op = op /\ Load(op, d).date = d /\ Load(op, d).phase = "sent"
         /\ ~Load(op, d).ok
         /\ Load(op, d).item \in ItemsOf(op)
  BY RequestTyped DEF Load, ItemsOf, Writes

(* What the server lists.                                                   *)
LEMMA SlotsTyped ==
  ASSUME NEW rs \in [Slots -> {"none", "OPEN", "BLOCKED"}], NEW bs, NEW d
  PROVE  /\ \A s \in Slots, st \in {"OPEN", "BLOCKED"} : Shown(s, st, bs) \in ShownSlot
         /\ SlotsOf(d, rs, bs) \in SUBSET ShownSlot
<1>1. \A s \in Slots, st \in {"OPEN", "BLOCKED"} : Shown(s, st, bs) \in ShownSlot
  BY DEF Shown, ShownSlot
<1> QED BY <1>1 DEF SlotsOf

(* What the handlers do with a good answer.                                 *)
LEMMA SucceededFields ==
  ASSUME NEW pg \in Page, NEW k \in Call, k.item \in ItemsOf(k.op),
         k.op = "toggle" => k.slots # {}
  PROVE  /\ Succeeded(pg, k) \in Page
         /\ Succeeded(pg, k).view = pg.view /\ Succeeded(pg, k).viewDate = pg.viewDate
         /\ Succeeded(pg, k).past = pg.past /\ Succeeded(pg, k).slotsError = pg.slotsError
         /\ Succeeded(pg, k).slotsRead = IF k.op = "slots" THEN TRUE ELSE pg.slotsRead
         /\ Succeeded(pg, k).listsRead = IF k.op = "blocks" THEN k.lists ELSE pg.listsRead
         /\ Succeeded(pg, k).configured = IF k.op = "settings" THEN k.configured ELSE pg.configured
         /\ Succeeded(pg, k).slots =
              CASE k.op = "slots"  -> k.slots
                [] k.op = "toggle" -> {IF s.id = k.item THEN (CHOOSE x \in k.slots : TRUE) ELSE s :
                                         s \in pg.slots}
                [] k.op = "remove" -> {s \in pg.slots : s.id # k.item}
                [] OTHER           -> pg.slots
         /\ Succeeded(pg, k).listed =
              CASE k.op = "blocks"  -> Lists(k, pg.listed)
                [] k.op = "block"   -> [pg.listed EXCEPT ![k.item] = @ + 1]
                [] k.op = "unblock" -> [pg.listed EXCEPT ![k.item] = 0]
                [] OTHER            -> pg.listed
<1> DEFINE Made(qg, shown, read, listed, brought, set) ==
             /\ qg \in Page /\ qg.view = pg.view /\ qg.viewDate = pg.viewDate
             /\ qg.past = pg.past /\ qg.slotsError = pg.slotsError /\ qg.slots = shown
             /\ qg.slotsRead = read /\ qg.listed = listed /\ qg.listsRead = brought
             /\ qg.configured = set
<1>1. /\ k.op \in {"turf", "slots", "blocks"} \cup Writes /\ k.slots \in SUBSET ShownSlot
      /\ k.lists \in SUBSET Kinds /\ k.configured \in BOOLEAN
      /\ pg.slots \in SUBSET ShownSlot /\ pg.listed \in [Blocks -> Nat]
  BY DEF Call, Page
<1>2. ASSUME NEW ss \in SUBSET ShownSlot
      PROVE  Made([pg EXCEPT !.slots = ss], ss, pg.slotsRead, pg.listed, pg.listsRead, pg.configured)
  BY DEF Page
<1>3. ASSUME NEW listed \in [Blocks -> Nat]
      PROVE  Made([pg EXCEPT !.listed = listed], pg.slots, pg.slotsRead, listed, pg.listsRead,
                  pg.configured)
  BY DEF Page
<1>4. CASE k.op = "slots"
  <2>1. Succeeded(pg, k) = [pg EXCEPT !.slots = k.slots, !.slotsRead = TRUE]
    BY <1>4 DEF Succeeded
  <2>2. Made([pg EXCEPT !.slots = k.slots, !.slotsRead = TRUE], k.slots, TRUE, pg.listed,
             pg.listsRead, pg.configured)
    BY <1>1 DEF Page
  <2> QED BY <1>4, <2>1, <2>2
<1>5. CASE k.op = "blocks"
  <2> DEFINE listed == Lists(k, pg.listed)
  <2>1. listed \in [Blocks -> Nat]
    BY <1>1 DEF Lists
  <2>2. Succeeded(pg, k) = [pg EXCEPT !.listed = listed, !.listsRead = k.lists]
    BY <1>5 DEF Succeeded
  <2> HIDE DEF listed
  <2>3. Made([pg EXCEPT !.listed = listed, !.listsRead = k.lists], pg.slots, pg.slotsRead, listed,
             k.lists, pg.configured)
    BY <1>1, <2>1 DEF Page
  <2> QED BY <1>5, <2>2, <2>3 DEF listed
<1>6. CASE k.op = "settings"
  <2>1. Succeeded(pg, k) = [pg EXCEPT !.configured = k.configured]
    BY <1>6 DEF Succeeded
  <2>2. Made([pg EXCEPT !.configured = k.configured], pg.slots, pg.slotsRead, pg.listed,
             pg.listsRead, k.configured)
    BY <1>1 DEF Page
  <2> QED BY <1>6, <2>1, <2>2
<1>7. CASE k.op = "toggle"
  <2> DEFINE y == CHOOSE x \in k.slots : TRUE
             ss == {IF s.id = k.item THEN y ELSE s : s \in pg.slots}
  <2>1. y \in k.slots
    BY <1>7
  <2>2. Succeeded(pg, k) = [pg EXCEPT !.slots = ss]
    BY <1>7 DEF Succeeded
  <2> HIDE DEF y
  <2>3. ss \in SUBSET ShownSlot
    BY <1>1, <2>1
  <2> HIDE DEF ss
  <2>4. Made(Succeeded(pg, k), ss, pg.slotsRead, pg.listed, pg.listsRead, pg.configured)
    BY <1>2, <2>2, <2>3
  <2> QED BY <1>7, <2>4 DEF y, ss
<1>8. CASE k.op = "remove"
  <2> DEFINE ss == {s \in pg.slots : s.id # k.item}
  <2>1. ss \in SUBSET ShownSlot
    BY <1>1
  <2>2. Succeeded(pg, k) = [pg EXCEPT !.slots = ss]
    BY <1>8 DEF Succeeded
  <2> HIDE DEF ss
  <2>3. Made(Succeeded(pg, k), ss, pg.slotsRead, pg.listed, pg.listsRead, pg.configured)
    BY <1>2, <2>1, <2>2
  <2> QED BY <1>8, <2>3 DEF ss
<1>9. CASE k.op \in {"block", "unblock"}
  <2> DEFINE listed == IF k.op = "block" THEN [pg.listed EXCEPT ![k.item] = @ + 1]
                       ELSE [pg.listed EXCEPT ![k.item] = 0]
  <2>1. k.item \in Blocks
    BY <1>9 DEF ItemsOf
  <2>2. listed \in [Blocks -> Nat]
    BY <1>1, <2>1
  <2>3. Succeeded(pg, k) = [pg EXCEPT !.listed = listed]
    BY <1>9 DEF Succeeded
  <2> HIDE DEF listed
  <2>4. Made(Succeeded(pg, k), pg.slots, pg.slotsRead, listed, pg.listsRead, pg.configured)
    BY <1>3, <2>2, <2>3
  <2> QED BY <1>9, <2>4 DEF listed
<1>10. CASE k.op \in {"turf", "generate"}
  BY <1>10 DEF Succeeded
<1> QED BY <1>1, <1>4, <1>5, <1>6, <1>7, <1>8, <1>9, <1>10 DEF Writes

(* What an answer, a loss or a click changes beside that is only flags.     *)
Same(pg, qg) ==
  /\ pg.view = qg.view /\ pg.viewDate = qg.viewDate /\ pg.past = qg.past
  /\ pg.configured = qg.configured /\ pg.slots = qg.slots
  /\ pg.listed = qg.listed /\ pg.listsRead = qg.listsRead

Alike(pg, qg) == Same(pg, qg) /\ pg.slotsRead = qg.slotsRead /\ pg.slotsError = qg.slotsError

LEMMA FlagsOnly ==
  ASSUME NEW pg \in Page
  PROVE  /\ Loading(pg) \in Page /\ Same(Loading(pg), pg) /\ ~Loading(pg).slotsRead
         /\ \A k \in Call : Ended(pg, k) \in Page /\ Alike(Ended(pg, k), pg)
         /\ \A k \in Call :
              /\ Failed(pg, k) \in Page /\ Same(Failed(pg, k), pg)
              /\ Failed(pg, k).slotsRead = pg.slotsRead
              /\ Failed(pg, k).slotsError =
                   IF k.op \in {"slots", "toggle", "remove"} THEN TRUE ELSE pg.slotsError
         /\ \A op \in Writes : \A item \in ItemsOf(op) :
              Started(pg, op, item) \in Page /\ Alike(Started(pg, op, item), pg)
<1>1. /\ \A loading \in BOOLEAN :
           [pg EXCEPT !.loading = loading] \in Page /\ Alike([pg EXCEPT !.loading = loading], pg)
      /\ \A pending \in Slots \cup {<<>>} :
           [pg EXCEPT !.pending = pending] \in Page /\ Alike([pg EXCEPT !.pending = pending], pg)
      /\ \A busy \in SUBSET {"settings", "generate", "day", "range"} :
           [pg EXCEPT !.busy = busy] \in Page /\ Alike([pg EXCEPT !.busy = busy], pg)
  BY DEF Page, Same, Alike
<1>2. pg.busy \in SUBSET {"settings", "generate", "day", "range"} /\ Alike(pg, pg)
  BY DEF Page, Same, Alike
<1>3. ASSUME NEW k \in Call PROVE Ended(pg, k) \in Page /\ Alike(Ended(pg, k), pg)
  <2>1. \A x : pg.busy \ {x} \in SUBSET {"settings", "generate", "day", "range"}
    BY <1>2
  <2> QED BY <1>1, <1>2, <2>1 DEF Ended
<1>5. Loading(pg) \in Page /\ Same(Loading(pg), pg) /\ ~Loading(pg).slotsRead
  BY DEF Page, Same, Loading
<1>6. ASSUME NEW k \in Call
      PROVE  /\ Failed(pg, k) \in Page /\ Same(Failed(pg, k), pg)
             /\ Failed(pg, k).slotsRead = pg.slotsRead
             /\ Failed(pg, k).slotsError =
                  IF k.op \in {"slots", "toggle", "remove"} THEN TRUE ELSE pg.slotsError
  <2>1. CASE k.op \in {"slots", "toggle", "remove"}
    <3>1. Failed(pg, k) = [pg EXCEPT !.slotsError = TRUE]
      BY <2>1 DEF Failed
    <3> QED BY <2>1, <3>1 DEF Page, Same
  <2>2. CASE k.op \notin {"slots", "toggle", "remove"}
    BY <2>2 DEF Failed, Same
  <2> QED BY <2>1, <2>2
<1>4. ASSUME NEW op \in Writes, NEW item \in ItemsOf(op)
      PROVE  Started(pg, op, item) \in Page /\ Alike(Started(pg, op, item), pg)
  <2>1. CASE op \in {"settings", "generate"}
    <3>1. pg.busy \cup {op} \in SUBSET {"settings", "generate", "day", "range"}
      BY <1>2, <2>1
    <3> QED BY <1>1, <2>1, <3>1 DEF Started
  <2>2. CASE op \in {"toggle", "remove"}
    BY <1>1, <2>2 DEF Started, ItemsOf
  <2>3. CASE op = "block"
    <3>1. item[2] \in {"day", "range"}
      BY <2>3 DEF ItemsOf, Blocks, Kinds
    <3>2. pg.busy \cup {item[2]} \in SUBSET {"settings", "generate", "day", "range"}
      BY <1>2, <3>1
    <3> QED BY <1>1, <2>3, <3>2 DEF Started
  <2>4. CASE op = "unblock"
    BY <1>2, <2>4 DEF Started
  <2> QED BY <2>1, <2>2, <2>3, <2>4 DEF Writes
<1> QED BY <1>3, <1>4, <1>5, <1>6

(* What the page offers is a write, of something it may be about.           *)
LEMMA OfferedTyped ==
  ASSUME page \in Page, NEW offer \in Offered(page)
  PROVE  offer[1] \in Writes /\ offer[2] \in ItemsOf(offer[1])
<1>1. \A s \in page.slots : s.id \in Slots
  BY DEF Page, ShownSlot
<1>2. offer \in SettingsSection(page) \cup GenerateSection(page) \cup SlotList(page)
                  \cup BlockedDatesSection(page) \cup BlockedRangesSection(page)
  BY DEF Offered
<1>3. CASE offer \in SettingsSection(page) \cup GenerateSection(page)
  BY <1>3 DEF SettingsSection, GenerateSection, Writes, ItemsOf
<1>4. CASE offer \in SlotList(page)
  BY <1>1, <1>4 DEF SlotList, Writes, ItemsOf
<1>5. CASE offer \in BlockedDatesSection(page) \cup BlockedRangesSection(page)
  BY <1>5 DEF BlockedDatesSection, BlockedRangesSection, Unblockable, Blockable, Writes, ItemsOf
<1> QED BY <1>2, <1>3, <1>4, <1>5

(* A request that fits what it is about.                                    *)
Fit(k) ==
  /\ k \in Call /\ k.item \in ItemsOf(k.op) /\ (k.phase = "sent" => ~k.ok)
  /\ k.op = "toggle" => IF k.phase = "sent" THEN k.want # "none" ELSE k.ok => k.slots # {}

ServerTyped ==
  /\ configured \in BOOLEAN
  /\ rows \in [Slots -> {"none", "OPEN", "BLOCKED"}]
  /\ blocked \subseteq spent /\ spent \subseteq Blocks

LEMMA PageTyped ==
  /\ PageTypeOK <=> /\ ServerTyped /\ page \in Page /\ call \in [Calls -> Call \cup {None}]
                    /\ \A c \in Calls : call[c] # None => Fit(call[c])
  /\ \A c \in Calls : \A k :
       /\ PageTypeOK /\ ServerTyped' /\ page' \in Page
       /\ k = None \/ Fit(k)
       /\ call' = [call EXCEPT ![c] = k]
       => PageTypeOK' /\ call'[c] = k /\ \A d \in Calls \ {c} : call'[d] = call[d]
<1>1. PageTypeOK <=> /\ ServerTyped /\ page \in Page /\ call \in [Calls -> Call \cup {None}]
                     /\ \A c \in Calls : call[c] # None => Fit(call[c])
  BY NoneAssumption DEF PageTypeOK, ServerTyped, Fit
<1>2. PageTypeOK' <=> /\ ServerTyped' /\ page' \in Page /\ call' \in [Calls -> Call \cup {None}]
                      /\ \A c \in Calls : call'[c] # None => Fit(call'[c])
  BY NoneAssumption DEF PageTypeOK, ServerTyped, Fit
<1>3. ASSUME NEW c \in Calls, NEW k, PageTypeOK, ServerTyped', page' \in Page,
             k = None \/ Fit(k), call' = [call EXCEPT ![c] = k]
      PROVE  PageTypeOK' /\ call'[c] = k /\ \A d \in Calls \ {c} : call'[d] = call[d]
  <2>1. \A d \in Calls : call'[d] = IF d = c THEN k ELSE call[d]
    BY <1>1, <1>3
  <2>2. k \in Call \cup {None}
    BY <1>3 DEF Fit
  <2>3. call' \in [Calls -> Call \cup {None}]
    BY <1>1, <1>3, <2>2
  <2> QED BY <1>1, <1>2, <1>3, <2>1, <2>3
<1> QED BY <1>1, <1>3

(* What a click, or another date, does.                                     *)
Asks(c, op, d) ==
  /\ call[c] = None /\ page.view = "ready" /\ UNCHANGED server
  /\ page' \in Page
  /\ page'.view = page.view /\ page'.viewDate = d /\ page'.configured = page.configured
  /\ page'.slots = page.slots /\ page'.listed = page.listed
  /\ page'.listsRead = page.listsRead /\ page'.past = Overlaps(page)
  /\ IF op = "slots" THEN ~page'.slotsRead
     ELSE page'.slotsRead = page.slotsRead /\ page'.slotsError = page.slotsError
  /\ call'[c] # None /\ call'[c].op = op /\ call'[c].date = d /\ call'[c].phase = "sent"
  /\ \A x \in Calls \ {c} : call'[x] = call[x]
  /\ PageTypeOK'

LEMMA Asked ==
  ASSUME PageTypeOK, NEW c \in Calls
  PROVE  /\ \A offer \in Offered(page) :
              Click(c, offer[1], offer[2]) => Asks(c, offer[1], page.viewDate) /\ offer[1] \in Writes
         /\ \A d \in ViewDates : SetViewDate(c, d) => Asks(c, "slots", d)
<1>1. ServerTyped /\ page \in Page /\ page.viewDate \in ViewDates /\ page.acts \in Nat
      /\ Overlaps(page) \in {"serial", "overlapped", "disturbed"}
  BY PageTyped DEF Page, Overlaps
<1>2. UNCHANGED server => ServerTyped'
  BY <1>1 DEF server, ServerTyped
<1>3. ASSUME NEW offer \in Offered(page), Click(c, offer[1], offer[2])
      PROVE  Asks(c, offer[1], page.viewDate) /\ offer[1] \in Writes
  <2> DEFINE op == offer[1]
             item == offer[2]
  <2>1. op \in Writes /\ item \in ItemsOf(op) /\ page.view = "ready"
    BY <1>1, <1>3, OfferedTyped DEF Offered
  <2> HIDE DEF op, item
  <2>2. PICK want \in IF op = "toggle" THEN {Opposite(s) : s \in {x \in page.slots : x.id = item}}
                      ELSE {"none"} :
          call' = [call EXCEPT ![c] = Request(op, item, want, page.viewDate)]
    BY <1>3 DEF Click, op, item
  <2>3. want \in {"none", "OPEN", "BLOCKED"} /\ (op = "toggle" => want # "none")
    BY <2>2 DEF Opposite
  <2> DEFINE k == Request(op, item, want, page.viewDate)
  <2>4. /\ op \in {"turf", "slots", "blocks"} \cup Writes
         /\ item \in ItemsOf(op) /\ page.viewDate \in ViewDates
    BY <1>1, <2>1
  <2>5. /\ k \in Call /\ k # None /\ k.op = op /\ k.item = item /\ k.date = page.viewDate
         /\ k.phase = "sent" /\ ~k.ok /\ k.want = want
    <3>1. k \in Call /\ k # None
      BY <2>3, <2>4, RequestTyped
    <3> QED BY <3>1 DEF Request
  <2>6. call' = [call EXCEPT ![c] = k]
    BY <2>2
  <2> HIDE DEF k
  <2>7. Fit(k)
    BY <2>1, <2>3, <2>5 DEF Fit
  <2>8. /\ page' = [Started(page, op, item) EXCEPT !.past = Overlaps(page), !.acts = @ + 1]
        /\ call[c] = None /\ UNCHANGED server
    BY <1>3 DEF Click, op, item
  <2>9. Started(page, op, item) \in Page /\ Alike(Started(page, op, item), page)
    BY <1>1, <2>1, FlagsOnly
  <2>10. /\ page' \in Page /\ page'.past = Overlaps(page) /\ page'.view = page.view
        /\ page'.viewDate = page.viewDate /\ page'.configured = page.configured
        /\ page'.slots = page.slots /\ page'.listed = page.listed
        /\ page'.listsRead = page.listsRead /\ page'.slotsRead = page.slotsRead
        /\ page'.slotsError = page.slotsError
    <3> DEFINE pg == Started(page, op, item)
    <3>1. page' = [pg EXCEPT !.past = Overlaps(page), !.acts = pg.acts + 1]
      BY <2>8
    <3>2. pg \in Page /\ Alike(pg, page)
      BY <2>9
    <3> HIDE DEF pg
    <3>3. pg.acts + 1 \in Nat
      BY <3>2 DEF Page
    <3>4. page' \in Page
      BY <1>1, <3>1, <3>2, <3>3 DEF Page
    <3>5. /\ page'.past = Overlaps(page) /\ page'.view = pg.view
          /\ page'.viewDate = pg.viewDate /\ page'.configured = pg.configured
          /\ page'.slots = pg.slots /\ page'.listed = pg.listed
          /\ page'.listsRead = pg.listsRead /\ page'.slotsRead = pg.slotsRead
          /\ page'.slotsError = pg.slotsError
      BY <3>1, <3>2 DEF Page
    <3> QED BY <3>2, <3>4, <3>5 DEF Same, Alike
  <2>11. PageTypeOK' /\ call'[c] = k /\ \A x \in Calls \ {c} : call'[x] = call[x]
    BY <1>2, <2>7, <2>6, <2>8, <2>10, PageTyped
  <2>12. op # "slots"
    BY <2>1 DEF Writes
  <2> QED BY <2>1, <2>8, <2>10, <2>11, <2>12, <2>5 DEF Asks, op
<1>4. ASSUME NEW d \in ViewDates, SetViewDate(c, d) PROVE Asks(c, "slots", d)
  <2>1. /\ page' = [Loading(page) EXCEPT !.viewDate = d, !.past = Overlaps(page), !.acts = @ + 1]
        /\ call[c] = None /\ page.view = "ready" /\ UNCHANGED server
        /\ call' = [call EXCEPT ![c] = Load("slots", d)]
    BY <1>4 DEF SetViewDate
  <2>2. Loading(page) \in Page /\ Same(Loading(page), page) /\ ~Loading(page).slotsRead
    BY <1>1, FlagsOnly
  <2>3. /\ page' \in Page /\ page'.past = Overlaps(page) /\ page'.view = page.view
        /\ page'.viewDate = d /\ page'.configured = page.configured
        /\ page'.slots = page.slots /\ page'.listed = page.listed
        /\ page'.listsRead = page.listsRead /\ ~page'.slotsRead
    <3> DEFINE pg == Loading(page)
    <3>1. page' = [pg EXCEPT !.viewDate = d, !.past = Overlaps(page), !.acts = pg.acts + 1]
      BY <2>1
    <3>2. pg \in Page /\ Same(pg, page) /\ ~pg.slotsRead
      BY <2>2
    <3> HIDE DEF pg
    <3>3. pg.acts + 1 \in Nat
      BY <3>2 DEF Page
    <3>4. page' \in Page
      BY <1>1, <3>1, <3>2, <3>3 DEF Page
    <3>5. /\ page'.past = Overlaps(page) /\ page'.view = pg.view
          /\ page'.viewDate = d /\ page'.configured = pg.configured
          /\ page'.slots = pg.slots /\ page'.listed = pg.listed
          /\ page'.listsRead = pg.listsRead /\ page'.slotsRead = pg.slotsRead
      BY <3>1, <3>2 DEF Page
    <3> QED BY <3>2, <3>4, <3>5 DEF Same
  <2> DEFINE k == Load("slots", d)
  <2>4. Fit(k) /\ k # None /\ k.op = "slots" /\ k.date = d /\ k.phase = "sent"
    BY LoadTyped DEF Fit
  <2>5. call' = [call EXCEPT ![c] = k]
    BY <2>1
  <2> HIDE DEF k
  <2>6. PageTypeOK' /\ call'[c] = k /\ \A x \in Calls \ {c} : call'[x] = call[x]
    BY <1>2, <2>1, <2>3, <2>4, <2>5, PageTyped
  <2> QED BY <2>1, <2>3, <2>4, <2>6 DEF Asks
<1> QED BY <1>3, <1>4

(* What the server does with a request k, which becomes a.                  *)
Carried(k, a) ==
  \/ k.op = "turf"   /\ UNCHANGED server /\ a.configured = configured
  \/ k.op = "slots"  /\ UNCHANGED server /\ a.slots = SlotsOf(k.date, rows, blocked)
  \/ /\ k.op = "blocks" /\ UNCHANGED server /\ a.blocks = {b \in blocked : b[2] \in a.lists}
     /\ a.lists \in SUBSET Kinds
  \/ /\ k.op = "settings" /\ configured' = TRUE /\ UNCHANGED <<rows, blocked>>
     /\ a.configured = TRUE
  \/ /\ k.op = "generate" /\ rows' = Generated(k.item[1], k.item[2])
     /\ UNCHANGED <<configured, blocked>>
  \/ /\ k.op = "toggle" /\ rows[k.item] # "none" /\ k.want \in {"OPEN", "BLOCKED"}
     /\ rows' = [rows EXCEPT ![k.item] = k.want] /\ UNCHANGED <<configured, blocked>>
     /\ a.slots = {Shown(k.item, k.want, blocked)}
  \/ /\ k.op = "remove" /\ rows' = [rows EXCEPT ![k.item] = "none"]
     /\ UNCHANGED <<configured, blocked>>
  \/ /\ k.op = "block" /\ k.item \notin blocked /\ blocked' = blocked \cup {k.item}
     /\ UNCHANGED <<configured, rows>>
  \/ /\ k.op = "unblock" /\ blocked' = blocked \ {k.item}
     /\ UNCHANGED <<configured, rows>>

Serves(c) ==
  /\ call[c] # None /\ call[c].phase = "sent" /\ page' = page
  /\ Fit(call[c]) /\ Fit(call'[c]) /\ call'[c] # None
  /\ call'[c].op = call[c].op /\ call'[c].item = call[c].item /\ call'[c].date = call[c].date
  /\ call'[c].phase = "answered"
  /\ \/ call'[c].ok /\ Carried(call[c], call'[c])
     \/ ~call'[c].ok /\ UNCHANGED server
  /\ \A x \in Calls \ {c} : call'[x] = call[x]
  /\ PageTypeOK'

LEMMA ServeServes == ASSUME PageTypeOK, NEW c \in Calls, Serve(c) PROVE Serves(c)
<1> DEFINE k == call[c]
<1>1. /\ call[c] # None /\ call[c].phase = "sent" /\ page' = page
  BY DEF Serve, ServeTurf, ServeSlots, ServeBlocks, ServeSettings, ServeGenerate, ServeToggle,
         ServeRemove, ServeBlock, ServeUnblock, Refuse, Arrived
<1>2. ServerTyped /\ page \in Page /\ call \in [Calls -> Call \cup {None}] /\ Fit(k)
  BY <1>1, PageTyped
<1>3. k \in Call /\ k.item \in ItemsOf(k.op)
  BY <1>2 DEF Fit
<1>4. ASSUME NEW a, Fit(a), call' = [call EXCEPT ![c] = a], ServerTyped',
             a.op = k.op, a.item = k.item, a.date = k.date, a.phase = "answered",
             \/ a.ok /\ Carried(k, a)
             \/ ~a.ok /\ UNCHANGED server
      PROVE  Serves(c)
  <2>1. PageTypeOK' /\ call'[c] = a /\ \A x \in Calls \ {c} : call'[x] = call[x]
    BY <1>1, <1>2, <1>4, PageTyped
  <2>2. a # None
    BY <1>4, NoneAssumption DEF Fit
  <2> QED BY <1>1, <1>2, <1>4, <2>1, <2>2 DEF Serves
<1> DEFINE brought(lists) == {b \in blocked : b[2] \in lists}
           answer(ss, lists) ==
             [k EXCEPT !.phase = "answered", !.ok = TRUE, !.want = "none", !.slots = ss,
                       !.lists = lists, !.blocks = brought(lists),
                       !.configured = configured' /\ k.op \in {"turf", "settings"}]
(* A request that is carried out.                                           *)
<1>5. ASSUME NEW ss \in SUBSET ShownSlot, NEW lists \in SUBSET Kinds,
             Reply(c, ss, lists), ServerTyped', k.op = "toggle" => ss # {},
             \A a : /\ a.op = k.op /\ a.slots = ss /\ a.lists = lists /\ a.blocks = brought(lists)
                    /\ a.configured = (configured' /\ k.op \in {"turf", "settings"})
                    => Carried(k, a)
      PROVE  Serves(c)
  <2> DEFINE a == answer(ss, lists)
  <2>1. /\ (configured' /\ k.op \in {"turf", "settings"}) \in BOOLEAN
        /\ brought(lists) \in SUBSET Blocks
    BY <1>2 DEF ServerTyped
  <2> HIDE DEF brought
  <2>2. /\ a \in Call /\ a.op = k.op /\ a.item = k.item /\ a.date = k.date /\ a.phase = "answered"
        /\ a.ok = TRUE /\ a.slots = ss /\ a.lists = lists /\ a.blocks = brought(lists)
        /\ a.configured = (configured' /\ k.op \in {"turf", "settings"})
    BY <1>3, <2>1 DEF Call
  <2>3. call' = [call EXCEPT ![c] = a]
    BY <1>2, <1>5 DEF Reply, brought
  <2> HIDE DEF a
  <2>4. Fit(a)
    BY <1>3, <1>5, <2>2 DEF Fit
  <2>5. Carried(k, a)
    BY <1>5, <2>2
  <2> QED BY <1>4, <1>5, <2>2, <2>3, <2>4, <2>5
<1> HIDE DEF k
<1>6. UNCHANGED server => ServerTyped'
  BY <1>2 DEF server, ServerTyped
<1>7. /\ SlotsOf(k.date, rows, blocked) \in SUBSET ShownSlot
      /\ {} \in SUBSET ShownSlot /\ {} \in SUBSET Kinds
  BY <1>2, SlotsTyped DEF ServerTyped
<1>8. CASE ServeTurf(c)
  <2>1. k.op = "turf" /\ UNCHANGED server /\ Reply(c, {}, {}) /\ configured' = configured
        /\ configured \in BOOLEAN
    BY <1>2, <1>8 DEF ServeTurf, Arrived, server, k, ServerTyped
  <2> QED BY <1>5, <1>6, <1>7, <2>1 DEF Carried
<1>9. CASE ServeSlots(c)
  <2>1. k.op = "slots" /\ UNCHANGED server /\ Reply(c, SlotsOf(k.date, rows, blocked), {})
    BY <1>9 DEF ServeSlots, Arrived, k
  <2> QED BY <1>5, <1>6, <1>7, <2>1 DEF Carried
<1>10. CASE ServeBlocks(c)
  <2>1. PICK lists \in SUBSET Kinds : k.op = "blocks" /\ UNCHANGED server /\ Reply(c, {}, lists)
    BY <1>10 DEF ServeBlocks, Arrived, k
  <2>2. \A a : a.op = k.op /\ a.lists = lists /\ a.blocks = brought(lists) => Carried(k, a)
    BY <2>1 DEF Carried
  <2> QED BY <1>5, <1>6, <1>7, <2>1, <2>2
<1>11. CASE ServeSettings(c)
  <2>1. /\ k.op = "settings" /\ configured' = TRUE /\ UNCHANGED <<rows, blocked, spent>>
        /\ Reply(c, {}, {})
    BY <1>11 DEF ServeSettings, Arrived, k
  <2>2. ServerTyped'
    BY <1>2, <2>1 DEF ServerTyped
  <2> QED BY <1>5, <1>7, <2>1, <2>2 DEF Carried
<1>12. CASE ServeGenerate(c)
  <2>1. /\ k.op = "generate" /\ rows' = Generated(k.item[1], k.item[2])
        /\ UNCHANGED <<configured, blocked, spent>> /\ Reply(c, {}, {})
    BY <1>12 DEF ServeGenerate, Arrived, k
  <2>2. ServerTyped'
    BY <1>2, <2>1 DEF ServerTyped, Generated
  <2> QED BY <1>5, <1>7, <2>1, <2>2 DEF Carried
<1>13. CASE ServeToggle(c)
  <2>1. /\ k.op = "toggle" /\ rows[k.item] # "none" /\ rows' = [rows EXCEPT ![k.item] = k.want]
        /\ UNCHANGED <<configured, blocked, spent>>
        /\ Reply(c, {Shown(k.item, k.want, blocked)}, {})
    BY <1>13 DEF ServeToggle, Arrived, k
  <2>2. k.want \in {"OPEN", "BLOCKED"} /\ k.item \in Slots
    BY <1>1, <1>2, <1>3, <2>1 DEF Fit, Call, ItemsOf, k
  <2>3. ServerTyped'
    BY <1>2, <2>1, <2>2 DEF ServerTyped
  <2>4. {Shown(k.item, k.want, blocked)} \in SUBSET ShownSlot
    BY <1>2, <2>2, SlotsTyped DEF ServerTyped
  <2>5. \A a : a.slots = {Shown(k.item, k.want, blocked)} => Carried(k, a)
    BY <2>1, <2>2 DEF Carried
  <2> QED BY <1>5, <1>7, <2>1, <2>3, <2>4, <2>5
<1>14. CASE ServeRemove(c)
  <2>1. /\ k.op = "remove" /\ rows' = [rows EXCEPT ![k.item] = "none"]
        /\ UNCHANGED <<configured, blocked, spent>> /\ Reply(c, {}, {})
    BY <1>14 DEF ServeRemove, Arrived, k
  <2>2. ServerTyped'
    BY <1>2, <2>1 DEF ServerTyped
  <2> QED BY <1>5, <1>7, <2>1, <2>2 DEF Carried
<1>15. CASE ServeBlock(c)
  <2>1. /\ k.op = "block" /\ k.item \notin spent /\ blocked' = blocked \cup {k.item}
        /\ spent' = spent \cup {k.item}
        /\ UNCHANGED <<configured, rows>> /\ Reply(c, {}, {})
    BY <1>15 DEF ServeBlock, Arrived, Free, k
  <2>2. k.item \in Blocks /\ k.item \notin blocked
    BY <1>2, <1>3, <2>1 DEF ItemsOf, ServerTyped
  <2>3. ServerTyped'
    BY <1>2, <2>1, <2>2 DEF ServerTyped
  <2> QED BY <1>5, <1>7, <2>1, <2>2, <2>3 DEF Carried
<1>16. CASE ServeUnblock(c)
  <2>1. /\ k.op = "unblock" /\ blocked' = blocked \ {k.item}
        /\ UNCHANGED <<configured, rows, spent>> /\ Reply(c, {}, {})
    BY <1>16 DEF ServeUnblock, Arrived, k
  <2>2. ServerTyped'
    BY <1>2, <2>1 DEF ServerTyped
  <2> QED BY <1>5, <1>7, <2>1, <2>2 DEF Carried
<1>17. CASE Refuse(c)
  <2> DEFINE a == [k EXCEPT !.phase = "answered"]
  <2>1. /\ a \in Call /\ a.op = k.op /\ a.item = k.item /\ a.date = k.date /\ a.phase = "answered"
        /\ a.ok = k.ok
    BY <1>3 DEF Call
  <2>2. call' = [call EXCEPT ![c] = a]
    BY <1>2, <1>17 DEF Refuse, k
  <2> HIDE DEF a
  <2>3. UNCHANGED server /\ k.phase = "sent"
    BY <1>17 DEF Refuse, k
  <2>4. ~k.ok
    BY <1>2, <2>3 DEF Fit
  <2>5. Fit(a)
    BY <1>3, <2>1, <2>4 DEF Fit
  <2> QED BY <1>4, <1>6, <2>1, <2>2, <2>3, <2>4, <2>5
<1> QED BY <1>8, <1>9, <1>10, <1>11, <1>12, <1>13, <1>14, <1>15, <1>16, <1>17 DEF Serve

(* What a handler does with its answer.                                     *)
Answers(c) ==
  /\ call[c] # None /\ call[c].op # "turf" /\ call[c].phase = "answered" /\ UNCHANGED server
  /\ Same(page', IF call[c].ok THEN Succeeded(page, call[c]) ELSE page)
  /\ IF call[c].ok /\ Reloads(call[c])
     THEN /\ call'[c] # None /\ call'[c].op = "slots" /\ call'[c].phase = "sent"
          /\ call'[c].date = call[c].date
          /\ ~page'.slotsRead
     ELSE /\ call'[c] = None
          /\ page'.slotsRead = IF call[c].ok /\ call[c].op = "slots" THEN TRUE ELSE page.slotsRead
          /\ page'.slotsError = IF ~call[c].ok /\ call[c].op \in {"slots", "toggle", "remove"}
                                THEN TRUE ELSE page.slotsError
  /\ \A x \in Calls \ {c} : call'[x] = call[x]
  /\ PageTypeOK'

LEMMA AnswerAnswers == ASSUME PageTypeOK, NEW c \in Calls, Answer(c) PROVE Answers(c)
<1> DEFINE k  == call[c]
           pg == IF k.ok THEN Succeeded(page, k) ELSE Failed(page, k)
           qg == Ended(pg, k)
<1>1. /\ call[c] # None /\ k.op # "turf" /\ k.phase = "answered" /\ UNCHANGED server
      /\ page' = IF k.ok /\ Reloads(k) THEN Loading(qg) ELSE qg
      /\ call' = [call EXCEPT ![c] = IF k.ok /\ Reloads(k) THEN Load("slots", k.date) ELSE None]
  BY DEF Answer
<1>2. ServerTyped /\ ServerTyped' /\ page \in Page /\ Fit(k)
  BY <1>1, PageTyped DEF server, ServerTyped
<1>3. k \in Call /\ k.item \in ItemsOf(k.op) /\ (k.op = "toggle" /\ k.ok => k.slots # {})
      /\ k.date \in ViewDates
  BY <1>1, <1>2 DEF Fit, Call
<1> HIDE DEF k
<1>4. /\ pg \in Page /\ Same(pg, IF k.ok THEN Succeeded(page, k) ELSE page)
      /\ pg.slotsRead = IF k.ok /\ k.op = "slots" THEN TRUE ELSE page.slotsRead
      /\ pg.slotsError = IF ~k.ok /\ k.op \in {"slots", "toggle", "remove"}
                         THEN TRUE ELSE page.slotsError
  <2>1. CASE k.ok
    <3>1. pg = Succeeded(page, k)
      BY <2>1
    <3>2. /\ Succeeded(page, k) \in Page /\ Succeeded(page, k).slotsError = page.slotsError
          /\ Succeeded(page, k).slotsRead = IF k.op = "slots" THEN TRUE ELSE page.slotsRead
      BY <1>2, <1>3, <2>1, SucceededFields
    <3> HIDE DEF pg
    <3> QED BY <2>1, <3>1, <3>2 DEF Same
  <2>2. CASE ~k.ok
    <3>1. pg = Failed(page, k)
      BY <2>2
    <3> HIDE DEF pg
    <3> QED BY <1>2, <1>3, <2>2, <3>1, FlagsOnly
  <2> QED BY <2>1, <2>2
<1> HIDE DEF pg
<1>5. qg \in Page /\ Alike(qg, pg)
  BY <1>3, <1>4, FlagsOnly
<1> HIDE DEF qg
<1>6. Loading(qg) \in Page /\ Same(Loading(qg), qg) /\ ~Loading(qg).slotsRead
  BY <1>5, FlagsOnly
<1>7. /\ page' \in Page /\ Same(page', pg)
      /\ IF k.ok /\ Reloads(k) THEN ~page'.slotsRead ELSE Alike(page', pg)
  BY <1>1, <1>5, <1>6 DEF Same, Alike
<1>8. Same(page', IF k.ok THEN Succeeded(page, k) ELSE page)
  BY <1>4, <1>7 DEF Same
<1> DEFINE a == IF k.ok /\ Reloads(k) THEN Load("slots", k.date) ELSE None
<1>9. /\ a = None \/ Fit(a)
      /\ IF k.ok /\ Reloads(k)
         THEN a # None /\ a.op = "slots" /\ a.phase = "sent" /\ a.date = k.date
         ELSE a = None
  BY <1>3, LoadTyped DEF Fit
<1>10. call' = [call EXCEPT ![c] = a]
  BY <1>1
<1> HIDE DEF a
<1>11. PageTypeOK' /\ call'[c] = a /\ \A x \in Calls \ {c} : call'[x] = call[x]
  BY <1>2, <1>7, <1>9, <1>10, PageTyped
<1>12. CASE k.ok /\ Reloads(k)
  BY <1>1, <1>7, <1>8, <1>9, <1>11, <1>12 DEF Answers, k
<1>13. CASE ~(k.ok /\ Reloads(k))
  <2>1. page'.slotsRead = pg.slotsRead /\ page'.slotsError = pg.slotsError
    BY <1>7, <1>13 DEF Alike
  <2> QED BY <1>1, <1>4, <1>8, <1>9, <1>11, <1>13, <2>1 DEF Answers, k
<1> QED BY <1>12, <1>13

(* What a load of slots or of blocks that has no answer does.               *)
Drops(c) ==
  /\ call[c] # None /\ call[c].op \in {"slots", "blocks"} /\ UNCHANGED server
  /\ Same(page', page) /\ page'.slotsRead = page.slotsRead
  /\ page'.slotsError = IF call[c].op = "slots" THEN TRUE ELSE page.slotsError
  /\ call'[c] = None /\ \A x \in Calls \ {c} : call'[x] = call[x]
  /\ PageTypeOK'

LEMMA Lost ==
  ASSUME PageTypeOK, NEW c \in Calls, Lose(c)
  PROVE  /\ PageTypeOK'
         /\ \/ page'.past = "disturbed"
            \/ /\ c \in Sent(call) /\ call[c].op = "turf" /\ page'.view = "failed"
               /\ page'.past = page.past /\ Sent(call') = Sent(call) \ {c}
            \/ Drops(c)
<1> DEFINE k  == call[c]
           fg == Failed(page, k)
           pg == IF k.op = "turf" THEN [page EXCEPT !.view = "failed"] ELSE Ended(fg, k)
           past == IF k.op \in Writes THEN "disturbed" ELSE pg.past
<1>1. /\ k # None /\ UNCHANGED server /\ page' = [pg EXCEPT !.past = past]
      /\ call' = [call EXCEPT ![c] = None]
  BY DEF Lose
<1>2. ServerTyped /\ ServerTyped' /\ page \in Page /\ k \in Call
  BY <1>1, PageTyped DEF Fit, server, ServerTyped
<1> HIDE DEF k
<1>3. /\ fg \in Page /\ Same(fg, page) /\ fg.slotsRead = page.slotsRead
      /\ fg.slotsError = IF k.op \in {"slots", "toggle", "remove"} THEN TRUE ELSE page.slotsError
  BY <1>2, FlagsOnly
<1> HIDE DEF fg
<1>4. Ended(fg, k) \in Page /\ Alike(Ended(fg, k), fg)
  BY <1>2, <1>3, FlagsOnly
<1>5. /\ [page EXCEPT !.view = "failed"] \in Page /\ [page EXCEPT !.view = "failed"].view = "failed"
      /\ [page EXCEPT !.view = "failed"].past = page.past
  BY <1>2 DEF Page
<1>6. /\ pg \in Page /\ (k.op = "turf" => pg.view = "failed" /\ pg.past = page.past)
      /\ (k.op # "turf" => pg = Ended(fg, k))
  BY <1>4, <1>5
<1> HIDE DEF pg
<1>7. /\ page' \in Page /\ page'.past = past /\ page'.view = pg.view /\ page'.viewDate = pg.viewDate
      /\ page'.configured = pg.configured /\ page'.slots = pg.slots /\ page'.listed = pg.listed
      /\ page'.listsRead = pg.listsRead /\ page'.slotsRead = pg.slotsRead
      /\ page'.slotsError = pg.slotsError
  <2>1. past \in {"serial", "overlapped", "disturbed"}
    BY <1>6 DEF Page
  <2> HIDE DEF past
  <2> QED BY <1>1, <1>6, <2>1 DEF Page
<1>8. PageTypeOK' /\ call'[c] = None /\ \A x \in Calls \ {c} : call'[x] = call[x]
  BY <1>1, <1>2, <1>7, PageTyped
<1>9. ASSUME k.op \in {"slots", "blocks"} PROVE Drops(c)
  <2>1. k.op \notin Writes /\ k.op # "turf" /\ (k.op = "slots" <=> k.op \in {"slots", "toggle", "remove"})
    BY <1>9 DEF Writes
  <2>2. pg = Ended(fg, k) /\ page'.past = pg.past
    BY <1>6, <1>7, <2>1
  <2>3. Alike(page', fg)
    BY <1>4, <1>7, <2>2 DEF Alike, Same
  <2>4. Same(page', page) /\ page'.slotsRead = page.slotsRead
    BY <1>3, <2>3 DEF Alike, Same
  <2>5. page'.slotsError = IF k.op = "slots" THEN TRUE ELSE page.slotsError
    BY <1>3, <2>1, <2>3 DEF Alike
  <2> QED BY <1>1, <1>8, <1>9, <2>4, <2>5 DEF Drops, k
<1>10. k.op = "turf" \/ k.op \in {"slots", "blocks"} \/ k.op \in Writes
  BY <1>2 DEF Call
<1>11. c \in Sent(call) /\ Sent(call') = Sent(call) \ {c}
  BY <1>1, <1>8 DEF Sent, k
<1>12. k.op = "turf" => page'.view = "failed" /\ page'.past = page.past
  BY <1>6, <1>7 DEF Writes
<1>13. k.op \in Writes => page'.past = "disturbed"
  BY <1>7
<1> QED BY <1>8, <1>9, <1>10, <1>11, <1>12, <1>13 DEF k

(* Another session ends the history of a page in step.                      *)
LEMMA Disturbs == ASSUME PageTypeOK, Elsewhere PROVE PageTypeOK' /\ page'.past = "disturbed"
<1>1. ServerTyped /\ page \in Page
  BY PageTyped
<1>2. page' = [page EXCEPT !.past = "disturbed", !.acts = page.acts + 1] /\ UNCHANGED call
  BY DEF Elsewhere
<1>3. page.acts + 1 \in Nat
  BY <1>1 DEF Page
<1>4. page' \in Page /\ page'.past = "disturbed"
  BY <1>1, <1>2, <1>3 DEF Page
<1>5. ServerTyped'
  BY <1>1 DEF Elsewhere, ServerTyped, Free
<1> QED BY <1>2, <1>4, <1>5 DEF PageTypeOK, ServerTyped

(* The turf was loaded, or was not.                                         *)
LoadsTwo(c, c2) ==
  /\ c2 # c /\ call[c2] = None
  /\ page'.view = "ready" /\ page'.viewDate = page.viewDate /\ page'.past = page.past
  /\ page'.configured = call[c].configured /\ page'.listed = page.listed
  /\ page'.listsRead = page.listsRead /\ ~page'.slotsRead
  /\ call'[c] # None /\ call'[c].op = "slots" /\ call'[c].phase = "sent"
  /\ call'[c].date = page.viewDate
  /\ call'[c2] # None /\ call'[c2].op = "blocks" /\ call'[c2].phase = "sent"
  /\ call'[c2].date = page.viewDate
  /\ \A x \in Calls \ {c, c2} : call'[x] = call[x]

LEMMA TurfAnswered ==
  ASSUME PageTypeOK, NEW c \in Calls, NEW c2 \in Calls, AnswerTurf(c, c2)
  PROVE  /\ call[c] # None /\ call[c].op = "turf" /\ call[c].phase = "answered" /\ UNCHANGED server
         /\ IF call[c].ok THEN LoadsTwo(c, c2)
            ELSE page'.view = "failed" /\ Sent(call') = Sent(call) \ {c}
         /\ PageTypeOK'
<1>1. /\ call[c] # None /\ call[c].op = "turf" /\ call[c].phase = "answered" /\ UNCHANGED server
  BY DEF AnswerTurf
<1>2. /\ ServerTyped /\ ServerTyped' /\ page \in Page /\ call[c] \in Call
      /\ call \in [Calls -> Call \cup {None}] /\ page.viewDate \in ViewDates
  BY <1>1, PageTyped DEF server, ServerTyped, Page, Fit
<1>3. CASE call[c].ok
  <2>1. /\ call[c2] = None
        /\ page' = [Loading(page) EXCEPT !.view = "ready", !.configured = call[c].configured]
        /\ call' = [call EXCEPT ![c]  = Load("slots", page.viewDate),
                                ![c2] = Load("blocks", page.viewDate)]
    BY <1>3 DEF AnswerTurf
  <2>2. /\ Loading(page) \in Page /\ Same(Loading(page), page) /\ ~Loading(page).slotsRead
        /\ call[c].configured \in BOOLEAN
    BY <1>2, FlagsOnly DEF Call
  <2>3. page' \in Page
    BY <2>1, <2>2 DEF Page
  <2>4. /\ page'.view = "ready" /\ page'.viewDate = Loading(page).viewDate
        /\ page'.past = Loading(page).past /\ page'.configured = call[c].configured
        /\ page'.listed = Loading(page).listed /\ page'.listsRead = Loading(page).listsRead
        /\ page'.slotsRead = Loading(page).slotsRead
    BY <2>1, <2>2 DEF Page
  <2> DEFINE a  == Load("slots", page.viewDate)
             a2 == Load("blocks", page.viewDate)
  <2>5. /\ a # None /\ a.op = "slots" /\ a.phase = "sent" /\ a.date = page.viewDate
        /\ a2 # None /\ a2.op = "blocks" /\ a2.phase = "sent" /\ a2.date = page.viewDate
        /\ Fit(a) /\ Fit(a2)
    BY <1>2, LoadTyped DEF Fit
  <2>6. call' = [call EXCEPT ![c] = a, ![c2] = a2]
    BY <2>1
  <2> HIDE DEF a, a2
  <2>7. c2 # c /\ call'[c] = a /\ call'[c2] = a2 /\ \A x \in Calls \ {c, c2} : call'[x] = call[x]
    BY <1>1, <1>2, <2>1, <2>6
  <2>8. LoadsTwo(c, c2)
    BY <2>1, <2>2, <2>4, <2>5, <2>7 DEF LoadsTwo, Same
  <2>9. PageTypeOK'
    <3>1. a \in Call /\ a2 \in Call
      BY <2>5 DEF Fit
    <3>2. call' \in [Calls -> Call \cup {None}]
      BY <1>2, <2>6, <3>1
    <3>3. \A x \in Calls : call'[x] # None => Fit(call'[x])
      BY <2>5, <2>7, PageTyped
    <3>4. \A x \in Calls : call'[x] # None => Fit(call[x])'
      BY <3>3 DEF Fit
    <3> QED BY <1>2, <2>3, <3>2, <3>3 DEF PageTypeOK, ServerTyped, Fit
  <2> QED BY <1>1, <1>3, <2>8, <2>9
<1>4. CASE ~call[c].ok
  <2>1. page' = [page EXCEPT !.view = "failed"] /\ call' = [call EXCEPT ![c] = None]
    BY <1>4 DEF AnswerTurf
  <2>2. page' \in Page /\ page'.view = "failed"
    BY <1>2, <2>1 DEF Page
  <2>3. Sent(call') = Sent(call) \ {c}
    BY <1>2, <2>1 DEF Sent
  <2> QED BY <1>1, <1>2, <1>4, <2>1, <2>2, <2>3, PageTyped
<1> QED BY <1>3, <1>4

LEMMA InitPageTyped == PageInit => PageTypeOK
<1> SUFFICES ASSUME PageInit PROVE PageTypeOK
  OBVIOUS
<1>1. 1 \in ViewDates
  BY PageAssumption DEF Days, ViewDates
<1>2. page \in Page
  BY <1>1 DEF PageInit, NewPage, Page
<1>3. Fit(Load("turf", 1))
  BY <1>1, LoadTyped DEF Fit
<1>4. PICK c \in Calls : call = [x \in Calls |-> IF x = c THEN Load("turf", 1) ELSE None]
  BY DEF PageInit
<1>5. call \in [Calls -> Call \cup {None}] /\ \A x \in Calls : call[x] # None => Fit(call[x])
  BY <1>3, <1>4 DEF Fit
<1>6. ServerTyped
  BY DEF PageInit, ServerTyped
<1> QED BY <1>2, <1>5, <1>6, PageTyped

LEMMA NextPageTyped == PageTypeOK /\ [PageNext]_pageVars => PageTypeOK'
<1> SUFFICES ASSUME PageTypeOK, [PageNext]_pageVars PROVE PageTypeOK'
  OBVIOUS
<1>1. ASSUME NEW c \in Calls, Serve(c) PROVE PageTypeOK'
  BY <1>1, ServeServes DEF Serves
<1>2. ASSUME NEW c \in Calls, Answer(c) PROVE PageTypeOK'
  BY <1>2, AnswerAnswers DEF Answers
<1>3. ASSUME NEW c \in Calls, \/ \E offer \in Offered(page) : Click(c, offer[1], offer[2])
                              \/ \E d \in ViewDates : SetViewDate(c, d)
      PROVE  PageTypeOK'
  BY <1>3, Asked DEF Asks
<1>4. ASSUME (\E c \in Calls : Lose(c)) \/ Elsewhere PROVE PageTypeOK'
  BY <1>4, Lost, Disturbs
<1>5. ASSUME NEW c \in Calls, NEW c2 \in Calls, AnswerTurf(c, c2) PROVE PageTypeOK'
  BY <1>5, TurfAnswered
<1>6. CASE UNCHANGED pageVars
  BY <1>6 DEF pageVars, server, PageTypeOK
<1> QED BY <1>1, <1>2, <1>3, <1>4, <1>5, <1>6 DEF PageNext

(* Every variable of the page and of what it works on keeps its type, and   *)
(* every request is about what its operation is about, however requests     *)
(* overlap (OwnerTurfAvailabilityPage).                                     *)
THEOREM PageTypeCorrect == PageSpec => []PageTypeOK
<1> QED BY InitPageTyped, NextPageTyped, PTL DEF PageSpec

-----------------------------------------------------------------------------
(* The slots of a date, as the server lists them.                           *)

(* Nothing of this date changed.                                            *)
LEMMA SlotsElsewhere ==
  ASSUME NEW d, NEW rs, NEW rs2, NEW bs, NEW bs2,
         \A s \in Slots : s[1] = d => rs[s] = rs2[s],
         \A s \in Slots : s[1] = d => ((\A b \in bs : ~Covers(b, s)) <=> \A b \in bs2 : ~Covers(b, s))
  PROVE  SlotsOf(d, rs, bs) = SlotsOf(d, rs2, bs2)
<1>1. \A s \in Slots : s[1] = d => Shown(s, rs[s], bs) = Shown(s, rs2[s], bs2)
  BY DEF Shown
<1>2. {x \in Slots : x[1] = d /\ rs[x] # "none"} = {x \in Slots : x[1] = d /\ rs2[x] # "none"}
  OBVIOUS
<1> QED BY <1>1, <1>2 DEF SlotsOf

(* A slot is blocked or opened: in the list, it is replaced.                *)
LEMMA SlotsToggled ==
  ASSUME NEW d, NEW rs \in [Slots -> {"none", "OPEN", "BLOCKED"}], NEW bs, NEW i \in Slots,
         rs[i] # "none", NEW st \in {"OPEN", "BLOCKED"}, NEW rs2,
         \A x \in Slots : rs2[x] = IF x = i THEN st ELSE rs[x]
  PROVE  \A x : x \in SlotsOf(d, rs2, bs) <=>
                 \E s \in SlotsOf(d, rs, bs) : \/ s.id = i /\ x = Shown(i, st, bs)
                                               \/ s.id # i /\ x = s
<1> DEFINE In == {x \in Slots : x[1] = d /\ rs[x] # "none"}
<1>1. {x \in Slots : x[1] = d /\ rs2[x] # "none"} = In
  OBVIOUS
<1>2. \A s \in In : Shown(s, rs2[s], bs) = IF s = i THEN Shown(i, st, bs) ELSE Shown(s, rs[s], bs)
  OBVIOUS
<1>3. \A s \in In : Shown(s, rs[s], bs).id = s
  BY DEF Shown
<1>4. SlotsOf(d, rs2, bs) = {Shown(s, rs2[s], bs) : s \in In}
  BY <1>1 DEF SlotsOf
<1>5. SlotsOf(d, rs, bs) = {Shown(s, rs[s], bs) : s \in In}
  BY DEF SlotsOf
<1> HIDE DEF In
<1>6. {IF s.id = i THEN Shown(i, st, bs) ELSE s : s \in SlotsOf(d, rs, bs)}
        = {Shown(s, rs2[s], bs) : s \in In}
  BY <1>2, <1>3, <1>5
<1> QED BY <1>4, <1>6

(* A slot is removed, from the list too.                                    *)
LEMMA SlotsRemoved ==
  ASSUME NEW d, NEW rs \in [Slots -> {"none", "OPEN", "BLOCKED"}], NEW bs, NEW i \in Slots,
         NEW rs2, \A x \in Slots : rs2[x] = IF x = i THEN "none" ELSE rs[x]
  PROVE  \A x : x \in SlotsOf(d, rs2, bs) <=> x \in SlotsOf(d, rs, bs) /\ x.id # i
<1> DEFINE In == {x \in Slots : x[1] = d /\ rs[x] # "none"}
<1>1. {x \in Slots : x[1] = d /\ rs2[x] # "none"} = In \ {i}
  OBVIOUS
<1>2. \A s \in In \ {i} : Shown(s, rs2[s], bs) = Shown(s, rs[s], bs)
  OBVIOUS
<1>3. \A s \in In : Shown(s, rs[s], bs).id = s
  BY DEF Shown
<1>4. SlotsOf(d, rs2, bs) = {Shown(s, rs2[s], bs) : s \in In \ {i}}
  BY <1>1 DEF SlotsOf
<1>5. SlotsOf(d, rs, bs) = {Shown(s, rs[s], bs) : s \in In}
  BY DEF SlotsOf
<1> HIDE DEF In
<1>6. {s \in SlotsOf(d, rs, bs) : s.id # i} = {Shown(s, rs2[s], bs) : s \in In \ {i}}
  BY <1>2, <1>3, <1>5
<1> QED BY <1>4, <1>6

(* What a request that was carried out changed of the slots of a date: what *)
(* the handler makes of the list, or a list that is loaded again.           *)
LEMMA SlotsCarried ==
  ASSUME ServerTyped, page \in Page, NEW k, NEW a, NEW d, Carried(k, a), Fit(a),
         a.op = k.op, a.item = k.item, a.date = d, a.phase = "answered", a.ok,
         page.slots = SlotsOf(d, rows, blocked), k.op \in Writes, ~Reloads(a)
  PROVE  Succeeded(page, a).slots = SlotsOf(d, rows', blocked')
<1>1. a \in Call /\ a.item \in ItemsOf(a.op) /\ (a.op = "toggle" => a.slots # {})
  BY DEF Fit
<1>2. Succeeded(page, a).slots =
        CASE a.op = "slots"  -> a.slots
          [] a.op = "toggle" -> {IF s.id = a.item THEN (CHOOSE x \in a.slots : TRUE) ELSE s :
                                   s \in page.slots}
          [] a.op = "remove" -> {s \in page.slots : s.id # a.item}
          [] OTHER           -> page.slots
  BY <1>1, SucceededFields
<1>3. k.item \in ItemsOf(k.op)
  BY <1>1
<1>4. rows \in [Slots -> {"none", "OPEN", "BLOCKED"}]
  BY <1>1 DEF ServerTyped
<1>5. CASE k.op = "settings"
  <2>1. rows' = rows /\ blocked' = blocked
    BY <1>5 DEF Carried
  <2> QED BY <1>2, <1>5, <2>1
<1>6. CASE k.op = "toggle"
  <2>1. /\ rows' = [rows EXCEPT ![k.item] = k.want] /\ blocked' = blocked
        /\ a.slots = {Shown(k.item, k.want, blocked)}
    BY <1>6 DEF Carried
  <2>6. k.item \in Slots /\ rows[k.item] # "none" /\ k.want \in {"OPEN", "BLOCKED"}
    BY <1>3, <1>6 DEF Carried, ItemsOf
  <2> DEFINE new == CHOOSE x \in a.slots : TRUE
  <2>2. new = Shown(k.item, k.want, blocked)
    BY <2>1
  <2>3. Succeeded(page, a).slots = {IF s.id = k.item THEN new ELSE s : s \in page.slots}
    BY <1>2, <1>6
  <2> HIDE DEF new
  <2>4. \A x \in Slots : rows'[x] = IF x = k.item THEN k.want ELSE rows[x]
    BY <1>4, <2>1, <2>6
  <2>5. \A x : x \in SlotsOf(d, rows', blocked) <=>
                \E s \in SlotsOf(d, rows, blocked) :
                  \/ s.id = k.item /\ x = Shown(k.item, k.want, blocked)
                  \/ s.id # k.item /\ x = s
    BY <1>4, <2>6, <2>4, SlotsToggled, SMTT(30)
  <2>7. \A x : x \in SlotsOf(d, rows', blocked) <=>
                x \in {IF s.id = k.item THEN new ELSE s : s \in page.slots}
    BY <2>2, <2>5
  <2> QED BY <2>1, <2>3, <2>7
<1>7. CASE k.op = "remove"
  <2>1. rows' = [rows EXCEPT ![k.item] = "none"] /\ blocked' = blocked
    BY <1>7 DEF Carried
  <2>4. k.item \in Slots
    BY <1>3, <1>7 DEF ItemsOf
  <2>2. \A x \in Slots : rows'[x] = IF x = k.item THEN "none" ELSE rows[x]
    BY <1>4, <2>1, <2>4
  <2>3. \A x : x \in SlotsOf(d, rows', blocked) <=> x \in SlotsOf(d, rows, blocked) /\ x.id # k.item
    BY <1>4, <2>2, <2>4, SlotsRemoved
  <2> QED BY <1>2, <1>7, <2>1, <2>3, ZenonT(60)
<1>8. CASE k.op = "generate"
  <2>1. rows' = Generated(k.item[1], k.item[2]) /\ blocked' = blocked
    BY <1>8 DEF Carried
  <2>2. d \notin k.item[1]..k.item[2]
    BY <1>8 DEF Reloads
  <2>3. \A s \in Slots : s[1] = d => rows[s] = rows'[s]
    BY <2>1, <2>2 DEF Generated
  <2>4. SlotsOf(d, rows, blocked) = SlotsOf(d, rows', blocked')
    BY <2>1, <2>3, SlotsElsewhere
  <2> QED BY <1>2, <1>8, <2>4
<1>9. CASE k.op \in {"block", "unblock"}
  <2>1. rows' = rows /\ (blocked' = blocked \cup {k.item} \/ blocked' = blocked \ {k.item})
    BY <1>9 DEF Carried
  <2>2. k.item[1] # d
    BY <1>9 DEF Reloads
  <2>3. \A s \in Slots : s[1] = d => ~Covers(k.item, s)
    BY <2>2 DEF Covers
  <2>4. \A s \in Slots : s[1] = d =>
          ((\A b \in blocked : ~Covers(b, s)) <=> \A b \in blocked' : ~Covers(b, s))
    BY <2>1, <2>3
  <2>5. SlotsOf(d, rows, blocked) = SlotsOf(d, rows', blocked')
    BY <2>1, <2>4, SlotsElsewhere
  <2> QED BY <1>2, <1>9, <2>5
<1> QED BY <1>5, <1>6, <1>7, <1>8, <1>9 DEF Writes

(* The same for its two lists of blocks.                                    *)
LEMMA BlocksCarried ==
  ASSUME page \in Page, NEW k, NEW a, Carried(k, a), Fit(a), a.op = k.op, a.item = k.item,
         a.phase = "answered", a.ok, k.op \in {"blocks", "block", "unblock"},
         BlocksRight(page, blocked)
  PROVE  BlocksRight(Succeeded(page, a), blocked')
<1>1. a \in Call /\ a.item \in ItemsOf(a.op) /\ (a.op = "toggle" => a.slots # {})
  BY DEF Fit
<1>2. /\ Succeeded(page, a).listed =
           CASE a.op = "blocks"  -> Lists(a, page.listed)
             [] a.op = "block"   -> [page.listed EXCEPT ![a.item] = @ + 1]
             [] a.op = "unblock" -> [page.listed EXCEPT ![a.item] = 0]
             [] OTHER            -> page.listed
      /\ Succeeded(page, a).listsRead = IF a.op = "blocks" THEN a.lists ELSE page.listsRead
  BY <1>1, SucceededFields
<1>3. page.listed \in [Blocks -> Nat]
  BY DEF Page
<1>4. CASE k.op = "blocks"
  <2>1. a.blocks = {b \in blocked : b[2] \in a.lists} /\ blocked' = blocked
    BY <1>4 DEF Carried, server
  <2>2. Succeeded(page, a).listed = Lists(a, page.listed) /\ Succeeded(page, a).listsRead = a.lists
    BY <1>2, <1>4
  <2> QED BY <1>3, <2>1, <2>2 DEF BlocksRight, Lists
<1>5. CASE k.op = "block"
  <2>1. k.item \in Blocks /\ k.item \notin blocked /\ blocked' = blocked \cup {k.item}
    BY <1>1, <1>5 DEF Carried, ItemsOf
  <2>2. /\ Succeeded(page, a).listed = [page.listed EXCEPT ![k.item] = page.listed[k.item] + 1]
        /\ Succeeded(page, a).listsRead = page.listsRead
    BY <1>2, <1>5
  <2> QED BY <1>3, <2>1, <2>2 DEF BlocksRight
<1>6. CASE k.op = "unblock"
  <2>1. k.item \in Blocks /\ blocked' = blocked \ {k.item}
    BY <1>1, <1>6 DEF Carried, ItemsOf
  <2>2. /\ Succeeded(page, a).listed = [page.listed EXCEPT ![k.item] = 0]
        /\ Succeeded(page, a).listsRead = page.listsRead
    BY <1>2, <1>6
  <2> QED BY <1>3, <2>1, <2>2 DEF BlocksRight
<1> QED BY <1>4, <1>5, <1>6

(* What the loads bring does not depend on the rest of the page.            *)
LEMMA ReadAgain ==
  /\ \A pg \in Page : \A k : k.op = "slots" => Succeeded(pg, k).slots = k.slots
  /\ \A pg, qg \in Page : \A k : k.op = "blocks" /\ pg.listed = qg.listed =>
       /\ Succeeded(pg, k).listed = Succeeded(qg, k).listed
       /\ Succeeded(pg, k).listsRead = Succeeded(qg, k).listsRead
<1>1. \A pg \in Page : \A k : k.op = "slots" => Succeeded(pg, k).slots = k.slots
  BY DEF Succeeded, Page
<1>2. ASSUME NEW pg \in Page, NEW k, k.op = "blocks"
      PROVE  Succeeded(pg, k).listed = Lists(k, pg.listed) /\ Succeeded(pg, k).listsRead = k.lists
  <2> DEFINE listed == Lists(k, pg.listed)
  <2>1. Succeeded(pg, k) = [pg EXCEPT !.listed = listed, !.listsRead = k.lists]
    BY <1>2 DEF Succeeded
  <2> HIDE DEF listed
  <2>2. Succeeded(pg, k).listed = listed /\ Succeeded(pg, k).listsRead = k.lists
    BY <2>1 DEF Page
  <2> QED BY <2>2 DEF listed
<1> QED BY <1>1, <1>2

-----------------------------------------------------------------------------
(* The page stays in step.                                                  *)

(* The server carries a request out, or refuses it.                         *)
LEMMA ServesInStep ==
  ASSUME PageTypeOK, PageInStep, NEW c \in Calls, Serves(c)
  PROVE  PageInStep'
<1> SUFFICES ASSUME page.past = "serial"
             PROVE  PageInStep'
  BY DEF Serves, PageInStep, InStep
<1> DEFINE k == call[c]
           a == call'[c]
<1>1. /\ k # None /\ k.phase = "sent" /\ page' = page /\ Fit(k) /\ Fit(a) /\ a # None
      /\ a.op = k.op /\ a.item = k.item /\ a.date = k.date /\ a.phase = "answered"
      /\ \/ a.ok /\ Carried(k, a)
         \/ ~a.ok /\ UNCHANGED server
      /\ \A x \in Calls \ {c} : call'[x] = call[x]
  BY DEF Serves
<1>2. Sent(call') = Sent(call) /\ c \in Sent(call) /\ ~Done(k)
  BY <1>1 DEF Sent, Done
<1>3. ServerTyped /\ page \in Page /\ k.op \in {"turf", "slots", "blocks"} \cup Writes
  BY <1>1, PageTyped DEF Fit, Call
<1>4. UNCHANGED server => rows' = rows /\ blocked' = blocked /\ configured' = configured
  BY DEF server
<1> HIDE DEF k, a
<1>5. CASE page.view = "loading"
  <2>1. TurfFirst(call, configured) /\ NothingListed(page)
    BY <1>5 DEF PageInStep, InStep
  <2>2. k.op = "turf" /\ \A x \in Sent(call) : x = c
    BY <1>2, <2>1 DEF TurfFirst, k
  <2>3. configured' = configured /\ (a.ok => a.configured = configured)
    BY <1>1, <1>4, <2>2 DEF Carried
  <2>4. TurfFirst(call', configured')
    BY <1>1, <1>2, <2>2, <2>3 DEF TurfFirst, a
  <2> QED BY <1>1, <1>5, <2>1, <2>4 DEF PageInStep, InStep
<1>6. CASE page.view = "ready"
  <2>1. /\ Alone(page, call) /\ SlotsFollow(page, call, rows, blocked)
        /\ BlocksFollow(page, call, blocked) /\ SettingsFollow(page, call, configured)
    BY <1>6 DEF PageInStep, InStep
  <2>2. k.op # "turf" /\ k.date = page.viewDate
    BY <1>2, <2>1 DEF Alone, k
  <2>3. ASSUME NEW x \in Sent(call), x # c
        PROVE  /\ call'[x] = call[x] /\ call[x].op \in {"slots", "blocks"}
               /\ k.op \in {"slots", "blocks"} /\ k.op # call[x].op
    BY <1>1, <1>2, <2>1, <2>3 DEF Alone, Sent, k
  <2>4. k.op \in {"slots", "blocks"} => UNCHANGED server
    BY <1>1 DEF Carried, Writes
  <2>5. Alone(page, call')
    <3>1. \A x \in Sent(call) : call'[x].op = call[x].op /\ call'[x].date = call[x].date
      BY <1>1, <2>3 DEF a, k
    <3> QED BY <1>2, <2>1, <3>1 DEF Alone
  <2>6. SlotsFollow(page, call', rows', blocked')
    <3>1. ASSUME page.slotsRead,
                 \A x \in Sent(call') : Done(call'[x]) => call'[x].op \in {"blocks", "settings"}
          PROVE  SlotsRight(page, rows', blocked')
      <4>1. a.ok => k.op \in {"blocks", "settings"}
        BY <1>1, <1>2, <3>1 DEF Done, a
      <4>2. \A x \in Sent(call) : Done(call[x]) => call[x].op \in {"blocks", "settings"}
        BY <1>2, <2>3, <3>1 DEF k
      <4>3. SlotsRight(page, rows, blocked)
        BY <2>1, <3>1, <4>2 DEF SlotsFollow
      <4>4. rows' = rows /\ blocked' = blocked
        BY <1>1, <1>4, <4>1 DEF Carried
      <4> QED BY <4>3, <4>4
    <3>2. ASSUME NEW x \in Sent(call'), Done(call'[x]), call'[x].op \notin {"blocks", "settings"},
                 ~Reloads(call'[x]), page.slotsRead \/ call'[x].op = "slots"
          PROVE  Succeeded(page, call'[x]).slots = SlotsOf(page.viewDate, rows', blocked')
      <4>1. CASE x # c
        <5>1. rows' = rows /\ blocked' = blocked /\ call'[x] = call[x] /\ x \in Sent(call)
          BY <1>2, <1>4, <2>3, <2>4, <4>1
        <5> QED BY <2>1, <3>2, <5>1 DEF SlotsFollow
      <4>2. CASE x = c /\ k.op = "slots"
        <5>1. rows' = rows /\ blocked' = blocked /\ a.slots = SlotsOf(page.viewDate, rows, blocked)
          BY <1>1, <1>4, <2>2, <2>4, <3>2, <4>2 DEF Carried, Done, a
        <5>2. Succeeded(page, a).slots = a.slots
          BY <1>1, <1>3, <4>2, ReadAgain
        <5> QED BY <4>2, <5>1, <5>2 DEF a
      <4>3. CASE x = c /\ k.op # "slots"
        <5>1. k.op \in Writes /\ a.ok /\ ~Reloads(a) /\ Carried(k, a)
          BY <1>1, <1>3, <2>2, <3>2, <4>3 DEF Done, a
        <5>2. \A y \in Sent(call) : y = c
          BY <2>3, <5>1 DEF Writes
        <5>3. SlotsRight(page, rows, blocked)
          <6>1. page.slotsRead
            BY <1>1, <3>2, <4>3 DEF a
          <6> QED BY <1>2, <2>1, <5>2, <6>1 DEF SlotsFollow, k
        <5>4. page.slots = SlotsOf(page.viewDate, rows, blocked)
          BY <5>3 DEF SlotsRight
        <5> QED BY <1>1, <1>3, <2>2, <4>3, <5>1, <5>4, SlotsCarried DEF a
      <4> QED BY <4>1, <4>2, <4>3
    <3>3. (\A x \in Sent(call') : call'[x].op # "slots") => page.slotsRead \/ page.slotsError
      <4>1. \A x \in Sent(call) : call'[x].op = call[x].op
        BY <1>1, <2>3 DEF a, k
      <4> QED BY <1>2, <2>1, <4>1 DEF SlotsFollow
    <3> QED BY <3>1, <3>2, <3>3 DEF SlotsFollow
  <2>7. BlocksFollow(page, call', blocked')
    <3>1. ASSUME \A x \in Sent(call') : Done(call'[x]) => call'[x].op \notin {"block", "unblock"}
          PROVE  BlocksRight(page, blocked')
      <4>1. a.ok => k.op \notin {"block", "unblock"}
        BY <1>1, <1>2, <3>1 DEF Done, a
      <4>2. \A x \in Sent(call) : Done(call[x]) => call[x].op \notin {"block", "unblock"}
        BY <1>2, <2>3, <3>1 DEF k
      <4>3. BlocksRight(page, blocked)
        BY <2>1, <4>2 DEF BlocksFollow
      <4>4. blocked' = blocked
        BY <1>1, <1>4, <4>1 DEF Carried
      <4> QED BY <4>3, <4>4
    <3>2. ASSUME NEW x \in Sent(call'), Done(call'[x]), call'[x].op \in {"blocks", "block", "unblock"}
          PROVE  BlocksRight(Succeeded(page, call'[x]), blocked')
      <4>1. CASE x # c
        <5>1. blocked' = blocked /\ call'[x] = call[x] /\ x \in Sent(call)
          BY <1>2, <1>4, <2>3, <2>4, <4>1
        <5> QED BY <2>1, <3>2, <5>1 DEF BlocksFollow
      <4>2. CASE x = c
        <5>1. k.op \in {"blocks", "block", "unblock"} /\ a.ok /\ Carried(k, a)
          BY <1>1, <3>2, <4>2 DEF Done, a
        <5>2. BlocksRight(page, blocked)
          <6>1. \A y \in Sent(call) : Done(call[y]) => call[y].op \notin {"block", "unblock"}
            BY <1>2, <2>3 DEF k
          <6> QED BY <2>1, <6>1 DEF BlocksFollow
        <5> QED BY <1>1, <1>3, <4>2, <5>1, <5>2, BlocksCarried DEF a
      <4> QED BY <4>1, <4>2
    <3> QED BY <3>1, <3>2 DEF BlocksFollow
  <2>8. SettingsFollow(page, call', configured')
    <3>1. ASSUME \A x \in Sent(call') : ~(Done(call'[x]) /\ call'[x].op = "settings")
          PROVE  page.configured = configured'
      <4>1. ~(a.ok /\ k.op = "settings")
        BY <1>1, <1>2, <3>1 DEF Done, a
      <4>2. \A x \in Sent(call) : ~(Done(call[x]) /\ call[x].op = "settings")
        BY <1>2, <2>3, <3>1 DEF k
      <4>3. page.configured = configured
        BY <2>1, <4>2 DEF SettingsFollow
      <4>4. configured' = configured
        BY <1>1, <1>4, <4>1 DEF Carried
      <4> QED BY <4>3, <4>4
    <3>2. ASSUME NEW x \in Sent(call'), Done(call'[x]), call'[x].op = "settings"
          PROVE  call'[x].configured = configured'
      <4>1. x = c /\ k.op = "settings" /\ a.ok /\ Carried(k, a)
        BY <1>1, <1>2, <2>3, <3>2 DEF Done, a
      <4>2. a.configured = TRUE /\ configured' = TRUE
        BY <4>1 DEF Carried
      <4> QED BY <4>1, <4>2 DEF a
    <3> QED BY <3>1, <3>2 DEF SettingsFollow
  <2> QED BY <1>1, <1>6, <2>5, <2>6, <2>7, <2>8 DEF PageInStep, InStep
<1>7. page.view \in {"loading", "ready"}
  BY <1>2, <1>3 DEF PageInStep, InStep, Page
<1> QED BY <1>5, <1>6, <1>7

(* A handler goes on with its answer.                                       *)
LEMMA AnswersInStep ==
  ASSUME PageTypeOK, PageInStep, NEW c \in Calls, Answers(c)
  PROVE  PageInStep'
<1> DEFINE k == call[c]
           pg == IF k.ok THEN Succeeded(page, k) ELSE page
<1>1. /\ k # None /\ k.op # "turf" /\ k.phase = "answered" /\ Same(page', pg)
      /\ rows' = rows /\ blocked' = blocked /\ configured' = configured
      /\ IF k.ok /\ Reloads(k)
         THEN /\ call'[c] # None /\ call'[c].op = "slots" /\ call'[c].phase = "sent"
              /\ call'[c].date = k.date /\ ~page'.slotsRead
         ELSE /\ call'[c] = None
              /\ page'.slotsRead = IF k.ok /\ k.op = "slots" THEN TRUE ELSE page.slotsRead
              /\ page'.slotsError = IF ~k.ok /\ k.op \in {"slots", "toggle", "remove"}
                                    THEN TRUE ELSE page.slotsError
      /\ \A x \in Calls \ {c} : call'[x] = call[x]
  BY DEF Answers, server
<1>2. /\ page \in Page /\ page' \in Page /\ Fit(k) /\ c \in Sent(call)
      /\ k.op \in {"slots", "blocks"} \cup Writes
  <2>1. page \in Page /\ Fit(k)
    BY <1>1, PageTyped
  <2>2. page' \in Page
    BY DEF Answers, PageTypeOK
  <2> QED BY <1>1, <2>1, <2>2 DEF Sent, Fit, Call
<1>3. k \in Call /\ k.item \in ItemsOf(k.op) /\ (k.op = "toggle" /\ k.ok => k.slots # {})
  BY <1>1, <1>2 DEF Fit
<1>4. Done(k) <=> k.ok
  BY <1>1 DEF Done
<1> HIDE DEF k
<1>5. ASSUME k.ok
      PROVE  /\ pg.view = page.view /\ pg.viewDate = page.viewDate /\ pg.past = page.past
             /\ pg.configured = IF k.op = "settings" THEN k.configured ELSE page.configured
             /\ k.op \in {"blocks", "settings", "generate", "block", "unblock"} => pg.slots = page.slots
             /\ k.op \in {"slots", "settings", "generate", "toggle", "remove"} => pg.listed = page.listed
             /\ k.op \in {"slots", "settings", "generate", "toggle", "remove"} =>
                  pg.listsRead = page.listsRead
             /\ pg.slots = Succeeded(page, k).slots /\ pg.listed = Succeeded(page, k).listed
             /\ pg.listsRead = Succeeded(page, k).listsRead
  <2>1. pg = Succeeded(page, k)
    BY <1>5
  <2> HIDE DEF pg
  <2> QED BY <1>2, <1>3, <1>5, <2>1, SucceededFields, ZenonT(60)
<1> HIDE DEF pg
<1>6. pg.view = page.view /\ pg.viewDate = page.viewDate /\ pg.past = page.past
  BY <1>5 DEF pg
<1> SUFFICES ASSUME page.past = "serial"
             PROVE  PageInStep'
  BY <1>1, <1>6 DEF PageInStep, InStep, Same
<1>7. page.view = "ready"
  <2>1. page.view \in {"loading", "ready"} /\ (page.view = "loading" => TurfFirst(call, configured))
    BY <1>2 DEF PageInStep, InStep, Page
  <2> QED BY <1>1, <1>2, <2>1 DEF TurfFirst, k
<1>8. /\ Alone(page, call) /\ SlotsFollow(page, call, rows, blocked)
      /\ BlocksFollow(page, call, blocked) /\ SettingsFollow(page, call, configured)
  BY <1>7 DEF PageInStep, InStep
<1>9. k.date = page.viewDate
  BY <1>1, <1>2, <1>8 DEF Alone, k
<1>10. ASSUME NEW x \in Sent(call'), x # c
       PROVE  /\ x \in Sent(call) /\ call'[x] = call[x] /\ call[x].op \in {"slots", "blocks"}
              /\ k.op \in {"slots", "blocks"} /\ k.op # call[x].op
  <2>1. x \in Sent(call) /\ call'[x] = call[x]
    BY <1>1, <1>10 DEF Sent
  <2> QED BY <1>2, <1>8, <1>10, <2>1 DEF Alone, k
<1>11. ASSUME c \in Sent(call')
       PROVE  /\ k.ok /\ k.op \in {"generate", "block", "unblock"}
              /\ call'[c].op = "slots" /\ ~Done(call'[c]) /\ call'[c].date = k.date
              /\ call'[c].phase = "sent" /\ Sent(call') = {c} /\ ~page'.slotsRead
  <2>1. k.ok /\ Reloads(k)
    BY <1>1, <1>11 DEF Sent
  <2>2. k.op \in {"generate", "block", "unblock"}
    BY <2>1 DEF Reloads
  <2>3. \A x \in Sent(call') : x = c
    BY <1>10, <2>2
  <2> QED BY <1>1, <1>11, <2>1, <2>2, <2>3 DEF Done
<1>12. /\ page'.view = "ready" /\ page'.viewDate = page.viewDate
       /\ page'.configured = pg.configured /\ page'.slots = pg.slots /\ page'.listed = pg.listed
       /\ page'.listsRead = pg.listsRead
  BY <1>1, <1>6, <1>7 DEF Same
<1>13. ~k.ok => pg = page
  BY DEF pg
<1>14. ASSUME NEW x \in Sent(call), x # c
       PROVE  x \in Sent(call') /\ call'[x] = call[x] /\ call[x].op \in {"slots", "blocks"}
  BY <1>1, <1>2, <1>8, <1>14 DEF Alone, Sent
<1>15. Alone(page', call')
  <2>1. ASSUME NEW x \in Sent(call')
        PROVE  /\ call'[x].op # "turf" /\ call'[x].date = page.viewDate
               /\ call'[x].op = "slots" => ~page'.slotsRead
    <3>1. CASE x = c
      BY <1>9, <1>11, <2>1, <3>1
    <3>2. CASE x # c
      <4>1. x \in Sent(call) /\ call'[x] = call[x] /\ k.op \in {"slots", "blocks"} /\ k.op # call[x].op
        BY <1>10, <2>1, <3>2
      <4>2. call[x].op # "turf" /\ call[x].date = page.viewDate /\ (call[x].op = "slots" => ~page.slotsRead)
        BY <1>8, <4>1 DEF Alone
      <4>3. ~Reloads(k)
        BY <4>1 DEF Reloads
      <4> QED BY <1>1, <4>1, <4>2, <4>3
    <3> QED BY <3>1, <3>2
  <2>2. \A x, y \in Sent(call') : x = y
    BY <1>8, <1>10, <1>11, <1>2 DEF Alone
  <2> QED BY <1>12, <2>1, <2>2 DEF Alone
<1>16. SlotsFollow(page', call', rows, blocked)
  <2>1. ASSUME page'.slotsRead,
               \A x \in Sent(call') : Done(call'[x]) => call'[x].op \in {"blocks", "settings"}
        PROVE  SlotsRight(page', rows, blocked)
    <3>1. ~(k.ok /\ Reloads(k))
      BY <1>1, <2>1
    <3>2. page.slotsRead \/ (k.ok /\ k.op = "slots")
      BY <1>1, <2>1, <3>1
    <3>3. CASE k.ok /\ k.op \notin {"blocks", "settings"}
      <4>1. Succeeded(page, k).slots = SlotsOf(page.viewDate, rows, blocked)
        BY <1>2, <1>4, <1>8, <3>1, <3>2, <3>3 DEF SlotsFollow, k
      <4> QED BY <1>5, <1>12, <3>3, <4>1 DEF SlotsRight
    <3>4. CASE k.ok => k.op \in {"blocks", "settings"}
      <4>1. \A x \in Sent(call) : Done(call[x]) => call[x].op \in {"blocks", "settings"}
        BY <1>4, <1>14, <2>1, <3>4 DEF k
      <4>2. SlotsRight(page, rows, blocked)
        BY <1>8, <3>2, <3>4, <4>1 DEF SlotsFollow
      <4>3. pg.slots = page.slots
        BY <1>5, <1>13, <3>4
      <4> QED BY <1>12, <4>2, <4>3 DEF SlotsRight
    <3> QED BY <3>3, <3>4
  <2>2. ASSUME NEW x \in Sent(call'), Done(call'[x]), call'[x].op \notin {"blocks", "settings"},
               ~Reloads(call'[x])
        PROVE  Succeeded(page', call'[x]).slots = SlotsOf(page'.viewDate, rows, blocked)
    <3>1. x # c
      BY <1>11, <2>2
    <3>2. x \in Sent(call) /\ call'[x] = call[x] /\ call[x].op = "slots"
      BY <1>10, <2>2, <3>1
    <3>3. Succeeded(page, call[x]).slots = SlotsOf(page.viewDate, rows, blocked)
      BY <1>8, <2>2, <3>2 DEF SlotsFollow
    <3>4. Succeeded(page', call[x]).slots = Succeeded(page, call[x]).slots
      BY <1>2, <3>2, ReadAgain
    <3> QED BY <1>12, <3>2, <3>3, <3>4
  <2>3. ASSUME \A x \in Sent(call') : call'[x].op # "slots"
        PROVE  page'.slotsRead \/ page'.slotsError
    <3>1. ~(k.ok /\ Reloads(k))
      BY <1>1, <2>3 DEF Sent
    <3>2. CASE k.op = "slots"
      BY <1>1, <3>1, <3>2
    <3>3. CASE k.op # "slots"
      <4>1. \A x \in Sent(call) : call[x].op # "slots"
        BY <1>14, <2>3, <3>3 DEF k
      <4>2. page.slotsRead \/ page.slotsError
        BY <1>8, <4>1 DEF SlotsFollow
      <4> QED BY <1>1, <3>1, <4>2
    <3> QED BY <3>2, <3>3
  <2> QED BY <2>1, <2>2, <2>3 DEF SlotsFollow
<1>17. BlocksFollow(page', call', blocked)
  <2>1. ASSUME \A x \in Sent(call') : Done(call'[x]) => call'[x].op \notin {"block", "unblock"}
        PROVE  BlocksRight(page', blocked)
    <3>1. CASE k.ok /\ k.op \in {"blocks", "block", "unblock"}
      <4>1. BlocksRight(Succeeded(page, k), blocked)
        BY <1>2, <1>4, <1>8, <3>1 DEF BlocksFollow, k
      <4> QED BY <1>5, <1>12, <3>1, <4>1 DEF BlocksRight
    <3>2. CASE k.ok => k.op \notin {"blocks", "block", "unblock"}
      <4>1. \A x \in Sent(call) : Done(call[x]) => call[x].op \notin {"block", "unblock"}
        BY <1>4, <1>14, <2>1, <3>2 DEF k
      <4>2. BlocksRight(page, blocked)
        BY <1>8, <4>1 DEF BlocksFollow
      <4>3. pg.listed = page.listed /\ pg.listsRead = page.listsRead
        BY <1>2, <1>5, <1>13, <3>2 DEF Writes
      <4> QED BY <1>12, <4>2, <4>3 DEF BlocksRight
    <3> QED BY <3>1, <3>2
  <2>2. ASSUME NEW x \in Sent(call'), Done(call'[x]), call'[x].op \in {"blocks", "block", "unblock"}
        PROVE  BlocksRight(Succeeded(page', call'[x]), blocked)
    <3>1. x # c
      BY <1>11, <2>2
    <3>2. x \in Sent(call) /\ call'[x] = call[x] /\ call[x].op = "blocks" /\ k.op = "slots"
      BY <1>10, <2>2, <3>1
    <3>3. BlocksRight(Succeeded(page, call[x]), blocked)
      BY <1>8, <2>2, <3>2 DEF BlocksFollow
    <3>4. page'.listed = page.listed
      BY <1>5, <1>12, <1>13, <3>2
    <3>5. /\ Succeeded(page', call[x]).listed = Succeeded(page, call[x]).listed
          /\ Succeeded(page', call[x]).listsRead = Succeeded(page, call[x]).listsRead
      BY <1>2, <3>2, <3>4, ReadAgain
    <3> QED BY <3>2, <3>3, <3>5 DEF BlocksRight
  <2> QED BY <2>1, <2>2 DEF BlocksFollow
<1>18. SettingsFollow(page', call', configured)
  <2>1. page'.configured = configured
    <3>1. CASE k.ok /\ k.op = "settings"
      BY <1>2, <1>4, <1>5, <1>8, <1>12, <3>1 DEF SettingsFollow, k
    <3>2. CASE ~(k.ok /\ k.op = "settings")
      <4>1. \A x \in Sent(call) : ~(Done(call[x]) /\ call[x].op = "settings")
        BY <1>4, <1>14, <3>2 DEF k
      <4>2. page.configured = configured
        BY <1>8, <4>1 DEF SettingsFollow
      <4> QED BY <1>5, <1>12, <1>13, <3>2, <4>2
    <3> QED BY <3>1, <3>2
  <2>2. \A x \in Sent(call') : call'[x].op # "settings"
    BY <1>10, <1>11
  <2> QED BY <2>1, <2>2 DEF SettingsFollow
<1> QED BY <1>1, <1>12, <1>15, <1>16, <1>17, <1>18 DEF PageInStep, InStep

(* A load without an answer: the old slots stay, with an error; the lists   *)
(* stay unread.                                                             *)
LEMMA DropsInStep ==
  ASSUME PageTypeOK, PageInStep, NEW c \in Calls, Drops(c)
  PROVE  PageInStep'
<1> DEFINE k == call[c]
<1>1. /\ k # None /\ k.op \in {"slots", "blocks"} /\ c \in Sent(call)
      /\ rows' = rows /\ blocked' = blocked /\ configured' = configured
      /\ page'.view = page.view /\ page'.viewDate = page.viewDate /\ page'.past = page.past
      /\ page'.configured = page.configured /\ page'.slots = page.slots
      /\ page'.listed = page.listed /\ page'.listsRead = page.listsRead
      /\ page'.slotsRead = page.slotsRead
      /\ page'.slotsError = IF k.op = "slots" THEN TRUE ELSE page.slotsError
      /\ call'[c] = None /\ \A x \in Calls \ {c} : call'[x] = call[x]
  BY DEF Drops, Same, Sent, server
<1> HIDE DEF k
<1> SUFFICES ASSUME page.past = "serial", page.view = "ready"
             PROVE  PageInStep'
  <2>1. page.past = "serial" => page.view \notin {"loading", "failed"}
    BY <1>1 DEF PageInStep, InStep, TurfFirst, k
  <2>2. page.view \in {"loading", "ready", "failed"}
    BY PageTyped DEF Page
  <2> QED BY <1>1, <2>1, <2>2 DEF PageInStep, InStep
<1>2. /\ Alone(page, call) /\ SlotsFollow(page, call, rows, blocked)
      /\ BlocksFollow(page, call, blocked) /\ SettingsFollow(page, call, configured)
  BY DEF PageInStep, InStep
<1>3. Sent(call') = Sent(call) \ {c} /\ \A x \in Sent(call') : call'[x] = call[x]
  BY <1>1 DEF Sent
<1>4. \A x \in Sent(call') : call[x].op \in {"slots", "blocks"} /\ call[x].op # k.op
  BY <1>1, <1>2, <1>3 DEF Alone, k
<1>5. Alone(page', call')
  BY <1>1, <1>2, <1>3 DEF Alone
<1>6. SlotsFollow(page', call', rows, blocked)
  <2>1. ASSUME \A x \in Sent(call') : call'[x].op # "slots"
        PROVE  page'.slotsRead \/ page'.slotsError
    <3>1. CASE k.op = "slots"
      BY <1>1, <3>1
    <3>2. CASE k.op = "blocks"
      BY <1>1, <1>2, <1>3, <2>1, <3>2 DEF SlotsFollow, k
    <3> QED BY <1>1, <3>1, <3>2
  <2>2. ASSUME page'.slotsRead PROVE SlotsRight(page', rows, blocked)
    <3>1. k.op = "blocks" /\ \A x \in Sent(call') : call[x].op = "slots"
      BY <1>1, <1>2, <1>4, <2>2 DEF Alone, k
    <3>2. \A x \in Sent(call) : call[x].op # "slots"
      BY <1>1, <1>2, <2>2 DEF Alone
    <3>3. Sent(call) = {c}
      BY <1>1, <1>3, <3>1, <3>2
    <3>4. SlotsRight(page, rows, blocked)
      BY <1>1, <1>2, <2>2, <3>1, <3>3 DEF SlotsFollow, k
    <3> QED BY <1>1, <3>4 DEF SlotsRight
  <2>3. ASSUME NEW x \in Sent(call'), Done(call'[x]), call'[x].op \notin {"blocks", "settings"},
               ~Reloads(call'[x])
        PROVE  Succeeded(page', call'[x]).slots = SlotsOf(page'.viewDate, rows, blocked)
    <3>1. x \in Sent(call) /\ call'[x] = call[x] /\ call[x].op = "slots"
      BY <1>3, <1>4, <2>3
    <3>2. Succeeded(page, call[x]).slots = SlotsOf(page.viewDate, rows, blocked)
      BY <1>2, <2>3, <3>1 DEF SlotsFollow
    <3>3. Succeeded(page', call[x]).slots = Succeeded(page, call[x]).slots
      <4>1. page \in Page /\ page' \in Page
        BY DEF Drops, PageTypeOK
      <4> QED BY <3>1, <4>1, ReadAgain
    <3> QED BY <1>1, <3>1, <3>2, <3>3
  <2> QED BY <2>1, <2>2, <2>3 DEF SlotsFollow
<1>7. BlocksFollow(page', call', blocked)
  <2>1. BlocksRight(page, blocked)
    <3>1. \A x \in Sent(call) : call[x].op \in {"slots", "blocks"}
      BY <1>1, <1>3, <1>4 DEF k
    <3> QED BY <1>2, <3>1 DEF BlocksFollow
  <2>2. BlocksRight(page', blocked)
    BY <1>1, <2>1 DEF BlocksRight
  <2>3. ASSUME NEW x \in Sent(call'), Done(call'[x]), call'[x].op \in {"blocks", "block", "unblock"}
        PROVE  BlocksRight(Succeeded(page', call'[x]), blocked)
    <3>1. x \in Sent(call) /\ call'[x] = call[x] /\ call[x].op = "blocks"
      BY <1>3, <1>4, <2>3
    <3>2. BlocksRight(Succeeded(page, call[x]), blocked)
      BY <1>2, <2>3, <3>1 DEF BlocksFollow
    <3>3. /\ Succeeded(page', call[x]).listed = Succeeded(page, call[x]).listed
          /\ Succeeded(page', call[x]).listsRead = Succeeded(page, call[x]).listsRead
      <4>1. page \in Page /\ page' \in Page
        BY DEF Drops, PageTypeOK
      <4> QED BY <1>1, <3>1, <4>1, ReadAgain
    <3> QED BY <3>1, <3>2, <3>3 DEF BlocksRight
  <2> QED BY <2>2, <2>3 DEF BlocksFollow
<1>8. SettingsFollow(page', call', configured)
  <2>1. page.configured = configured
    <3>1. \A x \in Sent(call) : call[x].op \in {"slots", "blocks"}
      BY <1>1, <1>3, <1>4 DEF k
    <3> QED BY <1>2, <3>1 DEF SettingsFollow
  <2> QED BY <1>1, <1>3, <1>4, <2>1 DEF SettingsFollow
<1> QED BY <1>1, <1>5, <1>6, <1>7, <1>8 DEF PageInStep, InStep

(* A click, or another date: a page in step has nothing under way then.     *)
LEMMA AsksInStep ==
  ASSUME PageTypeOK, PageInStep, NEW c \in Calls, NEW op \in {"slots"} \cup Writes, NEW d,
         Asks(c, op, d), op \in Writes => d = page.viewDate
  PROVE  PageInStep'
<1> SUFFICES ASSUME page'.past = "serial"
             PROVE  PageInStep'
  BY DEF PageInStep, InStep
<1>1. /\ page.view = "ready" /\ page'.view = "ready" /\ page'.viewDate = d
      /\ page'.configured = page.configured /\ page'.slots = page.slots
      /\ page'.listed = page.listed /\ page'.listsRead = page.listsRead
      /\ page'.past = Overlaps(page)
      /\ IF op = "slots" THEN ~page'.slotsRead
         ELSE page'.slotsRead = page.slotsRead /\ page'.slotsError = page.slotsError
      /\ rows' = rows /\ blocked' = blocked /\ configured' = configured
      /\ call'[c] # None /\ call'[c].op = op /\ call'[c].date = d /\ call'[c].phase = "sent"
      /\ \A x \in Calls \ {c} : call'[x] = call[x]
  BY DEF Asks, server
<1>2. page.past = "serial" /\ Sent(call) = {}
  BY <1>1 DEF Overlaps, Underway, Sent
<1>3. Sent(call') = {c} /\ ~Done(call'[c])
  BY <1>1, <1>2 DEF Sent, Done
<1>4. /\ page.slotsRead \/ page.slotsError
      /\ page.slotsRead => SlotsRight(page, rows, blocked)
      /\ BlocksRight(page, blocked) /\ page.configured = configured
  BY <1>1, <1>2 DEF PageInStep, InStep, SlotsFollow, BlocksFollow, SettingsFollow
<1>5. Alone(page', call')
  BY <1>1, <1>3 DEF Alone, Writes
<1>6. SlotsFollow(page', call', rows', blocked')
  BY <1>1, <1>3, <1>4 DEF SlotsFollow, SlotsRight
<1>7. BlocksFollow(page', call', blocked')
  BY <1>1, <1>3, <1>4 DEF BlocksFollow, BlocksRight
<1>8. SettingsFollow(page', call', configured')
  BY <1>1, <1>3, <1>4 DEF SettingsFollow
<1> QED BY <1>1, <1>5, <1>6, <1>7, <1>8 DEF PageInStep, InStep

(* The turf is loaded: the two loads follow.                                *)
LEMMA TurfInStep ==
  ASSUME PageTypeOK, PageInStep, NEW c \in Calls, NEW c2 \in Calls, AnswerTurf(c, c2)
  PROVE  PageInStep'
<1>1. /\ call[c] # None /\ call[c].op = "turf" /\ call[c].phase = "answered"
      /\ rows' = rows /\ blocked' = blocked /\ configured' = configured
      /\ IF call[c].ok THEN LoadsTwo(c, c2)
         ELSE page'.view = "failed" /\ Sent(call') = Sent(call) \ {c}
  BY TurfAnswered DEF server
<1>2. c \in Sent(call)
  BY <1>1 DEF Sent
<1>3. page'.past = page.past
  <2>1. page \in Page /\ Loading(page) \in Page /\ Same(Loading(page), page)
    BY PageTyped, FlagsOnly
  <2>2. \/ page' = [Loading(page) EXCEPT !.view = "ready", !.configured = call[c].configured]
        \/ page' = [page EXCEPT !.view = "failed"]
    BY DEF AnswerTurf
  <2>3. page'.past = Loading(page).past \/ page'.past = page.past
    BY <2>1, <2>2 DEF Page
  <2> QED BY <2>1, <2>3 DEF Same
<1> SUFFICES ASSUME page.past = "serial"
             PROVE  PageInStep'
  BY <1>3 DEF PageInStep, InStep
<1>4. page.view = "loading" /\ TurfFirst(call, configured) /\ NothingListed(page)
  BY <1>1, <1>2, PageTyped DEF PageInStep, InStep, Alone, Page
<1> SUFFICES ASSUME call[c].ok
             PROVE  PageInStep'
  <2>1. Sent(call) = {c}
    BY <1>2, <1>4 DEF TurfFirst
  <2> QED BY <1>1, <2>1 DEF PageInStep, InStep
<1>5. call[c].ok /\ call[c].configured = configured /\ Sent(call) = {c}
  BY <1>1, <1>2, <1>4 DEF TurfFirst
<1>6. /\ c2 # c /\ page'.view = "ready" /\ page'.viewDate = page.viewDate
      /\ page'.configured = configured /\ page'.listed = page.listed
      /\ page'.listsRead = page.listsRead /\ ~page'.slotsRead
      /\ call'[c] # None /\ call'[c].op = "slots" /\ call'[c].phase = "sent"
      /\ call'[c].date = page.viewDate
      /\ call'[c2] # None /\ call'[c2].op = "blocks" /\ call'[c2].phase = "sent"
      /\ call'[c2].date = page.viewDate
      /\ \A x \in Calls \ {c, c2} : call'[x] = call[x]
  BY <1>1, <1>5 DEF LoadsTwo
<1>7. Sent(call') = {c, c2} /\ ~Done(call'[c]) /\ ~Done(call'[c2])
  BY <1>5, <1>6 DEF Sent, Done
<1>8. Alone(page', call')
  BY <1>6, <1>7 DEF Alone
<1>9. SlotsFollow(page', call', rows', blocked')
  BY <1>6, <1>7 DEF SlotsFollow
<1>10. BlocksFollow(page', call', blocked')
  BY <1>4, <1>6, <1>7 DEF BlocksFollow, BlocksRight, NothingListed
<1>11. SettingsFollow(page', call', configured')
  BY <1>1, <1>6, <1>7 DEF SettingsFollow
<1> QED BY <1>6, <1>8, <1>9, <1>10, <1>11 DEF PageInStep, InStep

LEMMA InitInStep == PageInit => PageInStep
<1> SUFFICES ASSUME PageInit PROVE PageInStep
  OBVIOUS
<1>1. page.view = "loading"
  BY DEF PageInit, NewPage
<1>2. PICK c \in Calls : call = [x \in Calls |-> IF x = c THEN Load("turf", 1) ELSE None]
  BY DEF PageInit
<1>3. Load("turf", 1) # None /\ Load("turf", 1).op = "turf" /\ Load("turf", 1).phase = "sent"
  BY LoadTyped, PageAssumption DEF Days, ViewDates
<1>4. Sent(call) = {c} /\ call[c].op = "turf" /\ call[c].phase = "sent"
  BY <1>2, <1>3 DEF Sent
<1>5. TurfFirst(call, configured)
  BY <1>4 DEF TurfFirst
<1>6. NothingListed(page)
  BY DEF PageInit, NewPage, NothingListed
<1> QED BY <1>1, <1>5, <1>6 DEF PageInStep, InStep

LEMMA NextInStep == PageTypeOK /\ PageInStep /\ [PageNext]_pageVars => PageInStep'
<1> SUFFICES ASSUME PageTypeOK, PageInStep, [PageNext]_pageVars PROVE PageInStep'
  OBVIOUS
<1>1. ASSUME NEW c \in Calls, Serve(c) PROVE PageInStep'
  BY <1>1, ServeServes, ServesInStep
<1>2. ASSUME NEW c \in Calls, Answer(c) PROVE PageInStep'
  BY <1>2, AnswerAnswers, AnswersInStep
<1>3. ASSUME NEW c \in Calls, NEW offer \in Offered(page), Click(c, offer[1], offer[2])
      PROVE  PageInStep'
  <2>1. Asks(c, offer[1], page.viewDate) /\ offer[1] \in Writes
    BY <1>3, Asked
  <2> QED BY <2>1, AsksInStep
<1>4. ASSUME NEW c \in Calls, NEW d \in ViewDates, SetViewDate(c, d) PROVE PageInStep'
  <2>1. Asks(c, "slots", d)
    BY <1>4, Asked
  <2> QED BY <2>1, AsksInStep DEF Writes
<1>5. ASSUME (\E c \in Calls : Lose(c)) \/ Elsewhere PROVE PageInStep'
  <2>1. ASSUME NEW c \in Calls, Drops(c) PROVE PageInStep'
    BY <2>1, DropsInStep
  <2>2. ASSUME page'.past = "disturbed" PROVE PageInStep'
    BY <2>2 DEF PageInStep, InStep
  <2>3. ASSUME NEW c \in Calls, c \in Sent(call), call[c].op = "turf", page'.view = "failed",
               page'.past = page.past, Sent(call') = Sent(call) \ {c}
        PROVE  PageInStep'
    <3> SUFFICES ASSUME page.past = "serial"
                 PROVE  Sent(call') = {}
      BY <2>3 DEF PageInStep, InStep
    <3>1. page.view = "loading" /\ TurfFirst(call, configured)
      BY <2>3, PageTyped DEF PageInStep, InStep, Alone, Page
    <3> QED BY <2>3, <3>1 DEF TurfFirst
  <2> QED BY <1>5, <2>1, <2>2, <2>3, Lost, Disturbs
<1>6. ASSUME NEW c \in Calls, NEW c2 \in Calls, AnswerTurf(c, c2) PROVE PageInStep'
  BY <1>6, TurfInStep
<1>7. CASE UNCHANGED pageVars
  BY <1>7 DEF pageVars, server, PageInStep
<1> QED BY <1>1, <1>2, <1>3, <1>4, <1>5, <1>6, <1>7 DEF PageNext

(* A page in step that waits for nothing is current.                        *)
LEMMA InStepIsCurrent == PageTypeOK /\ PageInStep => IdlePageIsCurrent
<1> SUFFICES ASSUME PageTypeOK, PageInStep, PageIdle, page.past = "serial"
             PROVE  /\ IF page.slotsRead THEN page.slots = SlotsOf(page.viewDate, rows, blocked)
                       ELSE page.slotsError
                    /\ \A b \in Blocks : \/ page.listed[b] = IF b \in blocked THEN 1 ELSE 0
                                         \/ b[2] \notin page.listsRead /\ page.listed[b] = 0
                    /\ page.configured = configured
                    /\ page.slotsRead /\ page.listsRead = Kinds =>
                         \A s \in page.slots : Badge(s) = "Unavailable" =>
                           \E b \in Blocks : page.listed[b] > 0 /\ Covers(b, s.id)
  BY DEF IdlePageIsCurrent
<1>1. page.view = "ready" /\ Sent(call) = {}
  BY DEF PageIdle, Underway, Sent
<1>2. /\ page.slotsRead \/ page.slotsError
      /\ page.slotsRead => page.slots = SlotsOf(page.viewDate, rows, blocked)
      /\ BlocksRight(page, blocked) /\ page.configured = configured
  BY <1>1 DEF PageInStep, InStep, SlotsFollow, BlocksFollow, SettingsFollow, SlotsRight
<1>3. ASSUME page.slotsRead, page.listsRead = Kinds, NEW s \in page.slots, Badge(s) = "Unavailable"
      PROVE  \E b \in Blocks : page.listed[b] > 0 /\ Covers(b, s.id)
  <2>1. PICK x \in Slots : rows[x] # "none" /\ s = Shown(x, rows[x], blocked)
    BY <1>2, <1>3 DEF SlotsOf
  <2>2. s.id = x /\ s.status = rows[x] /\ s.status # "BLOCKED" /\ ~s.available
    <3>1. s.id = x /\ s.status = rows[x]
      BY <2>1 DEF Shown
    <3> QED BY <1>3, <3>1 DEF Badge
  <2>3. rows[x] = "OPEN"
    BY <2>1, <2>2 DEF PageTypeOK
  <2>4. PICK b \in blocked : Covers(b, x)
    BY <2>1, <2>2, <2>3 DEF Shown
  <2>5. b \in Blocks /\ b[2] \in Kinds
    BY <2>4 DEF PageTypeOK, Blocks
  <2> QED BY <1>2, <1>3, <2>2, <2>4, <2>5 DEF BlocksRight
<1> QED BY <1>2, <1>3 DEF BlocksRight

(* A page whose requests did not overlap with one another, with a change of *)
(* the date or with another session's writes, and whose writes were all     *)
(* answered, shows whenever it waits for nothing the slots of the viewed    *)
(* date as they are stored, with the availability the present blocks give   *)
(* them - or an error, if the last load of the slots failed; every block    *)
(* exactly once, but for those of a list that could not be read, and never  *)
(* one that is gone; whether slots can be generated; and, if all was read,  *)
(* the reason of every slot it calls unavailable                            *)
(* (OwnerTurfAvailabilityPage).                                             *)
THEOREM IdlePagesAreCurrent == PageSpec => []IdlePageIsCurrent
<1>1. PageTypeOK /\ PageInStep /\ [PageNext]_pageVars => (PageTypeOK /\ PageInStep)'
  BY NextPageTyped, NextInStep
<1> QED BY <1>1, InitPageTyped, InitInStep, InStepIsCurrent, PTL DEF PageSpec

=============================================================================
