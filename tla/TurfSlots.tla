----------------------------- MODULE TurfSlots ------------------------------
(***************************************************************************)
(* The slots of one turf: its owner configures them, blocks dates and time *)
(* ranges, and generates slots over a range of dates.                      *)
(*                                                                         *)
(* GenerateSlots is not atomic.  It reads the turf, the blocked dates and  *)
(* the blocked time ranges in three statements, then sends one INSERT per  *)
(* candidate as a batch, which is one implicit transaction: an INSERT that *)
(* conflicts with a row another batch has not committed yet waits for that *)
(* batch, one that conflicts with a committed row is skipped.  Everything  *)
(* else here is a single statement.                                        *)
(*                                                                         *)
(* A date is a number and a time of day counts minutes, or any unit that   *)
(* opening times, durations and blocks are multiples of.                   *)
(***************************************************************************)
EXTENDS Integers, FiniteSets

CONSTANTS
  Requests,    \* generation requests that can be in flight
  NumDates,    \* dates are 1..NumDates
  Midnight,    \* times of day are 0..Midnight
  Openings,    \* the opening times an owner may choose
  Closings,    \* the closing times
  Settings,    \* the slot settings: [duration, price]
  Ranges,      \* the time ranges an owner may block: [date, start, end]
  MaxConfigs   \* bound: configurations the turf goes through

ASSUME NumDatesAssumption == NumDates \in Nat \ {0}
ASSUME MidnightAssumption == Midnight \in Nat
ASSUME ConfigAssumption ==
  /\ Openings \subseteq 0..Midnight
  /\ Closings \subseteq 0..Midnight
  /\ Settings \subseteq [duration : Nat \ {0}, price : Nat]
ASSUME RangesAssumption ==
  \A b \in Ranges : /\ b \in [date : 1..NumDates, start : 0..Midnight, end : 0..Midnight]
                    /\ b.start < b.end
ASSUME MaxConfigsAssumption == MaxConfigs \in Nat

VARIABLES
  turf,           \* the columns generation reads; duration 0 stands for NULL
  slots,          \* the committed rows of turf_slots
  blockedDates,   \* turf_blocked_dates
  blockedRanges,  \* turf_blocked_time_ranges
  gen,            \* the generation requests
  configs         \* history: every configuration the turf has had

vars == <<turf, slots, blockedDates, blockedRanges, gen, configs>>

Dates == 1..NumDates
Times == 0..Midnight

Config == [open : Times, close : Times, duration : Nat, price : Nat]

(* What a batch inserts: slotCandidate with the status column's default.    *)
Slot == [date : Dates, start : Times, end : Times, price : Nat,
         status : {"OPEN", "BLOCKED"}]

(* "todo" are the candidates not sent to the table yet, "done" the rows the *)
(* batch has inserted and not committed.                                    *)
Generation == [pc    : {"idle", "dates", "ranges", "insert"},
               conf  : Config,
               from  : Dates,
               to    : Dates,
               dates : SUBSET Dates,
               todo  : SUBSET Slot,
               done  : SUBSET Slot]

Idle(conf) == [pc |-> "idle", conf |-> conf, from |-> 1, to |-> 1, dates |-> {},
               todo |-> {}, done |-> {}]

Init ==
  /\ turf \in [open : Openings, close : Closings, duration : {0}, price : {0}]
  /\ turf.open < turf.close
  /\ slots = {}
  /\ blockedDates = {}
  /\ blockedRanges = {}
  /\ gen = [r \in Requests |-> Idle(turf)]
  /\ configs = {turf}

-----------------------------------------------------------------------------
(* Times and the slot grid.                                                *)

(* Mutant: as in (turf_id, slot_date, start_time) UNIQUE, only the start is *)
(* compared.                                                                *)
ConflictsByStart(a, b) == a.date = b.date /\ a.start = b.start

(* The half-open int4range column.                                          *)
minute_range(s) == s.start .. (s.end - 1)

(* The EXCLUDE constraints: the same date and minute ranges that meet (&&). *)
Conflicts(a, b) == a.date = b.date /\ minute_range(a) \cap minute_range(b) # {}

(* Mutant: ranges that only touch count as overlapping.                     *)
overlapsAnyRangeClosed(start, end, ranges) ==
  \E b \in ranges : start <= b.end /\ b.start <= end

overlapsAnyRange(start, end, ranges) ==
  \E b \in ranges : start < b.end /\ b.start < end

(* Mutant: the loop runs while a slot starts before closing.                *)
StartsPastClosing(conf) ==
  {s \in Times : /\ s < conf.close
                 /\ \E k \in Times : s = conf.open + k * conf.duration}

(* The starts the loop over a day visits, from opening in duration steps.   *)
Starts(conf) ==
  {s \in Times : /\ s + conf.duration <= conf.close
                 /\ \E k \in Times : s = conf.open + k * conf.duration}

SlotAt(conf, d, s) ==
  [date |-> d, start |-> s, end |-> s + conf.duration, price |-> conf.price,
   status |-> "OPEN"]

Grid(conf, days) == {SlotAt(conf, d, s) : d \in days, s \in Starts(conf)}

buildSlotCandidates(conf, from, to, dates, ranges) ==
  {c \in Grid(conf, (from..to) \ dates) :
     ~ overlapsAnyRange(c.start, c.end, {b \in ranges : b.date = c.date})}

(* The computed column available of every slot read.                        *)
Available(s) ==
  /\ s.status = "OPEN"
  /\ s.date \notin blockedDates
  /\ \A b \in blockedRanges : ~ Conflicts(s, b)

-----------------------------------------------------------------------------
(* Generation.                                                             *)

(* POST /owners/turfs/{id}/slots/generate: the turf's row is read, and the  *)
(* request refused while slots are not configured.                          *)
GenerateSlots(r, from, to) ==
  /\ gen[r].pc = "idle"
  /\ turf.duration # 0
  /\ from <= to
  /\ gen' = [gen EXCEPT ![r] = [Idle(turf) EXCEPT !.pc = "dates", !.from = from, !.to = to]]
  /\ UNCHANGED <<turf, slots, blockedDates, blockedRanges, configs>>

ReadBlockedDates(r) ==
  /\ gen[r].pc = "dates"
  /\ gen' = [gen EXCEPT ![r].pc = "ranges", ![r].dates = blockedDates]
  /\ UNCHANGED <<turf, slots, blockedDates, blockedRanges, configs>>

(* The blocked ranges are read and the candidates built from all three.     *)
ReadBlockedTimeRanges(r) ==
  /\ gen[r].pc = "ranges"
  /\ gen' = [gen EXCEPT ![r].pc = "insert",
                        ![r].todo = buildSlotCandidates(gen[r].conf, gen[r].from, gen[r].to,
                                                        gen[r].dates, blockedRanges)]
  /\ UNCHANGED <<turf, slots, blockedDates, blockedRanges, configs>>

(* By date, then by time: the order in which candidates are appended.       *)
Precedes(a, b) == a.date < b.date \/ (a.date = b.date /\ a.end <= b.start)

(* Mutant: the candidates go out in no particular order, as from a map.     *)
IsNextUnordered(r, c) == c \in gen[r].todo

(* The candidate whose INSERT the batch runs now.                           *)
IsNext(r, c) ==
  /\ c \in gen[r].todo
  /\ \A o \in gen[r].todo : o = c \/ Precedes(c, o)

(* Its INSERT has to wait for the outcome of another batch.                 *)
WaitsFor(r, q) ==
  /\ r # q
  /\ \E c \in gen[r].todo : IsNext(r, c) /\ \E a \in gen[q].done : Conflicts(c, a)

(* Mutant: the INSERT takes the price from the turf as it is by then.       *)
InsertSlotAtPresentPrice(r, c) ==
  /\ gen[r].pc = "insert"
  /\ IsNext(r, c)
  /\ \A s \in slots : ~ Conflicts(c, s)
  /\ \A q \in Requests \ {r} : \A a \in gen[q].done : ~ Conflicts(c, a)
  /\ gen' = [gen EXCEPT ![r].todo = @ \ {c},
                        ![r].done = @ \cup {[c EXCEPT !.price = turf.price]}]
  /\ UNCHANGED <<turf, slots, blockedDates, blockedRanges, configs>>

InsertSlot(r, c) ==
  /\ gen[r].pc = "insert"
  /\ IsNext(r, c)
  /\ \A s \in slots : ~ Conflicts(c, s)
  /\ \A q \in Requests \ {r} : \A a \in gen[q].done : ~ Conflicts(c, a)
  /\ gen' = [gen EXCEPT ![r].todo = @ \ {c}, ![r].done = @ \cup {c}]
  /\ UNCHANGED <<turf, slots, blockedDates, blockedRanges, configs>>

(* Mutant: ON CONFLICT DO UPDATE.                                           *)
SkipSlotUpdating(r, c) ==
  /\ gen[r].pc = "insert"
  /\ IsNext(r, c)
  /\ \E s \in slots :
       /\ Conflicts(c, s)
       /\ slots' = (slots \ {s}) \cup {[s EXCEPT !.price = c.price, !.status = "OPEN"]}
  /\ gen' = [gen EXCEPT ![r].todo = @ \ {c}]
  /\ UNCHANGED <<turf, blockedDates, blockedRanges, configs>>

(* ON CONFLICT DO NOTHING.                                                  *)
SkipSlot(r, c) ==
  /\ gen[r].pc = "insert"
  /\ IsNext(r, c)
  /\ \E s \in slots : Conflicts(c, s)
  /\ gen' = [gen EXCEPT ![r].todo = @ \ {c}]
  /\ UNCHANGED <<turf, slots, blockedDates, blockedRanges, configs>>

(* The batch is through: its implicit transaction commits and the request   *)
(* reads the answer, SlotsInRange.                                          *)
Commit(r) ==
  /\ gen[r].pc = "insert"
  /\ gen[r].todo = {}
  /\ slots' = slots \cup gen[r].done
  /\ gen' = [gen EXCEPT ![r] = Idle(gen[r].conf)]
  /\ UNCHANGED <<turf, blockedDates, blockedRanges, configs>>

(* A statement fails, the client goes away or the server stops: whatever    *)
(* the batch inserted is rolled back.                                       *)
Abandon(r) ==
  /\ gen[r].pc # "idle"
  /\ gen' = [gen EXCEPT ![r] = Idle(gen[r].conf)]
  /\ UNCHANGED <<turf, slots, blockedDates, blockedRanges, configs>>

-----------------------------------------------------------------------------
(* The owner's single-statement operations.                                *)

Reconfigure(conf) ==
  /\ conf # turf
  /\ Cardinality(configs) < MaxConfigs
  /\ turf' = conf
  /\ configs' = configs \cup {conf}
  /\ UNCHANGED <<slots, blockedDates, blockedRanges, gen>>

(* Duration and price are set together.                                     *)
UpdateSlotSettings(f) ==
  Reconfigure([turf EXCEPT !.duration = f.duration, !.price = f.price])

(* UpdateTurf as far as generation sees it: the operating hours.            *)
UpdateHours(open, close) ==
  /\ open < close
  /\ Reconfigure([turf EXCEPT !.open = open, !.close = close])

SetSlotStatus(s, status) ==
  /\ s \in slots
  /\ slots' = (slots \ {s}) \cup {[s EXCEPT !.status = status]}
  /\ UNCHANGED <<turf, blockedDates, blockedRanges, gen, configs>>

DeleteSlot(s) ==
  /\ s \in slots
  /\ slots' = slots \ {s}
  /\ UNCHANGED <<turf, blockedDates, blockedRanges, gen, configs>>

(* A date already blocked is refused by the unique key.                     *)
BlockDate(d) ==
  /\ d \notin blockedDates
  /\ blockedDates' = blockedDates \cup {d}
  /\ UNCHANGED <<turf, slots, blockedRanges, gen, configs>>

UnblockDate(d) ==
  /\ d \in blockedDates
  /\ blockedDates' = blockedDates \ {d}
  /\ UNCHANGED <<turf, slots, blockedRanges, gen, configs>>

(* A range that meets a blocked one is refused by the EXCLUDE constraint.   *)
BlockTimeRange(b) ==
  /\ \A o \in blockedRanges : ~ Conflicts(b, o)
  /\ blockedRanges' = blockedRanges \cup {b}
  /\ UNCHANGED <<turf, slots, blockedDates, gen, configs>>

UnblockTimeRange(b) ==
  /\ b \in blockedRanges
  /\ blockedRanges' = blockedRanges \ {b}
  /\ UNCHANGED <<turf, slots, blockedDates, gen, configs>>

OwnerStep ==
  \/ \E f \in Settings : UpdateSlotSettings(f)
  \/ \E open \in Openings, close \in Closings : UpdateHours(open, close)
  \/ \E s \in slots : DeleteSlot(s) \/ \E status \in {"OPEN", "BLOCKED"} : SetSlotStatus(s, status)
  \/ \E d \in Dates : BlockDate(d) \/ UnblockDate(d)
  \/ \E b \in Ranges : BlockTimeRange(b) \/ UnblockTimeRange(b)

(* What a request does by itself once it has started.                       *)
GenStep(r) ==
  \/ ReadBlockedDates(r)
  \/ ReadBlockedTimeRanges(r)
  \/ \E c \in gen[r].todo : InsertSlot(r, c) \/ SkipSlot(r, c)
  \/ Commit(r)

Next ==
  \/ OwnerStep
  \/ \E r \in Requests :
       \/ \E from, to \in Dates : GenerateSlots(r, from, to)
       \/ GenStep(r)
       \/ Abandon(r)

Spec == Init /\ [][Next]_vars

(* A request that runs keeps running: Go schedules its goroutine, and       *)
(* PostgreSQL answers its statements.  Strong fairness, because an INSERT   *)
(* that waits is woken when the batch ahead of it ends, and does not lose   *)
(* the slot to yet another batch every time.                                *)
FairSpec == Spec /\ \A r \in Requests : SF_vars(GenStep(r))

-----------------------------------------------------------------------------
(* Properties.                                                             *)

(* The type of every variable.                                              *)
TypeOK ==
  /\ turf \in Config
  /\ slots \subseteq Slot
  /\ blockedDates \subseteq Dates
  /\ blockedRanges \subseteq Ranges
  /\ gen \in [Requests -> Generation]
  /\ configs \subseteq Config

(* No two slots share a minute, whatever generations with whatever hours,   *)
(* durations and ranges of dates ran at the same time.                      *)
NoOverlap ==
  \A a, b \in slots :
    a # b /\ a.date = b.date => minute_range(a) \cap minute_range(b) = {}

(* Concurrent generations never wait for each other in a circle, which      *)
(* PostgreSQL would end by failing one of them.  The code takes no measure  *)
(* against that but the order it builds candidates in.                      *)
NoWaitCycle ==
  \A W \in SUBSET Requests :
    W # {} => \E r \in W : \A q \in W : ~ WaitsFor(r, q)

(* A slot is an interval of the grid of one configuration the turf has had, *)
(* at that configuration's price: settings and hours changed while slots    *)
(* are generated, or after, do not mix.                                     *)
OnOneGrid ==
  \A s \in slots : \E conf \in configs :
    /\ conf.duration # 0
    /\ s.start \in Starts(conf)
    /\ s.end = s.start + conf.duration
    /\ s.price = conf.price

(* What the service decides in Go and what the database decides in SQL are  *)
(* the same: generation leaves out exactly the slots that would come into   *)
(* being unavailable.                                                       *)
LeftOutIffUnavailable ==
  \A conf \in configs :
    conf.duration # 0 =>
      buildSlotCandidates(conf, 1, NumDates, blockedDates, blockedRanges) =
        {c \in Grid(conf, Dates) : Available(c)}

(* "safe to retry": no step of a generation removes a slot or changes its   *)
(* status or its price.                                                     *)
RetryIsSafe == [][gen' # gen => slots \subseteq slots']_vars

(* What the table is to those who do not know how slots come to be.         *)
Place(s)     == [s EXCEPT !.status = "OPEN"]
OpenPlaces   == {s \in slots : s.status = "OPEN"}
ClosedPlaces == {Place(s) : s \in {x \in slots : x.status = "BLOCKED"}}

(* The grids an owner can have configured.                                  *)
ConfiguredGrids ==
  {Grid([open |-> open, close |-> close, duration |-> f.duration, price |-> f.price], Dates) :
     open \in Openings, close \in Closings, f \in Settings}

Calendar == INSTANCE SlotCalendar WITH
  Grids  <- ConfiguredGrids,
  Clash  <- Conflicts,
  open   <- OpenPlaces,
  closed <- ClosedPlaces

(* Slots appear a batch at a time, each batch of one grid and clear of all  *)
(* that exist, however many generations run and whatever is configured,     *)
(* blocked or deleted meanwhile; a slot is then opened, blocked or deleted  *)
(* by its owner alone, and keeps its place and price.                       *)
KeepsCalendar == Calendar!Spec

(* A generation that has started ends, however many wait for each other.    *)
GenerationEnds == \A r \in Requests : gen[r].pc # "idle" ~> gen[r].pc = "idle"
=============================================================================
