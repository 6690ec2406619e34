-------------------------- MODULE AvailabilityPage --------------------------
(***************************************************************************)
(* The owner's availability page of one turf (frontend,                    *)
(* OwnerTurfAvailabilityPage): slot settings, generation, the slots of the *)
(* viewed date, blocked dates and time ranges.  The page is one mounted    *)
(* component; its requests are answered in any order, and a handler that   *)
(* waited for its answer goes on with the values it was started with.      *)
(* TurfSlots has the server's own steps; here each request is one of them. *)
(***************************************************************************)
EXTENDS Naturals

CONSTANTS
  LastDate,     \* bound: the dates are 1..LastDate
  SlotsPerDay,  \* slots of a full day
  BlockDates,   \* bound: the dates on which blocks are made
  MaxBlocks,    \* bound: blocks of each kind that are made on such a date
  MaxActs,      \* bound: clicks, changes of the date and steps of others
  Calls,        \* bound: requests at once
  None

ASSUME PageAssumption ==
  /\ LastDate \in Nat \ {0} /\ SlotsPerDay \in Nat /\ MaxBlocks \in Nat /\ MaxActs \in Nat
  /\ BlockDates \subseteq 1..LastDate

VARIABLES
  configured,   \* the turf has slot_duration_minutes and slot_price
  rows,         \* turf_slots: the status of each slot, or "none"
  blocked,      \* turf_blocked_dates and turf_blocked_time_ranges
  spent,        \* ids of blocks that were given out
  page,
  call

server   == <<configured, rows, blocked, spent>>
pageVars == <<server, page, call>>

Days      == 1..LastDate
ViewDates == Days \cup {0}   \* 0 is the emptied input
Kinds     == {"day", "range"}
Slots  == Days \X (1..SlotsPerDay)
Blocks == BlockDates \X Kinds \X (1..MaxBlocks)

(* A day block covers every slot of its date, the n-th range the n-th.      *)
Covers(b, s) == b[1] = s[1] /\ (b[2] = "day" \/ b[3] = s[2])

Shown(s, st, bs) ==
  [id |-> s, status |-> st, available |-> st = "OPEN" /\ \A b \in bs : ~Covers(b, s)]

SlotsOf(d, rs, bs) == {Shown(s, rs[s], bs) : s \in {x \in Slots : x[1] = d /\ rs[x] # "none"}}

(* SlotStatusBadge                                                          *)
Badge(slot) == IF slot.status = "BLOCKED" THEN "Blocked"
               ELSE IF slot.available THEN "Open" ELSE "Unavailable"

ShownSlot == [id : Slots, status : {"OPEN", "BLOCKED"}, available : BOOLEAN]

(* The page.  "listed" counts the entries of each block in its two lists.   *)
(* History: "past" (did a request overlap with another one or with a change *)
(* of the date, was the answer to a write lost, or did another session      *)
(* write?), "slotsRead" and "listsRead" (did the last load of the slots,    *)
(* and those of the two lists, bring them?).                                *)
NewPage ==
  [view |-> "loading", configured |-> FALSE, viewDate |-> 1, slots |-> {}, loading |-> FALSE,
   slotsError |-> FALSE, pending |-> <<>>, busy |-> {}, listed |-> [b \in Blocks |-> 0],
   acts |-> 0, past |-> "serial", slotsRead |-> FALSE, listsRead |-> {}]

Page == [view : {"loading", "ready", "failed"}, configured : BOOLEAN, viewDate : ViewDates,
         slots : SUBSET ShownSlot, loading : BOOLEAN, slotsError : BOOLEAN,
         pending : Slots \cup {<<>>},
         busy : SUBSET {"settings", "generate", "day", "range"}, listed : [Blocks -> Nat],
         acts : Nat, past : {"serial", "overlapped", "disturbed"},
         slotsRead : BOOLEAN, listsRead : SUBSET Kinds]

(* A request: what it is about, the status toggleSlot asks for, the date    *)
(* that was viewed when its handler started, and what it was answered.  The *)
(* two lists of blocks are loaded by one request here, which brings both,   *)
(* one or none of them.                                                     *)
Request(op, item, want, d) ==
  [op |-> op, item |-> item, want |-> want, date |-> d, phase |-> "sent", ok |-> FALSE,
   configured |-> FALSE, slots |-> {}, lists |-> {}, blocks |-> {}]

Load(op, d) == Request(op, <<>>, "none", d)

Writes == {"settings", "generate", "toggle", "remove", "block", "unblock"}

Call == [op : {"turf", "slots", "blocks"} \cup Writes,
         item : Slots \cup Blocks \cup (Days \X Days) \cup {<<>>},
         want : {"none", "OPEN", "BLOCKED"}, date : ViewDates, phase : {"sent", "answered"},
         ok : BOOLEAN, configured : BOOLEAN, slots : SUBSET ShownSlot,
         lists : SUBSET Kinds, blocks : SUBSET Blocks]

ASSUME NoneAssumption == None \notin Call

(* The page is opened before the first generation, or after one.            *)
PageInit ==
  /\ configured \in BOOLEAN
  /\ \E st \in {"none", "OPEN"} : rows = [s \in Slots |-> st]
  /\ blocked = {} /\ spent = {}
  /\ page = NewPage
  /\ \E c \in Calls : call = [x \in Calls |-> IF x = c THEN Load("turf", 1) ELSE None]

-----------------------------------------------------------------------------
(* What the page offers, section by section.                               *)

SettingsSection(pg) == IF "settings" \in pg.busy THEN {} ELSE {<<"settings", <<>>>>}

GenerateSection(pg) ==
  IF "generate" \in pg.busy \/ ~pg.configured THEN {}
  ELSE {<<"generate", r>> : r \in Days \X Days}

(* While slots are loading none is listed; a row waits only for itself.     *)
SlotList(pg) ==
  IF pg.loading THEN {}
  ELSE {<<op, s.id>> : op \in {"toggle", "remove"}, s \in {x \in pg.slots : x.id # pg.pending}}

Unblockable(pg, kind) ==
  {<<"unblock", b>> : b \in {x \in Blocks : x[2] = kind /\ pg.listed[x] > 0}}

Blockable(pg, kind) ==
  IF kind \in pg.busy THEN {} ELSE {<<"block", b>> : b \in {x \in Blocks : x[2] = kind}}

BlockedDatesSection(pg)  == Unblockable(pg, "day") \cup Blockable(pg, "day")
BlockedRangesSection(pg) == Unblockable(pg, "range") \cup Blockable(pg, "range")

Offered(pg) ==
  IF pg.view # "ready" THEN {}
  ELSE SettingsSection(pg) \cup GenerateSection(pg) \cup SlotList(pg)
         \cup BlockedDatesSection(pg) \cup BlockedRangesSection(pg)

-----------------------------------------------------------------------------
(* The page's handlers.                                                    *)

Underway == {c \in Calls : call[c] # None}

Overlaps(pg) == IF pg.past = "serial" /\ Underway # {} THEN "overlapped" ELSE pg.past

(* loadSlots, and the flags of the other handlers, before the request.      *)
Loading(pg) == [pg EXCEPT !.loading = TRUE, !.slotsError = FALSE, !.slotsRead = FALSE]

Started(pg, op, item) ==
  CASE op \in {"settings", "generate"} -> [pg EXCEPT !.busy = @ \cup {op}]
    [] op \in {"toggle", "remove"}     -> [pg EXCEPT !.pending = item]
    [] op = "block"                    -> [pg EXCEPT !.busy = @ \cup {item[2]}]
    [] OTHER                           -> pg

Opposite(slot) == IF slot.status = "OPEN" THEN "BLOCKED" ELSE "OPEN"

Click(c, op, item) ==
  /\ call[c] = None
  /\ <<op, item>> \in Offered(page)
  /\ op = "block" => item \notin spent
  /\ page.acts < MaxActs
  /\ page' = [Started(page, op, item) EXCEPT !.past = Overlaps(page), !.acts = @ + 1]
  /\ \E want \in IF op = "toggle" THEN {Opposite(s) : s \in {x \in page.slots : x.id = item}}
                 ELSE {"none"} :
       call' = [call EXCEPT ![c] = Request(op, item, want, page.viewDate)]
  /\ UNCHANGED server

(* Another date, or none: the effect on viewDate loads its slots.           *)
SetViewDate(c, d) ==
  /\ call[c] = None
  /\ page.view = "ready" /\ d # page.viewDate
  /\ page.acts < MaxActs
  /\ page' = [Loading(page) EXCEPT !.viewDate = d, !.past = Overlaps(page), !.acts = @ + 1]
  /\ call' = [call EXCEPT ![c] = Load("slots", d)]
  /\ UNCHANGED server

(* The turf was loaded: the effects load the slots of the date and the      *)
(* blocks.                                                                  *)
AnswerTurf(c, c2) ==
  /\ call[c] # None /\ call[c].op = "turf" /\ call[c].phase = "answered"
  /\ IF call[c].ok
     THEN /\ call[c2] = None
          /\ page' = [Loading(page) EXCEPT !.view = "ready",
                                           !.configured = call[c].configured]
          /\ call' = [call EXCEPT ![c]  = Load("slots", page.viewDate),
                                  ![c2] = Load("blocks", page.viewDate)]
     ELSE /\ page' = [page EXCEPT !.view = "failed"]
          /\ call' = [call EXCEPT ![c] = None]
  /\ UNCHANGED server

(* The finally branches.                                                    *)
Ended(pg, k) ==
  CASE k.op = "slots"                    -> [pg EXCEPT !.loading = FALSE]
    [] k.op \in {"settings", "generate"} -> [pg EXCEPT !.busy = @ \ {k.op}]
    [] k.op \in {"toggle", "remove"}     -> [pg EXCEPT !.pending = <<>>]
    [] k.op = "block"                    -> [pg EXCEPT !.busy = @ \ {k.item[2]}]
    [] OTHER                             -> pg

(* The lists that were brought, and those that stay as they are.            *)
Lists(k, listed) ==
  [b \in Blocks |-> IF b[2] \notin k.lists THEN listed[b]
                    ELSE IF b \in k.blocks THEN 1 ELSE 0]

(* What the handlers do with a good answer.                                 *)
Succeeded(pg, k) ==
  CASE k.op = "slots"    -> [pg EXCEPT !.slots = k.slots, !.slotsRead = TRUE]
    [] k.op = "blocks"   -> [pg EXCEPT !.listed = Lists(k, @), !.listsRead = k.lists]
    [] k.op = "settings" -> [pg EXCEPT !.configured = k.configured]
    [] k.op = "toggle"   -> [pg EXCEPT !.slots = {IF s.id = k.item THEN (CHOOSE x \in k.slots : TRUE)
                                                  ELSE s : s \in @}]
    [] k.op = "remove"   -> [pg EXCEPT !.slots = {s \in @ : s.id # k.item}]
    [] k.op = "block"    -> [pg EXCEPT !.listed[k.item] = @ + 1]
    [] k.op = "unblock"  -> [pg EXCEPT !.listed[k.item] = 0]
    [] OTHER             -> pg

(* The catch branches: the old slots stay, with an error.  (A list of blocks *)
(* that could not be read has its own error, which the next block clears.)  *)
Failed(pg, k) ==
  IF k.op \in {"slots", "toggle", "remove"} THEN [pg EXCEPT !.slotsError = TRUE] ELSE pg

(* Mutant: an unblocked date is not loaded again.                           *)
ReloadsBlocked(k) == k.op = "block" /\ k.item[1] = k.date

(* Generation, and a block that comes or goes, load the slots again if they *)
(* concern the date that was viewed when the handler started.               *)
Reloads(k) ==
  CASE k.op = "generate"             -> k.date \in k.item[1]..k.item[2]
    [] k.op \in {"block", "unblock"} -> k.item[1] = k.date
    [] OTHER                         -> FALSE

Answer(c) ==
  /\ call[c] # None /\ call[c].op # "turf" /\ call[c].phase = "answered"
  /\ LET k  == call[c]
         pg == Ended(IF k.ok THEN Succeeded(page, k) ELSE Failed(page, k), k) IN
     IF k.ok /\ Reloads(k)
     THEN /\ page' = Loading(pg)
          /\ call' = [call EXCEPT ![c] = Load("slots", k.date)]
     ELSE /\ page' = pg
          /\ call' = [call EXCEPT ![c] = None]
  /\ UNCHANGED server

(* No answer: a write may or may not have been carried out.                 *)
Lose(c) ==
  /\ call[c] # None
  /\ page' = [(IF call[c].op = "turf" THEN [page EXCEPT !.view = "failed"]
               ELSE Ended(Failed(page, call[c]), call[c]))
                EXCEPT !.past = IF call[c].op \in Writes THEN "disturbed" ELSE @]
  /\ call' = [call EXCEPT ![c] = None]
  /\ UNCHANGED server

-----------------------------------------------------------------------------
(* The server.                                                             *)

Arrived(c, op) == call[c] # None /\ call[c].op = op /\ call[c].phase = "sent"

Reply(c, slots, lists) ==
  call' = [call EXCEPT ![c].phase = "answered", ![c].ok = TRUE, ![c].want = "none",
                       ![c].slots = slots, ![c].lists = lists,
                       ![c].blocks = {b \in blocked : b[2] \in lists},
                       ![c].configured = configured' /\ call[c].op \in {"turf", "settings"}]

ServeTurf(c) ==
  Arrived(c, "turf") /\ UNCHANGED <<server, page>> /\ Reply(c, {}, {})

ServeSlots(c) ==
  /\ Arrived(c, "slots") /\ call[c].date \in Days /\ UNCHANGED <<server, page>>
  /\ Reply(c, SlotsOf(call[c].date, rows, blocked), {})

ServeBlocks(c) ==
  /\ Arrived(c, "blocks") /\ UNCHANGED <<server, page>>
  /\ \E lists \in SUBSET Kinds : Reply(c, {}, lists)

ServeSettings(c) ==
  /\ Arrived(c, "settings") /\ configured' = TRUE
  /\ UNCHANGED <<rows, blocked, spent, page>> /\ Reply(c, {}, {})

(* Blocked slots are not generated, and those that exist are kept.          *)
Generated(from, to) ==
  [s \in Slots |-> IF /\ s[1] \in from..to /\ rows[s] = "none"
                     /\ \A b \in blocked : ~Covers(b, s)
                  THEN "OPEN" ELSE rows[s]]

ServeGenerate(c) ==
  /\ Arrived(c, "generate") /\ configured /\ call[c].item[1] <= call[c].item[2]
  /\ rows' = Generated(call[c].item[1], call[c].item[2])
  /\ UNCHANGED <<configured, blocked, spent, page>> /\ Reply(c, {}, {})

ServeToggle(c) ==
  LET s == call[c].item IN
  /\ Arrived(c, "toggle") /\ rows[s] # "none"
  /\ rows' = [rows EXCEPT ![s] = call[c].want]
  /\ UNCHANGED <<configured, blocked, spent, page>>
  /\ Reply(c, {Shown(s, call[c].want, blocked)}, {})

ServeRemove(c) ==
  /\ Arrived(c, "remove") /\ rows[call[c].item] # "none"
  /\ rows' = [rows EXCEPT ![call[c].item] = "none"]
  /\ UNCHANGED <<configured, blocked, spent, page>> /\ Reply(c, {}, {})

(* A date is blocked once.                                                  *)
Free(b) == b \notin spent /\ ~ \E x \in blocked : x[1] = b[1] /\ x[2] = "day" /\ b[2] = "day"

ServeBlock(c) ==
  /\ Arrived(c, "block") /\ Free(call[c].item)
  /\ blocked' = blocked \cup {call[c].item} /\ spent' = spent \cup {call[c].item}
  /\ UNCHANGED <<configured, rows, page>> /\ Reply(c, {}, {})

ServeUnblock(c) ==
  /\ Arrived(c, "unblock") /\ call[c].item \in blocked
  /\ blocked' = blocked \ {call[c].item}
  /\ UNCHANGED <<configured, rows, spent, page>> /\ Reply(c, {}, {})

(* An empty date, an invalid form, a range that ends before it starts,      *)
(* missing settings, a row that is gone, a date that is blocked, a database *)
(* that fails: any request may be answered with an error.                   *)
Refuse(c) ==
  /\ call[c] # None /\ call[c].phase = "sent"
  /\ call' = [call EXCEPT ![c].phase = "answered"]
  /\ UNCHANGED <<server, page>>

(* Another session of the owner writes, or a request of this page arrives   *)
(* after its timeout                                                       *)
Elsewhere ==
  /\ page.acts < MaxActs
  /\ \/ /\ \E s \in Slots, st \in {"none", "OPEN", "BLOCKED"} : rows' = [rows EXCEPT ![s] = st]
        /\ UNCHANGED <<configured, blocked, spent>>
     \/ /\ \E b \in Blocks : Free(b) /\ blocked' = blocked \cup {b} /\ spent' = spent \cup {b}
        /\ UNCHANGED <<configured, rows>>
     \/ /\ \E b \in blocked : blocked' = blocked \ {b}
        /\ UNCHANGED <<configured, rows, spent>>
     \/ configured' = TRUE /\ UNCHANGED <<rows, blocked, spent>>
  /\ page' = [page EXCEPT !.past = "disturbed", !.acts = @ + 1]
  /\ UNCHANGED call

Serve(c) ==
  \/ ServeTurf(c) \/ ServeSlots(c) \/ ServeBlocks(c) \/ ServeSettings(c)
  \/ ServeGenerate(c) \/ ServeToggle(c) \/ ServeRemove(c)
  \/ ServeBlock(c) \/ ServeUnblock(c) \/ Refuse(c)

PageNext ==
  \/ \E c \in Calls :
       \/ Serve(c) \/ Answer(c) \/ Lose(c)
       \/ \E offer \in Offered(page) : Click(c, offer[1], offer[2])
       \/ \E d \in ViewDates : SetViewDate(c, d)
  \/ \E c, c2 \in Calls : AnswerTurf(c, c2)
  \/ Elsewhere

PageSpec == PageInit /\ [][PageNext]_pageVars

-----------------------------------------------------------------------------
(* Properties.                                                             *)

(* Every variable keeps its type, and a request is about what its operation *)
(* is about.                                                                *)
ItemsOf(op) == CASE op \in {"toggle", "remove"} -> Slots
                 [] op \in {"block", "unblock"} -> Blocks
                 [] op = "generate"             -> Days \X Days
                 [] OTHER                       -> {<<>>}

PageTypeOK ==
  /\ configured \in BOOLEAN
  /\ rows \in [Slots -> {"none", "OPEN", "BLOCKED"}]
  /\ blocked \subseteq spent /\ spent \subseteq Blocks
  /\ page \in Page /\ call \in [Calls -> Call \cup {None}]
  /\ \A c \in Calls : call[c] # None =>
       /\ call[c].item \in ItemsOf(call[c].op) /\ (call[c].phase = "sent" => ~call[c].ok)
       /\ call[c].op = "toggle" => IF call[c].phase = "sent" THEN call[c].want # "none"
                                   ELSE call[c].ok => call[c].slots # {}

PageIdle == page.view = "ready" /\ Underway = {}

(* A page whose requests did not overlap shows, once idle, what is stored:  *)
(* the slots of the viewed date with the availability the present blocks    *)
(* give them - or an error, if their last load failed -, each block of a    *)
(* list that was read once and no block that is gone, and whether slots can *)
(* be generated; and a slot that no toggle frees ("Unavailable") has its    *)
(* reason on the page, if all was read.                                     *)
IdlePageIsCurrent ==
  PageIdle /\ page.past = "serial" =>
    /\ IF page.slotsRead THEN page.slots = SlotsOf(page.viewDate, rows, blocked)
       ELSE page.slotsError
    /\ \A b \in Blocks : \/ page.listed[b] = IF b \in blocked THEN 1 ELSE 0
                         \/ b[2] \notin page.listsRead /\ page.listed[b] = 0
    /\ page.configured = configured
    /\ page.slotsRead /\ page.listsRead = Kinds =>
         \A s \in page.slots : Badge(s) = "Unavailable" =>
           \E b \in Blocks : page.listed[b] > 0 /\ Covers(b, s.id)

=============================================================================
