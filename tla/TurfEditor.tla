----------------------------- MODULE TurfEditor -----------------------------
(***************************************************************************)
(* The owner's edit page (frontend) and edit screen (mobile) of a turf:     *)
(* details, sports, amenities, photos, submission and deletion.  Every     *)
(* control sends a request of its own, answers arrive in any order, and    *)
(* each answer replaces the turf the page shows.  Of the turf's own row    *)
(* only the status matters here; TurfModeration has the rest.              *)
(***************************************************************************)
EXTENDS Naturals, FiniteSets

CONSTANTS
  Turfs,                       \* turf ids
  Pages,                       \* windows: each shows a page (web) or a screen (mobile)
  Sports, Amenities, Images,   \* what can be attached to a turf
  MaxImages,                   \* maxTurfImages
  Calls,                       \* bound: requests at once
  MaxActs,                     \* bound: clicks and moderations
  Nothing

ASSUME EditorAssumption ==
  /\ MaxImages \in Nat \ {0} /\ MaxActs \in Nat
  /\ IsFiniteSet(Calls) /\ IsFiniteSet(Images)
  /\ Images \cap (Sports \cup Amenities) = {} /\ Sports \cap Amenities = {}
  /\ (Sports \cup Amenities \cup Images) \cap {"idle", "busy"} = {}

VARIABLES
  status,   \* turfs.status of each turf
  items,    \* turf_sports, turf_amenities and turf_images
  page,     \* each page's state
  call,     \* each request on its way
  acts      \* clicks and moderations so far

rows       == <<status, items>>
editorVars == <<status, items, page, call, acts>>

Act == acts < MaxActs /\ acts' = acts + 1

Statuses == {"DRAFT", "PENDING_APPROVAL", "APPROVED", "REJECTED", "SUSPENDED"}

Items    == Sports \cup Amenities \cup Images
Controls == {"save", "submit", "delete", "sport", "amenity", "add", "remove"}

(* What an answer carries of a turf, as far as a page shows it; an answer   *)
(* without a turf has a status of its own.                                  *)
Turf      == [status : Statuses \cup {"none", "deleted", "refused"}, items : SUBSET Items]
Bare(s)   == [status |-> s, items |-> {}]
Stored(t) == [status |-> status[t], items |-> items[t]]
Exists(t) == status[t] \in Statuses

(* "busy" is the seven flags and ids that disable controls.  History:       *)
(* "past" tells whether two requests of the page overlapped since the turf  *)
(* was loaded, or even an answer was lost or somebody else changed it.      *)
Page == [kind  : {"web", "mobile"},
         view  : {"closed", "new", "loading", "ready", "failed"},
         turf  : Turfs \cup {Nothing},
         shown : Turf,
         busy  : [Controls -> {"idle", "busy"} \cup Items],
         past  : {"serial", "overlapped", "disturbed"}]

Pending == [op     : {"load", "create", "save", "submit", "delete", "attach", "detach"},
            page   : Pages \cup {Nothing},
            turf   : Turfs \cup {Nothing},
            item   : Items \cup {"busy"},
            phase  : {"sent", "counted", "written", "answered"},
            answer : Turf]

Call == Pending \cup {Nothing}

ASSUME NothingAssumption == Nothing \notin Pages \cup Pending

Closed == [kind |-> "web", view |-> "closed", turf |-> Nothing, shown |-> Bare("none"),
           busy |-> [c \in Controls |-> "idle"], past |-> "serial"]

EditorInit ==
  /\ status \in [Turfs -> Statuses \cup {"absent"}]
  /\ items = [t \in Turfs |-> {}]
  /\ page = [p \in Pages |-> Closed]
  /\ call = [c \in Calls |-> Nothing]
  /\ acts = 0

-----------------------------------------------------------------------------
(* What a page offers.                                                     *)

(* A box attaches what is not selected and detaches what is; only the box   *)
(* whose id is pending is disabled.                                         *)
CheckboxList(p, options, control) ==
  {<<IF o \in page[p].shown.items THEN "detach" ELSE "attach", o>> :
     o \in options \ {page[p].busy[control]}}

TurfImageManager(p) ==
  {<<"attach", url>> : url \in IF page[p].busy["add"] = "idle" THEN Images ELSE {}}
    \cup {<<"detach", i>> :
            i \in (page[p].shown.items \cap Images) \ {page[p].busy["remove"]}}

TurfDetailsForm(p) == IF page[p].busy["save"] = "idle" THEN {<<"save", "busy">>} ELSE {}

DeleteButton(p) == IF page[p].busy["delete"] = "idle" THEN {<<"delete", "busy">>} ELSE {}

SubmitButton(p) ==
  IF page[p].shown.status \in {"DRAFT", "REJECTED"} /\ page[p].busy["submit"] = "idle"
  THEN {<<"submit", "busy">>} ELSE {}

OwnerTurfEditPage(p) ==
  IF page[p].view # "ready" THEN {}
  ELSE SubmitButton(p) \cup DeleteButton(p) \cup TurfDetailsForm(p) \cup TurfImageManager(p)
         \cup CheckboxList(p, Sports, "sport") \cup CheckboxList(p, Amenities, "amenity")

(* The screen keeps its form after a failed load, with the buttons that do  *)
(* not depend on the turf.                                                  *)
OwnerTurfEditScreen(p) ==
  CASE page[p].view = "ready"  -> SubmitButton(p) \cup DeleteButton(p) \cup TurfDetailsForm(p)
    [] page[p].view = "failed" -> DeleteButton(p) \cup TurfDetailsForm(p)
    [] OTHER -> {}

OwnerTurfCreatePage(p) ==
  IF page[p].view = "new" /\ page[p].busy["save"] = "idle" THEN {<<"create", "busy">>} ELSE {}

Offered(p) == OwnerTurfCreatePage(p) \cup
              IF page[p].kind = "web" THEN OwnerTurfEditPage(p) ELSE OwnerTurfEditScreen(p)

ControlOf(op, item) ==
  CASE op \in {"save", "create"}                 -> "save"
    [] op \in {"submit", "delete"}               -> op
    [] item \in Sports                           -> "sport"
    [] item \in Amenities                        -> "amenity"
    [] item \in Images /\ op = "attach"          -> "add"
    [] OTHER                                     -> "remove"

-----------------------------------------------------------------------------
(* The page.                                                               *)

CallsOf(p) == {c \in Calls : call[c] # Nothing /\ call[c].page = p}

Request(p, op, t, item) ==
  [op |-> op, page |-> p, turf |-> t, item |-> item, phase |-> "sent", answer |-> Bare("none")]

Send(c, p, op, t, item) ==
  call[c] = Nothing /\ call' = [call EXCEPT ![c] = Request(p, op, t, item)]

Open(p, c, kind, t) ==
  /\ page[p].view = "closed" /\ status[t] # "absent"
  /\ page' = [page EXCEPT ![p] = [Closed EXCEPT !.kind = kind, !.view = "loading", !.turf = t]]
  /\ Send(c, p, "load", t, "busy")
  /\ UNCHANGED rows

OpenNew(p, kind) ==
  /\ page[p].view = "closed"
  /\ page' = [page EXCEPT ![p] = [Closed EXCEPT !.kind = kind, !.view = "new"]]
  /\ UNCHANGED <<rows, call>>

(* The handlers up to the request.                                          *)
Click(p, c, op, item) ==
  /\ <<op, item>> \in Offered(p)
  /\ Send(c, p, op, page[p].turf, item)
  /\ page' = [page EXCEPT ![p].busy[ControlOf(op, item)] = item,
                          ![p].past = IF @ = "serial" /\ CallsOf(p) # {} THEN "overlapped" ELSE @]
  /\ Act
  /\ UNCHANGED rows

(* What is left of a request nobody waits for any more.                     *)
Forgotten(k) == IF k.phase \in {"written", "answered"} \/ k.op = "load" THEN Nothing
                ELSE [k EXCEPT !.page = Nothing]

(* The requests once page p is gone: the writes it sent go on without it.   *)
Abandoned(p) == [c \in Calls |-> IF c \in CallsOf(p) THEN Forgotten(call[c]) ELSE call[c]]

Leave(p) ==
  /\ page[p].view # "closed"
  /\ page' = [page EXCEPT ![p] = Closed]
  /\ call' = Abandoned(p)
  /\ UNCHANGED rows

(* The finally branches free the control, in catch branches too ...         *)
Freed(pg, k) == [pg EXCEPT !.busy[ControlOf(k.op, k.item)] = "idle"]

(* Mutant: an error leaves the control disabled.                            *)
FailedStuck(pg, k) == IF k.op = "load" THEN [pg EXCEPT !.view = "failed"] ELSE pg

Failed(pg, k) == IF k.op = "load" THEN [pg EXCEPT !.view = "failed"] ELSE Freed(pg, k)

(* Mutant: the handlers throw away the turf that came back.                 *)
SucceededUnseen(pg, k) ==
  CASE k.op = "load"   -> [pg EXCEPT !.view = "ready", !.shown = k.answer]
    [] k.op = "delete" -> Closed
    [] OTHER           -> Freed(pg, k)

(* ... and a turf that came back replaces the one shown, also on a screen   *)
(* whose load had failed; after a deletion the page goes to the list.       *)
Succeeded(pg, k) ==
  CASE k.op = "load"   -> [pg EXCEPT !.view = "ready", !.shown = k.answer]
    [] k.op = "delete" -> Closed
    [] OTHER           -> [Freed(pg, k) EXCEPT !.shown = k.answer, !.view = "ready"]

Answered(pg, k) ==
  IF k.answer.status = "refused" THEN Failed(pg, k) ELSE Succeeded(pg, k)

Answer(p, c) ==
  /\ c \in CallsOf(p) /\ call[c].phase = "answered" /\ call[c].op # "create"
  /\ page' = [page EXCEPT ![p] = Answered(@, call[c])]
  /\ call' = IF page'[p].view = "closed" THEN Abandoned(p) ELSE [call EXCEPT ![c] = Nothing]
  /\ UNCHANGED rows

(* The create page hands off to the edit page, the screen goes back.        *)
AnswerCreate(p, c) ==
  LET t == call[c].turf
      handsOff == call[c].answer.status # "refused" /\ page[p].kind = "web" IN
  /\ c \in CallsOf(p) /\ call[c].phase = "answered" /\ call[c].op = "create"
  /\ page' = [page EXCEPT ![p] =
                CASE call[c].answer.status = "refused" -> Answered(@, call[c])
                  [] handsOff -> [Closed EXCEPT !.view = "loading", !.turf = t]
                  [] OTHER    -> Closed]
  /\ call' = [call EXCEPT ![c] = IF handsOff THEN Request(p, "load", t, "busy") ELSE Nothing]
  /\ UNCHANGED rows

(* A timeout, or an answer that does not arrive: an error on the page,      *)
(* whatever the server did or still does.                                   *)
Lose(p, c) ==
  /\ c \in CallsOf(p)
  /\ page' = [page EXCEPT ![p] = [Failed(@, call[c]) EXCEPT !.past = "disturbed"]]
  /\ call' = [call EXCEPT ![c] = Forgotten(@)]
  /\ UNCHANGED rows

(* A request nobody waits for that does not reach the server.               *)
Discard(c) ==
  /\ call[c] # Nothing /\ call[c].page = Nothing
  /\ call' = [call EXCEPT ![c] = Nothing]
  /\ UNCHANGED <<rows, page>>

-----------------------------------------------------------------------------
(* The server: the statement of a request, and then the turf is read for    *)
(* the answer.                                                              *)

Arrived(c, op) == call[c] # Nothing /\ call[c].phase = "sent" /\ call[c].op = op

(* Somebody other than page p changed turf t.                               *)
OthersSee(t, p) ==
  page' = [q \in Pages |-> IF q # p /\ page[q].turf = t
                           THEN [page[q] EXCEPT !.past = "disturbed"] ELSE page[q]]

Reply(c, answer) ==
  call' = [call EXCEPT ![c] = IF @.page = Nothing THEN Nothing
                              ELSE [@ EXCEPT !.phase = "answered", !.answer = answer]]

Written(c, t) ==
  /\ OthersSee(t, call[c].page)
  /\ call' = [call EXCEPT ![c] = IF @.page = Nothing THEN Nothing
                                 ELSE [@ EXCEPT !.phase = "written", !.turf = t]]

(* TurfByOwnerAndID                                                         *)
Read(c) ==
  /\ call[c] # Nothing
  /\ call[c].phase = IF call[c].op = "load" THEN "sent" ELSE "written"
  /\ Reply(c, IF Exists(call[c].turf) THEN Stored(call[c].turf) ELSE Bare("refused"))
  /\ UNCHANGED <<rows, page>>

ServeCreate(c, t) ==
  /\ Arrived(c, "create") /\ status[t] = "absent"
  /\ status' = [status EXCEPT ![t] = "DRAFT"]
  /\ UNCHANGED items
  /\ Written(c, t)

(* Mutant: a status the rest of the code does not know.                     *)
ServeSaveMisspelt(c) ==
  LET t == call[c].turf IN
  /\ Arrived(c, "save") /\ Exists(t)
  /\ status' = [status EXCEPT ![t] = IF @ = "APPROVED" THEN "PENDING" ELSE @]
  /\ UNCHANGED items
  /\ Written(c, t)

(* UpdateTurf: editing an APPROVED turf sends it back for review.           *)
ServeSave(c) ==
  LET t == call[c].turf IN
  /\ Arrived(c, "save") /\ Exists(t)
  /\ status' = [status EXCEPT ![t] = IF @ = "APPROVED" THEN "PENDING_APPROVAL" ELSE @]
  /\ UNCHANGED items
  /\ Written(c, t)

ServeSubmit(c) ==
  LET t == call[c].turf IN
  /\ Arrived(c, "submit") /\ status[t] \in {"DRAFT", "REJECTED"}
  /\ status' = [status EXCEPT ![t] = "PENDING_APPROVAL"]
  /\ UNCHANGED items
  /\ Written(c, t)

(* The attachments go with the turf, ON DELETE CASCADE.                     *)
ServeDelete(c) ==
  LET t == call[c].turf IN
  /\ Arrived(c, "delete") /\ Exists(t)
  /\ status' = [status EXCEPT ![t] = "deleted"]
  /\ items' = [items EXCEPT ![t] = {}]
  /\ OthersSee(t, call[c].page) /\ Reply(c, Bare("deleted"))

(* RemoveTurfSport, RemoveTurfAmenity and RemoveTurfImage.                  *)
Detach(c) ==
  LET t == call[c].turf IN
  /\ Arrived(c, "detach")
  /\ call[c].item \in items[t]
  /\ items' = [items EXCEPT ![t] = @ \ {call[c].item}]
  /\ UNCHANGED status
  /\ Written(c, t)

ImagesOf(t) == items[t] \cap Images

(* Mutant: no cap.                                                          *)
CountImagesNever(c) ==
  /\ Arrived(c, "attach") /\ call[c].item \in Images
  /\ call' = [call EXCEPT ![c].phase = "counted"]
  /\ UNCHANGED <<rows, page>>

(* AddTurfImage, first statement: the count.                                *)
CountImages(c) ==
  /\ Arrived(c, "attach") /\ call[c].item \in Images
  /\ Cardinality(ImagesOf(call[c].turf)) < MaxImages
  /\ call' = [call EXCEPT ![c].phase = "counted"]
  /\ UNCHANGED <<rows, page>>

(* Mutant: the insert does not look at turfs.                               *)
AttachBlindly(c) ==
  LET t == call[c].turf IN
  /\ call[c] # Nothing /\ call[c].op = "attach"
  /\ call[c].phase = IF call[c].item \in Images THEN "counted" ELSE "sent"
  /\ items' = [items EXCEPT ![t] = @ \cup {call[c].item}]
  /\ UNCHANGED status
  /\ OthersSee(t, call[c].page) /\ Reply(c, Bare("refused"))

(* SetTurfSport, SetTurfAmenity and the second statement of AddTurfImage:   *)
(* INSERT ... SELECT FROM turfs, which looks at the turf but not at the     *)
(* count, and which an item already there does not disturb.                 *)
Attach(c) ==
  LET t == call[c].turf IN
  /\ call[c] # Nothing /\ call[c].op = "attach"
  /\ call[c].phase = IF call[c].item \in Images THEN "counted" ELSE "sent"
  /\ Exists(t)
  /\ items' = [items EXCEPT ![t] = @ \cup {call[c].item}]
  /\ UNCHANGED status
  /\ Written(c, t)

(* What the server answers with an error: an invalid form, a catalogue      *)
(* entry that was retired, a statement that matched no row, the cap.        *)
Refusable(k) ==
  \/ k.op \in {"create", "save", "attach"}
  \/ k.op = "submit" /\ status[k.turf] \notin {"DRAFT", "REJECTED"}
  \/ k.op = "delete" /\ ~Exists(k.turf)
  \/ k.op = "detach" /\ k.item \notin items[k.turf]

Refuse(c) ==
  /\ call[c] # Nothing /\ call[c].phase \in {"sent", "counted"} /\ Refusable(call[c])
  /\ Reply(c, Bare("refused"))
  /\ UNCHANGED <<rows, page>>

(* An administrator acts on the turf: transitionTurf.                       *)
Moderate(t) ==
  /\ \E to \in CASE status[t] = "PENDING_APPROVAL" -> {"APPROVED", "REJECTED"}
                 [] status[t] = "APPROVED"         -> {"SUSPENDED"}
                 [] status[t] = "SUSPENDED"        -> {"APPROVED"}
                 [] OTHER                          -> {} :
       status' = [status EXCEPT ![t] = to]
  /\ OthersSee(t, Nothing) /\ Act
  /\ UNCHANGED <<items, call>>

Serve(c) ==
  \/ Read(c)
  \/ \E t \in Turfs : ServeCreate(c, t)
  \/ ServeSave(c) \/ ServeSubmit(c) \/ ServeDelete(c)
  \/ CountImages(c) \/ Attach(c) \/ Detach(c)
  \/ Refuse(c)

EditorNext ==
  \/ \E p \in Pages, c \in Calls :
       \E control \in Offered(p) : Click(p, c, control[1], control[2])
  \/ \E t \in Turfs : Moderate(t)
  \/ /\ \/ \E c \in Calls : Serve(c) \/ Discard(c)
        \/ \E p \in Pages : Leave(p) \/ \E kind \in {"web", "mobile"} : OpenNew(p, kind)
        \/ \E p \in Pages, c \in Calls :
             \/ \E t \in Turfs, kind \in {"web", "mobile"} : Open(p, c, kind, t)
             \/ Answer(p, c) \/ AnswerCreate(p, c) \/ Lose(p, c)
     /\ UNCHANGED acts

EditorSpec == EditorInit /\ [][EditorNext]_editorVars

-----------------------------------------------------------------------------
(* Properties.                                                             *)

(* Every variable of the pages and of the attachments keeps its type.       *)
EditorTypeOK ==
  /\ status \in [Turfs -> Statuses \cup {"absent", "deleted"}]
  /\ items \in [Turfs -> SUBSET Items]
  /\ page \in [Pages -> Page] /\ call \in [Calls -> Call]

(* A page whose requests never overlapped, and that is the only one to work *)
(* on its turf, shows what is stored once it is idle: each answer carries   *)
(* the whole turf, and every handler shows it.                              *)
ShownIsStored ==
  \A p \in Pages :
    page[p].view = "ready" /\ page[p].past = "serial" /\ CallsOf(p) = {} =>
      /\ Exists(page[p].turf)
      /\ page[p].shown = Stored(page[p].turf)

(* A control that is disabled waits for a request that is on its way: none  *)
(* stays disabled after its request was answered, refused or lost.          *)
NoDeadControl ==
  \A p \in Pages, ctl \in Controls :
    page[p].busy[ctl] # "idle" =>
      \E c \in CallsOf(p) : ControlOf(call[c].op, call[c].item) = ctl

(* The cap on images is soft, but not without limit: each request that      *)
(* passed the count adds one at most.                                       *)
ImagesBounded ==
  \A t \in Turfs : Cardinality(ImagesOf(t)) < MaxImages + Cardinality(Calls)

(* Requests that were on their way when a turf was deleted leave nothing    *)
(* attached to it.                                                          *)
NoOrphans == \A t \in Turfs : ~Exists(t) => items[t] = {}

Lifecycle == INSTANCE TurfLifecycle

(* What lost, late and abandoned requests of any number of pages write is   *)
(* what the server of TurfModeration may do to a status.                    *)
EditorKeepsLifecycle == Lifecycle!Spec
=============================================================================
