-------------------------- MODULE TurfEditorProofs --------------------------
(***************************************************************************)
(* What holds of the owner's pages and of the attachments for any number   *)
(* of windows, turfs, requests and images.                                 *)
(***************************************************************************)
EXTENDS TurfEditor, FiniteSetTheorems, TLAPS

(* A request is on its way, or there is none.                               *)
LEMMA CallCases == Call = Pending \cup {Nothing}
  BY DEF Call

-----------------------------------------------------------------------------
(* Types of the operators the steps are built from.                        *)

(* An answer without a turf.                                                *)
LEMMA BareType == \A s \in {"none", "deleted", "refused"} : Bare(s) \in Turf
  BY DEF Turf, Bare

(* What is read for an answer.                                              *)
LEMMA StoredType ==
  ASSUME EditorTypeOK, NEW t \in Turfs, Exists(t)
  PROVE  Stored(t) \in Turf
  BY DEF EditorTypeOK, Exists, Stored, Turf

(* A request as it is sent.                                                 *)
LEMMA RequestType ==
  ASSUME NEW p \in Pages, NEW t \in Turfs \cup {Nothing}, NEW item \in Items \cup {"busy"},
         NEW op \in {"load", "create", "save", "submit", "delete", "attach", "detach"}
  PROVE  Request(p, op, t, item) \in Pending
  BY BareType DEF Request, Pending

(* What a request becomes: served, or forgotten by its page.                *)
LEMMA PendingTypes ==
  ASSUME NEW k \in Pending
  PROVE  /\ \A phase \in {"sent", "counted", "written", "answered"} :
              [k EXCEPT !.phase = phase] \in Pending
         /\ \A answer \in Turf : [k EXCEPT !.phase = "answered", !.answer = answer] \in Pending
         /\ \A t \in Turfs : [k EXCEPT !.phase = "written", !.turf = t] \in Pending
         /\ [k EXCEPT !.page = Nothing] \in Pending
         /\ Forgotten(k) \in Call
<1>1. [k EXCEPT !.page = Nothing] \in Pending
  BY DEF Pending
<1>2. Forgotten(k) \in Call
  BY <1>1, CallCases DEF Forgotten
<1>3. /\ \A phase \in {"sent", "counted", "written", "answered"} :
           [k EXCEPT !.phase = phase] \in Pending
      /\ \A t \in Turfs : [k EXCEPT !.phase = "written", !.turf = t] \in Pending
  BY DEF Pending
<1>4. \A answer \in Turf : [k EXCEPT !.phase = "answered", !.answer = answer] \in Pending
  BY DEF Pending
<1> QED BY <1>1, <1>2, <1>3, <1>4

(* The requests once their page is gone.                                    *)
LEMMA AbandonedType ==
  ASSUME call \in [Calls -> Call], NEW p \in Pages
  PROVE  Abandoned(p) \in [Calls -> Call]
<1>1. \A c \in CallsOf(p) : call[c] \in Pending
  BY CallCases DEF CallsOf
<1>2. \A c \in CallsOf(p) : Forgotten(call[c]) \in Call
  BY <1>1, PendingTypes
<1> QED BY <1>2 DEF Abandoned

(* The controls.                                                            *)
LEMMA ControlType == \A op, item : ControlOf(op, item) \in Controls
  BY DEF ControlOf, Controls

(* A page that is opened, or changes one of its parts.                      *)
LEMMA PageTypes ==
  /\ Closed \in Page
  /\ \A kind \in {"web", "mobile"}, view \in {"loading", "new"}, t \in Turfs \cup {Nothing} :
       /\ [Closed EXCEPT !.kind = kind, !.view = view] \in Page
       /\ [Closed EXCEPT !.kind = kind, !.view = view, !.turf = t] \in Page
       /\ [Closed EXCEPT !.view = view, !.turf = t] \in Page
  /\ \A pg \in Page :
       /\ [pg EXCEPT !.view = "failed"] \in Page
       /\ \A past \in {"serial", "overlapped", "disturbed"} : [pg EXCEPT !.past = past] \in Page
       /\ \A shown \in Turf : [pg EXCEPT !.view = "ready", !.shown = shown] \in Page
       /\ \A shown \in Turf : [pg EXCEPT !.shown = shown, !.view = "ready"] \in Page
       /\ \A busy \in [Controls -> {"idle", "busy"} \cup Items] : [pg EXCEPT !.busy = busy] \in Page
<1>1. Closed \in Page
  BY BareType DEF Closed, Page
<1>2. \A kind \in {"web", "mobile"}, view \in {"loading", "new"}, t \in Turfs \cup {Nothing} :
       /\ [Closed EXCEPT !.kind = kind, !.view = view] \in Page
       /\ [Closed EXCEPT !.kind = kind, !.view = view, !.turf = t] \in Page
       /\ [Closed EXCEPT !.view = view, !.turf = t] \in Page
  BY <1>1, ZenonT(60) DEF Page
<1>3. \A pg \in Page :
       /\ [pg EXCEPT !.view = "failed"] \in Page
       /\ \A past \in {"serial", "overlapped", "disturbed"} : [pg EXCEPT !.past = past] \in Page
  BY DEF Page
<1>4. \A pg \in Page :
       /\ \A shown \in Turf : [pg EXCEPT !.view = "ready", !.shown = shown] \in Page
       /\ \A shown \in Turf : [pg EXCEPT !.shown = shown, !.view = "ready"] \in Page
       /\ \A busy \in [Controls -> {"idle", "busy"} \cup Items] : [pg EXCEPT !.busy = busy] \in Page
  BY DEF Page
<1> QED BY <1>1, <1>2, <1>3, <1>4

(* The page once an answer arrived, or did not.                             *)
LEMMA AnsweredType ==
  ASSUME NEW pg \in Page, NEW k \in Pending
  PROVE  Freed(pg, k) \in Page /\ Failed(pg, k) \in Page /\ Answered(pg, k) \in Page
<1>1. Freed(pg, k) \in Page
  <2> DEFINE busy == [pg.busy EXCEPT ![ControlOf(k.op, k.item)] = "idle"]
  <2>1. busy \in [Controls -> {"idle", "busy"} \cup Items]
    BY DEF Page
  <2>2. Freed(pg, k) = [pg EXCEPT !.busy = busy]
    BY DEF Freed
  <2> HIDE DEF busy
  <2> QED BY <2>1, <2>2, PageTypes, ZenonT(60)
<1>2. Failed(pg, k) \in Page
  BY <1>1, PageTypes DEF Failed
<1>3. Succeeded(pg, k) \in Page
  <2>1. k.answer \in Turf
    BY DEF Pending
  <2> QED BY <1>1, <2>1, PageTypes DEF Succeeded
<1> QED BY <1>1, <1>2, <1>3 DEF Answered

(* What a page offers is an operation on one of the items, or on none.      *)
LEMMA OfferedType ==
  ASSUME EditorTypeOK, NEW p \in Pages, NEW op, NEW item, <<op, item>> \in Offered(p)
  PROVE  /\ op \in {"create", "save", "submit", "delete", "attach", "detach"}
         /\ item \in Items \cup {"busy"}
         /\ op = "attach" => item \in Items
<1> DEFINE Control == {"create", "save", "submit", "delete", "attach", "detach"}
                       \X (Items \cup {"busy"}) \ {<<"attach", "busy">>}
<1>1. CheckboxList(p, Sports, "sport") \cup CheckboxList(p, Amenities, "amenity") \subseteq Control
  BY EditorAssumption DEF CheckboxList, Items
<1>2. TurfImageManager(p) \subseteq Control
  BY EditorAssumption DEF TurfImageManager, Items
<1>3. TurfDetailsForm(p) \cup DeleteButton(p) \cup SubmitButton(p) \subseteq Control
  BY DEF TurfDetailsForm, DeleteButton, SubmitButton
<1>4. OwnerTurfCreatePage(p) \subseteq Control
  BY DEF OwnerTurfCreatePage
<1>5. OwnerTurfEditPage(p) \cup OwnerTurfEditScreen(p) \subseteq Control
  BY <1>1, <1>2, <1>3 DEF OwnerTurfEditPage, OwnerTurfEditScreen
<1>6. <<op, item>> \in Control
  BY <1>4, <1>5 DEF Offered
<1> QED BY <1>6

-----------------------------------------------------------------------------
(* Type correctness, action by action.                                     *)

PageTypeOK == page \in [Pages -> Page]
CallTypeOK == call \in [Calls -> Call]
RowTypeOK  == /\ status \in [Turfs -> Statuses \cup {"absent", "deleted"}]
              /\ items \in [Turfs -> SUBSET Items]

(* The type invariant is that of the rows, the pages and the requests.      *)
LEMMA TypeParts ==
  /\ EditorTypeOK => RowTypeOK /\ PageTypeOK /\ CallTypeOK
  /\ RowTypeOK' /\ PageTypeOK' /\ CallTypeOK' => EditorTypeOK'
  BY DEF EditorTypeOK, RowTypeOK, PageTypeOK, CallTypeOK

(* One page, or one request, is replaced by another.                        *)
LEMMA OneChanges ==
  /\ \A p \in Pages, pg \in Page : PageTypeOK /\ page' = [page EXCEPT ![p] = pg] => PageTypeOK'
  /\ \A c \in Calls, k \in Call : CallTypeOK /\ call' = [call EXCEPT ![c] = k] => CallTypeOK'
  BY DEF PageTypeOK, CallTypeOK

(* A page sends a request.                                                  *)
LEMMA SendType ==
  ASSUME CallTypeOK, NEW p \in Pages, NEW c \in Calls, NEW t \in Turfs \cup {Nothing},
         NEW item \in Items \cup {"busy"},
         NEW op \in {"load", "create", "save", "submit", "delete", "attach", "detach"},
         Send(c, p, op, t, item)
  PROVE  CallTypeOK'
  BY RequestType, CallCases, OneChanges DEF Send

(* What a visitor does: open a page, click, leave.                          *)
LEMMA VisitorTypes ==
  ASSUME EditorTypeOK, NEW p \in Pages
  PROVE  /\ \A c \in Calls, kind \in {"web", "mobile"}, t \in Turfs :
              Open(p, c, kind, t) => EditorTypeOK'
         /\ \A kind \in {"web", "mobile"} : OpenNew(p, kind) => EditorTypeOK'
         /\ \A c \in Calls : \A op, item : Click(p, c, op, item) => EditorTypeOK'
         /\ Leave(p) => EditorTypeOK'
<1>1. RowTypeOK /\ PageTypeOK /\ CallTypeOK /\ page[p] \in Page
  BY TypeParts DEF PageTypeOK
<1>2. UNCHANGED rows => RowTypeOK'
  BY <1>1 DEF rows, RowTypeOK
<1>3. ASSUME NEW c \in Calls, NEW kind \in {"web", "mobile"}, NEW t \in Turfs, Open(p, c, kind, t)
      PROVE  EditorTypeOK'
  <2>1. PageTypeOK'
    BY <1>1, <1>3, PageTypes, OneChanges DEF Open
  <2>2. CallTypeOK'
    BY <1>1, <1>3, SendType DEF Open
  <2> QED BY <1>2, <1>3, <2>1, <2>2, TypeParts DEF Open
<1>4. ASSUME NEW kind \in {"web", "mobile"}, OpenNew(p, kind) PROVE EditorTypeOK'
  <2>1. PageTypeOK'
    BY <1>1, <1>4, PageTypes, OneChanges DEF OpenNew
  <2>2. CallTypeOK'
    BY <1>1, <1>4 DEF OpenNew, CallTypeOK
  <2> QED BY <1>2, <1>4, <2>1, <2>2, TypeParts DEF OpenNew
<1>5. ASSUME NEW c \in Calls, NEW op, NEW item, Click(p, c, op, item) PROVE EditorTypeOK'
  <2>1. /\ op \in {"create", "save", "submit", "delete", "attach", "detach"}
        /\ item \in Items \cup {"busy"} /\ page[p].turf \in Turfs \cup {Nothing}
    BY <1>1, <1>5, OfferedType DEF Click, Page
  <2>2. CallTypeOK'
    BY <1>1, <1>5, <2>1, SendType DEF Click
  <2> DEFINE busy == [page[p].busy EXCEPT ![ControlOf(op, item)] = item]
             past == IF page[p].past = "serial" /\ CallsOf(p) # {}
                     THEN "overlapped" ELSE page[p].past
  <2>3. busy \in [Controls -> {"idle", "busy"} \cup Items]
    BY <1>1, <2>1 DEF Page
  <2>4. past \in {"serial", "overlapped", "disturbed"}
    BY <1>1 DEF Page
  <2>5. page' = [page EXCEPT ![p] = [[page[p] EXCEPT !.busy = busy] EXCEPT !.past = past]]
    BY <1>1, <1>5 DEF Click, PageTypeOK
  <2> HIDE DEF busy, past
  <2>6. PageTypeOK'
    BY <1>1, <2>3, <2>4, <2>5, PageTypes, OneChanges
  <2> QED BY <1>2, <1>5, <2>2, <2>6, TypeParts DEF Click
<1>6. ASSUME Leave(p) PROVE EditorTypeOK'
  <2>1. PageTypeOK'
    BY <1>1, <1>6, PageTypes, OneChanges DEF Leave
  <2>2. CallTypeOK'
    BY <1>1, <1>6, AbandonedType DEF Leave, CallTypeOK
  <2> QED BY <1>2, <1>6, <2>1, <2>2, TypeParts DEF Leave
<1> QED BY <1>3, <1>4, <1>5, <1>6

(* What becomes of an answer in a page.                                     *)
LEMMA AnswerTypes ==
  ASSUME EditorTypeOK, NEW p \in Pages, NEW c \in Calls,
         Answer(p, c) \/ AnswerCreate(p, c) \/ Lose(p, c)
  PROVE  EditorTypeOK'
<1>1. RowTypeOK /\ PageTypeOK /\ CallTypeOK /\ page[p] \in Page
  BY TypeParts DEF PageTypeOK
<1>2. /\ RowTypeOK' /\ call[c] \in Pending
      /\ Answered(page[p], call[c]) \in Page /\ Failed(page[p], call[c]) \in Page
  <2>1. call[c] # Nothing
    BY DEF Answer, AnswerCreate, Lose, CallsOf
  <2>2. call[c] \in Pending
    BY <1>1, <2>1, CallCases DEF CallTypeOK
  <2>3. RowTypeOK'
    BY <1>1 DEF Answer, AnswerCreate, Lose, rows, RowTypeOK
  <2> QED BY <1>1, <2>2, <2>3, AnsweredType
<1>3. CASE Answer(p, c)
  <2>1. PageTypeOK'
    BY <1>1, <1>2, <1>3, OneChanges DEF Answer
  <2>2. call' = Abandoned(p) \/ call' = [call EXCEPT ![c] = Nothing]
    BY <1>3 DEF Answer
  <2>3. CallTypeOK'
    BY <1>1, <2>2, CallCases, OneChanges, AbandonedType DEF CallTypeOK
  <2> QED BY <1>2, <2>1, <2>3, TypeParts
<1>4. CASE AnswerCreate(p, c)
  <2>1. call[c].turf \in Turfs \cup {Nothing}
    BY <1>2 DEF Pending
  <2>2. PageTypeOK'
    BY <1>1, <1>2, <1>4, <2>1, PageTypes, OneChanges DEF AnswerCreate
  <2>3. CallTypeOK'
    BY <1>1, <1>4, <2>1, RequestType, CallCases, OneChanges DEF AnswerCreate
  <2> QED BY <1>2, <2>2, <2>3, TypeParts
<1>5. CASE Lose(p, c)
  <2>1. PageTypeOK'
    BY <1>1, <1>2, <1>5, PageTypes, OneChanges DEF Lose
  <2>2. CallTypeOK'
    BY <1>1, <1>2, <1>5, PendingTypes, OneChanges DEF Lose
  <2> QED BY <1>2, <2>1, <2>2, TypeParts
<1> QED BY <1>3, <1>4, <1>5

(* What the server answers, and what it writes before it reads the answer.  *)
LEMMA ReplyTypes ==
  ASSUME EditorTypeOK, NEW c \in Calls, call[c] # Nothing
  PROVE  /\ \A answer \in Turf : Reply(c, answer) => CallTypeOK'
         /\ \A t \in Turfs : Written(c, t) => CallTypeOK' /\ PageTypeOK'
         /\ \A t, p : OthersSee(t, p) => PageTypeOK'
<1>1. RowTypeOK /\ PageTypeOK /\ CallTypeOK
  BY TypeParts
<1>2. call[c] \in Pending /\ Nothing \in Call
  BY <1>1, CallCases DEF CallTypeOK
<1>3. ASSUME NEW answer \in Turf, Reply(c, answer) PROVE CallTypeOK'
  <2> DEFINE k == IF call[c].page = Nothing THEN Nothing
                  ELSE [call[c] EXCEPT !.phase = "answered", !.answer = answer]
  <2>1. k \in Call
    BY <1>2, PendingTypes, CallCases
  <2>2. call' = [call EXCEPT ![c] = k]
    BY <1>1, <1>3 DEF Reply, CallTypeOK
  <2> QED BY <1>1, <2>1, <2>2, OneChanges
<1>4. ASSUME NEW t, NEW p, OthersSee(t, p) PROVE PageTypeOK'
  <2>1. \A q \in Pages : [page[q] EXCEPT !.past = "disturbed"] \in Page /\ page[q] \in Page
    BY <1>1, PageTypes DEF PageTypeOK
  <2> QED BY <1>4, <2>1 DEF OthersSee, PageTypeOK
<1>5. ASSUME NEW t \in Turfs, Written(c, t) PROVE CallTypeOK' /\ PageTypeOK'
  <2> DEFINE k == IF call[c].page = Nothing THEN Nothing
                  ELSE [call[c] EXCEPT !.phase = "written", !.turf = t]
  <2>1. k \in Call
    BY <1>2, PendingTypes, CallCases
  <2>2. call' = [call EXCEPT ![c] = k]
    BY <1>1, <1>5 DEF Written, CallTypeOK
  <2> QED BY <1>1, <1>4, <1>5, <2>1, <2>2, OneChanges DEF Written
<1> QED BY <1>3, <1>4, <1>5

-----------------------------------------------------------------------------
(* A request is about a turf, except a creation that has not happened, and  *)
(* so is a page, except one that is closed or new.  A page waits for its    *)
(* own kind of request only, and a new one for one creation at a time.      *)
(* What is attached is an item.                                             *)
CallsAimed ==
  \A c \in Calls :
    call[c] # Nothing =>
      /\ \/ call[c].turf \in Turfs
         \/ /\ call[c].op = "create"
            /\ \/ call[c].phase = "sent"
               \/ call[c].phase = "answered" /\ call[c].answer.status = "refused"
      /\ call[c].op = "attach" => call[c].item \in Items

PagesAimed ==
  \A p \in Pages :
    /\ page[p].turf \in Turfs \/ page[p].view \in {"closed", "new"}
    /\ \A c \in CallsOf(p) :
         /\ page[p].view # "closed"
         /\ call[c].op = "create" <=> page[p].view = "new"
         /\ page[p].view = "new" => CallsOf(p) = {c} /\ page[p].busy["save"] # "idle"

IInv == EditorTypeOK /\ CallsAimed /\ PagesAimed

(* What is offered where: a page without a turf only creates one.           *)
LEMMA OfferedWhere ==
  ASSUME NEW p \in Pages, NEW op, NEW item, <<op, item>> \in Offered(p)
  PROVE  /\ page[p].view # "closed"
         /\ op = "create" <=> page[p].view = "new"
         /\ op = "create" => item = "busy" /\ page[p].busy["save"] = "idle"
<1>1. ASSUME <<op, item>> \in OwnerTurfCreatePage(p)
      PROVE  /\ op = "create" /\ page[p].view = "new"
             /\ item = "busy" /\ page[p].busy["save"] = "idle"
  BY <1>1 DEF OwnerTurfCreatePage
<1>2. \A o, i : <<o, i>> \in SubmitButton(p) \cup DeleteButton(p) \cup TurfDetailsForm(p)
                  \cup TurfImageManager(p) \cup CheckboxList(p, Sports, "sport")
                  \cup CheckboxList(p, Amenities, "amenity") => o # "create"
  BY DEF SubmitButton, DeleteButton, TurfDetailsForm, TurfImageManager, CheckboxList
<1>3. ASSUME <<op, item>> \in OwnerTurfEditPage(p) \cup OwnerTurfEditScreen(p)
      PROVE  op # "create" /\ page[p].view \in {"ready", "failed"}
  BY <1>2, <1>3 DEF OwnerTurfEditPage, OwnerTurfEditScreen
<1> QED BY <1>1, <1>3 DEF Offered

Aimed == CallsAimed /\ PagesAimed

(* What a request is when it is sent.                                       *)
LEMMA Sent ==
  ASSUME CallTypeOK, NEW c \in Calls, NEW p, NEW op, NEW t, NEW item, Send(c, p, op, t, item)
  PROVE  /\ call[c] = Nothing
         /\ call'[c].op = op /\ call'[c].page = p /\ call'[c].turf = t
         /\ call'[c].item = item /\ call'[c].phase = "sent"
         /\ \A d \in Calls \ {c} : call'[d] = call[d]
  BY DEF CallTypeOK, Send, Request

(* Requests of a page that is gone: the loads and the answers are dropped,  *)
(* the rest goes on for nobody.                                             *)
LEMMA AbandonedEffect ==
  ASSUME CallTypeOK, NEW p \in Pages, NEW c \in Calls
  PROVE  /\ c \notin CallsOf(p) => Abandoned(p)[c] = call[c]
         /\ c \in CallsOf(p) /\ Abandoned(p)[c] # Nothing =>
              /\ Abandoned(p)[c].page = Nothing
              /\ Abandoned(p)[c].op = call[c].op /\ Abandoned(p)[c].turf = call[c].turf
              /\ Abandoned(p)[c].item = call[c].item
              /\ Abandoned(p)[c].phase = call[c].phase
              /\ Abandoned(p)[c].answer = call[c].answer
<1>1. ASSUME c \in CallsOf(p) PROVE call[c] \in Pending
  BY <1>1, CallCases DEF CallsOf, CallTypeOK
<1>2. ASSUME c \in CallsOf(p), Forgotten(call[c]) # Nothing
      PROVE  Forgotten(call[c]) = [call[c] EXCEPT !.page = Nothing]
  BY <1>2 DEF Forgotten
<1> QED BY <1>1, <1>2 DEF Abandoned, Pending

(* A page leaves: nothing waits for it, and what goes on is aimed as before.*)
LEMMA LeaveAimed ==
  ASSUME EditorTypeOK, Aimed, NEW p \in Pages,
         page' = [page EXCEPT ![p] = Closed], call' = Abandoned(p)
  PROVE  Aimed'
<1>1. PageTypeOK /\ CallTypeOK
  BY TypeParts
<1>2. CallsAimed'
  <2>1. ASSUME NEW c \in Calls, Abandoned(p)[c] # Nothing
        PROVE  /\ call[c] # Nothing
               /\ Abandoned(p)[c].op = call[c].op /\ Abandoned(p)[c].turf = call[c].turf
               /\ Abandoned(p)[c].phase = call[c].phase
               /\ Abandoned(p)[c].item = call[c].item
               /\ Abandoned(p)[c].answer = call[c].answer
    <3>1. CASE c \in CallsOf(p)
      BY <1>1, <2>1, <3>1, AbandonedEffect DEF CallsOf
    <3>2. CASE c \notin CallsOf(p)
      BY <1>1, <2>1, <3>2, AbandonedEffect
    <3> QED BY <3>1, <3>2
  <2> QED BY <2>1 DEF Aimed, CallsAimed
<1>3. \A q \in Pages : q # p => CallsOf(q)' = CallsOf(q) /\ page'[q] = page[q]
  BY <1>1, AbandonedEffect, NothingAssumption DEF CallsOf, PageTypeOK
<1>4. CallsOf(p)' = {} /\ page'[p] = Closed
  <2>1. ASSUME NEW c \in Calls, Abandoned(p)[c] # Nothing, Abandoned(p)[c].page = p PROVE FALSE
    <3>1. c \in CallsOf(p) => Abandoned(p)[c].page = Nothing
      BY <1>1, <2>1, AbandonedEffect
    <3>2. c \notin CallsOf(p) => Abandoned(p)[c] = call[c]
      BY <1>1, AbandonedEffect
    <3> QED BY <2>1, <3>1, <3>2, NothingAssumption DEF CallsOf
  <2>2. page'[p] = Closed
    BY <1>1 DEF PageTypeOK
  <2> QED BY <2>1, <2>2 DEF CallsOf
<1>5. \A q \in Pages : \A c \in CallsOf(q)' : q # p /\ call'[c] = call[c]
  BY <1>1, <1>3, <1>4, AbandonedEffect DEF CallsOf
<1> QED BY <1>2, <1>3, <1>4, <1>5 DEF Aimed, PagesAimed, Closed

(* What a visitor does: open a page, click, leave.                          *)
LEMMA VisitorAimed ==
  ASSUME EditorTypeOK, Aimed, NEW p \in Pages
  PROVE  /\ \A c \in Calls, kind \in {"web", "mobile"}, t \in Turfs :
              Open(p, c, kind, t) => Aimed'
         /\ \A kind \in {"web", "mobile"} : OpenNew(p, kind) => Aimed'
         /\ \A c \in Calls : \A op, item : Click(p, c, op, item) => Aimed'
         /\ Leave(p) => Aimed'
<1>1. PageTypeOK /\ CallTypeOK
  BY TypeParts
<1>2. ASSUME NEW c \in Calls, NEW kind \in {"web", "mobile"}, NEW t \in Turfs, Open(p, c, kind, t)
      PROVE  Aimed'
  <2>1. Send(c, p, "load", t, "busy") /\ CallsOf(p) = {}
    BY <1>2 DEF Open, Aimed, PagesAimed
  <2>2. CallsAimed'
    BY <1>1, <2>1, Sent DEF Aimed, CallsAimed
  <2>3. /\ page'[p].view = "loading" /\ page'[p].turf = t
        /\ \A q \in Pages : q # p => page'[q] = page[q]
    BY <1>1, <1>2 DEF Open, PageTypeOK, Closed
  <2>4. \A q \in Pages : CallsOf(q)' = IF q = p THEN {c} ELSE CallsOf(q)
    <3>1. call'[c] # Nothing
      BY <1>1, <2>1, RequestType, NothingAssumption DEF Send, CallTypeOK
    <3> QED BY <1>1, <2>1, <3>1, Sent DEF CallsOf
  <2> QED BY <1>1, <2>1, <2>2, <2>3, <2>4, Sent DEF Aimed, PagesAimed, CallsOf
<1>3. ASSUME NEW kind \in {"web", "mobile"}, OpenNew(p, kind) PROVE Aimed'
  <2>1. CallsOf(p) = {} /\ call' = call
    BY <1>3 DEF OpenNew, Aimed, PagesAimed
  <2>2. /\ page'[p].view = "new"
        /\ \A q \in Pages : q # p => page'[q] = page[q]
    BY <1>1, <1>3 DEF OpenNew, PageTypeOK, Closed
  <2> QED BY <2>1, <2>2 DEF Aimed, CallsAimed, PagesAimed, CallsOf
<1>4. ASSUME NEW c \in Calls, NEW op, NEW item, Click(p, c, op, item) PROVE Aimed'
  <2>1. /\ Send(c, p, op, page[p].turf, item)
        /\ page[p].view # "closed" /\ (op = "create" <=> page[p].view = "new")
        /\ op = "create" => item = "busy" /\ page[p].busy["save"] = "idle"
    BY <1>4, OfferedWhere DEF Click
  <2>2. CallsAimed'
    BY <1>1, <1>4, <2>1, Sent, OfferedType DEF Click, Aimed, CallsAimed, PagesAimed
  <2>3. \A q \in Pages : /\ page'[q].view = page[q].view /\ page'[q].turf = page[q].turf
                         /\ q # p => page'[q] = page[q]
    BY <1>1, <1>4 DEF Click, PageTypeOK, Page
  <2>4. \A q \in Pages : CallsOf(q)' = CallsOf(q) \cup (IF q = p THEN {c} ELSE {})
    <3>1. /\ op \in {"create", "save", "submit", "delete", "attach", "detach"}
          /\ item \in Items \cup {"busy"} /\ page[p].turf \in Turfs \cup {Nothing}
      BY <1>1, <1>4, OfferedType DEF Click, PageTypeOK, Page
    <3>2. call'[c] # Nothing
      BY <1>1, <2>1, <3>1, RequestType, NothingAssumption DEF Send, CallTypeOK
    <3> QED BY <1>1, <2>1, <3>2, Sent DEF CallsOf
  <2>5. op = "create" => CallsOf(p) = {} /\ page'[p].busy["save"] # "idle"
    <3>1. op = "create" => CallsOf(p) = {}
      BY <2>1 DEF Aimed, PagesAimed
    <3>2. op = "create" => ControlOf(op, item) = "save" /\ item # "idle"
      <4>1. ControlOf("create", "busy") = "save"
        BY EditorAssumption DEF ControlOf
      <4> QED BY <2>1, <4>1
    <3>3. page[p].busy \in [Controls -> {"idle", "busy"} \cup Items] /\ "save" \in Controls
      BY <1>1 DEF PageTypeOK, Page, Controls
    <3>4. page'[p].busy = [page[p].busy EXCEPT ![ControlOf(op, item)] = item]
      BY <1>1, <1>4 DEF Click, PageTypeOK, Page
    <3> QED BY <3>1, <3>2, <3>3, <3>4
  <2>6. ASSUME NEW q \in Pages, NEW d \in CallsOf(q)'
        PROVE  /\ call'[d].op = "create" <=> page'[q].view = "new"
               /\ page'[q].view = "new" => CallsOf(q)' = {d} /\ page'[q].busy["save"] # "idle"
    <3>1. CASE q = p /\ d = c
      BY <1>1, <2>1, <2>3, <2>4, <2>5, <3>1, Sent
    <3>2. CASE q # p \/ d # c
      <4>1. d \in CallsOf(q) /\ call'[d] = call[d]
        BY <1>1, <2>1, <2>4, <2>6, <3>2, Sent DEF CallsOf
      <4> QED BY <2>1, <2>3, <2>4, <2>5, <3>2, <4>1 DEF Aimed, PagesAimed
    <3> QED BY <3>1, <3>2
  <2>7. ASSUME NEW q \in Pages, NEW d \in CallsOf(q)' PROVE page'[q].view # "closed"
    BY <1>1, <2>1, <2>3, <2>4, <2>7 DEF Aimed, PagesAimed
  <2> QED BY <2>2, <2>3, <2>6, <2>7 DEF Aimed, PagesAimed
<1>5. ASSUME Leave(p) PROVE Aimed'
  BY <1>5, LeaveAimed DEF Leave
<1> QED BY <1>2, <1>3, <1>4, <1>5

(* What becomes of an answer in a page.                                     *)
LEMMA AnswersAimed ==
  ASSUME EditorTypeOK, Aimed, NEW p \in Pages, NEW c \in Calls,
         Answer(p, c) \/ AnswerCreate(p, c) \/ Lose(p, c)
  PROVE  Aimed'
<1>1. /\ PageTypeOK /\ CallTypeOK /\ page[p] \in Page
      /\ c \in CallsOf(p) /\ call[c] # Nothing /\ call[c] \in Pending
  <2>1. c \in CallsOf(p) /\ call[c] # Nothing
    BY DEF Answer, AnswerCreate, Lose, CallsOf
  <2> QED BY <2>1, TypeParts, CallCases DEF PageTypeOK, CallTypeOK
<1> DEFINE k == call[c]
           pg == page[p]
<1>2. pg.view # "closed" /\ (k.op = "create" <=> pg.view = "new")
  BY <1>1 DEF Aimed, PagesAimed
<1>3. /\ Freed(pg, k).view = pg.view /\ Freed(pg, k).turf = pg.turf
      /\ Failed(pg, k).turf = pg.turf
      /\ Failed(pg, k).view = IF k.op = "load" THEN "failed" ELSE pg.view
      /\ Answered(pg, k) \in Page
  BY <1>1, AnsweredType DEF Freed, Failed, Page
<1>4. ASSUME k.op # "create", Answered(pg, k) # Closed
      PROVE  Answered(pg, k).turf = pg.turf /\ Answered(pg, k).view \notin {"closed", "new"}
  <2>1. [pg EXCEPT !.view = "ready", !.shown = k.answer].turf = pg.turf
        /\ [pg EXCEPT !.view = "ready", !.shown = k.answer].view = "ready"
    BY <1>1 DEF Page
  <2>2. /\ [Freed(pg, k) EXCEPT !.shown = k.answer, !.view = "ready"].turf = pg.turf
        /\ [Freed(pg, k) EXCEPT !.shown = k.answer, !.view = "ready"].view = "ready"
    BY <1>1, <1>3, AnsweredType DEF Page
  <2> QED BY <1>2, <1>3, <1>4, <2>1, <2>2 DEF Answered, Succeeded
(* The request is over and the page stays.                                  *)
<1>5. ASSUME NEW new \in Page, new.turf = pg.turf, new.view # "closed",
             new.view = "new" <=> pg.view = "new",
             page' = [page EXCEPT ![p] = new],
             call' = [call EXCEPT ![c] = Forgotten(k)] \/ call' = [call EXCEPT ![c] = Nothing]
      PROVE  Aimed'
  <2>1. \A q \in Pages : page'[q] = IF q = p THEN new ELSE page[q]
    BY <1>1, <1>5 DEF PageTypeOK
  <2>2. Forgotten(k) # Nothing => /\ Forgotten(k).page = Nothing /\ Forgotten(k).op = k.op
                                  /\ Forgotten(k).turf = k.turf /\ Forgotten(k).phase = k.phase
                                  /\ Forgotten(k).answer = k.answer /\ Forgotten(k).item = k.item
    BY <1>1 DEF Forgotten, Pending
  <2>3. \A d \in Calls : call'[d] = IF d = c THEN call'[c] ELSE call[d]
    BY <1>1, <1>5 DEF CallTypeOK
  <2>4. call'[c] = Nothing \/ call'[c] = Forgotten(k)
    BY <1>1, <1>5 DEF CallTypeOK
  <2>5. CallsAimed'
    BY <1>1, <2>2, <2>3, <2>4 DEF Aimed, CallsAimed
  <2>6. \A q \in Pages : CallsOf(q)' \subseteq CallsOf(q) \ {c}
    BY <2>2, <2>3, <2>4, NothingAssumption DEF CallsOf
  <2>7. ASSUME NEW q \in Pages, NEW d \in CallsOf(q)'
        PROVE  /\ page'[q].view # "closed"
               /\ call'[d].op = "create" <=> page'[q].view = "new"
               /\ page'[q].view = "new" => CallsOf(q)' = {d} /\ page'[q].busy["save"] # "idle"
    <3>1. d \in CallsOf(q) /\ d # c /\ call'[d] = call[d]
      BY <2>3, <2>6, <2>7 DEF CallsOf
    <3>2. page[q].view = "new" => CallsOf(q) = {d} /\ page[q].busy["save"] # "idle"
      BY <3>1 DEF Aimed, PagesAimed
    <3>3. q = p => page[q].view # "new"
      BY <1>1, <3>1, <3>2
    <3>4. page[q].view = "new" => CallsOf(q)' = {d}
      BY <2>6, <2>7, <3>2
    <3>5. /\ page[q].view # "closed"
          /\ call[d].op = "create" <=> page[q].view = "new"
      BY <3>1 DEF Aimed, PagesAimed
    <3> QED BY <1>5, <2>1, <3>1, <3>2, <3>3, <3>4, <3>5
  <2>8. \A q \in Pages : page'[q].turf \in Turfs \/ page'[q].view \in {"closed", "new"}
    BY <1>2, <1>5, <2>1 DEF Aimed, PagesAimed
  <2> QED BY <2>5, <2>7, <2>8 DEF Aimed, PagesAimed
<1>6. CASE Answer(p, c)
  <2>1. CASE Answered(pg, k) = Closed
    <3>1. page' = [page EXCEPT ![p] = Closed] /\ page'[p] = Closed
      BY <1>1, <1>6, <2>1 DEF Answer, PageTypeOK
    <3>2. call' = Abandoned(p)
      BY <1>6, <3>1 DEF Answer, Closed
    <3> QED BY <3>1, <3>2, LeaveAimed
  <2>2. CASE Answered(pg, k) # Closed
    <3>1. page'[p].view # "closed" /\ page' = [page EXCEPT ![p] = Answered(pg, k)]
      BY <1>1, <1>4, <1>6, <2>2 DEF Answer, PageTypeOK
    <3> QED BY <1>2, <1>3, <1>4, <1>5, <1>6, <2>2, <3>1 DEF Answer
  <2> QED BY <2>1, <2>2
<1>7. CASE Lose(p, c)
  <2> DEFINE new == [Failed(pg, k) EXCEPT !.past = "disturbed"]
  <2>1. new \in Page /\ new.turf = Failed(pg, k).turf /\ new.view = Failed(pg, k).view
    <3>1. Failed(pg, k) \in Page
      BY <1>1, AnsweredType
    <3> QED BY <3>1 DEF Page
  <2>2. page' = [page EXCEPT ![p] = new] /\ call' = [call EXCEPT ![c] = Forgotten(k)]
    BY <1>7 DEF Lose
  <2> HIDE DEF new
  <2> QED BY <1>2, <1>3, <1>5, <2>1, <2>2
<1>8. CASE AnswerCreate(p, c)
  <2>1. CASE k.answer.status = "refused"
    <3>1. /\ page' = [page EXCEPT ![p] = Failed(pg, k)] /\ call' = [call EXCEPT ![c] = Nothing]
          /\ k.op = "create"
      BY <1>8, <2>1 DEF AnswerCreate, Answered
    <3> QED BY <1>1, <1>2, <1>3, <1>5, <3>1, AnsweredType
  <2>2. CASE k.answer.status # "refused" /\ pg.kind = "web"
    <3> DEFINE new == [Closed EXCEPT !.view = "loading", !.turf = k.turf]
    <3>1. /\ page' = [page EXCEPT ![p] = new]
          /\ call' = [call EXCEPT ![c] = Request(p, "load", k.turf, "busy")]
      BY <1>8, <2>2 DEF AnswerCreate
    <3>2. k.turf \in Turfs
      BY <1>1, <1>8, <2>2 DEF AnswerCreate, Aimed, CallsAimed
    <3>3. new.view = "loading" /\ new.turf = k.turf
      BY DEF Closed
    <3>4. /\ call'[c].op = "load" /\ call'[c].page = p /\ call'[c].turf = k.turf
          /\ \A d \in Calls \ {c} : call'[d] = call[d]
      BY <1>1, <3>1 DEF CallTypeOK, Request
    <3>5. \A q \in Pages : page'[q] = IF q = p THEN new ELSE page[q]
      BY <1>1, <3>1 DEF PageTypeOK
    <3> HIDE DEF new
    <3>6. CallsAimed'
      BY <1>1, <3>2, <3>4 DEF Aimed, CallsAimed
    <3>7. \A q \in Pages : CallsOf(q)' \subseteq CallsOf(q)
      BY <1>1, <3>4 DEF CallsOf
    <3>8. CallsOf(p)' \subseteq {c}
      BY <1>1, <1>2, <1>8, <3>7 DEF AnswerCreate, Aimed, PagesAimed
    <3>9. ASSUME NEW q \in Pages, NEW d \in CallsOf(q)'
          PROVE  /\ page'[q].view # "closed"
                 /\ call'[d].op = "create" <=> page'[q].view = "new"
                 /\ page'[q].view = "new" => CallsOf(q)' = {d} /\ page'[q].busy["save"] # "idle"
      <4>1. CASE q = p
        BY <3>3, <3>4, <3>5, <3>8, <3>9, <4>1
      <4>2. CASE q # p
        <5>1. d \in CallsOf(q) /\ d # c /\ call'[d] = call[d] /\ page'[q] = page[q]
          BY <1>1, <3>4, <3>5, <3>7, <3>9, <4>2 DEF CallsOf
        <5> QED BY <3>7, <3>9, <5>1 DEF Aimed, PagesAimed
      <4> QED BY <4>1, <4>2
    <3>10. \A q \in Pages : page'[q].turf \in Turfs \/ page'[q].view \in {"closed", "new"}
      BY <3>2, <3>3, <3>5 DEF Aimed, PagesAimed
    <3> QED BY <3>6, <3>9, <3>10 DEF Aimed, PagesAimed
  <2>3. CASE k.answer.status # "refused" /\ pg.kind # "web"
    <3>1. /\ page' = [page EXCEPT ![p] = Closed] /\ call' = [call EXCEPT ![c] = Nothing]
          /\ k.op = "create"
      BY <1>8, <2>3 DEF AnswerCreate
    <3>2. CallsOf(p) = {c}
      BY <1>1, <1>2, <3>1 DEF Aimed, PagesAimed
    <3>3. \A q \in Pages : page'[q] = IF q = p THEN Closed ELSE page[q]
      BY <1>1, <3>1 DEF PageTypeOK
    <3>4. \A d \in Calls : call'[d] = IF d = c THEN Nothing ELSE call[d]
      BY <1>1, <3>1 DEF CallTypeOK
    <3>5. CallsAimed'
      BY <3>4 DEF Aimed, CallsAimed
    <3>6. \A q \in Pages : CallsOf(q)' = IF q = p THEN {} ELSE CallsOf(q)
      BY <1>1, <3>2, <3>4 DEF CallsOf
    <3> QED BY <3>3, <3>4, <3>5, <3>6 DEF Aimed, PagesAimed, Closed, CallsOf
  <2> QED BY <2>1, <2>2, <2>3
<1> QED BY <1>6, <1>7, <1>8

-----------------------------------------------------------------------------
(* The server.                                                             *)

(* What somebody else's write does to a page: only its history notices.     *)
PagesStay ==
  \A q \in Pages : /\ page'[q].view = page[q].view /\ page'[q].turf = page[q].turf
                    /\ page'[q].busy = page[q].busy

LEMMA OthersSeeStays ==
  ASSUME PageTypeOK
  PROVE  /\ \A t, p : OthersSee(t, p) => PagesStay
         /\ UNCHANGED page => PagesStay
<1>1. \A q \in Pages : page[q] \in Page
  BY DEF PageTypeOK
<1> QED BY <1>1 DEF OthersSee, PagesStay, Page

(* A request that is served, or dropped, stays with its page and its turf.  *)
LEMMA ServedAimed ==
  ASSUME CallTypeOK, Aimed, PagesStay, NEW c \in Calls, call[c] # Nothing,
         NEW k \in Call, call' = [call EXCEPT ![c] = k],
         k # Nothing => /\ k.op = call[c].op /\ k.page = call[c].page
                        /\ k.item = call[c].item
                        /\ \/ k.turf \in Turfs
                           \/ /\ k.op = "create" /\ k.phase = "answered"
                              /\ k.answer.status = "refused"
  PROVE  Aimed'
<1>1. \A d \in Calls : call'[d] = IF d = c THEN k ELSE call[d]
  BY DEF CallTypeOK
<1>2. CallsAimed'
  BY <1>1 DEF Aimed, CallsAimed
<1>3. \A q \in Pages : CallsOf(q)' \subseteq CallsOf(q)
  BY <1>1 DEF CallsOf
<1>4. ASSUME NEW q \in Pages, NEW d \in CallsOf(q)'
      PROVE  /\ page'[q].view # "closed"
             /\ call'[d].op = "create" <=> page'[q].view = "new"
             /\ page'[q].view = "new" => CallsOf(q)' = {d} /\ page'[q].busy["save"] # "idle"
  <2>1. d \in CallsOf(q) /\ call'[d].op = call[d].op
    BY <1>1, <1>3, <1>4 DEF CallsOf
  <2> QED BY <1>3, <1>4, <2>1 DEF Aimed, PagesAimed, PagesStay
<1>5. \A q \in Pages : page'[q].turf \in Turfs \/ page'[q].view \in {"closed", "new"}
  BY DEF Aimed, PagesAimed, PagesStay
<1> QED BY <1>2, <1>4, <1>5 DEF Aimed, PagesAimed

(* The same, for a request that is answered, written or counted.            *)
LEMMA ReplyAimed ==
  ASSUME EditorTypeOK, Aimed, PagesStay, NEW c \in Calls, call[c] # Nothing
  PROVE  /\ \A answer \in Turf :
              Reply(c, answer) /\ (call[c].turf \in Turfs \/ answer.status = "refused") => Aimed'
         /\ \A t \in Turfs : Written(c, t) => Aimed'
         /\ call[c].turf \in Turfs /\ call' = [call EXCEPT ![c].phase = "counted"] =>
              Aimed' /\ CallTypeOK'
<1>1. CallTypeOK /\ call[c] \in Pending /\ Nothing \in Call
  BY TypeParts, CallCases DEF CallTypeOK
<1>2. ASSUME NEW answer \in Turf, Reply(c, answer),
             call[c].turf \in Turfs \/ answer.status = "refused"
      PROVE  Aimed'
  <2> DEFINE k == IF call[c].page = Nothing THEN Nothing
                  ELSE [call[c] EXCEPT !.phase = "answered", !.answer = answer]
  <2>1. k \in Call
    BY <1>1, PendingTypes, CallCases
  <2>2. call' = [call EXCEPT ![c] = k]
    BY <1>1, <1>2 DEF Reply, CallTypeOK
  <2>3. k # Nothing => /\ k.op = call[c].op /\ k.page = call[c].page /\ k.turf = call[c].turf
                       /\ k.phase = "answered" /\ k.answer = answer /\ k.item = call[c].item
    BY <1>1 DEF Pending
  <2>4. call[c].turf \in Turfs \/ call[c].op = "create"
    BY <1>1 DEF Aimed, CallsAimed
  <2> HIDE DEF k
  <2> QED BY <1>1, <1>2, <2>1, <2>2, <2>3, <2>4, ServedAimed
<1>3. ASSUME NEW t \in Turfs, Written(c, t) PROVE Aimed'
  <2> DEFINE k == IF call[c].page = Nothing THEN Nothing
                  ELSE [call[c] EXCEPT !.phase = "written", !.turf = t]
  <2>1. k \in Call
    BY <1>1, PendingTypes, CallCases
  <2>2. call' = [call EXCEPT ![c] = k]
    BY <1>1, <1>3 DEF Written, CallTypeOK
  <2>3. k # Nothing => k.op = call[c].op /\ k.page = call[c].page /\ k.turf = t
                    /\ k.item = call[c].item
    BY <1>1 DEF Pending
  <2> HIDE DEF k
  <2> QED BY <1>1, <2>1, <2>2, <2>3, ServedAimed
<1>4. ASSUME call[c].turf \in Turfs, call' = [call EXCEPT ![c].phase = "counted"]
      PROVE  Aimed' /\ CallTypeOK'
  <2> DEFINE k == [call[c] EXCEPT !.phase = "counted"]
  <2>1. k \in Call
    BY <1>1, PendingTypes, CallCases
  <2>2. call' = [call EXCEPT ![c] = k]
    BY <1>1, <1>4 DEF CallTypeOK
  <2>3. k.op = call[c].op /\ k.page = call[c].page /\ k.turf \in Turfs
        /\ k.item = call[c].item
    BY <1>1, <1>4 DEF Pending
  <2> HIDE DEF k
  <2> QED BY <1>1, <2>1, <2>2, <2>3, ServedAimed, OneChanges
<1> QED BY <1>2, <1>3, <1>4

(* The steps of the server.                                                 *)
LEMMA ServeInv == ASSUME IInv, NEW c \in Calls, Serve(c) PROVE IInv'
<1>1. /\ EditorTypeOK /\ Aimed /\ RowTypeOK /\ PageTypeOK /\ CallTypeOK
      /\ (RowTypeOK' /\ PageTypeOK' /\ CallTypeOK' /\ Aimed' => IInv')
      /\ (UNCHANGED page => PagesStay /\ PageTypeOK')
      /\ (UNCHANGED rows => RowTypeOK')
  BY TypeParts, OthersSeeStays DEF IInv, Aimed, rows, RowTypeOK, PageTypeOK
<1>2. /\ call[c] # Nothing
      /\ call[c].op # "create" \/ call[c].phase = "written" => call[c].turf \in Turfs
  <2>1. call[c] # Nothing
    BY DEF Serve, Read, ServeCreate, ServeSave, ServeSubmit, ServeDelete, CountImages, Attach,
           Detach, Refuse, Arrived
  <2> QED BY <1>1, <2>1 DEF Aimed, CallsAimed
<1> DEFINE t == call[c].turf
(* A statement that changes the rows and leaves a turf to be read.          *)
<1>3. ASSUME NEW u \in Turfs, Written(c, u), RowTypeOK' PROVE IInv'
  <2>1. PagesStay
    BY <1>1, <1>3, OthersSeeStays DEF Written
  <2> QED BY <1>1, <1>2, <1>3, <2>1, ReplyTypes, ReplyAimed
<1>4. CASE Read(c)
  <2>1. t \in Turfs
    BY <1>2, <1>4 DEF Read
  <2>2. /\ Stored(t).status = status[t]
        /\ Exists(t) => Stored(t) \in Turf
        /\ Bare("refused") \in Turf
    BY <1>1, <2>1, StoredType, BareType DEF Stored
  <2> QED BY <1>1, <1>2, <1>4, <2>1, <2>2, ReplyTypes, ReplyAimed DEF Read
<1>5. ASSUME NEW u \in Turfs, ServeCreate(c, u) PROVE IInv'
  <2>1. RowTypeOK'
    BY <1>1, <1>5 DEF ServeCreate, RowTypeOK, Statuses
  <2> QED BY <1>3, <1>5, <2>1 DEF ServeCreate
<1>6. CASE ServeSave(c) \/ ServeSubmit(c)
  <2>1. t \in Turfs /\ Written(c, t)
    BY <1>2, <1>6 DEF ServeSave, ServeSubmit, Arrived
  <2>2. RowTypeOK'
    BY <1>1, <1>6 DEF ServeSave, ServeSubmit, RowTypeOK, Statuses
  <2> QED BY <1>3, <2>1, <2>2
<1>7. CASE ServeDelete(c)
  <2>1. t \in Turfs /\ OthersSee(t, call[c].page) /\ Reply(c, Bare("deleted"))
    BY <1>2, <1>7 DEF ServeDelete, Arrived
  <2>2. RowTypeOK'
    BY <1>1, <1>7 DEF ServeDelete, RowTypeOK
  <2>3. PagesStay /\ PageTypeOK' /\ Bare("deleted") \in Turf
    BY <1>1, <1>2, <2>1, OthersSeeStays, ReplyTypes, BareType
  <2> QED BY <1>1, <1>2, <2>1, <2>2, <2>3, ReplyTypes, ReplyAimed
<1>8. CASE CountImages(c)
  <2>1. t \in Turfs
    BY <1>2, <1>8 DEF CountImages, Arrived
  <2> QED BY <1>1, <1>2, <1>8, <2>1, ReplyAimed DEF CountImages
<1>9. CASE Attach(c) \/ Detach(c)
  <2>1. t \in Turfs /\ Written(c, t)
    BY <1>2, <1>9 DEF Attach, Detach, Arrived
  <2>2. RowTypeOK'
    <3>1. CASE Detach(c)
      BY <1>1, <3>1 DEF Detach, RowTypeOK
    <3>2. CASE Attach(c)
      <4>1. call[c].item \in Items
        BY <1>1, <1>2, <3>2 DEF Attach, Aimed, CallsAimed
      <4> QED BY <1>1, <3>2, <4>1 DEF Attach, RowTypeOK
    <3> QED BY <1>9, <3>1, <3>2
  <2> QED BY <1>3, <2>1, <2>2
<1>10. CASE Refuse(c)
  <2>1. Bare("refused") \in Turf /\ Bare("refused").status = "refused"
    BY BareType DEF Bare
  <2> QED BY <1>1, <1>2, <1>10, <2>1, ReplyTypes, ReplyAimed DEF Refuse
<1> QED BY <1>4, <1>5, <1>6, <1>7, <1>8, <1>9, <1>10 DEF Serve

-----------------------------------------------------------------------------
(* The invariant.                                                          *)

LEMMA InitIInv == EditorInit => IInv
<1> SUFFICES ASSUME EditorInit PROVE IInv
  OBVIOUS
<1>1. RowTypeOK /\ PageTypeOK /\ CallTypeOK
  BY PageTypes, CallCases DEF EditorInit, RowTypeOK, PageTypeOK, CallTypeOK
<1>2. CallsAimed
  BY DEF EditorInit, CallsAimed
<1>3. PagesAimed
  BY DEF EditorInit, PagesAimed, CallsOf, Closed
<1> QED BY <1>1, <1>2, <1>3 DEF IInv, EditorTypeOK, RowTypeOK, PageTypeOK, CallTypeOK

(* A request nobody waits for is dropped.                                   *)
LEMMA DiscardInv == ASSUME IInv, NEW c \in Calls, Discard(c) PROVE IInv'
<1>1. /\ EditorTypeOK /\ Aimed /\ RowTypeOK /\ PageTypeOK /\ CallTypeOK
      /\ call[c] # Nothing /\ call' = [call EXCEPT ![c] = Nothing] /\ UNCHANGED <<rows, page>>
  BY TypeParts DEF IInv, Aimed, Discard
<1>2. PagesStay /\ Nothing \in Call
  BY <1>1, OthersSeeStays, CallCases
<1>3. RowTypeOK' /\ PageTypeOK' /\ CallTypeOK'
  BY <1>1, <1>2, OneChanges DEF rows, RowTypeOK, PageTypeOK
<1>4. Aimed'
  BY <1>1, <1>2, ServedAimed
<1> QED BY <1>3, <1>4, TypeParts DEF IInv, Aimed

(* An administrator acts.                                                   *)
LEMMA ModerateInv == ASSUME IInv, NEW t \in Turfs, Moderate(t) PROVE IInv'
<1>1. /\ EditorTypeOK /\ Aimed /\ RowTypeOK /\ PageTypeOK /\ CallTypeOK
      /\ OthersSee(t, Nothing) /\ UNCHANGED <<items, call>>
  BY TypeParts DEF IInv, Aimed, Moderate
<1>2. PagesStay /\ CallTypeOK'
  BY <1>1, OthersSeeStays DEF CallTypeOK
<1>3. PageTypeOK'
  <2>1. \A q \in Pages : [page[q] EXCEPT !.past = "disturbed"] \in Page /\ page[q] \in Page
    BY <1>1, PageTypes DEF PageTypeOK
  <2> QED BY <1>1, <2>1 DEF OthersSee, PageTypeOK
<1>4. RowTypeOK'
  BY <1>1 DEF Moderate, RowTypeOK, Statuses
<1>5. Aimed'
  BY <1>1, <1>2 DEF Aimed, CallsAimed, PagesAimed, PagesStay, CallsOf
<1> QED BY <1>2, <1>3, <1>4, <1>5, TypeParts DEF IInv, Aimed

(* Every step keeps it.                                                     *)
LEMMA NextIInv == IInv /\ [EditorNext]_editorVars => IInv'
<1> SUFFICES ASSUME IInv, [EditorNext]_editorVars PROVE IInv'
  OBVIOUS
<1>1. EditorTypeOK /\ Aimed
  BY DEF IInv, Aimed
<1>2. ASSUME EditorTypeOK', Aimed' PROVE IInv'
  BY <1>2 DEF IInv, Aimed
<1>3. ASSUME NEW p \in Pages, NEW c \in Calls, NEW control \in Offered(p),
             Click(p, c, control[1], control[2])
      PROVE  IInv'
  BY <1>1, <1>2, <1>3, VisitorTypes, VisitorAimed
<1>4. ASSUME NEW t \in Turfs, Moderate(t) PROVE IInv'
  BY <1>4, ModerateInv
<1>5. ASSUME NEW c \in Calls, Serve(c) \/ Discard(c) PROVE IInv'
  BY <1>5, ServeInv, DiscardInv
<1>6. ASSUME NEW p \in Pages, Leave(p) \/ \E kind \in {"web", "mobile"} : OpenNew(p, kind)
      PROVE  IInv'
  BY <1>1, <1>2, <1>6, VisitorTypes, VisitorAimed
<1>7. ASSUME NEW p \in Pages, NEW c \in Calls, NEW t \in Turfs, NEW kind \in {"web", "mobile"},
             Open(p, c, kind, t)
      PROVE  IInv'
  BY <1>1, <1>2, <1>7, VisitorTypes, VisitorAimed
<1>8. ASSUME NEW p \in Pages, NEW c \in Calls, Answer(p, c) \/ AnswerCreate(p, c) \/ Lose(p, c)
      PROVE  IInv'
  BY <1>1, <1>2, <1>8, AnswerTypes, AnswersAimed
<1>9. CASE UNCHANGED editorVars
  BY <1>9 DEF editorVars, IInv, EditorTypeOK, CallsAimed, PagesAimed, CallsOf
<1> QED BY <1>3, <1>4, <1>5, <1>6, <1>7, <1>8, <1>9 DEF EditorNext

(* Requests, pages and attachments stay well typed, and every request and   *)
(* every page is about a turf, unless it is about to create one:            *)
(* OwnerTurfEditPage, OwnerTurfCreatePage and TurfImageManager.             *)
THEOREM EditorInvariant == EditorSpec => []IInv
<1> QED BY InitIInv, NextIInv, PTL DEF EditorSpec

(* The type invariant.                                                      *)
THEOREM EditorTypeCorrect == EditorSpec => []EditorTypeOK
<1>1. IInv => EditorTypeOK
  BY DEF IInv
<1> QED BY <1>1, EditorInvariant, PTL

-----------------------------------------------------------------------------
(* The attachments.                                                        *)

(* What a step that attaches nothing does to them: they do not grow, and    *)
(* go with the turf.                                                        *)
RowsShrink ==
  \A t \in Turfs : /\ items'[t] \subseteq items[t]
                   /\ Exists(t) => Exists(t)' \/ items'[t] = {}

(* A turf that is written exists before and after.                          *)
LEMMA StatementShrinks ==
  ASSUME RowTypeOK, NEW c \in Calls, call[c].turf \in Turfs,
         ServeSave(c) \/ ServeSubmit(c) \/ ServeDelete(c) \/ Detach(c)
  PROVE  RowsShrink
<1>1. CASE ServeSave(c) \/ ServeSubmit(c)
  BY <1>1 DEF ServeSave, ServeSubmit, RowsShrink, RowTypeOK, Exists, Statuses
<1>2. CASE ServeDelete(c)
  BY <1>2 DEF ServeDelete, RowsShrink, RowTypeOK, Exists
<1>3. CASE Detach(c)
  BY <1>3 DEF Detach, RowsShrink, RowTypeOK, Exists
<1> QED BY <1>1, <1>2, <1>3

(* Only Attach lets them grow.                                              *)
LEMMA OnlyAttachGrows ==
  ASSUME IInv, [EditorNext]_editorVars, \A c \in Calls : ~Attach(c)
  PROVE  RowsShrink
<1>1. RowTypeOK
  BY TypeParts DEF IInv
<1>2. UNCHANGED rows => RowsShrink
  BY DEF rows, RowsShrink, Exists
<1>3. ASSUME NEW c \in Calls, Serve(c) PROVE RowsShrink
  <2>1. CASE Read(c) \/ CountImages(c) \/ Refuse(c)
    BY <1>2, <2>1 DEF Read, CountImages, Refuse
  <2>2. ASSUME NEW t \in Turfs, ServeCreate(c, t) PROVE RowsShrink
    BY <1>1, <2>2 DEF ServeCreate, RowsShrink, RowTypeOK, Exists, Statuses
  <2>3. ASSUME ServeSave(c) \/ ServeSubmit(c) \/ ServeDelete(c) \/ Detach(c) PROVE RowsShrink
    <3>1. call[c].turf \in Turfs
      BY <2>3 DEF IInv, CallsAimed, ServeSave, ServeSubmit, ServeDelete, Detach, Arrived
    <3> QED BY <1>1, <2>3, <3>1, StatementShrinks
  <2> QED BY <1>3, <2>1, <2>2, <2>3 DEF Serve
<1>4. ASSUME NEW t \in Turfs, Moderate(t) PROVE RowsShrink
  BY <1>1, <1>4 DEF Moderate, RowsShrink, RowTypeOK, Exists, Statuses
<1>5. ASSUME NEW p \in Pages, NEW c \in Calls,
             \/ \E control \in Offered(p) : Click(p, c, control[1], control[2])
             \/ Answer(p, c) \/ AnswerCreate(p, c) \/ Lose(p, c)
             \/ \E t \in Turfs, kind \in {"web", "mobile"} : Open(p, c, kind, t)
      PROVE  RowsShrink
  BY <1>2, <1>5 DEF Click, Answer, AnswerCreate, Lose, Open
<1>6. ASSUME NEW p \in Pages, Leave(p) \/ \E kind \in {"web", "mobile"} : OpenNew(p, kind)
      PROVE  RowsShrink
  BY <1>2, <1>6 DEF Leave, OpenNew
<1>7. ASSUME NEW c \in Calls, Discard(c) PROVE RowsShrink
  BY <1>2, <1>7 DEF Discard
<1>8. CASE UNCHANGED editorVars
  BY <1>2, <1>8 DEF editorVars, rows
<1> QED BY <1>3, <1>4, <1>5, <1>6, <1>7, <1>8 DEF EditorNext

(* The life of a turf: what the pages' requests and the administrators do   *)
(* to a status.                                                             *)
LEMMA StepsLive ==
  ASSUME IInv, [EditorNext]_editorVars
  PROVE  Lifecycle!Next \/ UNCHANGED status
<1>1. status \in [Turfs -> Statuses \cup {"absent", "deleted"}]
  BY DEF IInv, EditorTypeOK
<1>2. ASSUME NEW t \in Turfs, NEW to,
             status' = [status EXCEPT ![t] = to],
             \/ status[t] = "absent" /\ to = "DRAFT"
             \/ status[t] = "APPROVED" /\ to \in {"PENDING_APPROVAL", "SUSPENDED"}
             \/ status[t] \in {"DRAFT", "REJECTED"} /\ to = "PENDING_APPROVAL"
             \/ status[t] \in Statuses /\ to = "deleted"
             \/ status[t] = "PENDING_APPROVAL" /\ to \in {"APPROVED", "REJECTED"}
             \/ status[t] = "SUSPENDED" /\ to = "APPROVED"
      PROVE  Lifecycle!Next
  <2>1. \/ Lifecycle!Create(t) \/ Lifecycle!Edit(t) \/ Lifecycle!Submit(t)
        \/ Lifecycle!Delete(t) \/ Lifecycle!Approve(t) \/ Lifecycle!Reject(t)
        \/ Lifecycle!Suspend(t) \/ Lifecycle!Restore(t)
    BY <1>2 DEF Lifecycle!Create, Lifecycle!Edit, Lifecycle!Submit, Lifecycle!Delete,
       Lifecycle!Approve, Lifecycle!Reject, Lifecycle!Suspend, Lifecycle!Restore,
       Lifecycle!Move, Lifecycle!Statuses, Statuses
  <2> QED BY <2>1 DEF Lifecycle!Next
<1>3. ASSUME NEW c \in Calls, Serve(c) PROVE Lifecycle!Next \/ UNCHANGED status
  <2>1. CASE Read(c) \/ CountImages(c) \/ Attach(c) \/ Detach(c) \/ Refuse(c)
    BY <2>1 DEF Read, CountImages, Attach, Detach, Refuse, rows
  <2>2. ASSUME NEW t \in Turfs, ServeCreate(c, t) PROVE Lifecycle!Next
    BY <1>2, <2>2 DEF ServeCreate
  <2>3. ASSUME ServeSave(c) \/ ServeSubmit(c) \/ ServeDelete(c) PROVE call[c].turf \in Turfs
    BY <2>3 DEF IInv, CallsAimed, ServeSave, ServeSubmit, ServeDelete, Arrived
  <2>4. CASE ServeSave(c)
    <3>1. CASE status[call[c].turf] = "APPROVED"
      BY <1>2, <2>3, <2>4, <3>1 DEF ServeSave
    <3>2. CASE status[call[c].turf] # "APPROVED"
      BY <1>1, <2>3, <2>4, <3>2 DEF ServeSave
    <3> QED BY <3>1, <3>2
  <2>5. CASE ServeSubmit(c)
    BY <1>2, <2>3, <2>5 DEF ServeSubmit
  <2>6. CASE ServeDelete(c)
    BY <1>2, <2>3, <2>6 DEF ServeDelete, Exists
  <2> QED BY <1>3, <2>1, <2>2, <2>4, <2>5, <2>6 DEF Serve
<1>4. ASSUME NEW t \in Turfs, Moderate(t) PROVE Lifecycle!Next
  <2>1. PICK to \in CASE status[t] = "PENDING_APPROVAL" -> {"APPROVED", "REJECTED"}
                     [] status[t] = "APPROVED"         -> {"SUSPENDED"}
                     [] status[t] = "SUSPENDED"        -> {"APPROVED"}
                     [] OTHER                          -> {} :
               status' = [status EXCEPT ![t] = to]
    BY <1>4 DEF Moderate
  <2>2. \/ status[t] = "PENDING_APPROVAL" /\ to \in {"APPROVED", "REJECTED"}
        \/ status[t] = "APPROVED" /\ to = "SUSPENDED"
        \/ status[t] = "SUSPENDED" /\ to = "APPROVED"
    BY <2>1
  <2> QED BY <1>2, <2>1, <2>2
<1>5. ASSUME NEW p \in Pages, NEW c \in Calls,
             \/ \E control \in Offered(p) : Click(p, c, control[1], control[2])
             \/ Answer(p, c) \/ AnswerCreate(p, c) \/ Lose(p, c)
             \/ \E t \in Turfs, kind \in {"web", "mobile"} : Open(p, c, kind, t)
      PROVE  UNCHANGED status
  BY <1>5 DEF Click, Answer, AnswerCreate, Lose, Open, rows
<1>6. ASSUME NEW p \in Pages, Leave(p) \/ \E kind \in {"web", "mobile"} : OpenNew(p, kind)
      PROVE  UNCHANGED status
  BY <1>6 DEF Leave, OpenNew, rows
<1>7. ASSUME NEW c \in Calls, Discard(c) PROVE UNCHANGED status
  BY <1>7 DEF Discard, rows
<1>8. CASE UNCHANGED editorVars
  BY <1>8 DEF editorVars
<1> QED BY <1>3, <1>4, <1>5, <1>6, <1>7, <1>8 DEF EditorNext

(* The server the owner's pages are modelled with does to a turf's status   *)
(* what TurfModeration's does, whatever is lost, late or sent twice.        *)
THEOREM PagesKeepLifecycle == EditorSpec => EditorKeepsLifecycle
<1>1. EditorInit => Lifecycle!Init
  BY DEF EditorInit, Lifecycle!Init, Lifecycle!Statuses, Statuses
<1>2. IInv /\ [EditorNext]_editorVars => [Lifecycle!Next]_status
  BY StepsLive
<1> QED BY <1>1, <1>2, EditorInvariant, PTL DEF EditorSpec, EditorKeepsLifecycle, Lifecycle!Spec

(* Requests that were on their way when a turf was deleted leave nothing    *)
(* attached to it: INSERT ... SELECT FROM turfs, and ON DELETE CASCADE.     *)
THEOREM NothingOrphaned == EditorSpec => []NoOrphans
<1>1. EditorInit => NoOrphans
  BY DEF EditorInit, NoOrphans
<1>2. IInv /\ NoOrphans /\ [EditorNext]_editorVars => NoOrphans'
  <2> SUFFICES ASSUME IInv, NoOrphans, [EditorNext]_editorVars PROVE NoOrphans'
    OBVIOUS
  <2>1. CASE \A c \in Calls : ~Attach(c)
    BY <2>1, OnlyAttachGrows DEF NoOrphans, RowsShrink
  <2>2. ASSUME NEW c \in Calls, Attach(c) PROVE NoOrphans'
    BY <2>2, TypeParts DEF IInv, RowTypeOK, Attach, NoOrphans, Exists
  <2> QED BY <2>1, <2>2
<1> QED BY <1>1, <1>2, EditorInvariant, PTL DEF EditorSpec

-----------------------------------------------------------------------------
(* The cap on images.                                                      *)

(* Request c passed the count and has yet to insert.                        *)
Counted(c) == /\ call[c] # Nothing /\ call[c].op = "attach" /\ call[c].phase = "counted"
              /\ call[c].item \in Images

Adding(t) == {c \in Calls : Counted(c) /\ call[c].turf = t}

(* One request is replaced by one that is not about to insert.              *)
LEMMA NotCounted ==
  ASSUME CallTypeOK, NEW c \in Calls, NEW k, call' = [call EXCEPT ![c] = k],
         k = Nothing \/ k.phase # "counted"
  PROVE  /\ ~Counted(c)'
         /\ \A d \in Calls \ {c} : call'[d] = call[d]
  BY DEF Counted, CallTypeOK

(* No step of a page makes a request one that is about to insert.           *)
LEMMA PagesDoNotCount ==
  ASSUME IInv, NEW p \in Pages, NEW c \in Calls,
         \/ \E control \in Offered(p) : Click(p, c, control[1], control[2])
         \/ Answer(p, c) \/ AnswerCreate(p, c) \/ Lose(p, c) \/ Leave(p)
         \/ \E t \in Turfs, kind \in {"web", "mobile"} : Open(p, c, kind, t)
  PROVE  \A d \in Calls : Counted(d)' => Counted(d) /\ call'[d].turf = call[d].turf
<1>1. CallTypeOK /\ EditorTypeOK
  BY TypeParts DEF IInv
<1>2. ASSUME NEW op, NEW t, NEW item, Send(c, p, op, t, item)
      PROVE  \A d \in Calls : Counted(d)' => Counted(d) /\ call'[d].turf = call[d].turf
  BY <1>1, <1>2, Sent DEF Counted
<1>3. ASSUME call' = Abandoned(p)
      PROVE  \A d \in Calls : Counted(d)' => Counted(d) /\ call'[d].turf = call[d].turf
  <2> SUFFICES ASSUME NEW d \in Calls, Counted(d)'
               PROVE  Counted(d) /\ call'[d].turf = call[d].turf
    OBVIOUS
  <2>1. call'[d] = Abandoned(p)[d] /\ Abandoned(p)[d] # Nothing
    BY <1>3 DEF Counted
  <2>2. CASE d \in CallsOf(p)
    BY <1>1, <2>1, <2>2, AbandonedEffect DEF Counted, CallsOf
  <2>3. CASE d \notin CallsOf(p)
    BY <1>1, <2>1, <2>3, AbandonedEffect DEF Counted
  <2> QED BY <2>2, <2>3
<1>4. ASSUME NEW k, call' = [call EXCEPT ![c] = k], k = Nothing \/ k.phase # "counted"
      PROVE  \A d \in Calls : Counted(d)' => Counted(d) /\ call'[d].turf = call[d].turf
  BY <1>1, <1>4, NotCounted DEF Counted
<1>5. CASE Lose(p, c)
  <2>1. call[c] \in Pending /\ call' = [call EXCEPT ![c] = Forgotten(call[c])]
    BY <1>1, <1>5, CallCases DEF Lose, CallsOf, CallTypeOK
  <2>2. Forgotten(call[c]) # Nothing =>
          /\ Forgotten(call[c]).op = call[c].op /\ Forgotten(call[c]).phase = call[c].phase
          /\ Forgotten(call[c]).item = call[c].item /\ Forgotten(call[c]).turf = call[c].turf
    BY <2>1 DEF Forgotten, Pending
  <2>3. \A d \in Calls : call'[d] = IF d = c THEN Forgotten(call[c]) ELSE call[d]
    BY <1>1, <2>1 DEF CallTypeOK
  <2>4. call[c] # Nothing
    BY <1>5 DEF Lose, CallsOf
  <2> QED BY <2>2, <2>3, <2>4 DEF Counted
<1>6. CASE AnswerCreate(p, c)
  <2>1. Request(p, "load", call[c].turf, "busy").phase = "sent"
    BY DEF Request
  <2> QED BY <1>4, <1>6, <2>1 DEF AnswerCreate
<1>7. CASE Answer(p, c)
  <2>1. call' = Abandoned(p) \/ call' = [call EXCEPT ![c] = Nothing]
    BY <1>7 DEF Answer
  <2> QED BY <1>3, <1>4, <2>1
<1>8. CASE Leave(p)
  BY <1>3, <1>8 DEF Leave
<1>9. ASSUME NEW control \in Offered(p), Click(p, c, control[1], control[2])
      PROVE  \A d \in Calls : Counted(d)' => Counted(d) /\ call'[d].turf = call[d].turf
  BY <1>2, <1>9 DEF Click
<1>10. ASSUME NEW t \in Turfs, NEW kind \in {"web", "mobile"}, Open(p, c, kind, t)
       PROVE  \A d \in Calls : Counted(d)' => Counted(d) /\ call'[d].turf = call[d].turf
  BY <1>2, <1>10 DEF Open
<1> QED BY <1>5, <1>6, <1>7, <1>8, <1>9, <1>10

(* Nor does the server, except by the count.                                *)
LEMMA ServerDoesNotCount ==
  ASSUME CallTypeOK, NEW c \in Calls, Serve(c) \/ Discard(c), ~CountImages(c)
  PROVE  /\ ~Counted(c)'
         /\ \A d \in Calls \ {c} : call'[d] = call[d]
<1>1. call[c] # Nothing /\ call[c] \in Pending
  <2>1. call[c] # Nothing
    BY DEF Serve, Read, ServeCreate, ServeSave, ServeSubmit, ServeDelete, CountImages, Attach,
           Detach, Refuse, Arrived, Discard
  <2> QED BY <2>1, CallCases DEF CallTypeOK
<1>2. ASSUME NEW answer, Reply(c, answer)
      PROVE  ~Counted(c)' /\ \A d \in Calls \ {c} : call'[d] = call[d]
  <2> DEFINE k == IF call[c].page = Nothing THEN Nothing
                  ELSE [call[c] EXCEPT !.phase = "answered", !.answer = answer]
  <2>1. call' = [call EXCEPT ![c] = k]
    BY <1>2 DEF Reply, CallTypeOK
  <2>2. k = Nothing \/ k.phase = "answered"
    BY <1>1 DEF Pending
  <2> HIDE DEF k
  <2> QED BY <2>1, <2>2, NotCounted
<1>3. ASSUME NEW t, Written(c, t)
      PROVE  ~Counted(c)' /\ \A d \in Calls \ {c} : call'[d] = call[d]
  <2> DEFINE k == IF call[c].page = Nothing THEN Nothing
                  ELSE [call[c] EXCEPT !.phase = "written", !.turf = t]
  <2>1. call' = [call EXCEPT ![c] = k]
    BY <1>3 DEF Written, CallTypeOK
  <2>2. k = Nothing \/ k.phase = "written"
    BY <1>1 DEF Pending
  <2> HIDE DEF k
  <2> QED BY <2>1, <2>2, NotCounted
<1>4. CASE Discard(c)
  BY <1>4, NotCounted DEF Discard
<1>5. CASE Read(c) \/ ServeDelete(c) \/ Refuse(c)
  BY <1>2, <1>5 DEF Read, ServeDelete, Refuse
<1>6. CASE (\E t \in Turfs : ServeCreate(c, t)) \/ ServeSave(c) \/ ServeSubmit(c)
           \/ Attach(c) \/ Detach(c)
  BY <1>3, <1>6 DEF ServeCreate, ServeSave, ServeSubmit, Attach, Detach
<1> QED BY <1>4, <1>5, <1>6 DEF Serve

(* Steps that neither count nor insert.                                     *)
LEMMA OtherStepsDoNotCount ==
  ASSUME IInv, [EditorNext]_editorVars, \A c \in Calls : ~CountImages(c) /\ ~Attach(c)
  PROVE  \A t \in Turfs : ImagesOf(t)' \subseteq ImagesOf(t) /\ Adding(t)' \subseteq Adding(t)
<1>1. \A t \in Turfs : ImagesOf(t)' \subseteq ImagesOf(t)
  BY OnlyAttachGrows DEF RowsShrink, ImagesOf
<1>2. \A d \in Calls : Counted(d)' => Counted(d) /\ call'[d].turf = call[d].turf
  <2>1. call' = call => \A d \in Calls : Counted(d)' => Counted(d) /\ call'[d].turf = call[d].turf
    BY DEF Counted
  <2>2. CallTypeOK
    BY TypeParts DEF IInv
  <2>3. ASSUME NEW c \in Calls, Serve(c) \/ Discard(c)
        PROVE  \A d \in Calls : Counted(d)' => Counted(d) /\ call'[d].turf = call[d].turf
    <3>1. ~Counted(c)' /\ \A d \in Calls \ {c} : call'[d] = call[d]
      BY <2>2, <2>3, ServerDoesNotCount
    <3> QED BY <3>1 DEF Counted
  <2>4. ASSUME NEW t \in Turfs, Moderate(t)
        PROVE  \A d \in Calls : Counted(d)' => Counted(d) /\ call'[d].turf = call[d].turf
    BY <2>1, <2>4 DEF Moderate
  <2>5. ASSUME NEW p \in Pages, NEW kind \in {"web", "mobile"}, OpenNew(p, kind)
        PROVE  \A d \in Calls : Counted(d)' => Counted(d) /\ call'[d].turf = call[d].turf
    BY <2>1, <2>5 DEF OpenNew
  <2>6. ASSUME NEW p \in Pages, Leave(p), NEW d \in Calls, Counted(d)'
        PROVE  Counted(d) /\ call'[d].turf = call[d].turf
    BY <2>6, PagesDoNotCount
  <2>7. CASE UNCHANGED editorVars
    BY <2>1, <2>7 DEF editorVars
  <2> QED BY <2>3, <2>4, <2>5, <2>6, <2>7, PagesDoNotCount DEF EditorNext
<1> QED BY <1>1, <1>2 DEF Adding

(* What is stored, and what is about to be inserted, stay below the cap and *)
(* the requests there can be.                                               *)
Below(t) == Cardinality(ImagesOf(t)) + Cardinality(Adding(t)) < MaxImages + Cardinality(Calls)

LEMMA ImageSetsFinite ==
  ASSUME NEW t \in Turfs
  PROVE  /\ IsFiniteSet(ImagesOf(t)) /\ IsFiniteSet(ImagesOf(t)')
         /\ IsFiniteSet(Adding(t)) /\ IsFiniteSet(Adding(t)')
         /\ Cardinality(ImagesOf(t)) \in Nat /\ Cardinality(ImagesOf(t)') \in Nat
         /\ Cardinality(Adding(t)) \in Nat /\ Cardinality(Adding(t)') \in Nat
         /\ Cardinality(Calls) \in Nat /\ MaxImages \in Nat \ {0}
<1>1. /\ ImagesOf(t) \in SUBSET Images /\ ImagesOf(t)' \in SUBSET Images
      /\ Adding(t) \in SUBSET Calls /\ Adding(t)' \in SUBSET Calls
  BY DEF ImagesOf, Adding
<1>2. /\ IsFiniteSet(ImagesOf(t)) /\ IsFiniteSet(ImagesOf(t)')
      /\ IsFiniteSet(Adding(t)) /\ IsFiniteSet(Adding(t)')
  BY <1>1, FS_Subset, EditorAssumption
<1> QED BY <1>2, FS_CardinalityType, EditorAssumption

LEMMA BelowStep ==
  ASSUME IInv, [EditorNext]_editorVars, NEW t \in Turfs, Below(t)
  PROVE  Below(t)'
<1> USE ImageSetsFinite
<1>1. CallTypeOK /\ RowTypeOK
  BY TypeParts DEF IInv
(* Fewer, or as many, of both.                                              *)
<1>2. ASSUME ImagesOf(t)' \subseteq ImagesOf(t), Adding(t)' \subseteq Adding(t) PROVE Below(t)'
  <2>1. Cardinality(ImagesOf(t)') <= Cardinality(ImagesOf(t))
    BY <1>2, FS_Subset
  <2>2. Cardinality(Adding(t)') <= Cardinality(Adding(t))
    BY <1>2, FS_Subset
  <2> QED BY <2>1, <2>2 DEF Below
<1>3. ASSUME NEW c \in Calls, CountImages(c) PROVE Below(t)'
  <2>1. ImagesOf(t)' = ImagesOf(t)
    BY <1>3 DEF CountImages, rows, ImagesOf
  <2>2. call' = [call EXCEPT ![c].phase = "counted"] /\ call[c] \in Pending
    BY <1>1, <1>3, CallCases DEF CountImages, Arrived, CallTypeOK
  <2>3. call'[c].turf = call[c].turf /\ \A d \in Calls \ {c} : call'[d] = call[d]
    BY <1>1, <2>2 DEF CallTypeOK, Pending
  <2>4. CASE call[c].turf = t
    <3>1. Cardinality(Adding(t)') <= Cardinality(Calls)
      <4>1. Adding(t)' \subseteq Calls
        BY DEF Adding
      <4> QED BY <4>1, FS_Subset, EditorAssumption
    <3>2. Cardinality(ImagesOf(t)') < MaxImages
      BY <1>3, <2>1, <2>4 DEF CountImages
    <3> QED BY <3>1, <3>2 DEF Below
  <2>5. CASE call[c].turf # t
    <3>1. Adding(t)' \subseteq Adding(t)
      BY <2>3, <2>5 DEF Adding, Counted
    <3> QED BY <1>2, <2>1, <3>1
  <2> QED BY <2>4, <2>5
<1>4. ASSUME NEW c \in Calls, Attach(c) PROVE Below(t)'
  <2> DEFINE u == call[c].turf
             item == call[c].item
  <2>1. ~Counted(c)' /\ \A d \in Calls \ {c} : call'[d] = call[d]
    <3>1. ~CountImages(c)
      BY <1>4 DEF Attach, CountImages, Arrived
    <3> QED BY <1>1, <1>4, <3>1, ServerDoesNotCount DEF Serve
  <2>2. Adding(t)' \subseteq Adding(t) \ {c}
    BY <2>1 DEF Adding, Counted
  <2>3. ImagesOf(t)' = IF t = u THEN (items[t] \cup {item}) \cap Images ELSE ImagesOf(t)
    BY <1>1, <1>4 DEF Attach, ImagesOf, RowTypeOK
  <2>4. CASE t = u /\ item \in Images
    <3>1. c \in Adding(t) /\ ImagesOf(t)' = ImagesOf(t) \cup {item}
      BY <1>4, <2>3, <2>4 DEF Attach, Adding, Counted, ImagesOf
    <3>2. Cardinality(ImagesOf(t)') <= Cardinality(ImagesOf(t)) + 1
      <4>1. IsFiniteSet(ImagesOf(t))
        OBVIOUS
      <4>2. Cardinality(ImagesOf(t) \cup {item}) =
              IF item \in ImagesOf(t) THEN Cardinality(ImagesOf(t))
              ELSE Cardinality(ImagesOf(t)) + 1
        BY <4>1, FS_AddElement
      <4> QED BY <3>1, <4>2
    <3>3. Cardinality(Adding(t)') <= Cardinality(Adding(t)) - 1
      <4>1. Cardinality(Adding(t) \ {c}) = Cardinality(Adding(t)) - 1 /\ IsFiniteSet(Adding(t) \ {c})
        BY <3>1, FS_RemoveElement
      <4> QED BY <2>2, <4>1, FS_Subset
    <3> QED BY <3>2, <3>3 DEF Below
  <2>5. CASE t # u \/ item \notin Images
    <3>1. ImagesOf(t)' = ImagesOf(t)
      BY <2>3, <2>5 DEF ImagesOf
    <3> QED BY <1>2, <2>2, <3>1
  <2> QED BY <2>4, <2>5
<1>5. CASE \A c \in Calls : ~CountImages(c) /\ ~Attach(c)
  BY <1>2, <1>5, OtherStepsDoNotCount
<1> QED BY <1>3, <1>4, <1>5

(* The cap on images is soft, but not without limit: AddTurfImage counts    *)
(* and inserts in two statements, and each request that passed the count    *)
(* adds one at most.                                                        *)
THEOREM ImagesStayBounded == EditorSpec => []ImagesBounded
<1>1. EditorInit => \A t \in Turfs : Below(t)
  <2> SUFFICES ASSUME EditorInit, NEW t \in Turfs PROVE Below(t)
    OBVIOUS
  <2>1. ImagesOf(t) = {} /\ Adding(t) = {}
    BY DEF EditorInit, ImagesOf, Adding, Counted
  <2> QED BY <2>1, FS_EmptySet, ImageSetsFinite DEF Below
<1>2. IInv /\ (\A t \in Turfs : Below(t)) /\ [EditorNext]_editorVars => (\A t \in Turfs : Below(t))'
  BY BelowStep
<1>3. (\A t \in Turfs : Below(t)) => ImagesBounded
  BY ImageSetsFinite DEF Below, ImagesBounded
<1> QED BY <1>1, <1>2, <1>3, EditorInvariant, PTL DEF EditorSpec

-----------------------------------------------------------------------------
(* The controls.                                                           *)

(* Request c, of page p, is the one its control ctl waits for; the load is  *)
(* no control's request.                                                    *)
WaitsFor(p, ctl, c) ==
  c \in CallsOf(p) /\ call[c].op # "load" /\ ControlOf(call[c].op, call[c].item) = ctl

Waited(p) ==
  \A ctl \in Controls : page[p].busy[ctl] # "idle" => \E c \in Calls : WaitsFor(p, ctl, c)

(* The page does not change and neither does what it waits for.             *)
LEMMA WaitedKept ==
  ASSUME NEW p \in Pages, Waited(p), page'[p].busy = page[p].busy,
         \A c \in CallsOf(p) : /\ call'[c] # Nothing /\ call'[c].page = p
                               /\ call'[c].op = call[c].op /\ call'[c].item = call[c].item
  PROVE  Waited(p)'
<1>1. ASSUME NEW ctl, NEW c \in Calls, WaitsFor(p, ctl, c) PROVE WaitsFor(p, ctl, c)'
  BY <1>1 DEF WaitsFor, CallsOf
<1> QED BY <1>1 DEF Waited

(* Request c of page p is over, and so is the wait of its control.          *)
LEMMA WaitedFreed ==
  ASSUME IInv, NEW p \in Pages, Waited(p), NEW c \in CallsOf(p),
         page'[p].busy = IF call[c].op = "load" THEN page[p].busy
                         ELSE [page[p].busy EXCEPT ![ControlOf(call[c].op, call[c].item)] = "idle"],
         \A d \in Calls \ {c} : call'[d] = call[d]
  PROVE  Waited(p)'
<1> SUFFICES ASSUME NEW ctl \in Controls, page'[p].busy[ctl] # "idle"
             PROVE  \E d \in Calls : WaitsFor(p, ctl, d)'
  BY DEF Waited
<1>1. page[p].busy \in [Controls -> {"idle", "busy"} \cup Items]
  BY DEF IInv, EditorTypeOK, Page
<1>2. /\ page[p].busy[ctl] # "idle"
      /\ call[c].op = "load" \/ ControlOf(call[c].op, call[c].item) # ctl
  BY <1>1
<1>3. PICK d \in Calls : WaitsFor(p, ctl, d)
  BY <1>2 DEF Waited
<1>4. d # c
  BY <1>2, <1>3 DEF WaitsFor
<1> QED BY <1>3, <1>4 DEF WaitsFor, CallsOf

(* What an answer, an error or a loss does to the flags of a page.          *)
LEMMA FlagsAfter ==
  ASSUME NEW pg \in Page, NEW k \in Pending
  PROVE  LET freed == IF k.op = "load" THEN pg.busy
                      ELSE [pg.busy EXCEPT ![ControlOf(k.op, k.item)] = "idle"] IN
         /\ Failed(pg, k).busy = freed
         /\ [Failed(pg, k) EXCEPT !.past = "disturbed"].busy = freed
         /\ Answered(pg, k) = Closed \/ Answered(pg, k).busy = freed
<1> DEFINE freed == IF k.op = "load" THEN pg.busy
                    ELSE [pg.busy EXCEPT ![ControlOf(k.op, k.item)] = "idle"]
<1>1. k.op # "load" => Freed(pg, k).busy = freed
  BY DEF Freed, Page
<1>2. k.op = "load" => /\ [pg EXCEPT !.view = "failed"].busy = freed
                       /\ [pg EXCEPT !.view = "ready", !.shown = k.answer].busy = freed
  BY DEF Page
<1>3. Freed(pg, k) \in Page /\ Failed(pg, k) \in Page
  BY AnsweredType
<1>4. /\ [Freed(pg, k) EXCEPT !.shown = k.answer, !.view = "ready"].busy = Freed(pg, k).busy
      /\ [Failed(pg, k) EXCEPT !.past = "disturbed"].busy = Failed(pg, k).busy
  BY <1>3 DEF Page
<1> HIDE DEF freed
<1>5. Failed(pg, k).busy = freed
  BY <1>1, <1>2 DEF Failed
<1>6. Succeeded(pg, k) = Closed \/ Succeeded(pg, k).busy = freed
  BY <1>1, <1>2, <1>4 DEF Succeeded
<1> QED BY <1>4, <1>5, <1>6 DEF Answered, freed

(* A page that was just opened, or closed, waits for nothing.               *)
LEMMA ClosedWaits ==
  ASSUME NEW p, page'[p].busy = Closed.busy
  PROVE  Waited(p)'
  BY DEF Waited, Closed

(* The steps of page p itself.                                              *)
LEMMA OwnStepWaited ==
  ASSUME IInv, NEW p \in Pages, Waited(p), NEW c \in Calls,
         \/ \E control \in Offered(p) : Click(p, c, control[1], control[2])
         \/ Answer(p, c) \/ AnswerCreate(p, c) \/ Lose(p, c)
         \/ \E t \in Turfs, kind \in {"web", "mobile"} : Open(p, c, kind, t)
  PROVE  Waited(p)'
<1>1. /\ EditorTypeOK /\ PageTypeOK /\ CallTypeOK /\ page[p] \in Page
      /\ page[p].busy \in [Controls -> {"idle", "busy"} \cup Items]
  <2>1. PageTypeOK /\ CallTypeOK /\ EditorTypeOK
    BY TypeParts DEF IInv
  <2>2. page[p] \in Page
    BY <2>1 DEF PageTypeOK
  <2> QED BY <2>1, <2>2 DEF Page
<1>2. ASSUME NEW pg, page' = [page EXCEPT ![p] = pg] PROVE page'[p] = pg
  BY <1>1, <1>2 DEF PageTypeOK
<1>3. ASSUME NEW op, NEW item, <<op, item>> \in Offered(p), Click(p, c, op, item)
      PROVE  Waited(p)'
  <2>1. page'[p].busy = [page[p].busy EXCEPT ![ControlOf(op, item)] = item]
    BY <1>1, <1>3 DEF Click, PageTypeOK, Page
  <2>2. /\ call[c] = Nothing
        /\ call'[c].op = op /\ call'[c].page = p /\ call'[c].item = item
        /\ \A d \in Calls \ {c} : call'[d] = call[d]
    BY <1>1, <1>3, Sent DEF Click
  <2>3. /\ op \in {"create", "save", "submit", "delete", "attach", "detach"}
        /\ item \in Items \cup {"busy"}
    BY <1>1, <1>3, OfferedType
  <2>4. call'[c] # Nothing
    <3>1. page[p].turf \in Turfs \cup {Nothing}
      BY <1>1 DEF Page
    <3>2. call' = [call EXCEPT ![c] = Request(p, op, page[p].turf, item)]
      BY <1>3 DEF Click, Send
    <3>3. call'[c] = Request(p, op, page[p].turf, item)
      BY <1>1, <3>2 DEF CallTypeOK
    <3>4. Request(p, op, page[p].turf, item) \in Pending
      BY <2>3, <3>1, RequestType
    <3> QED BY <3>3, <3>4, NothingAssumption
  <2>5. WaitsFor(p, ControlOf(op, item), c)'
    BY <2>2, <2>3, <2>4 DEF WaitsFor, CallsOf
  <2>6. ASSUME NEW ctl, NEW d \in Calls, WaitsFor(p, ctl, d) PROVE WaitsFor(p, ctl, d)'
    BY <2>2, <2>6 DEF WaitsFor, CallsOf
  <2> QED BY <1>1, <2>1, <2>5, <2>6 DEF Waited
<1>4. CASE Answer(p, c) \/ Lose(p, c)
  <2>1. c \in CallsOf(p) /\ call[c] \in Pending
    BY <1>1, <1>4, CallCases DEF Answer, Lose, CallsOf, CallTypeOK
  <2>2. CASE page'[p] = Closed
    BY <2>2, ClosedWaits
  <2>3. CASE page'[p] # Closed /\ Answer(p, c)
    <3>1. page'[p] = Answered(page[p], call[c])
      BY <1>2, <2>3 DEF Answer
    <3>2. page'[p].view # "closed"
      BY <1>1, <2>1, <2>3, <3>1, AnswersAimed DEF IInv, Aimed, PagesAimed, Answered, Succeeded,
         Failed, Freed, Page
    <3>3. call' = [call EXCEPT ![c] = Nothing]
      BY <2>3, <3>2 DEF Answer
    <3>4. \A d \in Calls \ {c} : call'[d] = call[d]
      BY <1>1, <3>3 DEF CallTypeOK
    <3> QED BY <1>1, <2>1, <2>3, <3>1, <3>4, FlagsAfter, WaitedFreed, ZenonT(60)
  <2>4. CASE Lose(p, c)
    <3>1. page'[p] = [Failed(page[p], call[c]) EXCEPT !.past = "disturbed"]
      BY <1>2, <2>4 DEF Lose
    <3>2. \A d \in Calls \ {c} : call'[d] = call[d]
      BY <1>1, <2>4 DEF Lose, CallTypeOK
    <3>3. page'[p].busy = IF call[c].op = "load" THEN page[p].busy
                          ELSE [page[p].busy EXCEPT
                                  ![ControlOf(call[c].op, call[c].item)] = "idle"]
      BY <1>1, <2>1, <3>1, FlagsAfter
    <3> QED BY <2>1, <3>2, <3>3, WaitedFreed
  <2> QED BY <1>4, <2>2, <2>3, <2>4
<1>5. CASE AnswerCreate(p, c)
  <2>1. c \in CallsOf(p) /\ call[c] \in Pending /\ call[c].op = "create"
    BY <1>1, <1>5, CallCases DEF AnswerCreate, CallsOf, CallTypeOK
  <2>2. CASE call[c].answer.status = "refused"
    <3>1. page'[p] = Failed(page[p], call[c])
      BY <1>2, <1>5, <2>2 DEF AnswerCreate, Answered
    <3>2. \A d \in Calls \ {c} : call'[d] = call[d]
      BY <1>1, <1>5 DEF AnswerCreate, CallTypeOK
    <3> QED BY <1>1, <2>1, <3>1, <3>2, FlagsAfter, WaitedFreed, ZenonT(60)
  <2>3. CASE call[c].answer.status # "refused"
    <3>1. \/ page'[p] = [Closed EXCEPT !.view = "loading", !.turf = call[c].turf]
          \/ page'[p] = Closed
      BY <1>2, <1>5, <2>3 DEF AnswerCreate
    <3>2. page'[p].busy = Closed.busy
      BY <3>1 DEF Closed
    <3> QED BY <3>2, ClosedWaits
  <2> QED BY <2>2, <2>3
<1>6. ASSUME NEW t \in Turfs, NEW kind \in {"web", "mobile"}, Open(p, c, kind, t)
      PROVE  Waited(p)'
  <2>1. page' = [page EXCEPT ![p] = [Closed EXCEPT !.kind = kind, !.view = "loading", !.turf = t]]
    BY <1>6 DEF Open
  <2>2. page'[p] = [Closed EXCEPT !.kind = kind, !.view = "loading", !.turf = t]
    BY <1>2, <2>1
  <2>3. page'[p].busy = Closed.busy
    BY <2>2 DEF Closed
  <2> QED BY <2>3, ClosedWaits
<1> QED BY <1>3, <1>4, <1>5, <1>6 DEF Click

(* The steps of the server, of an administrator and of the other pages      *)
(* leave what page p waits for in flight.                                   *)
LEMMA OtherStepWaited ==
  ASSUME IInv, NEW p \in Pages, Waited(p),
         \/ \E c \in Calls : Serve(c) \/ Discard(c)
         \/ \E t \in Turfs : Moderate(t)
  PROVE  Waited(p)'
<1>1. CallTypeOK /\ PageTypeOK
  BY TypeParts DEF IInv
(* A request keeps its page, its operation and its item, or had no page.    *)
<1>2. ASSUME NEW c \in Calls, NEW k, call' = [call EXCEPT ![c] = k], page'[p].busy = page[p].busy,
             \/ call[c].page = Nothing
             \/ /\ k # Nothing /\ k.page = call[c].page
                /\ k.op = call[c].op /\ k.item = call[c].item
      PROVE  Waited(p)'
  <2>1. \A d \in Calls : call'[d] = IF d = c THEN k ELSE call[d]
    BY <1>1, <1>2 DEF CallTypeOK
  <2>2. p # Nothing
    BY NothingAssumption
  <2>3. \A d \in CallsOf(p) : /\ call'[d] # Nothing /\ call'[d].page = p
                              /\ call'[d].op = call[d].op /\ call'[d].item = call[d].item
    BY <1>2, <2>1, <2>2 DEF CallsOf
  <2> QED BY <1>2, <2>3, WaitedKept
<1>3. ASSUME NEW t, NEW q, OthersSee(t, q) PROVE page'[p].busy = page[p].busy
  BY <1>1, <1>3, OthersSeeStays DEF PagesStay
<1>4. ASSUME NEW c \in Calls, Serve(c) \/ Discard(c) PROVE Waited(p)'
  <2>1. call[c] # Nothing
    BY <1>4 DEF Serve, Read, ServeCreate, ServeSave, ServeSubmit, ServeDelete, CountImages,
           Attach, Detach, Refuse, Arrived, Discard
  <2>2. call[c] \in Pending
    BY <1>1, <2>1, CallCases DEF CallTypeOK
  <2>3. ASSUME NEW answer \in Turf, Reply(c, answer), page'[p].busy = page[p].busy
        PROVE  Waited(p)'
    <3> DEFINE k == [call[c] EXCEPT !.phase = "answered", !.answer = answer]
    <3>1. k \in Pending /\ k.page = call[c].page /\ k.op = call[c].op /\ k.item = call[c].item
      <4>1. k \in Pending
        BY <2>2, PendingTypes
      <4> QED BY <2>2, <4>1 DEF Pending
    <3>2. call' = [call EXCEPT ![c] = IF call[c].page = Nothing THEN Nothing ELSE k]
      BY <1>1, <2>3 DEF Reply, CallTypeOK
    <3> HIDE DEF k
    <3>3. k # Nothing
      BY <3>1, NothingAssumption
    <3> QED BY <1>2, <2>3, <3>1, <3>2, <3>3
  <2>4. ASSUME NEW t \in Turfs, Written(c, t) PROVE Waited(p)'
    <3> DEFINE k == [call[c] EXCEPT !.phase = "written", !.turf = t]
    <3>1. k \in Pending /\ k.page = call[c].page /\ k.op = call[c].op /\ k.item = call[c].item
      <4>1. k \in Pending
        BY <2>2, PendingTypes
      <4> QED BY <2>2, <4>1 DEF Pending
    <3>2. call' = [call EXCEPT ![c] = IF call[c].page = Nothing THEN Nothing ELSE k]
      BY <1>1, <2>4 DEF Written, CallTypeOK
    <3>3. page'[p].busy = page[p].busy
      BY <1>3, <2>4 DEF Written
    <3> HIDE DEF k
    <3>4. k # Nothing
      BY <3>1, NothingAssumption
    <3> QED BY <1>2, <3>1, <3>2, <3>3, <3>4
  <2>5. CASE Discard(c)
    BY <1>2, <2>5 DEF Discard
  <2>6. CASE CountImages(c)
    <3> DEFINE k == [call[c] EXCEPT !.phase = "counted"]
    <3>1. k \in Pending /\ k.page = call[c].page /\ k.op = call[c].op /\ k.item = call[c].item
      <4>1. k \in Pending
        BY <2>2, PendingTypes
      <4> QED BY <2>2, <4>1 DEF Pending
    <3>2. call' = [call EXCEPT ![c] = k] /\ page' = page
      BY <1>1, <2>6 DEF CountImages, CallTypeOK
    <3> HIDE DEF k
    <3>3. k # Nothing
      BY <3>1, NothingAssumption
    <3> QED BY <1>2, <3>1, <3>2, <3>3
  <2>7. CASE Read(c)
    <3>1. call[c].turf \in Turfs
      BY <2>1, <2>7 DEF Read, IInv, CallsAimed
    <3>2. Exists(call[c].turf) => Stored(call[c].turf) \in Turf
      BY <3>1, StoredType DEF IInv
    <3>3. Bare("refused") \in Turf
      BY BareType
    <3>4. page' = page
      BY <2>7 DEF Read
    <3> QED BY <2>3, <2>7, <3>2, <3>3, <3>4 DEF Read
  <2>8. CASE ServeDelete(c) \/ Refuse(c)
    <3>1. Bare("refused") \in Turf /\ Bare("deleted") \in Turf
      BY BareType
    <3>2. page'[p].busy = page[p].busy
      BY <1>3, <2>8 DEF ServeDelete, Refuse
    <3> QED BY <2>3, <2>8, <3>1, <3>2 DEF ServeDelete, Refuse
  <2>9. CASE ServeSave(c) \/ ServeSubmit(c) \/ Attach(c) \/ Detach(c)
    <3>1. call[c].turf \in Turfs
      BY <2>1, <2>9 DEF ServeSave, ServeSubmit, Attach, Detach, Arrived, IInv, CallsAimed
    <3> QED BY <2>4, <2>9, <3>1 DEF ServeSave, ServeSubmit, Attach, Detach
  <2>10. ASSUME NEW t \in Turfs, ServeCreate(c, t) PROVE Waited(p)'
    BY <2>4, <2>10 DEF ServeCreate
  <2> QED BY <1>4, <2>5, <2>6, <2>7, <2>8, <2>9, <2>10 DEF Serve
<1>5. ASSUME NEW t \in Turfs, Moderate(t) PROVE Waited(p)'
  <2>1. page'[p].busy = page[p].busy /\ call' = call
    BY <1>3, <1>5 DEF Moderate
  <2> QED BY <2>1, WaitedKept DEF CallsOf
<1> QED BY <1>4, <1>5

(* The steps of another page.                                               *)
LEMMA NeighbourWaited ==
  ASSUME IInv, NEW p \in Pages, Waited(p), NEW q \in Pages \ {p}, NEW c \in Calls,
         \/ \E control \in Offered(q) : Click(q, c, control[1], control[2])
         \/ Answer(q, c) \/ AnswerCreate(q, c) \/ Lose(q, c)
         \/ \E t \in Turfs, kind \in {"web", "mobile"} : Open(q, c, kind, t)
  PROVE  Waited(p)'
<1>1. CallTypeOK /\ PageTypeOK
  BY TypeParts DEF IInv
<1>2. ASSUME \A d \in CallsOf(p) : call'[d] = call[d], page'[p] = page[p] PROVE Waited(p)'
  BY <1>2, WaitedKept DEF CallsOf
<1>3. page'[p] = page[p]
  BY <1>1 DEF PageTypeOK, Click, Answer, AnswerCreate, Lose, Open
<1>4. ASSUME NEW k, call' = [call EXCEPT ![c] = k], c \notin CallsOf(p) PROVE Waited(p)'
  BY <1>1, <1>2, <1>3, <1>4 DEF CallTypeOK, CallsOf
<1>5. ASSUME NEW op, NEW t, NEW item, Send(c, q, op, t, item) PROVE Waited(p)'
  BY <1>4, <1>5 DEF Send, CallsOf
<1>6. ASSUME call' = Abandoned(q) PROVE Waited(p)'
  <2>1. \A d \in CallsOf(p) : d \in Calls /\ d \notin CallsOf(q)
    BY DEF CallsOf
  <2>2. \A d \in CallsOf(p) : call'[d] = call[d]
    BY <1>1, <1>6, <2>1, AbandonedEffect
  <2> QED BY <1>2, <1>3, <2>2
<1>7. CASE Answer(q, c) \/ AnswerCreate(q, c) \/ Lose(q, c)
  <2>1. c \notin CallsOf(p)
    BY <1>7 DEF Answer, AnswerCreate, Lose, CallsOf
  <2>2. call' = Abandoned(q) \/ \E k : call' = [call EXCEPT ![c] = k]
    BY <1>7 DEF Answer, AnswerCreate, Lose
  <2> QED BY <1>4, <1>6, <2>1, <2>2
<1> QED BY <1>5, <1>7 DEF Click, Open

(* A control that is disabled waits for a request that is on its way: none  *)
(* stays disabled after its request was answered, refused or lost, in the   *)
(* finally and catch branches of OwnerTurfEditPage and its forms.           *)
THEOREM ControlsRecover == EditorSpec => []NoDeadControl
<1> DEFINE AllWaited == \A p \in Pages : Waited(p)
<1>1. EditorInit => AllWaited
  BY DEF EditorInit, Waited, Closed
<1>2. IInv /\ AllWaited /\ [EditorNext]_editorVars => AllWaited'
  <2> SUFFICES ASSUME IInv, AllWaited, [EditorNext]_editorVars, NEW p \in Pages
               PROVE  Waited(p)'
    OBVIOUS
  <2>1. ASSUME UNCHANGED <<page, call>> PROVE Waited(p)'
    BY <2>1, WaitedKept DEF CallsOf
  <2>2. ASSUME NEW q \in Pages, NEW c \in Calls,
               \/ \E control \in Offered(q) : Click(q, c, control[1], control[2])
               \/ Answer(q, c) \/ AnswerCreate(q, c) \/ Lose(q, c)
               \/ \E t \in Turfs, kind \in {"web", "mobile"} : Open(q, c, kind, t)
        PROVE  Waited(p)'
    <3>1. CASE q = p
      BY <2>2, <3>1, OwnStepWaited
    <3>2. CASE q # p
      BY <2>2, <3>2, NeighbourWaited
    <3> QED BY <3>1, <3>2
  <2>3. ASSUME NEW q \in Pages, Leave(q) \/ \E kind \in {"web", "mobile"} : OpenNew(q, kind)
        PROVE  Waited(p)'
    <3>1. PageTypeOK /\ CallTypeOK
      BY TypeParts DEF IInv
    <3>2. CASE q = p
      <4>1. page'[p].busy = Closed.busy
        <5>1. CASE Leave(q)
          BY <3>1, <3>2, <5>1 DEF Leave, PageTypeOK
        <5>2. ASSUME NEW kind \in {"web", "mobile"}, OpenNew(q, kind)
              PROVE  page'[p].busy = Closed.busy
          <6>1. page'[p] = [Closed EXCEPT !.kind = kind, !.view = "new"]
            BY <3>1, <3>2, <5>2 DEF OpenNew, PageTypeOK
          <6> QED BY <6>1 DEF Closed
        <5> QED BY <2>3, <5>1, <5>2
      <4> QED BY <4>1, ClosedWaits
    <3>3. CASE q # p
      <4>1. page'[p] = page[p]
        BY <2>3, <3>1, <3>3 DEF Leave, OpenNew, PageTypeOK
      <4>2. \A d \in CallsOf(p) : d \in Calls /\ d \notin CallsOf(q)
        BY <3>3 DEF CallsOf
      <4>3. \A d \in CallsOf(p) : call'[d] = call[d]
        BY <2>3, <3>1, <4>2, AbandonedEffect DEF Leave, OpenNew
      <4> QED BY <4>1, <4>3, WaitedKept DEF CallsOf
    <3> QED BY <3>2, <3>3
  <2>4. ASSUME \/ \E c \in Calls : Serve(c) \/ Discard(c)
               \/ \E t \in Turfs : Moderate(t)
        PROVE  Waited(p)'
    BY <2>4, OtherStepWaited
  <2>5. CASE UNCHANGED editorVars
    BY <2>1, <2>5 DEF editorVars
  <2> QED BY <2>2, <2>3, <2>4, <2>5 DEF EditorNext
<1>3. AllWaited => NoDeadControl
  BY DEF Waited, WaitsFor, NoDeadControl, CallsOf
<1> QED BY <1>1, <1>2, <1>3, EditorInvariant, PTL DEF EditorSpec

-----------------------------------------------------------------------------
(* What a page shows: as long as its requests never overlapped and nobody   *)
(* else changed its turf, it shows what is stored, or its one request has   *)
(* made the row change it does not show yet, and brings the row with it.    *)

Current(p) == Exists(page[p].turf) /\ page[p].shown = Stored(page[p].turf)

(* What page p gets from request c, and what it shows until then.           *)
Brings(p, c) ==
  /\ call[c].turf = page[p].turf
  /\ call[c].phase = "answered" =>
       \/ call[c].answer.status = "refused" \/ call[c].op = "delete"
       \/ Exists(page[p].turf) /\ call[c].answer = Stored(page[p].turf)
  /\ page[p].view = "ready" =>
       /\ call[c].phase \in {"sent", "counted"} => Current(p)
       /\ call[c].phase = "written" => Exists(page[p].turf)
       /\ call[c].phase = "answered" /\ call[c].answer.status = "refused" => Current(p)

Serial(p) == page[p].past = "serial" /\ page[p].view \notin {"closed", "new"}

InStep(p) ==
  Serial(p) => /\ \A c, d \in CallsOf(p) : c = d
               /\ \A c \in CallsOf(p) : Brings(p, c)
               /\ page[p].view = "ready" /\ CallsOf(p) = {} => Current(p)

(* A page that shows the same of the same row, and waits for the same.      *)
LEMMA InStepKept ==
  ASSUME NEW p \in Pages, InStep(p),
         Serial(p)' => /\ page'[p] = page[p] /\ CallsOf(p)' = CallsOf(p)
                       /\ \A c \in CallsOf(p) : call'[c] = call[c]
                       /\ status'[page[p].turf] = status[page[p].turf]
                       /\ items'[page[p].turf] = items[page[p].turf]
  PROVE  InStep(p)'
<1> SUFFICES ASSUME Serial(p)' PROVE InStep(p)'
  BY DEF InStep
<1>1. page'[p] = page[p] /\ CallsOf(p)' = CallsOf(p) /\ \A c \in CallsOf(p) : call'[c] = call[c]
  OBVIOUS
<1>2. Serial(p) /\ (Exists(page[p].turf)' <=> Exists(page[p].turf))
      /\ Stored(page[p].turf)' = Stored(page[p].turf)
  BY <1>1 DEF Serial, Exists, Stored
<1>3. Current(p)' <=> Current(p)
  BY <1>1, <1>2 DEF Current
<1>4. \A c \in CallsOf(p) : Brings(p, c) => Brings(p, c)'
  BY <1>1, <1>2, <1>3 DEF Brings
<1> QED BY <1>1, <1>2, <1>3, <1>4 DEF InStep

(* What a statement about turf t leaves alone: the rows of the others, and  *)
(* the pages that notice nothing.                                           *)
LEMMA OthersNotice ==
  ASSUME PageTypeOK, NEW t, NEW p \in Pages, NEW q, OthersSee(t, q)
  PROVE  /\ p = q => page'[p] = page[p]
         /\ page'[p].past = "serial" /\ p # q => page'[p] = page[p] /\ page[p].turf # t
<1>1. page[p] \in Page
  BY DEF PageTypeOK
<1>2. [page[p] EXCEPT !.past = "disturbed"].past = "disturbed"
  BY <1>1 DEF Page
<1> QED BY <1>2 DEF OthersSee

(* What the server makes of request c, which page p waits for.  Either the  *)
(* rows stay, and the request is counted, refused, or answered with what is *)
(* stored; or the row of its turf changes, and a read of it follows unless  *)
(* the turf is gone.                                                        *)
Unread(c, k) ==
  /\ UNCHANGED <<status, items, page>>
  /\ \/ k.phase = "counted" /\ call[c].phase = "sent"
     \/ /\ k.phase = "answered" /\ k.answer.status = "refused"
        /\ \/ call[c].phase \in {"sent", "counted"}
           \/ call[c].phase = "written" /\ ~Exists(call[c].turf)
     \/ /\ k.phase = "answered" /\ k.answer = Stored(call[c].turf)
        /\ Exists(call[c].turf)

Rewritten(c, k) ==
  /\ OthersSee(call[c].turf, call[c].page)
  /\ \/ k.phase = "answered" /\ k.op = "delete" /\ k.answer.status = "deleted"
     \/ /\ k.phase = "written" /\ call[c].phase \in {"sent", "counted"}
        /\ Exists(call[c].turf) => status'[call[c].turf] \in Statuses

LEMMA ServeEffect ==
  ASSUME IInv, NEW c \in Calls, Serve(c), call[c].page # Nothing, call[c].op # "create"
  PROVE  /\ call[c] # Nothing /\ call'[c] # Nothing
         /\ \A d \in Calls \ {c} : call'[d] = call[d]
         /\ call'[c].page = call[c].page /\ call'[c].op = call[c].op
         /\ call'[c].turf = call[c].turf
         /\ Unread(c, call'[c]) \/ Rewritten(c, call'[c])
<1> DEFINE t == call[c].turf
<1>1. call[c] # Nothing
  BY DEF Serve, Read, ServeCreate, ServeSave, ServeSubmit, ServeDelete, CountImages,
         Attach, Detach, Refuse, Arrived
<1>2. CallTypeOK /\ RowTypeOK /\ call[c] \in Pending /\ t \in Turfs
  BY <1>1, TypeParts, CallCases DEF IInv, CallTypeOK, CallsAimed
<1>3. ASSUME NEW k \in Pending, call' = [call EXCEPT ![c] = k],
             k.page = call[c].page, k.op = call[c].op, k.turf = call[c].turf,
             Unread(c, k) \/ Rewritten(c, k)
      PROVE  /\ call'[c] # Nothing /\ \A d \in Calls \ {c} : call'[d] = call[d]
             /\ call'[c].page = call[c].page /\ call'[c].op = call[c].op
             /\ call'[c].turf = call[c].turf
             /\ Unread(c, call'[c]) \/ Rewritten(c, call'[c])
  <2>1. call'[c] = k /\ \A d \in Calls \ {c} : call'[d] = call[d]
    BY <1>2, <1>3 DEF CallTypeOK
  <2> QED BY <1>3, <2>1, NothingAssumption
<1>4. ASSUME NEW answer \in Turf, Reply(c, answer)
      PROVE  \E k \in Pending : 
               /\ call' = [call EXCEPT ![c] = k] /\ k.phase = "answered" /\ k.answer = answer
               /\ k.page = call[c].page /\ k.op = call[c].op /\ k.turf = t
  <2> DEFINE k == [call[c] EXCEPT !.phase = "answered", !.answer = answer]
  <2>1. k \in Pending
    BY <1>2, PendingTypes
  <2>2. call' = [call EXCEPT ![c] = k]
    BY <1>2, <1>4 DEF Reply, CallTypeOK
  <2>3. k.phase = "answered" /\ k.answer = answer /\ k.page = call[c].page
        /\ k.op = call[c].op /\ k.turf = t
    BY <1>2 DEF Pending
  <2> HIDE DEF k
  <2> QED BY <2>1, <2>2, <2>3
<1>5. ASSUME Written(c, t)
      PROVE  \E k \in Pending : 
               /\ call' = [call EXCEPT ![c] = k] /\ k.phase = "written"
               /\ k.page = call[c].page /\ k.op = call[c].op /\ k.turf = t
  <2> DEFINE k == [call[c] EXCEPT !.phase = "written", !.turf = t]
  <2>1. k \in Pending
    BY <1>2, PendingTypes
  <2>2. call' = [call EXCEPT ![c] = k]
    BY <1>2, <1>5 DEF Written, CallTypeOK
  <2>3. k.phase = "written" /\ k.page = call[c].page /\ k.op = call[c].op /\ k.turf = t
    BY <1>2 DEF Pending
  <2> HIDE DEF k
  <2> QED BY <2>1, <2>2, <2>3
<1>6. Bare("refused") \in Turf /\ Bare("deleted") \in Turf
      /\ Bare("refused").status = "refused" /\ Bare("deleted").status = "deleted"
      /\ (Exists(t) => Stored(t) \in Turf)
  BY <1>2, BareType, StoredType DEF Bare, IInv
<1>7. CASE Read(c)
  <2> DEFINE answer == IF Exists(t) THEN Stored(t) ELSE Bare("refused")
  <2>1. answer \in Turf
    BY <1>6
  <2>5. Reply(c, answer)
    BY <1>7 DEF Read
  <2>6. UNCHANGED <<status, items, page>>
    BY <1>7 DEF Read, rows
  <2>2. \/ Exists(t) /\ answer = Stored(t)
        \/ /\ ~Exists(t) /\ answer.status = "refused"
           /\ call[c].phase \in {"sent", "written"}
    BY <1>6, <1>7 DEF Read
  <2> HIDE DEF answer
  <2>3. PICK k \in Pending :
               /\ call' = [call EXCEPT ![c] = k] /\ k.phase = "answered" /\ k.answer = answer
               /\ k.page = call[c].page /\ k.op = call[c].op /\ k.turf = t
    BY <1>4, <2>1, <2>5
  <2>4. Unread(c, k)
    BY <2>2, <2>3, <2>6 DEF Unread
  <2> QED BY <1>1, <1>3, <2>3, <2>4
<1>8. CASE Refuse(c)
  <2>1. Reply(c, Bare("refused")) /\ UNCHANGED <<status, items, page>>
        /\ call[c].phase \in {"sent", "counted"}
    BY <1>8 DEF Refuse, rows
  <2>2. PICK k \in Pending :
               /\ call' = [call EXCEPT ![c] = k] /\ k.phase = "answered"
               /\ k.answer = Bare("refused")
               /\ k.page = call[c].page /\ k.op = call[c].op /\ k.turf = t
    BY <1>4, <1>6, <2>1
  <2>3. Unread(c, k)
    BY <1>6, <2>1, <2>2 DEF Unread
  <2> QED BY <1>1, <1>3, <2>2, <2>3
<1>9. CASE CountImages(c)
  <2> DEFINE k == [call[c] EXCEPT !.phase = "counted"]
  <2>1. k \in Pending
    BY <1>2, PendingTypes
  <2>2. call' = [call EXCEPT ![c] = k] /\ UNCHANGED <<status, items, page>>
        /\ call[c].phase = "sent"
    BY <1>2, <1>9 DEF CountImages, CallTypeOK, Arrived, rows
  <2>3. k.phase = "counted" /\ k.page = call[c].page /\ k.op = call[c].op /\ k.turf = t
    BY <1>2 DEF Pending
  <2> HIDE DEF k
  <2>4. Unread(c, k)
    BY <2>2, <2>3 DEF Unread
  <2> QED BY <1>1, <1>3, <2>1, <2>2, <2>3, <2>4
<1>10. CASE ServeDelete(c)
  <2>1. Reply(c, Bare("deleted")) /\ OthersSee(t, call[c].page) /\ call[c].op = "delete"
    BY <1>10 DEF ServeDelete, Arrived
  <2>2. PICK k \in Pending :
               /\ call' = [call EXCEPT ![c] = k] /\ k.phase = "answered"
               /\ k.answer = Bare("deleted")
               /\ k.page = call[c].page /\ k.op = call[c].op /\ k.turf = t
    BY <1>4, <1>6, <2>1
  <2>3. Rewritten(c, k)
    BY <1>6, <2>1, <2>2 DEF Rewritten
  <2> QED BY <1>1, <1>3, <2>2, <2>3
<1>11. CASE ServeSave(c) \/ ServeSubmit(c) \/ Attach(c) \/ Detach(c)
  <2>1. Written(c, t) /\ OthersSee(t, call[c].page) /\ call[c].phase \in {"sent", "counted"}
    BY <1>11 DEF ServeSave, ServeSubmit, Attach, Detach, Arrived, Written
  <2>2. Exists(t) => status'[t] \in Statuses
    <3>1. CASE ServeSave(c) \/ ServeSubmit(c)
      BY <1>2, <3>1 DEF ServeSave, ServeSubmit, Exists, RowTypeOK, Statuses
    <3>2. CASE Attach(c) \/ Detach(c)
      BY <3>2 DEF Attach, Detach, Exists
    <3> QED BY <1>11, <3>1, <3>2
  <2>3. PICK k \in Pending :
               /\ call' = [call EXCEPT ![c] = k] /\ k.phase = "written"
               /\ k.page = call[c].page /\ k.op = call[c].op /\ k.turf = t
    BY <1>5, <2>1
  <2>4. Rewritten(c, k)
    BY <2>1, <2>2, <2>3 DEF Rewritten
  <2> QED BY <1>1, <1>3, <2>3, <2>4
<1>12. ASSUME NEW u \in Turfs, ServeCreate(c, u) PROVE FALSE
  BY <1>12 DEF ServeCreate, Arrived
<1> QED BY <1>7, <1>8, <1>9, <1>10, <1>11, <1>12 DEF Serve

(* The server works on the one request of the page.                         *)
LEMMA ServedInStep ==
  ASSUME IInv, NEW p \in Pages, InStep(p), NEW c \in CallsOf(p), Serve(c)
  PROVE  InStep(p)'
<1> SUFFICES ASSUME Serial(p)' PROVE InStep(p)'
  BY DEF InStep
<1>1. PageTypeOK /\ p # Nothing /\ c \in Calls /\ call[c].page = p
  BY TypeParts, NothingAssumption DEF IInv, CallsOf
<1>2. page'[p] = page[p]
  <2>1. ASSUME NEW t, OthersSee(t, p) PROVE page'[p] = page[p]
    BY <1>1, <2>1, OthersNotice
  <2> QED BY <1>1, <2>1 DEF Serve, Read, ServeCreate, ServeSave, ServeSubmit, ServeDelete,
           CountImages, Attach, Detach, Refuse, Written
<1>3. Serial(p) /\ CallsOf(p) = {c} /\ Brings(p, c) /\ call[c].op # "create"
      /\ page[p].turf \in Turfs /\ call[c].turf = page[p].turf
  BY <1>2 DEF Serial, InStep, IInv, PagesAimed, Brings
<1>4. /\ call'[c] # Nothing /\ \A d \in Calls \ {c} : call'[d] = call[d]
      /\ call'[c].page = p /\ call'[c].op = call[c].op /\ call'[c].turf = page[p].turf
      /\ Unread(c, call'[c]) \/ Rewritten(c, call'[c])
  BY <1>1, <1>3, ServeEffect
<1>5. CallsOf(p)' = {c}
  BY <1>1, <1>3, <1>4 DEF CallsOf
<1>6. CASE Unread(c, call'[c])
  <2>1. (Current(p)' <=> Current(p)) /\ (Exists(page[p].turf)' <=> Exists(page[p].turf))
        /\ Stored(page[p].turf)' = Stored(page[p].turf)
    BY <1>6 DEF Unread, Current, Exists, Stored
  <2>2. Brings(p, c)'
    <3> DEFINE k == call'[c]
    <3>1. \/ k.phase = "counted" /\ call[c].phase = "sent"
          \/ /\ k.phase = "answered" /\ k.answer.status = "refused"
             /\ \/ call[c].phase \in {"sent", "counted"}
                \/ call[c].phase = "written" /\ ~Exists(page[p].turf)
          \/ k.phase = "answered" /\ k.answer = Stored(page[p].turf) /\ Exists(page[p].turf)
      BY <1>3, <1>6 DEF Unread
    <3>2. k.phase = "answered" =>
            \/ k.answer.status = "refused"
            \/ Exists(page[p].turf)' /\ k.answer = Stored(page[p].turf)'
      BY <1>2, <2>1, <3>1
    <3>3. page[p].view = "ready" =>
            /\ k.phase \in {"sent", "counted"} => Current(p)'
            /\ k.phase = "written" => Exists(page[p].turf)'
            /\ k.phase = "answered" /\ k.answer.status = "refused" => Current(p)'
      <4>1. ASSUME page[p].view = "ready", k.answer.status = "refused", k.answer = Stored(page[p].turf), Exists(page[p].turf)
            PROVE  FALSE
        BY <4>1 DEF Stored, Exists, Statuses
      <4>2. ASSUME page[p].view = "ready", call[c].phase \in {"sent", "counted"}
            PROVE  Current(p)'
        BY <1>3, <2>1, <4>2 DEF Brings
      <4>3. ASSUME page[p].view = "ready", ~Exists(page[p].turf), call[c].phase = "written"
            PROVE  FALSE
        BY <1>3, <4>3 DEF Brings
      <4> QED BY <3>1, <4>1, <4>2, <4>3
    <3> QED BY <1>2, <1>4, <3>2, <3>3 DEF Brings
  <2> QED BY <1>5, <2>2 DEF InStep
<1>7. CASE Rewritten(c, call'[c])
  <2>1. Brings(p, c)'
    BY <1>2, <1>3, <1>4, <1>7 DEF Rewritten, Brings, Current, Exists
  <2> QED BY <1>5, <2>1 DEF InStep
<1> QED BY <1>4, <1>6, <1>7

(* A statement about a turf leaves page p alone, or makes it notice.        *)
LEMMA RowsElsewhere ==
  ASSUME PageTypeOK, NEW t, NEW p \in Pages, NEW q, p # q, OthersSee(t, q), Serial(p)',
         \A u \in Turfs \ {t} : status'[u] = status[u] /\ items'[u] = items[u],
         page[p].turf \in Turfs \/ page[p].view \in {"closed", "new"}
  PROVE  /\ page'[p] = page[p]
         /\ status'[page[p].turf] = status[page[p].turf]
         /\ items'[page[p].turf] = items[page[p].turf]
<1>1. page'[p] = page[p] /\ page[p].turf # t
  BY OthersNotice DEF Serial
<1>2. page[p].turf \in Turfs
  BY <1>1 DEF Serial
<1> QED BY <1>1, <1>2

(* The rows a statement of the server changes.                              *)
LEMMA RowsOfServe ==
  ASSUME IInv, NEW c \in Calls, Serve(c) \/ Discard(c)
  PROVE  \/ UNCHANGED <<status, items, page>>
         \/ \E t \in Turfs :
              /\ OthersSee(t, call[c].page)
              /\ \A u \in Turfs \ {t} : status'[u] = status[u] /\ items'[u] = items[u]
<1>1. RowTypeOK
  BY TypeParts DEF IInv
<1>2. CASE Read(c) \/ CountImages(c) \/ Refuse(c) \/ Discard(c)
  BY <1>2 DEF Read, CountImages, Refuse, Discard, rows
<1>3. ASSUME NEW t \in Turfs, ServeCreate(c, t)
      PROVE  /\ OthersSee(t, call[c].page)
             /\ \A u \in Turfs \ {t} : status'[u] = status[u] /\ items'[u] = items[u]
  BY <1>1, <1>3 DEF ServeCreate, Written, RowTypeOK
<1>4. CASE ServeSave(c) \/ ServeSubmit(c) \/ ServeDelete(c) \/ Attach(c) \/ Detach(c)
  <2>1. call[c].turf \in Turfs
    BY <1>4 DEF ServeSave, ServeSubmit, ServeDelete, Attach, Detach, Arrived, IInv, CallsAimed
  <2>2. OthersSee(call[c].turf, call[c].page)
    BY <1>4 DEF ServeSave, ServeSubmit, ServeDelete, Attach, Detach, Written
  <2>3. \A u \in Turfs \ {call[c].turf} : status'[u] = status[u] /\ items'[u] = items[u]
    BY <1>1, <1>4 DEF ServeSave, ServeSubmit, ServeDelete, Attach, Detach, RowTypeOK
  <2> QED BY <2>1, <2>2, <2>3
<1> QED BY <1>2, <1>3, <1>4 DEF Serve

(* The request it changes stays with its page.                              *)
LEMMA CallOfServe ==
  ASSUME IInv, NEW c \in Calls, Serve(c) \/ Discard(c)
  PROVE  /\ call[c] # Nothing
         /\ \A d \in Calls \ {c} : call'[d] = call[d]
         /\ call'[c] # Nothing => call'[c].page = call[c].page
<1>1. CallTypeOK
  BY TypeParts DEF IInv
<1>2. call[c] # Nothing
  BY DEF Serve, Read, ServeCreate, ServeSave, ServeSubmit, ServeDelete, CountImages, Attach,
         Detach, Refuse, Arrived, Discard
<1>3. call[c] \in Pending
  BY <1>1, <1>2, CallCases DEF CallTypeOK
<1> DEFINE Stays == /\ \A d \in Calls \ {c} : call'[d] = call[d]
                    /\ call'[c] # Nothing => call'[c].page = call[c].page
<1>4. ASSUME NEW k, call' = [call EXCEPT ![c] = k], k = Nothing \/ k.page = call[c].page
      PROVE  Stays
  BY <1>1, <1>4 DEF CallTypeOK
<1> HIDE DEF Stays
<1>5. /\ \A answer, phase : [call[c] EXCEPT !.phase = phase, !.answer = answer].page = call[c].page
      /\ \A t, phase : [call[c] EXCEPT !.phase = phase, !.turf = t].page = call[c].page
      /\ \A phase : [call[c] EXCEPT !.phase = phase].page = call[c].page
  BY <1>3 DEF Pending
<1>6. ASSUME NEW answer, Reply(c, answer) PROVE Stays
  <2> DEFINE k == IF call[c].page = Nothing THEN Nothing
                  ELSE [call[c] EXCEPT !.phase = "answered", !.answer = answer]
  <2>1. call' = [call EXCEPT ![c] = k]
    BY <1>1, <1>6 DEF Reply, CallTypeOK
  <2>2. k = Nothing \/ k.page = call[c].page
    BY <1>5
  <2> HIDE DEF k
  <2> QED BY <1>4, <2>1, <2>2
<1>7. ASSUME NEW t, Written(c, t) PROVE Stays
  <2> DEFINE k == IF call[c].page = Nothing THEN Nothing
                  ELSE [call[c] EXCEPT !.phase = "written", !.turf = t]
  <2>1. call' = [call EXCEPT ![c] = k]
    BY <1>1, <1>7 DEF Written, CallTypeOK
  <2>2. k = Nothing \/ k.page = call[c].page
    BY <1>5
  <2> HIDE DEF k
  <2> QED BY <1>4, <2>1, <2>2
<1>8. ASSUME CountImages(c) PROVE Stays
  <2> DEFINE k == [call[c] EXCEPT !.phase = "counted"]
  <2>1. call' = [call EXCEPT ![c] = k]
    BY <1>1, <1>8 DEF CountImages, CallTypeOK
  <2>2. k.page = call[c].page
    BY <1>5
  <2> HIDE DEF k
  <2> QED BY <1>4, <2>1, <2>2
<1>9. ASSUME Discard(c) PROVE Stays
  BY <1>4, <1>9 DEF Discard
<1>10. ASSUME Serve(c), ~CountImages(c) PROVE Stays
  BY <1>6, <1>7, <1>10 DEF Serve, Read, ServeCreate, ServeSave, ServeSubmit, ServeDelete, Attach,
     Detach, Refuse
<1>11. Stays
  BY <1>8, <1>9, <1>10
<1> QED BY <1>2, <1>11 DEF Stays

(* The server works on a request of another page, or of none, or one that   *)
(* nobody waits for is lost.                                                *)
LEMMA ServedElsewhere ==
  ASSUME IInv, NEW p \in Pages, InStep(p), NEW c \in Calls \ CallsOf(p), Serve(c) \/ Discard(c)
  PROVE  InStep(p)'
<1>1. PageTypeOK /\ p # call[c].page /\ call[c] # Nothing
  BY TypeParts, CallOfServe DEF IInv, CallsOf
<1>2. CallsOf(p)' = CallsOf(p) /\ \A d \in CallsOf(p) : call'[d] = call[d]
  BY <1>1, CallOfServe DEF CallsOf
<1>3. page[p].turf \in Turfs \/ page[p].view \in {"closed", "new"}
  BY DEF IInv, PagesAimed
<1>4. Serial(p)' => /\ page'[p] = page[p] /\ status'[page[p].turf] = status[page[p].turf]
                    /\ items'[page[p].turf] = items[page[p].turf]
  BY <1>1, <1>3, RowsOfServe, RowsElsewhere
<1> QED BY <1>2, <1>4, InStepKept

(* An administrator acts on a turf.                                         *)
LEMMA ModeratedInStep ==
  ASSUME IInv, NEW p \in Pages, InStep(p), NEW t \in Turfs, Moderate(t)
  PROVE  InStep(p)'
<1>1. PageTypeOK /\ RowTypeOK /\ p # Nothing
  BY TypeParts, NothingAssumption DEF IInv
<1>2. CallsOf(p)' = CallsOf(p) /\ UNCHANGED call /\ OthersSee(t, Nothing)
  BY DEF Moderate, CallsOf
<1>3. \A u \in Turfs \ {t} : status'[u] = status[u] /\ items'[u] = items[u]
  BY <1>1 DEF Moderate, RowTypeOK
<1>4. page[p].turf \in Turfs \/ page[p].view \in {"closed", "new"}
  BY DEF IInv, PagesAimed
<1> QED BY <1>1, <1>2, <1>3, <1>4, RowsElsewhere, InStepKept

(* The page asks: it is idle, or no longer in step.                         *)
LEMMA AskedInStep ==
  ASSUME IInv, NEW p \in Pages, InStep(p), NEW c \in Calls
  PROVE  /\ \A t \in Turfs, kind \in {"web", "mobile"} : Open(p, c, kind, t) => InStep(p)'
         /\ \A kind \in {"web", "mobile"} : OpenNew(p, kind) => InStep(p)'
         /\ \A op, item : Click(p, c, op, item) => InStep(p)'
<1>1. PageTypeOK /\ CallTypeOK /\ page[p] \in Page
  BY TypeParts DEF IInv, PageTypeOK
(* The only request of the page is the one it sends now.                    *)
<1>2. ASSUME NEW op, NEW t, NEW item, Send(c, p, op, t, item), call'[c] # Nothing, CallsOf(p) = {}
      PROVE  CallsOf(p)' = {c}
  BY <1>1, <1>2, Sent DEF CallsOf
<1>3. ASSUME NEW kind \in {"web", "mobile"}, NEW t \in Turfs, Open(p, c, kind, t) PROVE InStep(p)'
  <2>1. Send(c, p, "load", t, "busy") /\ CallsOf(p) = {} 
    BY <1>3 DEF Open, IInv, PagesAimed
  <2>2. page'[p] = [Closed EXCEPT !.kind = kind, !.view = "loading", !.turf = t]
    BY <1>1, <1>3 DEF Open, PageTypeOK
  <2>3. page'[p].view = "loading" /\ page'[p].turf = t
    BY <2>2 DEF Closed
  <2>4. \A d \in CallsOf(p)' : d = c
    BY <1>1, <2>1, Sent DEF CallsOf
  <2>5. Brings(p, c)'
    BY <1>1, <2>1, <2>3, Sent DEF Brings
  <2> QED BY <2>3, <2>4, <2>5 DEF InStep
<1>4. ASSUME NEW kind \in {"web", "mobile"}, OpenNew(p, kind) PROVE InStep(p)'
  <2>1. page'[p] = [Closed EXCEPT !.kind = kind, !.view = "new"]
    BY <1>1, <1>4 DEF OpenNew, PageTypeOK
  <2>2. page'[p].view = "new"
    BY <2>1 DEF Closed
  <2> QED BY <2>2 DEF InStep, Serial
<1>5. ASSUME NEW op, NEW item, Click(p, c, op, item) PROVE InStep(p)'
  <2> SUFFICES ASSUME Serial(p)' PROVE InStep(p)'
    BY DEF InStep
  <2>1. /\ page'[p].view = page[p].view /\ page'[p].turf = page[p].turf
        /\ page'[p].shown = page[p].shown
        /\ page'[p].past = IF page[p].past = "serial" /\ CallsOf(p) # {}
                           THEN "overlapped" ELSE page[p].past
    BY <1>1, <1>5 DEF Click, PageTypeOK, Page
  <2>2. Serial(p) /\ CallsOf(p) = {} /\ Send(c, p, op, page[p].turf, item)
    BY <1>5, <2>1 DEF Serial, Click
  <2>3. page[p].view = "ready" => Current(p)
    BY <2>2 DEF InStep
  <2>4. page[p].view = "ready" => Current(p)'
    BY <1>5, <2>1, <2>3 DEF Current, Exists, Stored, Click, rows
  <2>5. \A d \in CallsOf(p)' : d = c
    BY <1>1, <2>2, Sent DEF CallsOf
  <2>6. c \in CallsOf(p)'
    <3>1. /\ page[p].turf \in Turfs \cup {Nothing} /\ item \in Items \cup {"busy"}
          /\ op \in {"create", "save", "submit", "delete", "attach", "detach"}
      BY <1>1, <1>5, OfferedType DEF Page, Click, IInv
    <3>2. call'[c] = Request(p, op, page[p].turf, item)
      BY <1>1, <2>2 DEF Send, CallTypeOK
    <3>3. call'[c] \in Pending
      BY <3>1, <3>2, RequestType
    <3> QED BY <1>1, <2>2, <3>3, Sent, NothingAssumption DEF CallsOf
  <2>7. Brings(p, c)'
    BY <1>1, <2>1, <2>2, <2>4, Sent DEF Brings
  <2> QED BY <2>5, <2>6, <2>7 DEF InStep
<1> QED BY <1>3, <1>4, <1>5

(* What a page becomes by an answer, an error or a loss.                    *)
LEMMA ShownAfter ==
  ASSUME NEW pg \in Page, NEW k \in Pending
  PROVE  /\ Failed(pg, k).turf = pg.turf /\ Failed(pg, k).shown = pg.shown
         /\ Failed(pg, k).past = pg.past
         /\ Failed(pg, k).view = IF k.op = "load" THEN "failed" ELSE pg.view
         /\ [Failed(pg, k) EXCEPT !.past = "disturbed"].past = "disturbed"
         /\ k.op # "delete" =>
              /\ Succeeded(pg, k).turf = pg.turf /\ Succeeded(pg, k).shown = k.answer
              /\ Succeeded(pg, k).past = pg.past /\ Succeeded(pg, k).view = "ready"
<1>1. Freed(pg, k) \in Page /\ Failed(pg, k) \in Page
  BY AnsweredType
<1>2. Freed(pg, k).turf = pg.turf /\ Freed(pg, k).shown = pg.shown
      /\ Freed(pg, k).past = pg.past /\ Freed(pg, k).view = pg.view
  BY DEF Freed, Page
<1>3. /\ [pg EXCEPT !.view = "failed"].turf = pg.turf
      /\ [pg EXCEPT !.view = "failed"].shown = pg.shown
      /\ [pg EXCEPT !.view = "failed"].past = pg.past
      /\ [pg EXCEPT !.view = "failed"].view = "failed"
  BY DEF Page
<1>4. [Failed(pg, k) EXCEPT !.past = "disturbed"].past = "disturbed"
  BY <1>1 DEF Page
<1>5. ASSUME k.op = "load"
      PROVE  /\ Succeeded(pg, k).turf = pg.turf /\ Succeeded(pg, k).shown = k.answer
             /\ Succeeded(pg, k).past = pg.past /\ Succeeded(pg, k).view = "ready"
  BY <1>5 DEF Succeeded, Page
<1>6. ASSUME k.op \notin {"load", "delete"}
      PROVE  /\ Succeeded(pg, k).turf = pg.turf /\ Succeeded(pg, k).shown = k.answer
             /\ Succeeded(pg, k).past = pg.past /\ Succeeded(pg, k).view = "ready"
  <2>1. Succeeded(pg, k) = [Freed(pg, k) EXCEPT !.shown = k.answer, !.view = "ready"]
    BY <1>6 DEF Succeeded
  <2> QED BY <1>1, <1>2, <2>1 DEF Page
<1> QED BY <1>2, <1>3, <1>4, <1>5, <1>6 DEF Failed

(* The page gets its answer, or does not.                                   *)
LEMMA AnsweredInStep ==
  ASSUME IInv, NEW p \in Pages, InStep(p), NEW c \in Calls,
         Answer(p, c) \/ AnswerCreate(p, c) \/ Lose(p, c)
  PROVE  InStep(p)'
<1>1. PageTypeOK /\ CallTypeOK /\ page[p] \in Page
  BY TypeParts DEF IInv, PageTypeOK
<1>2. c \in CallsOf(p) /\ call[c] # Nothing
  BY DEF Answer, AnswerCreate, Lose, CallsOf
<1>3. call[c] \in Pending /\ UNCHANGED <<status, items>>
  BY <1>1, <1>2, CallCases DEF CallTypeOK, Answer, AnswerCreate, Lose, rows
<1> DEFINE k  == call[c]
           pg == page[p]
<1>4. CASE Lose(p, c)
  <2>1. page'[p] = [Failed(pg, k) EXCEPT !.past = "disturbed"]
    BY <1>1, <1>4 DEF Lose, PageTypeOK
  <2>2. page'[p].past = "disturbed"
    BY <1>1, <1>3, <2>1, ShownAfter
  <2> QED BY <2>2 DEF InStep, Serial
<1>5. CASE AnswerCreate(p, c)
  <2>1. pg.view = "new" /\ CallsOf(p) = {c}
    BY <1>2, <1>5 DEF AnswerCreate, IInv, PagesAimed
  <2>2. CASE k.answer.status = "refused"
    <3>1. page'[p] = Failed(pg, k)
      BY <1>1, <1>5, <2>2 DEF AnswerCreate, Answered, PageTypeOK
    <3>2. Failed(pg, k).view = IF k.op = "load" THEN "failed" ELSE pg.view
      BY <1>1, <1>3, ShownAfter
    <3>3. k.op = "create"
      BY <1>5 DEF AnswerCreate
    <3>4. page'[p].view = "new"
      BY <2>1, <3>1, <3>2, <3>3
    <3> QED BY <3>4 DEF InStep, Serial
  <2>3. CASE k.answer.status # "refused" /\ pg.kind = "web"
    <3>1. page'[p] = [Closed EXCEPT !.view = "loading", !.turf = k.turf]
      BY <1>1, <1>5, <2>3 DEF AnswerCreate, PageTypeOK
    <3>2. page'[p].view = "loading" /\ page'[p].turf = k.turf
      BY <3>1 DEF Closed
    <3>3. call' = [call EXCEPT ![c] = Request(p, "load", k.turf, "busy")]
      BY <1>5, <2>3 DEF AnswerCreate
    <3>4. /\ call'[c].turf = k.turf /\ call'[c].phase = "sent"
          /\ \A d \in Calls \ {c} : call'[d] = call[d]
      BY <1>1, <3>3 DEF CallTypeOK, Request
    <3>5. Brings(p, c)'
      BY <3>2, <3>4 DEF Brings
    <3>6. \A d \in CallsOf(p)' : d = c
      BY <2>1, <3>4 DEF CallsOf
    <3> QED BY <3>2, <3>5, <3>6 DEF InStep
  <2>4. CASE k.answer.status # "refused" /\ pg.kind # "web"
    <3>1. page'[p].view = "closed"
      BY <1>1, <1>5, <2>4 DEF AnswerCreate, PageTypeOK, Closed
    <3> QED BY <3>1 DEF InStep, Serial
  <2> QED BY <2>2, <2>3, <2>4
<1>6. CASE Answer(p, c)
  <2> SUFFICES ASSUME Serial(p)' PROVE InStep(p)'
    BY DEF InStep
  <2>1. page'[p] = Answered(pg, k) /\ page'[p].view # "closed"
        /\ k.phase = "answered" /\ k.op # "create" /\ pg.view \notin {"closed", "new"}
    BY <1>1, <1>2, <1>6 DEF Answer, PageTypeOK, Serial, IInv, PagesAimed
  <2>2. call' = [call EXCEPT ![c] = Nothing]
    BY <1>6, <2>1 DEF Answer
  <2>3. CASE k.answer.status = "refused"
    <3>1. page'[p] = Failed(pg, k)
      BY <2>1, <2>3 DEF Answered
    <3>2. page'[p].turf = pg.turf /\ page'[p].shown = pg.shown /\ page'[p].past = pg.past
          /\ page'[p].view = IF k.op = "load" THEN "failed" ELSE pg.view
      BY <1>1, <1>3, <3>1, ShownAfter
    <3>3. Serial(p) /\ CallsOf(p) = {c} /\ Brings(p, c)
      BY <1>2, <2>1, <3>2 DEF Serial, InStep
    <3>4. CallsOf(p)' = {}
      BY <1>1, <2>2, <3>3 DEF CallsOf, CallTypeOK
    <3>5. page'[p].view = "ready" => Current(p)'
      BY <1>3, <2>1, <2>3, <3>2, <3>3 DEF Brings, Current, Exists, Stored
    <3> QED BY <3>4, <3>5 DEF InStep
  <2>4. CASE k.answer.status # "refused"
    <3>1. page'[p] = Succeeded(pg, k) /\ k.op # "delete"
      BY <2>1, <2>4 DEF Answered, Succeeded, Closed
    <3>2. page'[p].turf = pg.turf /\ page'[p].shown = k.answer /\ page'[p].past = pg.past
      BY <1>1, <1>3, <3>1, ShownAfter
    <3>3. Serial(p) /\ CallsOf(p) = {c} /\ Brings(p, c)
      BY <1>2, <2>1, <3>2 DEF Serial, InStep
    <3>4. CallsOf(p)' = {}
      BY <1>1, <2>2, <3>3 DEF CallsOf, CallTypeOK
    <3>5. Exists(pg.turf) /\ k.answer = Stored(pg.turf)
      BY <2>1, <2>4, <3>1, <3>3 DEF Brings
    <3>6. Current(p)'
      BY <1>3, <3>2, <3>5 DEF Current, Exists, Stored
    <3> QED BY <3>4, <3>6 DEF InStep
  <2> QED BY <2>3, <2>4
<1> QED BY <1>4, <1>5, <1>6

(* The steps of another page.                                               *)
LEMMA NeighbourInStep ==
  ASSUME IInv, NEW p \in Pages, InStep(p), NEW q \in Pages \ {p}, NEW c \in Calls,
         \/ \E control \in Offered(q) : Click(q, c, control[1], control[2])
         \/ Answer(q, c) \/ AnswerCreate(q, c) \/ Lose(q, c)
         \/ \E t \in Turfs, kind \in {"web", "mobile"} : Open(q, c, kind, t)
  PROVE  InStep(p)'
<1>1. CallTypeOK /\ PageTypeOK
  BY TypeParts DEF IInv
<1>2. page'[p] = page[p] /\ UNCHANGED <<status, items>>
  BY <1>1 DEF PageTypeOK, Click, Answer, AnswerCreate, Lose, Open, rows
<1>3. ASSUME \A d \in CallsOf(p) : call'[d] = call[d],
             \A d \in Calls \ CallsOf(p) : call'[d] = Nothing \/ call'[d].page # p
      PROVE  InStep(p)'
  <2>1. CallsOf(p)' = CallsOf(p)
    BY <1>3 DEF CallsOf
  <2> QED BY <1>2, <1>3, <2>1, InStepKept
<1>4. ASSUME NEW k, call' = [call EXCEPT ![c] = k], c \notin CallsOf(p),
             k # Nothing => k.page # p
      PROVE  InStep(p)'
  <2>1. \A d \in Calls : call'[d] = IF d = c THEN k ELSE call[d]
    BY <1>1, <1>4 DEF CallTypeOK
  <2>2. \A d \in CallsOf(p) : call'[d] = call[d]
    BY <1>4, <2>1 DEF CallsOf
  <2>3. \A d \in Calls \ CallsOf(p) : call'[d] = Nothing \/ call'[d].page # p
    BY <1>4, <2>1 DEF CallsOf
  <2> QED BY <1>3, <2>2, <2>3
<1>5. ASSUME NEW op, NEW t, NEW item, Send(c, q, op, t, item) PROVE InStep(p)'
  <2>1. call[c] = Nothing /\ call' = [call EXCEPT ![c] = Request(q, op, t, item)]
    BY <1>5 DEF Send
  <2>2. c \notin CallsOf(p) /\ Request(q, op, t, item).page # p
    BY <2>1 DEF CallsOf, Request
  <2> QED BY <1>4, <2>1, <2>2
<1>6. ASSUME call' = Abandoned(q) PROVE InStep(p)'
  <2>1. \A d \in CallsOf(p) : d \in Calls /\ d \notin CallsOf(q)
    BY DEF CallsOf
  <2>2. \A d \in CallsOf(p) : call'[d] = call[d]
    BY <1>1, <1>6, <2>1, AbandonedEffect
  <2>3. p # Nothing
    BY NothingAssumption
  <2>4. ASSUME NEW d \in Calls \ CallsOf(p) PROVE call'[d] = Nothing \/ call'[d].page # p
    BY <1>1, <1>6, <2>3, AbandonedEffect DEF CallsOf
  <2> QED BY <1>3, <2>2, <2>4
<1>7. CASE Answer(q, c) \/ AnswerCreate(q, c) \/ Lose(q, c)
  <2>1. c \notin CallsOf(p) /\ call[c] # Nothing /\ call[c].page = q /\ p # Nothing
    BY <1>7, NothingAssumption DEF Answer, AnswerCreate, Lose, CallsOf
  <2>2. call[c] \in Pending
    BY <1>1, <2>1, CallCases DEF CallTypeOK
  <2>3. Forgotten(call[c]) = Nothing \/ Forgotten(call[c]).page = Nothing
    BY <2>2 DEF Forgotten, Pending
  <2>4. \A t : Request(q, "load", t, "busy").page = q
    BY DEF Request
  <2>5. CASE Lose(q, c)
    BY <1>1, <1>4, <2>1, <2>3, <2>5 DEF Lose, CallTypeOK
  <2>6. CASE Answer(q, c)
    BY <1>4, <1>6, <2>1, <2>6 DEF Answer
  <2>7. CASE AnswerCreate(q, c)
    <3>1. \/ call' = [call EXCEPT ![c] = Nothing]
          \/ call' = [call EXCEPT ![c] = Request(q, "load", call[c].turf, "busy")]
      BY <2>7 DEF AnswerCreate
    <3> QED BY <1>4, <2>1, <2>4, <3>1
  <2> QED BY <1>7, <2>5, <2>6, <2>7
<1> QED BY <1>5, <1>7 DEF Click, Open

(* A page is left, or one is opened for a new turf.                         *)
LEMMA LeftInStep ==
  ASSUME IInv, NEW p \in Pages, InStep(p), NEW q \in Pages,
         Leave(q) \/ \E kind \in {"web", "mobile"} : OpenNew(q, kind)
  PROVE  InStep(p)'
<1>1. CallTypeOK /\ PageTypeOK /\ p # Nothing
  BY TypeParts, NothingAssumption DEF IInv
<1>2. CASE q = p
  <2>1. page'[p].view \in {"closed", "new"}
    <3>1. ASSUME NEW kind, page'[p] = [Closed EXCEPT !.kind = kind, !.view = "new"]
          PROVE  page'[p].view = "new"
      BY <3>1 DEF Closed
    <3>2. Closed.view = "closed"
      BY DEF Closed
    <3> QED BY <1>1, <1>2, <3>1, <3>2 DEF Leave, OpenNew, PageTypeOK
  <2> QED BY <2>1 DEF InStep, Serial
<1>3. CASE q # p
  <2>1. page'[p] = page[p] /\ UNCHANGED <<status, items>>
    BY <1>1, <1>3 DEF Leave, OpenNew, PageTypeOK, rows
  <2>2. \A d \in CallsOf(p) : d \in Calls /\ d \notin CallsOf(q)
    BY <1>3 DEF CallsOf
  <2>3. \A d \in CallsOf(p) : call'[d] = call[d]
    BY <1>1, <2>2, AbandonedEffect DEF Leave, OpenNew
  <2>4. \A d \in Calls \ CallsOf(p) : call'[d] = Nothing \/ call'[d].page # p
    <3>1. CASE UNCHANGED call
      BY <3>1 DEF CallsOf
    <3>2. CASE call' = Abandoned(q)
      BY <1>1, <3>2, AbandonedEffect DEF CallsOf
    <3> QED BY <3>1, <3>2 DEF Leave, OpenNew
  <2>5. CallsOf(p)' = CallsOf(p)
    BY <2>3, <2>4 DEF CallsOf
  <2> QED BY <2>1, <2>3, <2>5, InStepKept
<1> QED BY <1>2, <1>3

(* A page whose requests never overlapped, and that is the only one to work *)
(* on its turf, shows what is stored once it is idle, whatever it asked     *)
(* for, failed or not: every answer carries the whole turf, read after the  *)
(* statement, and every handler of OwnerTurfEditPage shows it.              *)
THEOREM PagesShowTheTurf == EditorSpec => []ShownIsStored
<1> DEFINE AllInStep == \A p \in Pages : InStep(p)
<1>1. EditorInit => AllInStep
  BY DEF EditorInit, InStep, Serial, Closed
<1>2. IInv /\ AllInStep /\ [EditorNext]_editorVars => AllInStep'
  <2> SUFFICES ASSUME IInv, AllInStep, [EditorNext]_editorVars, NEW p \in Pages
               PROVE  InStep(p)'
    OBVIOUS
  <2>1. ASSUME NEW q \in Pages, NEW c \in Calls,
               \/ \E control \in Offered(q) : Click(q, c, control[1], control[2])
               \/ Answer(q, c) \/ AnswerCreate(q, c) \/ Lose(q, c)
               \/ \E t \in Turfs, kind \in {"web", "mobile"} : Open(q, c, kind, t)
        PROVE  InStep(p)'
    <3>1. CASE q = p
      BY <2>1, <3>1, AskedInStep, AnsweredInStep
    <3>2. CASE q # p
      BY <2>1, <3>2, NeighbourInStep
    <3> QED BY <3>1, <3>2
  <2>2. ASSUME NEW q \in Pages, Leave(q) \/ \E kind \in {"web", "mobile"} : OpenNew(q, kind)
        PROVE  InStep(p)'
    BY <2>2, LeftInStep
  <2>3. ASSUME NEW c \in Calls, Serve(c) \/ Discard(c) PROVE InStep(p)'
    <3>1. CASE c \in CallsOf(p) /\ Serve(c)
      BY <3>1, ServedInStep
    <3>2. CASE c \notin CallsOf(p)
      BY <2>3, <3>2, ServedElsewhere
    <3>3. ~(c \in CallsOf(p) /\ Discard(c))
      BY NothingAssumption DEF CallsOf, Discard
    <3> QED BY <2>3, <3>1, <3>2, <3>3
  <2>4. ASSUME NEW t \in Turfs, Moderate(t) PROVE InStep(p)'
    BY <2>4, ModeratedInStep
  <2>5. CASE UNCHANGED editorVars
    BY <2>5, InStepKept DEF editorVars, CallsOf
  <2> QED BY <2>1, <2>2, <2>3, <2>4, <2>5 DEF EditorNext
<1>3. AllInStep => ShownIsStored
  BY DEF InStep, Serial, Current, ShownIsStored
<1> QED BY <1>1, <1>2, <1>3, EditorInvariant, PTL DEF EditorSpec
=============================================================================
