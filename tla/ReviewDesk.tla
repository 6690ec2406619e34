----------------------------- MODULE ReviewDesk -----------------------------
(***************************************************************************)
(* AdminTurfReviewPage of the web client on top of TurfModeration: each    *)
(* administrator looks at a turf as it was when it was loaded and clicks   *)
(* what its status offers, while owners and the other administrators go    *)
(* on.  The API answers a decision with the turf read by a statement of    *)
(* its own, after the UPDATE.                                              *)
(***************************************************************************)
EXTENDS TurfModeration

CONSTANT NoTurf  \* no review page is open

ASSUME DeskAssumption == NoTurf \notin Turfs

VARIABLE desk  \* the review page of each administrator

deskVars == <<vars, desk>>

(* "status" and "details" are the turf the page shows; a decision that was  *)
(* sent is "answering" until its answer arrives.                            *)
Closed == [turf |-> NoTurf, status |-> "none", details |-> 0, pc |-> "ready",
           refused |-> FALSE]

DeskInit == Init /\ desk = [a \in Admins |-> Closed]

-----------------------------------------------------------------------------
Snapshot(t) ==
  [Closed EXCEPT !.turf = t, !.status = turfs[t].status, !.details = turfs[t].details]

(* The page is mounted: GET /admin/turfs/{id}, TurfByID.                    *)
Open(a, t) ==
  /\ desk[a].turf = NoTurf
  /\ a \in admins
  /\ turfs[t].status \in Statuses
  /\ desk' = [desk EXCEPT ![a] = Snapshot(t)]
  /\ UNCHANGED vars

Close(a) ==
  /\ desk[a].turf # NoTurf
  /\ desk' = [desk EXCEPT ![a] = Closed]
  /\ UNCHANGED vars

(* Mutant: a rejected turf can be approved after all.                       *)
OfferedAfterRejection(status) ==
  CASE status \in {"PENDING_APPROVAL", "REJECTED"} -> {"approve", "reject"}
    [] status = "APPROVED"                         -> {"suspend"}
    [] status = "SUSPENDED"                        -> {"restore"}
    [] OTHER                                       -> {}

(* The buttons the page offers, by the status it shows.                     *)
Offered(status) ==
  CASE status = "PENDING_APPROVAL" -> {"approve", "reject"}
    [] status = "APPROVED"         -> {"suspend"}
    [] status = "SUSPENDED"        -> {"restore"}
    [] OTHER                       -> {}

Decide(a, t, action) ==
  \/ action = "approve" /\ ApproveTurf(t, a)
  \/ action = "reject"  /\ RejectTurf(t, a)
  \/ action = "suspend" /\ SuspendTurf(t, a)
  \/ action = "restore" /\ RestoreTurf(t, a)

(* The status each transition requires of the row.                          *)
Required(action) ==
  CASE action \in {"approve", "reject"} -> "PENDING_APPROVAL"
    [] action = "suspend"               -> "APPROVED"
    [] action = "restore"               -> "SUSPENDED"

(* The click reaches the server and is carried out.                         *)
ClickAccepted(a) ==
  LET page == desk[a] IN
  /\ page.turf # NoTurf
  /\ page.pc = "ready"
  /\ \E action \in Offered(page.status) : Decide(a, page.turf, action)
  /\ desk' = [desk EXCEPT ![a].pc = "answering", ![a].refused = FALSE]

(* The click is refused: the turf is gone or has another status, or the     *)
(* administrator's account is gone.  The page shows a message over the turf *)
(* it already had.                                                          *)
ClickRefused(a) ==
  LET page == desk[a] IN
  /\ page.turf # NoTurf
  /\ page.pc = "ready"
  /\ \E action \in Offered(page.status) :
       turfs[page.turf].status # Required(action) \/ a \notin admins
  /\ desk' = [desk EXCEPT ![a].refused = TRUE]
  /\ UNCHANGED vars

(* The answer to an accepted click: the turf as TurfByID reads it now.      *)
Answer(a) ==
  /\ desk[a].pc = "answering"
  /\ turfs[desk[a].turf].status \in Statuses
  /\ desk' = [desk EXCEPT ![a] = Snapshot(desk[a].turf)]
  /\ UNCHANGED vars

(* No usable answer: the turf was deleted since, or the request failed.     *)
AnswerLost(a) ==
  /\ desk[a].pc = "answering"
  /\ desk' = [desk EXCEPT ![a].pc = "ready"]
  /\ UNCHANGED vars

DeskStep(a) ==
  \/ \E t \in Turfs : Open(a, t)
  \/ Close(a)
  \/ ClickAccepted(a)
  \/ ClickRefused(a)
  \/ Answer(a)
  \/ AnswerLost(a)

(* Owners, and administrators in another window, act without the pages.     *)
DeskNext ==
  \/ Next /\ UNCHANGED desk
  \/ \E a \in Admins : DeskStep(a)

DeskSpec == DeskInit /\ [][DeskNext]_deskVars

-----------------------------------------------------------------------------
(* Properties.                                                             *)

(* The page and the server agree on the status machine: a decision offered  *)
(* by a page that shows the turf's present status is carried out, so the    *)
(* click of an administrator is refused only on a page that something else  *)
(* has overtaken.                                                           *)
FreshClickAccepted ==
  \A a \in admins :
    LET page == desk[a] IN
    page.turf # NoTurf /\ page.status = turfs[page.turf].status =>
      \A action \in Offered(page.status) : ENABLED Decide(a, page.turf, action)
=============================================================================
