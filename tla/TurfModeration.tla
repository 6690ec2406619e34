--------------------------- MODULE TurfModeration ---------------------------
(***************************************************************************)
(* The life of a turf listing (backend/internal/owners): its owner         *)
(* creates, edits, submits and deletes it, administrators approve, reject, *)
(* suspend and restore it.  The account of an administrator can be deleted *)
(* from the database; no endpoint does it.                                 *)
(*                                                                         *)
(* Each operation changes the table by one guarded statement, so each is   *)
(* one action; owners and administrators interleave freely between them.   *)
(***************************************************************************)
EXTENDS Naturals

CONSTANTS
  Turfs,           \* turf ids
  Admins,          \* the accounts that moderate
  Nobody,          \* moderated_by IS NULL
  MaxDetails,      \* bound: versions of a turf's details
  MaxAttachments,  \* bound: versions of a turf's attachments
  MaxReviews,      \* bound: times a turf enters the moderation queue
  Unlisted         \* what the public sees of a turf that is not APPROVED

ASSUME ModeratorsAssumption == Nobody \notin Admins
ASSUME BoundsAssumption     == /\ MaxDetails \in Nat \ {0} /\ MaxAttachments \in Nat
                               /\ MaxReviews \in Nat
ASSUME UnlistedAssumption   == Unlisted \notin [details : Nat, attached : Nat]

VARIABLES
  turfs,   \* the table
  admins,  \* the administrators whose row in users exists
  review   \* history: what happened to each turf in moderation

vars == <<turfs, admins, review>>

-----------------------------------------------------------------------------
Statuses == {"DRAFT", "PENDING_APPROVAL", "APPROVED", "REJECTED", "SUSPENDED"}

(* A row of turfs: "details" is a version number for the columns UpdateTurf *)
(* writes, "attached" one for the turf's rows of turf_sports,               *)
(* turf_amenities and turf_images, "reason" tells whether moderation_reason *)
(* is NULL.  An id that was deleted is never given out again.               *)
Row == [status       : Statuses \cup {"absent", "deleted"},
        details      : 0..MaxDetails,
        attached     : 0..MaxAttachments,
        reason       : {"NULL", "given"},
        moderated_by : Admins \cup {Nobody}]

NoRow == [status |-> "absent", details |-> 0, attached |-> 0, reason |-> "NULL",
          moderated_by |-> Nobody]

(* How often the turf entered the queue and was decided, the version of the *)
(* details the last ApproveTurf published, how often they were edited since *)
(* while the turf was SUSPENDED, and who made the last decision.            *)
Review == [entered : Nat, decided : Nat, approved : Nat, unseen : Nat,
           decider : Admins \cup {Nobody}]

NoReview == [entered |-> 0, decided |-> 0, approved |-> 0, unseen |-> 0, decider |-> Nobody]

Init ==
  /\ turfs = [t \in Turfs |-> NoRow]
  /\ admins = Admins
  /\ review = [t \in Turfs |-> NoReview]

-----------------------------------------------------------------------------
(* The owner's operations.                                                 *)

CreateTurf(t) ==
  /\ turfs[t].status = "absent"
  /\ turfs' = [turfs EXCEPT ![t] = [NoRow EXCEPT !.status = "DRAFT", !.details = 1]]
  /\ UNCHANGED <<admins, review>>

(* The bookkeeping of a turf that becomes PENDING_APPROVAL.                 *)
EnterQueue(t) == review' = [review EXCEPT ![t].entered = @ + 1]

(* Mutant: an APPROVED turf stays so when it is edited.                     *)
UpdateTurfInPlace(t) ==
  /\ turfs[t].status \in Statuses
  /\ turfs[t].details < MaxDetails
  /\ turfs' = [turfs EXCEPT ![t].details = @ + 1]
  /\ UNCHANGED <<admins, review>>

(* Editing an APPROVED turf drops it back to PENDING_APPROVAL, every other  *)
(* status is kept; the reason and the moderator are left as they are.       *)
UpdateTurf(t) ==
  LET approved == turfs[t].status = "APPROVED" IN
  /\ turfs[t].status \in Statuses
  /\ turfs[t].details < MaxDetails
  /\ approved => review[t].entered < MaxReviews
  /\ turfs' = [turfs EXCEPT ![t].details = @ + 1,
                            ![t].status = IF approved THEN "PENDING_APPROVAL" ELSE @]
  /\ IF approved
     THEN EnterQueue(t)
     ELSE review' = [review EXCEPT ![t].unseen =
                                      IF turfs[t].status = "SUSPENDED" THEN @ + 1 ELSE @]
  /\ UNCHANGED admins

(* A sport, an amenity or an image is attached or removed: the turf's own   *)
(* row, and with it the status, is not touched.                             *)
ChangeAttachments(t) ==
  /\ turfs[t].status \in Statuses
  /\ turfs[t].attached < MaxAttachments
  /\ turfs' = [turfs EXCEPT ![t].attached = @ + 1]
  /\ UNCHANGED <<admins, review>>

(* Mutant: a status the rest of the code does not know.                     *)
SubmitTurfMisspelt(t) ==
  /\ turfs[t].status \in {"DRAFT", "REJECTED"}
  /\ review[t].entered < MaxReviews
  /\ turfs' = [turfs EXCEPT ![t].status = "PENDING", ![t].reason = "NULL",
                            ![t].moderated_by = Nobody]
  /\ EnterQueue(t)
  /\ UNCHANGED admins

(* Mutant: the reason of the last rejection stays.                          *)
SubmitTurfKeepsReason(t) ==
  /\ turfs[t].status \in {"DRAFT", "REJECTED"}
  /\ review[t].entered < MaxReviews
  /\ turfs' = [turfs EXCEPT ![t].status = "PENDING_APPROVAL"]
  /\ EnterQueue(t)
  /\ UNCHANGED admins

(* DRAFT or REJECTED to PENDING_APPROVAL; the audit columns are cleared.    *)
SubmitTurf(t) ==
  /\ turfs[t].status \in {"DRAFT", "REJECTED"}
  /\ review[t].entered < MaxReviews
  /\ turfs' = [turfs EXCEPT ![t].status = "PENDING_APPROVAL", ![t].reason = "NULL",
                            ![t].moderated_by = Nobody]
  /\ EnterQueue(t)
  /\ UNCHANGED admins

DeleteTurf(t) ==
  /\ turfs[t].status \in Statuses
  /\ turfs' = [turfs EXCEPT ![t] = [NoRow EXCEPT !.status = "deleted"]]
  /\ UNCHANGED <<admins, review>>

-----------------------------------------------------------------------------
(* The administrators' operations.                                         *)

(* Mutant: the UPDATE does not name the status it expects.                  *)
transitionTurfUnguarded(t, from, to, reason, admin) ==
  /\ turfs[t].status \in Statuses
  /\ admin \in admins
  /\ turfs' = [turfs EXCEPT ![t].status = to, ![t].reason = reason,
                            ![t].moderated_by = admin]
  /\ UNCHANGED admins

(* One guarded UPDATE: nothing happens unless the row has status "from" and *)
(* the account the decision is recorded under exists.                       *)
transitionTurf(t, from, to, reason, admin) ==
  /\ turfs[t].status = from
  /\ admin \in admins
  /\ turfs' = [turfs EXCEPT ![t].status = to, ![t].reason = reason,
                            ![t].moderated_by = admin]
  /\ UNCHANGED admins

(* Mutant: a draft can be approved before it was ever submitted.            *)
ApproveTurfUnsubmitted(t, admin) ==
  /\ \E from \in {"DRAFT", "PENDING_APPROVAL"} :
       transitionTurf(t, from, "APPROVED", "NULL", admin)
  /\ review' = [review EXCEPT ![t].decided = @ + 1, ![t].approved = turfs[t].details,
                              ![t].unseen = 0, ![t].decider = admin]

ApproveTurf(t, admin) ==
  /\ transitionTurf(t, "PENDING_APPROVAL", "APPROVED", "NULL", admin)
  /\ review' = [review EXCEPT ![t].decided = @ + 1, ![t].approved = turfs[t].details,
                              ![t].unseen = 0, ![t].decider = admin]

RejectTurf(t, admin) ==
  /\ transitionTurf(t, "PENDING_APPROVAL", "REJECTED", "given", admin)
  /\ review' = [review EXCEPT ![t].decided = @ + 1, ![t].decider = admin]

SuspendTurf(t, admin) ==
  /\ transitionTurf(t, "APPROVED", "SUSPENDED", "given", admin)
  /\ review' = [review EXCEPT ![t].decider = admin]

RestoreTurf(t, admin) ==
  /\ transitionTurf(t, "SUSPENDED", "APPROVED", "NULL", admin)
  /\ review' = [review EXCEPT ![t].decider = admin]

(* The account of an administrator is deleted: moderated_by is ON DELETE    *)
(* SET NULL, and the turfs and the decisions stay as they are.              *)
DeleteAdmin(admin) ==
  /\ admin \in admins
  /\ admins' = admins \ {admin}
  /\ turfs' = [t \in Turfs |-> IF turfs[t].moderated_by = admin
                               THEN [turfs[t] EXCEPT !.moderated_by = Nobody]
                               ELSE turfs[t]]
  /\ UNCHANGED review

OwnerStep(t) ==
  \/ CreateTurf(t)
  \/ UpdateTurf(t)
  \/ ChangeAttachments(t)
  \/ SubmitTurf(t)
  \/ DeleteTurf(t)

AdminStep(t, admin) ==
  \/ ApproveTurf(t, admin)
  \/ RejectTurf(t, admin)
  \/ SuspendTurf(t, admin)
  \/ RestoreTurf(t, admin)

Next ==
  \/ \E t \in Turfs : OwnerStep(t) \/ \E admin \in Admins : AdminStep(t, admin)
  \/ \E admin \in Admins : DeleteAdmin(admin)

Spec == Init /\ [][Next]_vars

-----------------------------------------------------------------------------
(* Properties.                                                             *)

(* Every variable stays within its type.                                   *)
TypeOK ==
  /\ turfs \in [Turfs -> Row]
  /\ admins \subseteq Admins
  /\ review \in [Turfs -> Review]

(* The constraint turfs_moderation_reason_chk never refuses one of the      *)
(* statements above, and no decision is left without what it needs: the     *)
(* REJECTED and SUSPENDED turfs, and only those, carry a reason, and they   *)
(* and the APPROVED ones name the administrator who decided last, or no one *)
(* once that account is deleted, through every order of edits, submissions, *)
(* decisions and deletions.                                                 *)
DecisionRecorded ==
  \A t \in Turfs :
    /\ turfs[t].reason = "given" <=> turfs[t].status \in {"REJECTED", "SUSPENDED"}
    /\ turfs[t].status \in {"APPROVED", "REJECTED", "SUSPENDED"} =>
         turfs[t].moderated_by =
           IF review[t].decider \in admins THEN review[t].decider ELSE Nobody

(* Each time a turf enters the queue exactly one decision answers it: when  *)
(* two administrators act on one submission the second is refused, and an   *)
(* edit or a resubmission never loses or repeats an entry.                  *)
OneDecisionPerSubmission ==
  \A t \in Turfs :
    turfs[t].status # "deleted" =>
      review[t].entered =
        review[t].decided + (IF turfs[t].status = "PENDING_APPROVAL" THEN 1 ELSE 0)

(* An APPROVED turf shows the very details an administrator approved: an    *)
(* edit of a live listing goes back to review in the statement that makes   *)
(* it.  All it can be ahead of them by is the edits made while SUSPENDED.   *)
(* The details are the columns UpdateTurf writes; nothing of the kind holds *)
(* of the attachments.                                                      *)
PublicOnlyAfterReview ==
  \A t \in Turfs :
    turfs[t].status = "APPROVED" =>
      turfs[t].details = review[t].approved + review[t].unseen

-----------------------------------------------------------------------------
(* The promise TurfApproval states, in terms of this module's table.        *)
Stage(row) ==
  CASE row.status = "PENDING_APPROVAL" -> "queued"
    [] row.status = "APPROVED"         -> "public"
    [] row.status = "SUSPENDED"        -> "pulled"
    [] OTHER                           -> "private"

Versions == 1..MaxDetails

Attachments == 0..MaxAttachments

(* PublicTurfByID and assembleTurf: the columns of an APPROVED turf and     *)
(* what is attached to it.                                                  *)
Shown(row) ==
  IF row.status = "APPROVED"
  THEN [details |-> row.details, attached |-> row.attached]
  ELSE Unlisted

Approval == INSTANCE TurfApproval WITH
  stage <- [t \in Turfs |-> Stage(turfs[t])],
  shown <- [t \in Turfs |-> Shown(turfs[t])]

(* The public sees a turf only by the verdict of an administrator on one    *)
(* that is in the queue or was suspended, and its details stay as they were *)
(* published for as long as it is seen, while its attachments may change    *)
(* under its eyes: the guarded statements implement TurfApproval.           *)
ImplementsApproval == Approval!Spec

Lifecycle == INSTANCE TurfLifecycle WITH status <- [t \in Turfs |-> turfs[t].status]

(* Whatever pages, owners and administrators do at the same time, the       *)
(* status of a turf takes only the steps TurfLifecycle has.                 *)
KeepsLifecycle == Lifecycle!Spec
=============================================================================
