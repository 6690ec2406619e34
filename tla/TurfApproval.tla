---------------------------- MODULE TurfApproval ----------------------------
(***************************************************************************)
(* What turf moderation promises, without its statuses, reasons and        *)
(* audit columns: the public sees a listing only by the verdict of a       *)
(* moderator, and never sees its details change under its eyes.  What is   *)
(* attached to a listing, its sports, amenities and images, is not subject *)
(* to review: of these the public sees every change at once.               *)
(***************************************************************************)
CONSTANTS
  Turfs,        \* the listings
  Versions,     \* the versions of a listing's details
  Attachments,  \* the versions of what is attached to it
  Unlisted      \* what the public sees of a listing that is not shown

VARIABLES
  stage,  \* where each listing stands with the moderators
  shown   \* the details and attachments the public sees, or Unlisted

approval == <<stage, shown>>

Stages == {"private", "queued", "public", "pulled"}

Init ==
  /\ stage = [t \in Turfs |-> "private"]
  /\ shown = [t \in Turfs |-> Unlisted]

-----------------------------------------------------------------------------
Move(t, from, to) ==
  /\ stage[t] \in from
  /\ stage' = [stage EXCEPT ![t] = to]

Hide(t) == shown' = [shown EXCEPT ![t] = Unlisted]

(* The owner asks for review, or edits a public listing.                    *)
Queue(t) == Move(t, {"private", "public"}, "queued") /\ Hide(t)

(* A moderator publishes the listing as it is at that moment.               *)
Publish(t) ==
  /\ Move(t, {"queued", "pulled"}, "public")
  /\ \E version \in Versions, attached \in Attachments :
       shown' = [shown EXCEPT ![t] = [details |-> version, attached |-> attached]]

(* The owner changes what is attached to a public listing.                  *)
Attach(t) ==
  /\ stage[t] = "public"
  /\ \E attached \in Attachments :
       shown' = [shown EXCEPT ![t] = [details |-> shown[t].details, attached |-> attached]]
  /\ UNCHANGED stage

(* A moderator sends a queued listing back to its owner.                    *)
Decline(t) == Move(t, {"queued"}, "private") /\ Hide(t)

(* A moderator takes a public listing down.                                 *)
Pull(t) == Move(t, {"public"}, "pulled") /\ Hide(t)

(* The owner deletes the listing.                                           *)
Withdraw(t) == Move(t, {"queued", "public", "pulled"}, "private") /\ Hide(t)

Next ==
  \E t \in Turfs :
    \/ Queue(t) \/ Publish(t) \/ Decline(t) \/ Pull(t) \/ Withdraw(t)
    \/ Attach(t)

Spec == Init /\ [][Next]_approval
=============================================================================
