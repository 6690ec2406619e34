---------------------------- MODULE TurfLifecycle ---------------------------
(***************************************************************************)
(* The life of a turf as its status tells it, without details, audit       *)
(* columns, attachments, pages or requests: what the module of the server  *)
(* (TurfModeration) and the module of the owner's pages, which has a       *)
(* smaller server of its own (TurfEditor), have to agree on.               *)
(***************************************************************************)
CONSTANT Turfs   \* turf ids

VARIABLE status  \* turfs.status of each turf, or "absent" or "deleted"

Statuses == {"DRAFT", "PENDING_APPROVAL", "APPROVED", "REJECTED", "SUSPENDED"}

Init == status \in [Turfs -> Statuses \cup {"absent"}]

-----------------------------------------------------------------------------
Move(t, from, to) ==
  /\ status[t] \in from
  /\ status' = [status EXCEPT ![t] = to]

(* The owner.  An edit shows only when the turf is live.                    *)
Create(t) == Move(t, {"absent"}, "DRAFT")
Edit(t)   == Move(t, {"APPROVED"}, "PENDING_APPROVAL")
Submit(t) == Move(t, {"DRAFT", "REJECTED"}, "PENDING_APPROVAL")
Delete(t) == Move(t, Statuses, "deleted")

(* The administrators.                                                      *)
Approve(t) == Move(t, {"PENDING_APPROVAL"}, "APPROVED")
Reject(t)  == Move(t, {"PENDING_APPROVAL"}, "REJECTED")
Suspend(t) == Move(t, {"APPROVED"}, "SUSPENDED")
Restore(t) == Move(t, {"SUSPENDED"}, "APPROVED")

Next ==
  \E t \in Turfs :
    \/ Create(t) \/ Edit(t) \/ Submit(t) \/ Delete(t)
    \/ Approve(t) \/ Reject(t) \/ Suspend(t) \/ Restore(t)

Spec == Init /\ [][Next]_status
=============================================================================
