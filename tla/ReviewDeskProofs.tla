-------------------------- MODULE ReviewDeskProofs --------------------------
(***************************************************************************)
(* What the moderation of turfs guarantees for any number of turfs and     *)
(* administrators and any bounds, and that it implements TurfApproval.     *)
(* The first part is about the statements of TurfModeration alone, the     *)
(* second carries it over to the whole system of ReviewDesk: whatever the  *)
(* review pages show, and however late, a click is one of the statements   *)
(* or nothing.                                                             *)
(***************************************************************************)
EXTENDS ReviewDesk, TLAPS

(* A turf in the table has a version of its details.                        *)
Detailed == \A t \in Turfs : turfs[t].status \in Statuses => turfs[t].details \in Versions

(* PublicOnlyAfterReview is not inductive by itself: RestoreTurf publishes  *)
(* what SUSPENDED turfs contain, so the same must hold of these.            *)
PulledOnlyAfterReview ==
  \A t \in Turfs :
    turfs[t].status = "SUSPENDED" =>
      turfs[t].details = review[t].approved + review[t].unseen

ModerationInv ==
  /\ TypeOK
  /\ Detailed
  /\ DecisionRecorded
  /\ OneDecisionPerSubmission
  /\ PublicOnlyAfterReview
  /\ PulledOnlyAfterReview

-----------------------------------------------------------------------------
(* The initial state satisfies the inductive invariant.                     *)
LEMMA InitModerationInv == Init => ModerationInv
  BY BoundsAssumption
     DEF Init, ModerationInv, TypeOK, Detailed, DecisionRecorded, OneDecisionPerSubmission,
         PublicOnlyAfterReview, PulledOnlyAfterReview, NoRow, Row, NoReview, Review, Statuses

(* Every step keeps the type invariant.                                     *)
LEMMA NextTypeOK == TypeOK /\ [Next]_vars => TypeOK'
<1> SUFFICES ASSUME TypeOK, [Next]_vars PROVE TypeOK'
  OBVIOUS
<1> USE BoundsAssumption, ModeratorsAssumption
<1>1. ASSUME NEW t \in Turfs, NEW row \in Row, turfs' = [turfs EXCEPT ![t] = row],
             NEW history \in Review, review' = [review EXCEPT ![t] = history],
             admins' = admins
      PROVE  TypeOK'
  BY <1>1 DEF TypeOK
<1>2. ASSUME NEW t \in Turfs
      PROVE  /\ turfs[t] \in Row
             /\ review[t] \in Review
             /\ review' = review => review' = [review EXCEPT ![t] = review[t]]
  BY DEF TypeOK
<1>3. ASSUME NEW t \in Turfs, EnterQueue(t)
      PROVE  \E history \in Review : review' = [review EXCEPT ![t] = history]
  <2>1. [review[t] EXCEPT !.entered = @ + 1] \in Review
    <3>1. review[t].entered + 1 \in Nat
      BY <1>2 DEF Review
    <3> QED BY <1>2, <3>1 DEF TypeOK, Review
  <2>2. review' = [review EXCEPT ![t] = [review[t] EXCEPT !.entered = @ + 1]]
    BY <1>3 DEF EnterQueue
  <2> QED BY <2>1, <2>2
<1>4. ASSUME NEW t \in Turfs, OwnerStep(t) PROVE TypeOK'
  <2>0. admins' = admins
    BY <1>4 DEF OwnerStep, CreateTurf, UpdateTurf, ChangeAttachments, SubmitTurf, DeleteTurf
  <2> USE <2>0
  <2>1. CASE CreateTurf(t)
    <3>1. [NoRow EXCEPT !.status = "DRAFT", !.details = 1] \in Row
      <4>1. 1 \in 0..MaxDetails /\ 0 \in 0..MaxAttachments
        OBVIOUS
      <4> QED BY <4>1 DEF NoRow, Row, Statuses
    <3> QED BY <1>1, <1>2, <2>1, <3>1 DEF CreateTurf
  <2>2. CASE UpdateTurf(t)
    <3>1. PICK row \in Row : turfs' = [turfs EXCEPT ![t] = row]
      <4>1. [turfs[t] EXCEPT !.details = @ + 1,
               !.status = IF turfs[t].status = "APPROVED" THEN "PENDING_APPROVAL" ELSE @] \in Row
        <5>1. turfs[t].details + 1 \in 0..MaxDetails
          BY <1>2, <2>2 DEF UpdateTurf, Row
        <5> QED BY <1>2, <5>1 DEF Row, Statuses
      <4> QED BY <2>2, <4>1, ZenonT(60) DEF UpdateTurf
    <3>2. CASE turfs[t].status = "APPROVED"
      BY <1>1, <1>3, <2>2, <3>1, <3>2 DEF UpdateTurf
    <3>3. CASE turfs[t].status # "APPROVED"
      <4>1. [review[t] EXCEPT !.unseen = IF turfs[t].status = "SUSPENDED" THEN @ + 1 ELSE @] \in Review
        BY <1>2 DEF Review
      <4>2. review' = [review EXCEPT ![t] =
                         [review[t] EXCEPT !.unseen = IF turfs[t].status = "SUSPENDED" THEN @ + 1 ELSE @]]
        BY <2>2, <3>3 DEF UpdateTurf
      <4> QED BY <1>1, <3>1, <4>1, <4>2
    <3> QED BY <3>2, <3>3
  <2>3. CASE SubmitTurf(t)
    <3>1. [turfs[t] EXCEPT !.status = "PENDING_APPROVAL", !.reason = "NULL",
                           !.moderated_by = Nobody] \in Row
      BY <1>2 DEF Row, Statuses
    <3>2. turfs' = [turfs EXCEPT ![t] = [turfs[t] EXCEPT !.status = "PENDING_APPROVAL",
                                           !.reason = "NULL", !.moderated_by = Nobody]]
      BY <2>3 DEF SubmitTurf
    <3> QED BY <1>1, <1>3, <2>3, <3>1, <3>2 DEF SubmitTurf
  <2>4. CASE DeleteTurf(t)
    <3>1. [NoRow EXCEPT !.status = "deleted"] \in Row
      BY DEF NoRow, Row
    <3> QED BY <1>1, <1>2, <2>4, <3>1 DEF DeleteTurf
  <2>5. CASE ChangeAttachments(t)
    <3>1. [turfs[t] EXCEPT !.attached = @ + 1] \in Row
      <4>1. turfs[t].attached + 1 \in 0..MaxAttachments
        BY <1>2, <2>5 DEF ChangeAttachments, Row
      <4> QED BY <1>2, <4>1 DEF Row
    <3>2. turfs' = [turfs EXCEPT ![t] = [turfs[t] EXCEPT !.attached = @ + 1]]
      BY <2>5 DEF ChangeAttachments
    <3> QED BY <1>1, <1>2, <2>5, <3>1, <3>2 DEF ChangeAttachments
  <2> QED BY <1>4, <2>1, <2>2, <2>3, <2>4, <2>5 DEF OwnerStep
<1>5. ASSUME NEW t \in Turfs, NEW a \in Admins, AdminStep(t, a) PROVE TypeOK'
  <2>1. ASSUME NEW from, NEW to \in Statuses, NEW reason \in {"NULL", "given"},
               transitionTurf(t, from, to, reason, a)
        PROVE  \E row \in Row : turfs' = [turfs EXCEPT ![t] = row]
    <3>1. [turfs[t] EXCEPT !.status = to, !.reason = reason, !.moderated_by = a] \in Row
      BY <1>2 DEF Row
    <3>2. turfs' = [turfs EXCEPT ![t] = [turfs[t] EXCEPT !.status = to, !.reason = reason,
                                                         !.moderated_by = a]]
      BY <2>1 DEF transitionTurf
    <3> QED BY <3>1, <3>2
  <2>2. \E row \in Row : turfs' = [turfs EXCEPT ![t] = row]
    BY <1>5, <2>1 DEF AdminStep, ApproveTurf, RejectTurf, SuspendTurf, RestoreTurf, Statuses
  <2>3. \E history \in Review : review' = [review EXCEPT ![t] = history]
    <3>1. /\ [review[t] EXCEPT !.decider = a] \in Review
          /\ [review[t] EXCEPT !.decided = @ + 1, !.decider = a] \in Review
          /\ [review[t] EXCEPT !.decided = @ + 1, !.approved = turfs[t].details,
                               !.unseen = 0, !.decider = a] \in Review
      <4>1. review[t].decided + 1 \in Nat /\ turfs[t].details \in Nat
        BY <1>2 DEF Review, Row
      <4> QED BY <1>2, <4>1 DEF Review
    <3>2. CASE ApproveTurf(t, a)
      <4>1. review' = [review EXCEPT ![t] = [review[t] EXCEPT
                         !.decided = @ + 1, !.approved = turfs[t].details,
                         !.unseen = 0, !.decider = a]]
        BY <3>2 DEF ApproveTurf
      <4> QED BY <3>1, <4>1
    <3>3. CASE RejectTurf(t, a)
      <4>1. review' = [review EXCEPT ![t] = [review[t] EXCEPT !.decided = @ + 1, !.decider = a]]
        BY <3>3 DEF RejectTurf
      <4> QED BY <3>1, <4>1
    <3>4. CASE SuspendTurf(t, a) \/ RestoreTurf(t, a)
      <4>1. review' = [review EXCEPT ![t] = [review[t] EXCEPT !.decider = a]]
        BY <3>4 DEF SuspendTurf, RestoreTurf
      <4> QED BY <3>1, <4>1
    <3> QED BY <1>5, <3>2, <3>3, <3>4 DEF AdminStep
  <2>4. admins' = admins
    BY <1>5 DEF AdminStep, ApproveTurf, RejectTurf, SuspendTurf, RestoreTurf, transitionTurf
  <2> QED BY <1>1, <2>2, <2>3, <2>4
<1>6. ASSUME NEW a \in Admins, DeleteAdmin(a) PROVE TypeOK'
  <2>1. turfs' \in [Turfs -> Row]
    BY <1>6, <1>2 DEF DeleteAdmin, Row
  <2> QED BY <1>6, <2>1 DEF DeleteAdmin, TypeOK
<1>7. CASE UNCHANGED vars
  BY <1>7 DEF vars, TypeOK
<1> QED BY <1>4, <1>5, <1>6, <1>7 DEF Next

(* Every step keeps the inductive invariant.                                *)
LEMMA NextModerationInv == ModerationInv /\ [Next]_vars => ModerationInv'
<1> SUFFICES ASSUME ModerationInv, [Next]_vars PROVE ModerationInv'
  OBVIOUS
<1> USE BoundsAssumption, ModeratorsAssumption
<1> DEFINE Kept == /\ Detailed' /\ DecisionRecorded' /\ OneDecisionPerSubmission'
                   /\ PublicOnlyAfterReview' /\ PulledOnlyAfterReview'
<1>0. TypeOK /\ TypeOK'
  BY NextTypeOK DEF ModerationInv
<1> USE <1>0 DEF ModerationInv, Detailed, DecisionRecorded, OneDecisionPerSubmission,
                 PublicOnlyAfterReview, PulledOnlyAfterReview, Versions
<1>1. ASSUME NEW t \in Turfs, CreateTurf(t) PROVE Kept
  BY <1>1 DEF CreateTurf, TypeOK, NoRow, Row, Statuses
<1>2. ASSUME NEW t \in Turfs, UpdateTurf(t) PROVE Kept
  <2>1. CASE turfs[t].status = "APPROVED"
    BY <1>2, <2>1 DEF UpdateTurf, EnterQueue, TypeOK, Row, Review, Statuses
  <2>2. CASE turfs[t].status # "APPROVED"
    <3>1. \A u \in Turfs \ {t} : turfs'[u] = turfs[u] /\ review'[u] = review[u]
      BY <1>2, <2>2 DEF UpdateTurf, TypeOK
    <3>2. /\ turfs'[t].status = turfs[t].status /\ turfs'[t].reason = turfs[t].reason
          /\ turfs'[t].moderated_by = turfs[t].moderated_by
          /\ turfs'[t].details = turfs[t].details + 1
          /\ turfs[t].details < MaxDetails
      BY <1>2, <2>2 DEF UpdateTurf, TypeOK, Row
    <3>3. /\ review'[t].entered = review[t].entered
          /\ review'[t].decided = review[t].decided
          /\ review'[t].approved = review[t].approved
          /\ review'[t].unseen = IF turfs[t].status = "SUSPENDED" THEN review[t].unseen + 1
                                                                  ELSE review[t].unseen
      BY <1>2, <2>2 DEF UpdateTurf, TypeOK, Review
    <3>8. review'[t].decider = review[t].decider /\ admins' = admins
      BY <1>2, <2>2 DEF UpdateTurf, TypeOK, Review
    <3>4. /\ turfs[t].details \in Nat /\ review[t].approved \in Nat
          /\ review[t].unseen \in Nat
      BY DEF TypeOK, Row, Review
    <3>5. Detailed' /\ DecisionRecorded'
      BY <3>1, <3>2, <3>4, <3>8
    <3>6. OneDecisionPerSubmission'
      BY <3>1, <3>2, <3>3
    <3>7. PublicOnlyAfterReview' /\ PulledOnlyAfterReview'
      BY <2>2, <3>1, <3>2, <3>3, <3>4
    <3> QED BY <3>5, <3>6, <3>7
  <2> QED BY <2>1, <2>2
<1>3. ASSUME NEW t \in Turfs, SubmitTurf(t) PROVE Kept
  BY <1>3 DEF SubmitTurf, EnterQueue, TypeOK, Row, Review, Statuses
<1>4. ASSUME NEW t \in Turfs, DeleteTurf(t) PROVE Kept
  BY <1>4 DEF DeleteTurf, TypeOK, NoRow, Row, Statuses
<1>5. ASSUME NEW t \in Turfs, NEW a \in Admins, ApproveTurf(t, a) PROVE Kept
  <2>1. \A u \in Turfs \ {t} : turfs'[u] = turfs[u] /\ review'[u] = review[u]
    BY <1>5 DEF ApproveTurf, transitionTurf, TypeOK
  <2>2. /\ turfs[t].status = "PENDING_APPROVAL"
        /\ turfs'[t].status = "APPROVED" /\ turfs'[t].reason = "NULL"
        /\ turfs'[t].moderated_by = a
        /\ turfs'[t].details = turfs[t].details
    BY <1>5 DEF ApproveTurf, transitionTurf, TypeOK, Row
  <2>3. /\ review'[t].entered = review[t].entered
        /\ review'[t].decided = review[t].decided + 1
        /\ review'[t].approved = turfs[t].details
        /\ review'[t].unseen = 0
        /\ review'[t].decider = a /\ a \in admins /\ admins' = admins
    BY <1>5 DEF ApproveTurf, transitionTurf, TypeOK, Review
  <2>4. /\ turfs[t].details \in Nat
        /\ review[t].entered \in Nat /\ review[t].decided \in Nat
    BY DEF TypeOK, Row, Review
  <2>5. Detailed' /\ DecisionRecorded'
    BY <2>1, <2>2, <2>3, <2>4 DEF Statuses
  <2>6. OneDecisionPerSubmission'
    BY <2>1, <2>2, <2>3, <2>4
  <2>7. PublicOnlyAfterReview' /\ PulledOnlyAfterReview'
    BY <2>1, <2>2, <2>3, <2>4
  <2> QED BY <2>5, <2>6, <2>7
<1>6. ASSUME NEW t \in Turfs, NEW a \in Admins, RejectTurf(t, a) PROVE Kept
  <2>1. \A u \in Turfs \ {t} : turfs'[u] = turfs[u] /\ review'[u] = review[u]
    BY <1>6 DEF RejectTurf, transitionTurf, TypeOK
  <2>2. /\ turfs[t].status = "PENDING_APPROVAL"
        /\ turfs'[t].status = "REJECTED" /\ turfs'[t].reason = "given"
        /\ turfs'[t].moderated_by = a
        /\ turfs'[t].details = turfs[t].details
    BY <1>6 DEF RejectTurf, transitionTurf, TypeOK, Row
  <2>3. /\ review'[t].entered = review[t].entered
        /\ review'[t].decided = review[t].decided + 1
        /\ review'[t].decider = a /\ a \in admins /\ admins' = admins
    BY <1>6 DEF RejectTurf, transitionTurf, TypeOK, Review
  <2>4. review[t].entered \in Nat /\ review[t].decided \in Nat
    BY DEF TypeOK, Review
  <2> QED BY <2>1, <2>2, <2>3, <2>4 DEF Statuses
<1>7. ASSUME NEW t \in Turfs, NEW a \in Admins, SuspendTurf(t, a) PROVE Kept
  BY <1>7 DEF SuspendTurf, transitionTurf, TypeOK, Row, Review, Statuses
<1>8. ASSUME NEW t \in Turfs, NEW a \in Admins, RestoreTurf(t, a) PROVE Kept
  BY <1>8 DEF RestoreTurf, transitionTurf, TypeOK, Row, Review, Statuses
<1>9. ASSUME NEW t \in Turfs, ChangeAttachments(t) PROVE Kept
  BY <1>9 DEF ChangeAttachments, TypeOK, Row
<1>10. ASSUME NEW a \in Admins, DeleteAdmin(a) PROVE Kept
  <2>1. \A t \in Turfs :
          /\ turfs'[t].status = turfs[t].status /\ turfs'[t].reason = turfs[t].reason
          /\ turfs'[t].details = turfs[t].details
          /\ turfs'[t].moderated_by =
               IF turfs[t].moderated_by = a THEN Nobody ELSE turfs[t].moderated_by
    BY <1>10 DEF DeleteAdmin, TypeOK, Row
  <2>2. review' = review /\ admins' = admins \ {a}
    BY <1>10 DEF DeleteAdmin
  <2>3. DecisionRecorded'
    BY <2>1, <2>2
  <2> QED BY <2>1, <2>2, <2>3
<1>11. CASE UNCHANGED vars
  BY <1>11 DEF vars
<1> QED
  BY <1>1, <1>2, <1>3, <1>4, <1>5, <1>6, <1>7, <1>8, <1>9, <1>10, <1>11
     DEF Next, OwnerStep, AdminStep

(* The inductive invariant holds throughout every behaviour.                *)
THEOREM ModerationInvariant == Spec => []ModerationInv
  BY InitModerationInv, NextModerationInv, PTL DEF Spec

(* The type invariant the runs check.                                       *)
THEOREM TypeCorrect == Spec => []TypeOK
<1>1. ModerationInv => TypeOK
  BY DEF ModerationInv
<1> QED BY <1>1, ModerationInvariant, PTL

(* The moderation columns always fit the status: no statement runs into the *)
(* CHECK constraint on the reason.                                          *)
THEOREM DecisionsRecorded == Spec => []DecisionRecorded
<1>1. ModerationInv => DecisionRecorded
  BY DEF ModerationInv
<1> QED BY <1>1, ModerationInvariant, PTL

(* Whatever administrators race for it, a submission is decided once.       *)
THEOREM DecidedOnce == Spec => []OneDecisionPerSubmission
<1>1. ModerationInv => OneDecisionPerSubmission
  BY DEF ModerationInv
<1> QED BY <1>1, ModerationInvariant, PTL

(* A live listing shows approved details, but for edits while suspended.    *)
THEOREM PublicAfterReview == Spec => []PublicOnlyAfterReview
<1>1. ModerationInv => PublicOnlyAfterReview
  BY DEF ModerationInv
<1> QED BY <1>1, ModerationInvariant, PTL

-----------------------------------------------------------------------------
(* A step on t changes the abstract state of t alone.                       *)
LEMMA OneTurfMoves ==
  ASSUME TypeOK, NEW t \in Turfs, NEW row \in Row, turfs' = [turfs EXCEPT ![t] = row]
  PROVE  /\ [u \in Turfs |-> Stage(turfs[u])]' =
              [[u \in Turfs |-> Stage(turfs[u])] EXCEPT ![t] = Stage(row)]
         /\ [u \in Turfs |-> Shown(turfs[u])]' =
              [[u \in Turfs |-> Shown(turfs[u])] EXCEPT ![t] = Shown(row)]
<1>1. \A u \in Turfs : turfs'[u] = IF u = t THEN row ELSE turfs[u]
  BY DEF TypeOK
<1>2. \A u \in Turfs : /\ Stage(turfs'[u]) = IF u = t THEN Stage(row) ELSE Stage(turfs[u])
                      /\ Shown(turfs'[u]) = IF u = t THEN Shown(row) ELSE Shown(turfs[u])
  BY <1>1
<1>3. /\ [u \in Turfs |-> Stage(turfs'[u])] =
            [[u \in Turfs |-> Stage(turfs[u])] EXCEPT ![t] = Stage(row)]
      /\ [u \in Turfs |-> Shown(turfs'[u])] =
            [[u \in Turfs |-> Shown(turfs[u])] EXCEPT ![t] = Shown(row)]
  BY <1>2
<1> QED BY <1>3

(* Every step of the table is a step of TurfApproval, or a stutter.         *)
LEMMA StepsRefine ==
  ASSUME ModerationInv, [Next]_vars
  PROVE  [Approval!Next]_Approval!approval
<1> DEFINE stage == [t \in Turfs |-> Stage(turfs[t])]
           shown == [t \in Turfs |-> Shown(turfs[t])]
<1> USE BoundsAssumption, ModeratorsAssumption
<1>0. TypeOK /\ Detailed
  BY DEF ModerationInv
<1>1. ASSUME NEW t \in Turfs, UNCHANGED turfs \/ (\E row \in Row :
               /\ turfs' = [turfs EXCEPT ![t] = row]
               /\ Stage(row) = Stage(turfs[t]) /\ Shown(row) = Shown(turfs[t]))
      PROVE  UNCHANGED Approval!approval
  <2>1. CASE UNCHANGED turfs
    BY <2>1 DEF Approval!approval
  <2>2. ASSUME NEW row \in Row, turfs' = [turfs EXCEPT ![t] = row],
               Stage(row) = Stage(turfs[t]), Shown(row) = Shown(turfs[t])
        PROVE  UNCHANGED Approval!approval
    <3>1. stage' = stage /\ shown' = shown
      BY <1>0, <2>2, OneTurfMoves
    <3> QED BY <3>1 DEF Approval!approval
  <2> QED BY <1>1, <2>1, <2>2
<1>2. ASSUME NEW t \in Turfs, NEW row \in Row, turfs' = [turfs EXCEPT ![t] = row],
             \/ /\ Stage(turfs[t]) \in {"private", "public"}
                /\ Stage(row) = "queued" /\ Shown(row) = Unlisted
             \/ /\ Stage(turfs[t]) \in {"queued", "pulled"}
                /\ Stage(row) = "public"
                /\ \E version \in Versions, attached \in Attachments :
                     Shown(row) = [details |-> version, attached |-> attached]
             \/ /\ Stage(turfs[t]) = "public" /\ Stage(row) = "public"
                /\ \E attached \in Attachments :
                     Shown(row) = [details |-> Shown(turfs[t]).details, attached |-> attached]
             \/ /\ Stage(turfs[t]) = "queued"
                /\ Stage(row) = "private" /\ Shown(row) = Unlisted
             \/ /\ Stage(turfs[t]) = "public"
                /\ Stage(row) = "pulled" /\ Shown(row) = Unlisted
             \/ /\ Stage(turfs[t]) \in {"queued", "public", "pulled"}
                /\ Stage(row) = "private" /\ Shown(row) = Unlisted
      PROVE  Approval!Next
  <2>1. /\ stage' = [stage EXCEPT ![t] = Stage(row)]
        /\ shown' = [shown EXCEPT ![t] = Shown(row)]
        /\ stage[t] = Stage(turfs[t]) /\ shown[t] = Shown(turfs[t])
    BY <1>0, <1>2, OneTurfMoves
  <2>3. Stage(row) = Stage(turfs[t]) => UNCHANGED stage
    BY <2>1
  <2> HIDE DEF stage, shown
  <2>2. CASE Stage(turfs[t]) = "public" /\ Stage(row) = "public"
    <3>1. PICK attached \in Attachments :
            Shown(row) = [details |-> Shown(turfs[t]).details, attached |-> attached]
      BY <1>2, <2>2
    <3>2. shown' = [shown EXCEPT ![t] = [details |-> shown[t].details, attached |-> attached]]
      BY <2>1, <3>1
    <3>3. stage[t] = "public" /\ UNCHANGED stage
      BY <2>1, <2>2, <2>3
    <3>4. Approval!Attach(t)
      BY <3>2, <3>3 DEF Approval!Attach, stage, shown
    <3> QED BY <3>4 DEF Approval!Next
  <2>4. CASE Stage(turfs[t]) # "public" /\ Stage(row) = "public"
    <3>1. stage[t] \in {"queued", "pulled"} /\ stage' = [stage EXCEPT ![t] = "public"]
      BY <1>2, <2>1, <2>4
    <3>2. PICK version \in Versions, attached \in Attachments :
            shown' = [shown EXCEPT ![t] = [details |-> version, attached |-> attached]]
      BY <1>2, <2>1, <2>4
    <3>3. Approval!Publish(t)
      BY <3>1, <3>2 DEF Approval!Publish, Approval!Move, stage, shown
    <3> QED BY <3>3 DEF Approval!Next
  <2>5. CASE Stage(row) # "public"
    <3>1. shown' = [shown EXCEPT ![t] = Unlisted]
      BY <1>2, <2>1, <2>5
    <3>2. \/ Approval!Queue(t) \/ Approval!Decline(t)
          \/ Approval!Pull(t) \/ Approval!Withdraw(t)
      BY <1>2, <2>1, <2>5, <3>1 DEF Approval!Queue, Approval!Decline,
         Approval!Pull, Approval!Withdraw, Approval!Move, Approval!Hide, stage, shown
    <3> QED BY <3>2 DEF Approval!Next
  <2> QED BY <2>2, <2>4, <2>5
<1>3. ASSUME NEW t \in Turfs, OwnerStep(t) PROVE [Approval!Next]_Approval!approval
  <2>1. CASE CreateTurf(t)
    <3> DEFINE row == [NoRow EXCEPT !.status = "DRAFT", !.details = 1]
    <3>1. row \in Row /\ Stage(row) = "private" /\ Shown(row) = Unlisted
      <4>1. 1 \in 0..MaxDetails /\ 0 \in 0..MaxAttachments
        OBVIOUS
      <4>2. row \in Row
        BY <4>1 DEF NoRow, Row, Statuses
      <4>3. row.status = "DRAFT"
        BY DEF NoRow
      <4> HIDE DEF row
      <4> QED BY <4>2, <4>3 DEF Stage, Shown
    <3>2. Stage(turfs[t]) = "private" /\ Shown(turfs[t]) = Unlisted
      BY <2>1 DEF CreateTurf, Stage, Shown
    <3> QED BY <1>1, <2>1, <3>1, <3>2 DEF CreateTurf
  <2>2. CASE UpdateTurf(t)
    <3> DEFINE row == [turfs[t] EXCEPT !.details = @ + 1,
                         !.status = IF turfs[t].status = "APPROVED" THEN "PENDING_APPROVAL" ELSE @]
    <3>1. row \in Row /\ turfs' = [turfs EXCEPT ![t] = row]
      <4>1. turfs[t] \in Row /\ turfs[t].details + 1 \in 0..MaxDetails
        BY <1>0, <2>2 DEF UpdateTurf, TypeOK, Row
      <4>2. row \in Row
        BY <4>1 DEF Row, Statuses
      <4> QED BY <2>2, <4>2 DEF UpdateTurf
    <3>2. CASE turfs[t].status = "APPROVED"
      <4>1. /\ Stage(turfs[t]) = "public"
            /\ Stage(row) = "queued" /\ Shown(row) = Unlisted
        BY <1>0, <3>2 DEF Stage, Shown, TypeOK, Row
      <4> QED BY <1>2, <3>1, <4>1
    <3>3. CASE turfs[t].status # "APPROVED"
      <4>1. Stage(row) = Stage(turfs[t]) /\ Shown(row) = Shown(turfs[t])
        BY <1>0, <3>3 DEF Stage, Shown, TypeOK, Row
      <4> QED BY <1>1, <3>1, <4>1
    <3> QED BY <3>2, <3>3
  <2>3. CASE SubmitTurf(t)
    <3> DEFINE row == [turfs[t] EXCEPT !.status = "PENDING_APPROVAL", !.reason = "NULL",
                                       !.moderated_by = Nobody]
    <3>1. row \in Row /\ turfs' = [turfs EXCEPT ![t] = row]
      BY <1>0, <2>3 DEF SubmitTurf, TypeOK, Row, Statuses
    <3>2. /\ Stage(turfs[t]) = "private"
          /\ Stage(row) = "queued" /\ Shown(row) = Unlisted
      BY <1>0, <2>3 DEF SubmitTurf, Stage, Shown, TypeOK, Row
    <3> QED BY <1>2, <3>1, <3>2
  <2>4. CASE DeleteTurf(t)
    <3> DEFINE row == [NoRow EXCEPT !.status = "deleted"]
    <3>1. row \in Row /\ Stage(row) = "private" /\ Shown(row) = Unlisted
      BY DEF NoRow, Row, Stage, Shown
    <3>2. CASE turfs[t].status \in {"DRAFT", "REJECTED"}
      <4>1. Stage(turfs[t]) = "private" /\ Shown(turfs[t]) = Unlisted
        BY <3>2 DEF Stage, Shown
      <4> QED BY <1>1, <2>4, <3>1, <4>1 DEF DeleteTurf
    <3>3. CASE turfs[t].status \in {"PENDING_APPROVAL", "APPROVED", "SUSPENDED"}
      <4>1. Stage(turfs[t]) \in {"queued", "public", "pulled"}
        BY <3>3 DEF Stage
      <4> QED BY <1>2, <2>4, <3>1, <4>1 DEF DeleteTurf
    <3> QED BY <2>4, <3>2, <3>3 DEF DeleteTurf, Statuses
  <2>5. CASE ChangeAttachments(t)
    <3> DEFINE row == [turfs[t] EXCEPT !.attached = @ + 1]
    <3>1. /\ row \in Row /\ row.attached \in Attachments
          /\ row.status = turfs[t].status /\ row.details = turfs[t].details
      BY <1>0, <2>5 DEF ChangeAttachments, TypeOK, Row, Attachments
    <3>2. turfs' = [turfs EXCEPT ![t] = row]
      BY <2>5 DEF ChangeAttachments
    <3> HIDE DEF row
    <3>3. Stage(row) = Stage(turfs[t])
      BY <3>1 DEF Stage
    <3>4. CASE turfs[t].status = "APPROVED"
      <4>1. /\ Stage(turfs[t]) = "public"
            /\ Shown(row) = [details |-> Shown(turfs[t]).details, attached |-> row.attached]
        BY <3>1, <3>4 DEF Stage, Shown
      <4> QED BY <1>2, <3>1, <3>2, <3>3, <4>1
    <3>5. CASE turfs[t].status # "APPROVED"
      <4>1. Shown(row) = Shown(turfs[t])
        BY <3>1, <3>5 DEF Shown
      <4> QED BY <1>1, <3>1, <3>2, <3>3, <4>1
    <3> QED BY <3>4, <3>5
  <2> QED BY <1>3, <2>1, <2>2, <2>3, <2>4, <2>5 DEF OwnerStep
<1>4. ASSUME NEW t \in Turfs, NEW a \in Admins, AdminStep(t, a) PROVE Approval!Next
  <2> DEFINE row(to, reason) == [turfs[t] EXCEPT !.status = to, !.reason = reason,
                                                 !.moderated_by = a]
  <2>1. ASSUME NEW from \in Statuses, NEW to \in Statuses, NEW reason \in {"NULL", "given"},
               transitionTurf(t, from, to, reason, a)
        PROVE  /\ row(to, reason) \in Row
               /\ turfs' = [turfs EXCEPT ![t] = row(to, reason)]
               /\ turfs[t].details \in Versions
               /\ row(to, reason).status = to
               /\ row(to, reason).details = turfs[t].details
               /\ row(to, reason).attached \in Attachments
    BY <1>0, <2>1 DEF transitionTurf, TypeOK, Row, Detailed, Attachments
  <2>2. CASE ApproveTurf(t, a)
    <3>1. transitionTurf(t, "PENDING_APPROVAL", "APPROVED", "NULL", a)
      BY <2>2 DEF ApproveTurf
    <3>2. /\ Stage(turfs[t]) = "queued"
          /\ Stage(row("APPROVED", "NULL")) = "public"
          /\ \E version \in Versions, attached \in Attachments :
               Shown(row("APPROVED", "NULL")) = [details |-> version, attached |-> attached]
      BY <3>1, <2>1 DEF transitionTurf, Stage, Shown, Statuses
    <3> QED BY <1>2, <2>1, <3>1, <3>2 DEF Statuses
  <2>3. CASE RejectTurf(t, a)
    <3>1. transitionTurf(t, "PENDING_APPROVAL", "REJECTED", "given", a)
      BY <2>3 DEF RejectTurf
    <3>2. /\ Stage(turfs[t]) = "queued"
          /\ Stage(row("REJECTED", "given")) = "private"
          /\ Shown(row("REJECTED", "given")) = Unlisted
      BY <3>1, <2>1 DEF transitionTurf, Stage, Shown, Statuses
    <3> QED BY <1>2, <2>1, <3>1, <3>2 DEF Statuses
  <2>4. CASE SuspendTurf(t, a)
    <3>1. transitionTurf(t, "APPROVED", "SUSPENDED", "given", a)
      BY <2>4 DEF SuspendTurf
    <3>2. /\ Stage(turfs[t]) = "public"
          /\ Stage(row("SUSPENDED", "given")) = "pulled"
          /\ Shown(row("SUSPENDED", "given")) = Unlisted
      BY <3>1, <2>1 DEF transitionTurf, Stage, Shown, Statuses
    <3> QED BY <1>2, <2>1, <3>1, <3>2 DEF Statuses
  <2>5. CASE RestoreTurf(t, a)
    <3>1. transitionTurf(t, "SUSPENDED", "APPROVED", "NULL", a)
      BY <2>5 DEF RestoreTurf
    <3>2. /\ Stage(turfs[t]) = "pulled"
          /\ Stage(row("APPROVED", "NULL")) = "public"
          /\ \E version \in Versions, attached \in Attachments :
               Shown(row("APPROVED", "NULL")) = [details |-> version, attached |-> attached]
      BY <3>1, <2>1 DEF transitionTurf, Stage, Shown, Statuses
    <3> QED BY <1>2, <2>1, <3>1, <3>2 DEF Statuses
  <2> QED BY <1>4, <2>2, <2>3, <2>4, <2>5 DEF AdminStep
<1>5. ASSUME NEW a \in Admins, DeleteAdmin(a) PROVE UNCHANGED Approval!approval
  <2>1. \A t \in Turfs : /\ turfs'[t].status = turfs[t].status
                         /\ turfs'[t].details = turfs[t].details
                         /\ turfs'[t].attached = turfs[t].attached
    BY <1>0, <1>5 DEF DeleteAdmin, TypeOK, Row
  <2>2. \A t \in Turfs : Stage(turfs'[t]) = Stage(turfs[t]) /\ Shown(turfs'[t]) = Shown(turfs[t])
    BY <2>1 DEF Stage, Shown
  <2> QED BY <2>2 DEF Approval!approval
<1>6. CASE UNCHANGED vars
  BY <1>6 DEF vars, Approval!approval
<1> QED BY <1>3, <1>4, <1>5, <1>6 DEF Next

(* The guarded statements implement TurfApproval: a turf becomes visible    *)
(* only by an administrator's step, from the queue or a suspension, and its *)
(* details never change while it is visible; its attachments may.           *)
THEOREM RefinesApproval == Spec => ImplementsApproval
<1>1. Init => Approval!Init
  BY DEF Init, Approval!Init, NoRow, Stage, Shown
<1>2. ModerationInv /\ [Next]_vars => [Approval!Next]_Approval!approval
  BY StepsRefine
<1> QED BY <1>1, <1>2, ModerationInvariant, PTL DEF Spec, ImplementsApproval, Approval!Spec

-----------------------------------------------------------------------------
(* The life of a turf.                                                      *)

(* A step that gives t a row changes the status of t alone.                 *)
LEMMA OneStatusMoves ==
  ASSUME TypeOK, NEW t \in Turfs, NEW row, turfs' = [turfs EXCEPT ![t] = row]
  PROVE  /\ [u \in Turfs |-> turfs[u].status]' =
              [[u \in Turfs |-> turfs[u].status] EXCEPT ![t] = row.status]
         /\ row.status = turfs[t].status => UNCHANGED [u \in Turfs |-> turfs[u].status]
<1>1. \A u \in Turfs : turfs'[u] = IF u = t THEN row ELSE turfs[u]
  BY DEF TypeOK
<1>2. \A u \in Turfs : turfs'[u].status = IF u = t THEN row.status ELSE turfs[u].status
  BY <1>1
<1>3. [u \in Turfs |-> turfs'[u].status] =
        [[u \in Turfs |-> turfs[u].status] EXCEPT ![t] = row.status]
  BY <1>2
<1>4. row.status = turfs[t].status =>
        [u \in Turfs |-> turfs'[u].status] = [u \in Turfs |-> turfs[u].status]
  BY <1>2
<1> QED BY <1>3, <1>4

LEMMA StepsLive ==
  ASSUME TypeOK, [Next]_vars
  PROVE  Lifecycle!Next \/ UNCHANGED [u \in Turfs |-> turfs[u].status]
<1> DEFINE status == [u \in Turfs |-> turfs[u].status]
<1>1. ASSUME NEW t \in Turfs, NEW row, turfs' = [turfs EXCEPT ![t] = row],
             \/ turfs[t].status = "absent" /\ row.status = "DRAFT"
             \/ turfs[t].status = "APPROVED" /\ row.status \in {"PENDING_APPROVAL", "SUSPENDED"}
             \/ turfs[t].status \in {"DRAFT", "REJECTED"} /\ row.status = "PENDING_APPROVAL"
             \/ turfs[t].status \in Statuses /\ row.status = "deleted"
             \/ turfs[t].status = "PENDING_APPROVAL" /\ row.status \in {"APPROVED", "REJECTED"}
             \/ turfs[t].status = "SUSPENDED" /\ row.status = "APPROVED"
      PROVE  Lifecycle!Next
  <2>1. status' = [status EXCEPT ![t] = row.status] /\ status[t] = turfs[t].status
    BY <1>1, OneStatusMoves
  <2> HIDE DEF status
  <2>2. \/ Lifecycle!Create(t) \/ Lifecycle!Edit(t) \/ Lifecycle!Submit(t)
        \/ Lifecycle!Delete(t) \/ Lifecycle!Approve(t) \/ Lifecycle!Reject(t)
        \/ Lifecycle!Suspend(t) \/ Lifecycle!Restore(t)
    BY <1>1, <2>1 DEF Lifecycle!Create, Lifecycle!Edit, Lifecycle!Submit, Lifecycle!Delete,
       Lifecycle!Approve, Lifecycle!Reject, Lifecycle!Suspend, Lifecycle!Restore,
       Lifecycle!Move, Lifecycle!Statuses, Statuses, status
  <2> QED BY <2>2 DEF Lifecycle!Next
<1>2. ASSUME NEW t \in Turfs, OwnerStep(t)
      PROVE  Lifecycle!Next \/ UNCHANGED status
  <2>1. CASE CreateTurf(t)
    <3> DEFINE row == [NoRow EXCEPT !.status = "DRAFT", !.details = 1]
    <3>1. row.status = "DRAFT"
      BY DEF NoRow
    <3> HIDE DEF row
    <3> QED BY <1>1, <2>1, <3>1 DEF CreateTurf, row
  <2>2. CASE UpdateTurf(t)
    <3> DEFINE row == [turfs[t] EXCEPT !.details = @ + 1,
                         !.status = IF turfs[t].status = "APPROVED" THEN "PENDING_APPROVAL" ELSE @]
    <3>1. turfs' = [turfs EXCEPT ![t] = row]
      BY <2>2 DEF UpdateTurf, TypeOK
    <3>2. row.status = IF turfs[t].status = "APPROVED" THEN "PENDING_APPROVAL" ELSE turfs[t].status
      BY DEF TypeOK, Row
    <3> HIDE DEF row, status
    <3>3. CASE turfs[t].status = "APPROVED"
      BY <1>1, <3>1, <3>2, <3>3
    <3>4. CASE turfs[t].status # "APPROVED"
      BY <3>1, <3>2, <3>4, OneStatusMoves DEF status
    <3> QED BY <3>3, <3>4
  <2>3. CASE SubmitTurf(t)
    <3> DEFINE row == [turfs[t] EXCEPT !.status = "PENDING_APPROVAL", !.reason = "NULL",
                                       !.moderated_by = Nobody]
    <3>1. turfs' = [turfs EXCEPT ![t] = row] /\ row.status = "PENDING_APPROVAL"
      BY <2>3 DEF SubmitTurf, TypeOK, Row
    <3> HIDE DEF row
    <3> QED BY <1>1, <2>3, <3>1 DEF SubmitTurf
  <2>4. CASE DeleteTurf(t)
    <3> DEFINE row == [NoRow EXCEPT !.status = "deleted"]
    <3>1. row.status = "deleted"
      BY DEF NoRow
    <3> HIDE DEF row
    <3> QED BY <1>1, <2>4, <3>1 DEF DeleteTurf, row
  <2>5. CASE ChangeAttachments(t)
    <3> DEFINE row == [turfs[t] EXCEPT !.attached = @ + 1]
    <3>1. turfs' = [turfs EXCEPT ![t] = row] /\ row.status = turfs[t].status
      BY <2>5 DEF ChangeAttachments, TypeOK, Row
    <3> HIDE DEF row
    <3> QED BY <3>1, OneStatusMoves
  <2> QED BY <1>2, <2>1, <2>2, <2>3, <2>4, <2>5 DEF OwnerStep
<1>3. ASSUME NEW t \in Turfs, NEW a \in Admins, AdminStep(t, a) PROVE Lifecycle!Next
  <2>1. ASSUME NEW from \in Statuses, NEW to \in Statuses, NEW reason,
               transitionTurf(t, from, to, reason, a),
               \/ from = "PENDING_APPROVAL" /\ to \in {"APPROVED", "REJECTED"}
               \/ from = "APPROVED" /\ to = "SUSPENDED"
               \/ from = "SUSPENDED" /\ to = "APPROVED"
        PROVE  Lifecycle!Next
    <3> DEFINE row == [turfs[t] EXCEPT !.status = to, !.reason = reason, !.moderated_by = a]
    <3>1. turfs' = [turfs EXCEPT ![t] = row] /\ row.status = to /\ turfs[t].status = from
      BY <2>1 DEF transitionTurf, TypeOK, Row
    <3> HIDE DEF row
    <3> QED BY <1>1, <2>1, <3>1
  <2> QED BY <1>3, <2>1 DEF AdminStep, ApproveTurf, RejectTurf, SuspendTurf, RestoreTurf, Statuses
<1>4. ASSUME NEW a \in Admins, DeleteAdmin(a) PROVE UNCHANGED status
  <2>1. \A t \in Turfs : turfs'[t].status = turfs[t].status
    BY <1>4 DEF DeleteAdmin, TypeOK, Row
  <2> QED BY <2>1
<1>5. CASE UNCHANGED vars
  BY <1>5 DEF vars
<1> QED BY <1>2, <1>3, <1>4, <1>5 DEF Next

LEMMA ServerLives == Spec => KeepsLifecycle
<1>1. Init => Lifecycle!Init
  BY DEF Init, NoRow, Lifecycle!Init, Lifecycle!Statuses
<1>2. TypeOK /\ [Next]_vars => [Lifecycle!Next]_([t \in Turfs |-> turfs[t].status])
  BY StepsLive
<1> QED BY <1>1, <1>2, TypeCorrect, PTL DEF Spec, KeepsLifecycle, Lifecycle!Spec

-----------------------------------------------------------------------------
(* The review pages.                                                       *)

(* A decision carried out for a page is a statement of the moderation       *)
(* service on the turf the page shows.                                      *)
LEMMA DecideIsAdminStep ==
  ASSUME NEW a \in Admins, NEW t \in Turfs, NEW action, Decide(a, t, action)
  PROVE  Next
  BY DEF Decide, Next, AdminStep

(* What a page holds: it shows one of the turfs or none, and waits only for *)
(* an answer about one.                                                     *)
Page == {page \in [turf    : Turfs \cup {NoTurf},
                   status  : Statuses \cup {"none"},
                   details : 0..MaxDetails,
                   pc      : {"ready", "answering"},
                   refused : {TRUE, FALSE}] :
           page.pc = "answering" => page.turf # NoTurf}

PagesShowTurfs == desk \in [Admins -> Page]

(* What the page shows after a turf arrived.                                *)
LEMMA SnapshotType ==
  ASSUME TypeOK, NEW t \in Turfs, turfs[t].status \in Statuses
  PROVE  Snapshot(t) \in Page
<1>1. turfs[t].details \in 0..MaxDetails
  BY DEF TypeOK, Row
<1> QED BY <1>1 DEF Page, Snapshot, Closed

(* A page that is closed, waits for an answer, or is done waiting.          *)
LEMMA PageTypes ==
  /\ Closed \in Page
  /\ \A page \in Page : [page EXCEPT !.pc = "ready"] \in Page
  /\ \A page \in Page : page.turf # NoTurf => [page EXCEPT !.pc = "answering"] \in Page
  /\ \A page \in Page, refused \in {TRUE, FALSE} : [page EXCEPT !.refused = refused] \in Page
<1>1. Closed \in Page
  BY BoundsAssumption DEF Closed, Page
<1>2. \A page \in Page :
        /\ [page EXCEPT !.pc = "ready"] \in Page
        /\ page.turf # NoTurf => [page EXCEPT !.pc = "answering"] \in Page
  BY DEF Page
<1>3. \A page \in Page, refused \in {TRUE, FALSE} : [page EXCEPT !.refused = refused] \in Page
  BY DEF Page
<1> QED BY <1>1, <1>2, <1>3

(* Whatever is done to a page leaves it on its turf, opens it on another    *)
(* one or closes it.                                                        *)
LEMMA PagesKeepTurfs == TypeOK /\ PagesShowTurfs /\ [DeskNext]_deskVars => PagesShowTurfs'
<1> SUFFICES ASSUME TypeOK, PagesShowTurfs, [DeskNext]_deskVars PROVE PagesShowTurfs'
  OBVIOUS
<1>1. CASE UNCHANGED desk
  BY <1>1 DEF PagesShowTurfs
<1>2. ASSUME NEW a \in Admins, DeskStep(a) PROVE PagesShowTurfs'
  <2>1. \E page \in Page : desk' = [desk EXCEPT ![a] = page]
    <3>1. CASE \E t \in Turfs : Open(a, t)
      BY <3>1, SnapshotType DEF Open
    <3>2. CASE Close(a)
      BY <3>2, PageTypes DEF Close
    <3>3. CASE ClickAccepted(a)
      <4> DEFINE sent == [desk[a] EXCEPT !.pc = "answering"]
      <4>1. sent \in Page
        BY <3>3, PageTypes DEF PagesShowTurfs, ClickAccepted
      <4>2. [sent EXCEPT !.refused = FALSE] \in Page
        BY <4>1, PageTypes
      <4>3. desk' = [desk EXCEPT ![a] = [sent EXCEPT !.refused = FALSE]]
        BY <3>3 DEF ClickAccepted, PagesShowTurfs
      <4> QED BY <4>2, <4>3
    <3>4. CASE ClickRefused(a)
      <4>1. [desk[a] EXCEPT !.refused = TRUE] \in Page
        BY PageTypes DEF PagesShowTurfs
      <4> QED BY <3>4, <4>1 DEF ClickRefused
    <3>5. CASE Answer(a)
      <4>1. desk[a].turf \in Turfs
        BY <3>5, DeskAssumption DEF Answer, PagesShowTurfs, Page
      <4> QED BY <3>5, <4>1, SnapshotType DEF Answer
    <3>6. CASE AnswerLost(a)
      <4>1. [desk[a] EXCEPT !.pc = "ready"] \in Page
        BY PageTypes DEF PagesShowTurfs
      <4> QED BY <3>6, <4>1 DEF AnswerLost
    <3> QED BY <1>2, <3>1, <3>2, <3>3, <3>4, <3>5, <3>6 DEF DeskStep
  <2> QED BY <2>1 DEF PagesShowTurfs
<1> QED BY <1>1, <1>2 DEF DeskNext, deskVars

(* Every step of the desk is a step of the moderation service or leaves the *)
(* table alone.                                                             *)
LEMMA DeskStepsAreStatements == PagesShowTurfs /\ [DeskNext]_deskVars => [Next]_vars
<1> SUFFICES ASSUME PagesShowTurfs, [DeskNext]_deskVars PROVE [Next]_vars
  OBVIOUS
<1>1. ASSUME NEW a \in Admins, DeskStep(a) PROVE [Next]_vars
  <2>1. CASE ClickAccepted(a)
    <3>1. PICK action \in Offered(desk[a].status) : Decide(a, desk[a].turf, action)
      BY <2>1 DEF ClickAccepted
    <3>2. desk[a].turf \in Turfs
      BY <2>1 DEF ClickAccepted, PagesShowTurfs, Page
    <3> QED BY <3>1, <3>2, DecideIsAdminStep
  <2>2. CASE UNCHANGED vars
    BY <2>2
  <2> QED BY <1>1, <2>1, <2>2 DEF DeskStep, Open, Close, ClickRefused, Answer, AnswerLost
<1> QED BY <1>1 DEF DeskNext, deskVars

(* The review pages add nothing to what can happen to a turf: the desk      *)
(* implements the moderation service.                                       *)
THEOREM DeskImplementsModeration == DeskSpec => Spec
<1>1. DeskInit => Init /\ TypeOK /\ PagesShowTurfs
  BY PageTypes, InitModerationInv DEF DeskInit, PagesShowTurfs, ModerationInv
<1>2. TypeOK /\ PagesShowTurfs /\ [DeskNext]_deskVars => TypeOK' /\ [Next]_vars
  BY DeskStepsAreStatements, NextTypeOK
<1> QED BY <1>1, <1>2, PagesKeepTurfs, PTL DEF DeskSpec, Spec

(* The same properties under the specification the run checks: the types,   *)
(* the audit columns, one decision for each submission, and what the public *)
(* sees, with any number of pages open.                                     *)
THEOREM DeskTypeCorrect == DeskSpec => []TypeOK
  BY DeskImplementsModeration, TypeCorrect, PTL

(* No page, however stale, makes a decision that is not recorded.           *)
THEOREM DeskDecisionsRecorded == DeskSpec => []DecisionRecorded
  BY DeskImplementsModeration, DecisionsRecorded, PTL

(* Two pages that show the same submission cannot both decide it.           *)
THEOREM DeskDecidedOnce == DeskSpec => []OneDecisionPerSubmission
  BY DeskImplementsModeration, DecidedOnce, PTL

(* A click on a page that shows an older version publishes the one that is  *)
(* stored, and only that.                                                   *)
THEOREM DeskPublicAfterReview == DeskSpec => []PublicOnlyAfterReview
  BY DeskImplementsModeration, PublicAfterReview, PTL

(* With its pages the system still implements TurfApproval.                 *)
THEOREM DeskRefinesApproval == DeskSpec => ImplementsApproval
  BY DeskImplementsModeration, RefinesApproval, PTL

(* And a turf lives the life TurfLifecycle describes, as it does under the  *)
(* requests of the owner's pages.                                           *)
THEOREM DeskKeepsLifecycle == DeskSpec => KeepsLifecycle
  BY DeskImplementsModeration, ServerLives, PTL

(* The buttons of a page are the decisions the status it shows allows: none *)
(* is offered that the server must refuse while the page is up to date.     *)
THEOREM OfferedIsAllowed ==
  ASSUME NEW status \in Statuses, NEW action \in Offered(status)
  PROVE  Required(action) = status
  BY DEF Statuses, Offered, Required
=============================================================================
