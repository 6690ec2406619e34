SPECIFICATION DeskSpec
CONSTANTS
  Turfs = {t1}
  Admins = {a1, a2}
  MaxDetails = 4
  MaxAttachments = 1
  MaxReviews = 4
  Nobody = Nobody
  Unlisted = Unlisted
  NoTurf = NoTurf
SYMMETRY Symmetry
INVARIANTS
  TypeOK
  DecisionRecorded
  OneDecisionPerSubmission
  PublicOnlyAfterReview
  FreshClickAccepted
PROPERTIES
  ImplementsApproval
CHECK_DEADLOCK FALSE
