\* One field under two overlapping requests; one callback and its job.
SPECIFICATION Spec
CONSTANTS
    Fields = {f1}
    Attributable = {f1}
    Numbers = {n1, n2}
    Text = Text
    Callbacks = {c1}
    Requests = {r1, r2}
    JobAttempts = 2
SYMMETRY Symmetry
INVARIANTS TypeOK EventsComeFromApproval ApprovedIsPromoted MismatchIsFlagged
\* The system may stop: when every row was deleted there is nothing left to review.
CHECK_DEADLOCK FALSE
