\* Two requests approve the same field at once.
SPECIFICATION Spec
CONSTANTS
    Fields = {f1}
    Attributable = {f1}
    Numbers = {n1}
    Text = Text
    Callbacks = {c1}
    Requests = {r1, r2}
    JobAttempts = 1
SYMMETRY Symmetry
INVARIANT NeverTwoEventsPerExtraction
\* The system may stop: when every row was deleted there is nothing left to review.
CHECK_DEADLOCK FALSE
