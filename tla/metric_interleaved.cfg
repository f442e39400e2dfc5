\* Three requests at once on one metric event, three users.
SPECIFICATION Spec
CONSTANTS
    Events = {e1}
    Actors = {ann, bob, cem}
    Values = {v1, v2}
    Requests = {r1, r2, r3}
    NoActor = NoActor
SYMMETRY Symmetry
INVARIANTS TypeOK AssuranceIsBacked
PROPERTY SettledRowsStay
\* The system may stop: when every row there is room for is locked, nothing is left
\* to do.
CHECK_DEADLOCK FALSE
