\* Two overlapping requests on one metric event.
SPECIFICATION Spec
CONSTANTS
    Events = {e1}
    Actors = {ann, bob}
    Values = {v1, v2}
    Requests = {r1, r2}
    NoActor = NoActor
PROPERTY ApprovedAndLockedAreImmutable
\* The system may stop: when every row there is room for is locked, nothing is left
\* to do.
CHECK_DEADLOCK FALSE
