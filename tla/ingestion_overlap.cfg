\* One document, two uploads of it at once, a run and one reprocess, two attempts
\* per callback, one crash of the API or of the AI engine.
SPECIFICATION Spec
CONSTANTS
    Docs = {d1}
    Uploads = {u1, u2}
    Runs = {x1, x2}
    MaxAttempts = 2
    MaxCrashes = 1
    None = None
SYMMETRY Symmetry
INVARIANTS TypeOK PendingIsBeingDispatched ClaimedResultIsStored ResultsAreOfLatestRun
PROPERTY ConcurrentUploadsDispatchOnce
\* The system may stop: when the runs are used up and over, nothing is left to do
\* but to delete the document.
CHECK_DEADLOCK FALSE
