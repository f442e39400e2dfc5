\* One document, one run, nothing lost and nobody interfering.
SPECIFICATION Spec
CONSTANTS
    Docs = {d1}
    Uploads = {u1}
    Runs = {x1}
    MaxAttempts = 1
    MaxCrashes = 0
    None = None
INVARIANT NoClassifiedLimbo
\* The system may stop: when the run is used up and over, nothing is left to do
\* but to delete the document.
CHECK_DEADLOCK FALSE
