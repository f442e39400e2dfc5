\* Two metric events, and a field of a document that a callback and reviewers give one of
\* two values, with one request at a time; two runs on one document without a crash, with
\* one attempt per callback, as retries do not change what a callback writes; a report in
\* formats with a file, with one whose file is never built and with one without a column,
\* with two faults.  No symmetry, as liveness is checked.
SPECIFICATION MCSpec
CONSTANTS
    Events = {e1, e2}
    Actors = {ann, bob}
    Values = {v1, v2}
    NoActor = NoActor
    Requests = {r1}
    ReviewFields = {f1}
    Attributable = {f1}
    Numbers = {n1, n2}
    Text = Text
    Callbacks = {c1}
    JobAttempts = 1
    Docs = {d1}
    Uploads = {u1}
    Runs = {x1, x2}
    CallbackAttempts = 1
    None = None
    Requestable = {"pdf", "xlsx", "other"}
    ReportAttempts = 2
    MaxData = 0
    MaxFaults = 2
INVARIANT NeverTwoEventsPerExtraction
PROPERTIES ImplementsWorkflow IngestionSettles ReportLeavesDraft
\* The system may stop: when all rows are locked or deleted, and the runs and the jobs are
\* over, a part has nothing left to do.
CHECK_DEADLOCK FALSE
