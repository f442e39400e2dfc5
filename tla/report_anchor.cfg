\* A spreadsheet and XBRL, with one job each, and the metric data changes between them.
SPECIFICATION MCSpec
CONSTANTS
    Actors = {ann}
    Requests = {}
    Requestable = {"xlsx", "xbrl"}
    MaxFormats = 3
    Keyed = TRUE
    Attempts = 1
    MaxData = 1
    MaxFaults = 0
    None = None
INVARIANT ReproducibleFromAnchor
\* The system may stop: when the report is filed and its jobs are over, nothing is
\* left to do.
CHECK_DEADLOCK FALSE
