\* Two requests side by side with the jobs of up to two formats: of a pdf, which always
\* fails in the end, of a spreadsheet, and twice of XBRL; one fault, and data that may
\* change once.
SPECIFICATION MCSpec
CONSTANTS
    Actors = {ann, bob}
    Requests = {r1, r2}
    Requestable = {"pdf", "xlsx", "xbrl"}
    MaxFormats = 2
    Keyed = FALSE
    Attempts = 2
    MaxData = 1
    MaxFaults = 1
    None = None
SYMMETRY Symmetry
INVARIANTS TypeOK FilesExist ReviewMeansComplete CompleteIsNotForgotten AssuredByOther
           FiledCarriesNotes
\* The system may stop: when the report is filed and its jobs are over, nothing is
\* left to do.
CHECK_DEADLOCK FALSE
