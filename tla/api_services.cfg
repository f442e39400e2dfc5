\* Each part on a small instance of its own; two requests at once everywhere.  The calls
\* that write the log have the names of the requests, which they never meet, so that one
\* permutation swaps both.
SPECIFICATION MCSpec
CONSTANTS
    Tenants = {t1}
    Writers = {q1, q2}
    MaxRows = 3
    MaxNow = 3
    BatchSize = 2
    Users = {u1}
    Replicas = {b1, b2}
    Home = b1
    MaxTokens = 3
    MaxFailures = 2
    Surveys = {s1}
    Responses = {i1, i2}
    Assessments = {a1}
    Signers = {x1, x2}
    NoSurvey = NoSurvey
    NoSigner = NoSigner
    Invites = {l1, l2}
    MaxResponses = 3
    Events = {e1}
    Actors = {ann, bob}
    Values = {v1, v2}
    NoActor = NoActor
    Snapshots = {p1}
    Exceptions = {y1}
    Responders = {z1, z2}
    Requests = {q1, q2}
    Pages = {g1}
    TabTokens = 2
    Params = {"f1", "f2"}
    Watched <- MCWatched
    MaxVersion = 2
    NoData = NoData
    Codes <- MCCodes
    Labels <- MCLabels
    LabelsOf <- MCLabelsOf
    BeginsWith <- MCBeginsWith
    Seeded <- MCSeeded
    Imports <- MCImports
    NoCode = NoCode
    Ledgers <- MCLedgers
SYMMETRY Symmetry
INVARIANTS AuditIsSound SessionsAreSound BrowserSessionIsSound HierarchyIsSound
           EngagementsAreSound RollupsAgree
PROPERTY WhatIsOverStaysOver
\* The system may stop: when ids, tokens or rows are used up, a part has nothing left to
\* do.
CHECK_DEADLOCK FALSE
