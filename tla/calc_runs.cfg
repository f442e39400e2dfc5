\* Two runs, of all outputs or of one, with two attempts and a fault.
\* Around them, samples of the pure parts: see MCCalcRun.
SPECIFICATION MCSpec
CONSTANTS
    MaxRuns = 2
    Keys = {"a", "b", "c"}
    Factors = {"a"}
    Formulas <- MCFormulas
    Seeded <- MCSeeded
    Fragile <- MCFragile
    BuiltIn <- MCBuiltIn
    RequestKeys <- MCRequests
    IdempotencyKeys = {1, 2}
    Reported <- MCReported
    Attempts = 2
    MaxReported = 1
    MaxFaults = 1
    FirstYear = 2022
    LastYear = 2026
    MaxHeight = 16
    Lists <- MCLists
    Trees <- MCTrees
    LanguageTokens <- MCTokens
    TextLength = 5
INVARIANTS TypeOK StoredResultsAreSound RunsAreAccountedFor FormulasAreSound CatalogueIsSound
PROPERTY QueuedJobsEnd
\* The system may stop: when the runs are over, nothing is left to do.
CHECK_DEADLOCK FALSE
