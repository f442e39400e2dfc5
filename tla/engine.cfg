\* Bills with up to three readings of a field; a dialogue of three turns; three
\* corrections, three seconds and two faults; two fields that share one slot, with two
\* attempts for each of the two models.
SPECIFICATION MCSpec
CONSTANTS
    Files <- MCFiles
    Scale = 100
    Replies <- MCReplies
    MaxTurns = 3
    MaxMessages = 3
    MaxSeconds = 2
    MaxFaults = 2
    Fields = {f1, f2}
    Slots = 1
    MaxAttempts = 2
INVARIANTS PipelineIsSound DialogueIsSound FeedbackIsKept ValidationIsSound
PROPERTY ValidationEnds
\* The system may stop: a document, an answer or a request is done, and messages and
\* seconds are used up.
CHECK_DEADLOCK FALSE
