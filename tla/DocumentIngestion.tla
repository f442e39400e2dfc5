--------------------------- MODULE DocumentIngestion ---------------------------
(***************************************************************************)
(* From an uploaded file to the extraction result stored for it:           *)
(* FilesService (upload, dispatchExtraction, reprocess, softDelete, the    *)
(* extraction callback) and the AI engine's POST /extract with its         *)
(* callback delivery.                                                      *)
(*                                                                         *)
(* dispatchExtraction is fire-and-forget: it awaits the POST to the AI     *)
(* engine and only then writes a status, by document id.  The engine       *)
(* answers 202 at once, extracts in a background task, and posts the       *)
(* result back, again if an attempt is not answered.  Nothing orders the   *)
(* callback and the dispatcher's own write, or the callbacks of two runs   *)
(* on one document.  The rows a callback stores are one batch here;        *)
(* ExtractionReview has the rows.                                          *)
(***************************************************************************)
EXTENDS Naturals

CONSTANTS
    Docs,           \* file contents: (tenant, sha256) is unique in `document`
    Uploads,        \* upload requests served at the same time
    Runs,           \* calls of dispatchExtraction (bounds their number)
    MaxAttempts,    \* BACKEND_CALLBACK_MAX_RETRIES of the AI engine
    MaxCrashes,     \* how often the API or the AI engine may stop (a bound)
    None            \* no document, no run

ASSUME IngestionAssumption == /\ MaxAttempts \in Nat \ {0}
                              /\ MaxCrashes \in Nat
                              /\ None \notin Docs \cup Runs

VARIABLES
    status,     \* status[d]: DocStatus of the row of d, "ABSENT" without one
    batches,    \* batches[d]: the callback attempts <<x, n>> whose extraction
                \* rows are stored for d
    upload,     \* upload[u]: the content u is about to insert, or None
    dispatch,   \* dispatch[x]: how far the API's dispatchExtraction got
    target,     \* target[x]: the document of run x, or None while x is unused
    job,        \* job[x]: the AI engine's background task for x
    result,     \* result[x]: what x extracted
    call,       \* call[x][n]: the n-th attempt to deliver the result of x
    crashes,    \* how often a process stopped
    latest,     \* latest[d]: the last run started on d (history)
    overlapped  \* documents reprocessed while an earlier run was not over (history)

apiVars == <<status, batches, upload, dispatch, target, latest, overlapped>>
aiVars == <<job, result, call>>
vars == <<apiVars, aiVars, crashes>>

\* DocStatus values the code writes (APPROVED is in the enum, never written).
DocStatus == {"PENDING", "CLASSIFIED", "EXTRACTED", "REVIEW_NEEDED", "REJECTED"}

\* posting: awaiting the answer of POST /extract; accepted: 202 received;
\* refused: in the catch block; done: status written; lost: the process stopped
\* (as it also does when the update in the catch block throws: nothing handles
\* the rejection of the promise nobody awaits).
DispatchState == {"unused", "posting", "accepted", "refused", "done", "lost"}

Attempts == 1 .. MaxAttempts

\* The outcome of a run, as handleExtractionCallback tells outcomes apart: the
\* engine failed; composite < 0.85 or needsReview; neither.
Outcome == {"FAILED", "REVIEW_NEEDED", "EXTRACTED"}

TypeOK ==
    /\ status \in [Docs -> DocStatus \cup {"ABSENT"}]
    /\ batches \in [Docs -> SUBSET (Runs \X Attempts)]
    /\ upload \in [Uploads -> Docs \cup {None}]
    /\ dispatch \in [Runs -> DispatchState]
    /\ target \in [Runs -> Docs \cup {None}]
    /\ job \in [Runs -> {"none", "extracting", "delivering", "closed"}]
    /\ result \in [Runs -> Outcome]
    /\ call \in [Runs -> [Attempts -> {"none", "sent", "committed", "lost"}]]
    /\ crashes \in 0 .. MaxCrashes
    /\ latest \in [Docs -> Runs \cup {None}]
    /\ overlapped \in SUBSET Docs

Init ==
    /\ status = [d \in Docs |-> "ABSENT"]
    /\ batches = [d \in Docs |-> {}]
    /\ upload = [u \in Uploads |-> None]
    /\ dispatch = [x \in Runs |-> "unused"]
    /\ target = [x \in Runs |-> None]
    /\ job = [x \in Runs |-> "none"]
    /\ result = [x \in Runs |-> "FAILED"]
    /\ call = [x \in Runs |-> [n \in Attempts |-> "none"]]
    /\ crashes = 0
    /\ latest = [d \in Docs |-> None]
    /\ overlapped = {}

\* The engine is not done with x: its task runs, or a callback may still commit.
Engaged(x) == \/ job[x] \in {"extracting", "delivering"}
              \/ \E n \in Attempts : call[x][n] = "sent"

\* The API is not done with dispatching x.
Dispatching(x) == dispatch[x] \in {"posting", "accepted", "refused"}

RunsOf(d) == {x \in Runs : target[x] = d}

\* No work on d is left anywhere.
Quiet(d) == \A x \in RunsOf(d) : ~Engaged(x) /\ ~Dispatching(x)

-------------------------------------------------------------------------------
(* FilesService                                                              *)

\* void this.dispatchExtraction(...): run x on d begins.
StartRun(x, d) ==
    /\ dispatch[x] = "unused"
    /\ dispatch' = [dispatch EXCEPT ![x] = "posting"]
    /\ target' = [target EXCEPT ![x] = d]
    /\ latest' = [latest EXCEPT ![d] = x]

\* upload, up to findUnique: nothing with this content yet.  (If there is, the
\* existing row is returned and nothing changes.)
UploadFind(u, d) ==
    /\ upload[u] = None
    /\ status[d] = "ABSENT"
    /\ upload' = [upload EXCEPT ![u] = d]
    /\ UNCHANGED <<status, batches, dispatch, target, latest, overlapped, aiVars, crashes>>

\* upload, document.create: the row is new, and is dispatched.
UploadCreate(u, x) ==
    LET d == upload[u] IN
    /\ d # None
    /\ status[d] = "ABSENT"
    /\ status' = [status EXCEPT ![d] = "PENDING"]
    /\ upload' = [upload EXCEPT ![u] = None]
    /\ StartRun(x, d)
    /\ UNCHANGED <<batches, overlapped, aiVars, crashes>>

\* upload, document.create: P2002, a concurrent upload inserted the same content;
\* its row is returned and not dispatched again.
UploadDuplicateDispatched(u) ==
    LET d == upload[u] IN
    /\ d # None
    /\ status[d] # "ABSENT"
    /\ upload' = [upload EXCEPT ![u] = None]
    /\ \E x \in Runs : StartRun(x, d)
    /\ UNCHANGED <<status, batches, overlapped, aiVars, crashes>>

UploadDuplicate(u) ==
    LET d == upload[u] IN
    /\ d # None
    /\ status[d] # "ABSENT"
    /\ upload' = [upload EXCEPT ![u] = None]
    /\ UNCHANGED <<status, batches, dispatch, target, latest, overlapped, aiVars, crashes>>

\* dispatchExtraction: the POST resolved with 202.
PostAccepted(x) ==
    /\ dispatch[x] = "posting"
    /\ job[x] # "none"
    /\ dispatch' = [dispatch EXCEPT ![x] = "accepted"]
    /\ UNCHANGED <<status, batches, upload, target, latest, overlapped, aiVars, crashes>>

\* dispatchExtraction: presigning, the POST (whether or not the engine got it) or
\* the update in the try block threw.
DispatchThrows(x) ==
    /\ dispatch[x] \in {"posting", "accepted"}
    /\ dispatch' = [dispatch EXCEPT ![x] = "refused"]
    /\ UNCHANGED <<status, batches, upload, target, latest, overlapped, aiVars, crashes>>

\* dispatchExtraction: the status written when the await is over, whatever
\* happened to the document meanwhile.
WriteDispatched(x, from, s) ==
    /\ dispatch[x] = from
    /\ dispatch' = [dispatch EXCEPT ![x] = "done"]
    /\ status' = [status EXCEPT ![target[x]] = s]
    /\ UNCHANGED <<batches, upload, target, latest, overlapped, aiVars, crashes>>

WriteClassified(x) == WriteDispatched(x, "accepted", "CLASSIFIED")

DispatchErrorOnlyLogged(x) ==
    /\ dispatch[x] = "refused"
    /\ dispatch' = [dispatch EXCEPT ![x] = "done"]
    /\ UNCHANGED <<status, batches, upload, target, latest, overlapped, aiVars, crashes>>

WriteRejected(x) == WriteDispatched(x, "refused", "REJECTED")

SoftDelete(d) ==
    /\ status[d] # "ABSENT"
    /\ status' = [status EXCEPT ![d] = "REJECTED"]
    /\ UNCHANGED <<batches, upload, dispatch, target, latest, overlapped, aiVars, crashes>>

\* reprocess: delete the extraction rows and reset the status in one
\* transaction, then dispatch again.
ClearedBatchesKept(d) == batches
ClearedBatches(d) == [batches EXCEPT ![d] = {}]

ResetStatusForgotten(d) == status
ResetStatus(d) == [status EXCEPT ![d] = "PENDING"]

Reprocess(d, x) ==
    /\ status[d] # "ABSENT"
    /\ batches' = ClearedBatches(d)
    /\ status' = ResetStatus(d)
    /\ StartRun(x, d)
    /\ overlapped' = IF Quiet(d) THEN overlapped \ {d} ELSE overlapped \cup {d}
    /\ UNCHANGED <<upload, aiVars, crashes>>

\* handleExtractionCallback: one transaction, whatever the document's status and
\* however often the same result arrives.
HandleCallback(x, n) ==
    LET d == target[x] IN
    /\ call[x][n] = "sent"
    /\ call' = [call EXCEPT ![x][n] = "committed"]
    /\ IF result[x] = "FAILED"
       THEN /\ status' = [status EXCEPT ![d] = "REJECTED"]
            /\ UNCHANGED batches
       ELSE /\ status' = [status EXCEPT ![d] = result[x]]
            /\ batches' = [batches EXCEPT ![d] = @ \cup {<<x, n>>}]
    /\ UNCHANGED <<upload, dispatch, target, latest, overlapped, job, result, crashes>>

-------------------------------------------------------------------------------
(* The AI engine                                                             *)

\* POST /extract with a callback_url: schedule the background task, answer 202.
AcceptExtraction(x) ==
    /\ dispatch[x] = "posting"
    /\ job[x] = "none"
    /\ job' = [job EXCEPT ![x] = "extracting"]
    /\ UNCHANGED <<apiVars, result, call, crashes>>

FinishExtractionUnmapped(x, o) ==
    /\ job[x] = "extracting"
    /\ job' = [job EXCEPT ![x] = "delivering"]
    /\ result' = [result EXCEPT ![x] = IF o = "FAILED" THEN "EXTRACTION_FAILED" ELSE o]
    /\ call' = [call EXCEPT ![x][1] = "sent"]
    /\ UNCHANGED <<apiVars, crashes>>

\* _run_and_callback: the extraction ended, well or not (an exception becomes a
\* FAILED response); deliver_callback posts its first attempt.
FinishExtraction(x, o) ==
    /\ job[x] = "extracting"
    /\ job' = [job EXCEPT ![x] = "delivering"]
    /\ result' = [result EXCEPT ![x] = o]
    /\ call' = [call EXCEPT ![x][1] = "sent"]
    /\ UNCHANGED <<apiVars, crashes>>

\* deliver_callback waits for the answer to its n-th attempt.
Awaits(x, n) == /\ job[x] = "delivering"
                /\ call[x][n] # "none"
                /\ n + 1 \in Attempts => call[x][n + 1] = "none"

\* The answer arrives: the callback is delivered.
ReplyArrives(x, n) ==
    /\ Awaits(x, n)
    /\ call[x][n] = "committed"
    /\ job' = [job EXCEPT ![x] = "closed"]
    /\ UNCHANGED <<apiVars, result, call, crashes>>

\* A transport error, a timeout or a 5xx: post it again.  The failed attempt may
\* have committed, or may still do so.
Retry(x, n) ==
    /\ Awaits(x, n)
    /\ n + 1 \in Attempts
    /\ call' = [call EXCEPT ![x][n + 1] = "sent"]
    /\ UNCHANGED <<apiVars, job, result, crashes>>

\* The last attempt failed: log it.
GiveUpNever(x) ==
    /\ Awaits(x, MaxAttempts)
    /\ UNCHANGED vars

GiveUp(x) ==
    /\ Awaits(x, MaxAttempts)
    /\ job' = [job EXCEPT ![x] = "closed"]
    /\ UNCHANGED <<apiVars, result, call, crashes>>

\* The API refuses the callback with a 4xx: no retry.
CallbackRefused(x, n) ==
    /\ Awaits(x, n)
    /\ call[x][n] = "sent"
    /\ call' = [call EXCEPT ![x][n] = "lost"]
    /\ job' = [job EXCEPT ![x] = "closed"]
    /\ UNCHANGED <<apiVars, result, crashes>>

\* A posted attempt never reaches the handler's commit.
AttemptLost(x, n) ==
    /\ call[x][n] = "sent"
    /\ call' = [call EXCEPT ![x][n] = "lost"]
    /\ UNCHANGED <<apiVars, job, result, crashes>>

-------------------------------------------------------------------------------
(* Processes stop: what they only held in memory is gone.                    *)

ApiStops ==
    /\ crashes < MaxCrashes
    /\ crashes' = crashes + 1
    /\ upload' = [u \in Uploads |-> None]
    /\ dispatch' = [x \in Runs |-> IF Dispatching(x) THEN "lost" ELSE dispatch[x]]
    /\ UNCHANGED <<status, batches, target, latest, overlapped, aiVars>>

AiEngineStops ==
    /\ crashes < MaxCrashes
    /\ crashes' = crashes + 1
    /\ job' = [x \in Runs |-> IF job[x] = "none" THEN "none" ELSE "closed"]
    /\ UNCHANGED <<apiVars, result, call>>

-------------------------------------------------------------------------------
Api(x) == \/ PostAccepted(x)
          \/ DispatchThrows(x)
          \/ WriteClassified(x)
          \/ WriteRejected(x)
          \/ \E n \in Attempts : HandleCallback(x, n)

AiEngine(x) == \/ AcceptExtraction(x)
               \/ \E o \in Outcome : FinishExtraction(x, o)
               \/ GiveUp(x)
               \/ \E n \in Attempts : \/ ReplyArrives(x, n)
                                     \/ Retry(x, n)
                                     \/ CallbackRefused(x, n)
                                     \/ AttemptLost(x, n)

Users == \/ \E u \in Uploads : \/ \E d \in Docs : UploadFind(u, d)
                               \/ \E x \in Runs : UploadCreate(u, x)
                               \/ UploadDuplicate(u)
         \/ \E d \in Docs : SoftDelete(d) \/ \E x \in Runs : Reprocess(d, x)

Next == \/ Users
        \/ \E x \in Runs : Api(x) \/ AiEngine(x)
        \/ ApiStops
        \/ AiEngineStops

Spec == Init /\ [][Next]_vars

\* The engine answers POST /extract without waiting for the extraction, an
\* extraction ends or throws, and each callback attempt has a timeout: an await
\* of the API or the engine settles.  Nothing makes a posted callback arrive.
Fairness == \A x \in Runs :
    /\ WF_vars(PostAccepted(x) \/ DispatchThrows(x))
    /\ WF_vars(WriteClassified(x) \/ WriteRejected(x))
    /\ WF_vars(\E o \in Outcome : FinishExtraction(x, o))
    /\ WF_vars(GiveUp(x) \/ \E n \in Attempts : ReplyArrives(x, n) \/ Retry(x, n))

FairSpec == Spec /\ Fairness

-------------------------------------------------------------------------------
(* Properties.                                                               *)

\* A document is PENDING only while the dispatch of its latest run has still to
\* write a status -- unless the process that held that dispatch stopped, which
\* leaves the document PENDING for good.
PendingIsBeingDispatched ==
    \A d \in Docs : status[d] = "PENDING" =>
        LET x == latest[d] IN x # None /\ (Dispatching(x) \/ dispatch[x] = "lost")

\* The status never claims a result whose rows are not there: however runs,
\* callbacks and reprocessing overlap, an EXTRACTED or REVIEW_NEEDED document
\* has a batch that was stored since the last reprocess.
ClaimedResultIsStored ==
    \A d \in Docs : status[d] \in {"EXTRACTED", "REVIEW_NEEDED"} => batches[d] # {}

\* Unless a document was reprocessed while an earlier run was not over, all
\* rows stored for it come from its latest run.
ResultsAreOfLatestRun ==
    \A d \in Docs : d \notin overlapped =>
        \A b \in batches[d] : b[1] = latest[d]

\* The same content uploaded by several users at once is dispatched once: an
\* upload that ends never starts a run on a document that already had one.
ConcurrentUploadsDispatchOnce ==
    [][\A u \in Uploads, d \in Docs :
         (upload[u] = d /\ upload'[u] = None /\ latest[d] # None)
            => latest'[d] = latest[d]]_vars

\* While no process stops, no document stays PENDING: every dispatch writes a
\* status in the end, also after a reprocess that overtook an earlier run.
DispatchSettles == \A d \in Docs : status[d] = "PENDING" ~> status[d] # "PENDING"

\* Every run the engine took on is closed in the end: its result delivered, or
\* its attempts used up -- a callback that always fails is not retried for ever.
RunsClose == \A x \in Runs : job[x] = "extracting" ~> job[x] = "closed"

\* extract.py: the callback is always attempted so as to "never leave the doc in
\* CLASSIFIED limbo".  When all work on a document is over and a callback of its
\* latest run was committed, its status is no longer CLASSIFIED.
NoClassifiedLimbo ==
    \A d \in Docs :
        (/\ Quiet(d)
         /\ \E x \in RunsOf(d), n \in Attempts :
               x = latest[d] /\ call[x][n] = "committed")
        => status[d] # "CLASSIFIED"
===============================================================================
