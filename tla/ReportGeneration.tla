--------------------------- MODULE ReportGeneration ---------------------------
(***************************************************************************)
(* One disclosure report, of a tenant, year and framework: BrsrService.    *)
(* generate creates the row and queues a job per format, the workers of    *)
(* BrsrReportProcessor render, store and record the files, the last of     *)
(* them sends the report to review, and ReportsService approves and files  *)
(* it.                                                                     *)
(*                                                                         *)
(* Each API replica runs one worker, so the jobs of a report can run at    *)
(* the same time, while the metric data they resolve changes; what a job   *)
(* or a request awaits between two calls is in its own record.  The unique *)
(* index on (tenant, fy, framework, version) leaves room for one report: a *)
(* second generate throws at report.create and changes nothing.            *)
(***************************************************************************)
EXTENDS Integers

CONSTANTS
    Actors,         \* users
    Requests,       \* approve and file requests served at the same time
    Requestable,    \* the formats that clients ask for
    Attempts,       \* attempts of a job (3 in the code)
    MaxData,        \* how often the resolved metric data changes (a bound)
    MaxFaults,      \* how often a call throws or a process stops (a bound)
    None            \* an empty column

\* dto.formats is any array of strings; whatever is not pdf or xlsx is rendered
\* as XBRL.
Formats == {"pdf", "xlsx", "xbrl", "other"}

ASSUME ReportAssumption == /\ Requestable \subseteq Formats
                           /\ Attempts \in Nat \ {0}
                           /\ MaxData \in Nat
                           /\ MaxFaults \in Nat
                           /\ None \notin Actors \cup Nat

VARIABLES
    report,     \* the report row, or NoReport
    adding,     \* the jobs generate has still to queue.add
    job,        \* job[j]: the BullMQ job j
    object,     \* object[c]: the data the stored file of column c was built from
    req,        \* req[r]: what the handler serving r holds, or Idle
    crossed,    \* whether an approval and a filing were ever under way at once (history)
    data,       \* which data the APPROVED and LOCKED metric events make up
    faults      \* how many calls threw or processes stopped

vars == <<report, adding, job, object, req, crossed, data, faults>>

\* The columns pdfS3, xlsxS3 and xbrlS3, each with the one object key of its file.
Columns == {"pdf", "xlsx", "xbrl"}

\* A job per format, and the second one that generate adds for xbrl.
Jobs == Formats \cup {"xbrl again"}

ColumnPerJob(j) == j
ColumnOf(j) == IF j \in {"pdf", "xlsx"} THEN j ELSE "xbrl"

Data == 0 .. MaxData

NoReport == [status |-> "ABSENT"]

\* narrativeOverrides: whose approvalNotes it holds, and who is its filedBy.
Notes == [approval : Actors \cup {None}, filing : Actors \cup {None}]

NoNotes == [approval |-> None, filing |-> None]

\* ReportStatus has GENERATING, GENERATED and PUBLISHED too, which no code writes.
Report == [status      : {"DRAFT", "IN_REVIEW", "APPROVED", "FILED"},
           requested   : SUBSET Formats,        \* reportData.requestedFormats
           files       : SUBSET Columns,        \* the columns that hold a key
           anchor      : Data \cup {None},      \* hashAnchor
           generatedBy : Actors,
           approvedBy  : Actors \cup {None},
           notes       : Notes]

\* resolved: the data is read; stored: the object is put; updated: the row is too.
Active == {"resolved", "stored", "updated"}

Job == [state   : {"none", "queued", "done", "dead"} \cup Active,
        left    : 0 .. Attempts,    \* attempts it has left
        stalled : BOOLEAN,          \* a worker stopped in the middle of it
        built   : Data \cup {None}, \* the data it resolved
        ready   : BOOLEAN]          \* what it decided on the updated row

Idle == [op |-> "idle"]

Request == [op    : {"approve", "file"},
            actor : Actors,
            notes : Notes]              \* of the row it read

TypeOK ==
    /\ report \in Report \cup {NoReport}
    /\ adding \in SUBSET Jobs
    /\ job \in [Jobs -> Job]
    /\ object \in [Columns -> Data \cup {None}]
    /\ req \in [Requests -> Request \cup {Idle}]
    /\ crossed \in BOOLEAN
    /\ data \in Data
    /\ faults \in 0 .. MaxFaults

Init ==
    /\ report = NoReport
    /\ adding = {}
    /\ job = [j \in Jobs |-> [state |-> "none", left |-> Attempts, stalled |-> FALSE,
                              built |-> None, ready |-> FALSE]]
    /\ object = [c \in Columns |-> None]
    /\ req = [r \in Requests |-> Idle]
    /\ crossed = FALSE
    /\ data = 0
    /\ faults = 0

\* A call throws or a process stops; the bound on their number.
Fault == faults < MaxFaults /\ faults' = faults + 1

-------------------------------------------------------------------------------
(* BrsrService.generate                                                      *)

\* The jobs that get into the queue: without an idempotency key one per format, and for
\* xbrl another.  A key names the job of a format, so that BullMQ drops the other for
\* xbrl, and every job whose name another report of the tenant had with the same key.
JobsFor(formats) ==
    {formats \cup (IF "xbrl" \in formats THEN {"xbrl again"} ELSE {})} \cup SUBSET formats

\* report.create
Generate(a, formats, jobs) ==
    /\ report = NoReport
    /\ report' = [status |-> "DRAFT", requested |-> formats, files |-> {}, anchor |-> None,
                  generatedBy |-> a, approvedBy |-> None, notes |-> NoNotes]
    /\ adding' = jobs
    /\ UNCHANGED <<job, object, req, crossed, data, faults>>

\* reportQueue.add
AddJob(j) ==
    /\ j \in adding
    /\ j = "xbrl again" => adding = {j}
    /\ adding' = adding \ {j}
    /\ job' = [job EXCEPT ![j].state = "queued"]
    /\ UNCHANGED <<report, object, req, crossed, data, faults>>

\* queue.add throws, or the API stops: the rest of the jobs is never added.
GenerateStops ==
    /\ adding # {}
    /\ adding' = {}
    /\ Fault
    /\ UNCHANGED <<report, job, object, req, crossed, data>>

-------------------------------------------------------------------------------
(* BrsrReportProcessor.process                                               *)

\* report.findFirst and brsr.resolve: the data as it is now.
JobStart(j) ==
    /\ job[j].state = "queued"
    /\ job' = [job EXCEPT ![j].state = "resolved", ![j].built = data]
    /\ UNCHANGED <<report, adding, object, req, crossed, data, faults>>

\* Build the file and s3.put it.  buildPdf never gets there: it calls switchToPage(0)
\* when that page is flushed already, as the document does not buffer its pages.
JobPut(j) ==
    /\ job[j].state = "resolved"
    /\ j # "pdf"
    /\ object' = [object EXCEPT ![ColumnOf(j)] = job[j].built]
    /\ job' = [job EXCEPT ![j].state = "stored"]
    /\ UNCHANGED <<report, adding, req, crossed, data, faults>>

\* requested.every(fmt => !!updated[`${fmt}S3`])
SomeDone(r) == \E f \in r.requested : f \in r.files
AllDone(r) == \A f \in r.requested : f \in r.files

\* The report is to go to review, going by the row the update returned.
ReadyByRead(before, after) == AllDone(before) /\ before.status = "DRAFT"
Ready(before, after) == AllDone(after) /\ after.status = "DRAFT"

\* The row after the job's report.update.
Recorded(j) == [report EXCEPT !.files = @ \cup {ColumnOf(j)}, !.anchor = job[j].built]

JobUpdateUnawaited(j) ==
    /\ job[j].state \in {"resolved", "stored"}
    /\ report' = Recorded(j)
    /\ job' = [job EXCEPT ![j].state = "updated", ![j].ready = Ready(report, Recorded(j))]
    /\ UNCHANGED <<adding, object, req, crossed, data, faults>>

JobUpdate(j) ==
    /\ job[j].state = "stored"
    /\ report' = Recorded(j)
    /\ job' = [job EXCEPT ![j].state = "updated", ![j].ready = Ready(report, Recorded(j))]
    /\ UNCHANGED <<adding, object, req, crossed, data, faults>>

\* The second report.update: to review, whatever the status has become.
JobFlip(j) ==
    /\ job[j].state = "updated"
    /\ job[j].ready
    /\ report' = [report EXCEPT !.status = "IN_REVIEW"]
    /\ job' = [job EXCEPT ![j].state = "done"]
    /\ UNCHANGED <<adding, object, req, crossed, data, faults>>

JobEnds(j) ==
    /\ job[j].state = "updated"
    /\ ~job[j].ready
    /\ job' = [job EXCEPT ![j].state = "done"]
    /\ UNCHANGED <<report, adding, object, req, crossed, data, faults>>

\* The job leaves a failed attempt: BullMQ queues it again while it has some left.
Failed(x) == [x EXCEPT !.state = IF x.left > 1 THEN "queued" ELSE "dead", !.left = x.left - 1]

JobThrows(j) ==
    /\ job[j].state \in Active
    /\ Fault
    /\ job' = [job EXCEPT ![j] = Failed(@)]
    /\ UNCHANGED <<report, adding, object, req, crossed, data>>

PdfThrows ==
    /\ job["pdf"].state = "resolved"
    /\ job' = [job EXCEPT !["pdf"] = Failed(@)]
    /\ UNCHANGED <<report, adding, object, req, crossed, data, faults>>

\* The worker's process stops.  BullMQ finds the job stalled and queues it again, at
\* the same attempt; the second time it fails the job (maxStalledCount is 1).
JobStalls(j) ==
    /\ job[j].state \in Active
    /\ Fault
    /\ job' = [job EXCEPT ![j].state = IF job[j].stalled THEN "dead" ELSE "queued",
                          ![j].stalled = TRUE]
    /\ UNCHANGED <<report, adding, object, req, crossed, data>>

-------------------------------------------------------------------------------
(* ReportsService                                                            *)

\* findOne: what approve and file hold of the row is its narrativeOverrides.
Begin(r, op, a) ==
    /\ req[r] = Idle
    /\ req' = [req EXCEPT ![r] = [op |-> op, actor |-> a, notes |-> report.notes]]
    /\ crossed' = (crossed \/ \E s \in Requests : req[s].op \notin {"idle", op})
    /\ UNCHANGED <<report, adding, job, object, data, faults>>

ApprovableByAnyone(rep, a) == rep.status \in {"DRAFT", "IN_REVIEW"}
ApprovableBy(rep, a) == rep.status \in {"DRAFT", "IN_REVIEW"} /\ rep.generatedBy # a

\* approve, its read and guard.  (An APPROVED report is returned as it is.)
BeginApprove(r, a) == ApprovableBy(report, a) /\ Begin(r, "approve", a)

\* approve, its update, by id.
WriteApprove(r) ==
    /\ req[r].op = "approve"
    /\ report' = [report EXCEPT !.status = "APPROVED", !.approvedBy = req[r].actor,
                                !.notes = [req[r].notes EXCEPT !.approval = req[r].actor]]
    /\ req' = [req EXCEPT ![r] = Idle]
    /\ UNCHANGED <<adding, job, object, crossed, data, faults>>

\* file, its read and guard.
BeginFile(r, a) == report.status = "APPROVED" /\ Begin(r, "file", a)

FilingNotesOnly(read, a) == [NoNotes EXCEPT !.filing = a]
FilingNotes(read, a) == [read EXCEPT !.filing = a]

\* file, its update, by id.
WriteFile(r) ==
    /\ req[r].op = "file"
    /\ report' = [report EXCEPT !.status = "FILED",
                                !.notes = FilingNotes(req[r].notes, req[r].actor)]
    /\ req' = [req EXCEPT ![r] = Idle]
    /\ UNCHANGED <<adding, job, object, crossed, data, faults>>

\* The update throws, or the API stops.
Abandon(r) ==
    /\ req[r] # Idle
    /\ req' = [req EXCEPT ![r] = Idle]
    /\ Fault
    /\ UNCHANGED <<report, adding, job, object, crossed, data>>

-------------------------------------------------------------------------------
\* Other components approve, calculate or lock metric events of the report's scope.
DataChanges ==
    /\ data < MaxData
    /\ data' = data + 1
    /\ UNCHANGED <<report, adding, job, object, req, crossed, faults>>

Generation == \/ \E a \in Actors, fs \in SUBSET Requestable : \E jobs \in JobsFor(fs) :
                     Generate(a, fs, jobs)
              \/ \E j \in Jobs : AddJob(j)
              \/ GenerateStops

Work(j) == \/ JobStart(j)
           \/ JobPut(j)
           \/ JobUpdate(j)
           \/ JobFlip(j)
           \/ JobEnds(j)
           \/ JobThrows(j)
           \/ JobStalls(j)

Review(r) == \/ \E a \in Actors : BeginApprove(r, a) \/ BeginFile(r, a)
             \/ WriteApprove(r)
             \/ WriteFile(r)
             \/ Abandon(r)

Next == \/ Generation
        \/ \E j \in Jobs : Work(j)
        \/ PdfThrows
        \/ \E r \in Requests : Review(r)
        \/ DataChanges

Spec == Init /\ [][Next]_vars

\* An await of generate ends, a worker takes a queued job, and an attempt ends.
Fairness ==
    /\ WF_vars(GenerateStops \/ \E j \in Jobs : AddJob(j))
    /\ WF_vars(PdfThrows)
    /\ \A j \in Jobs : WF_vars(Work(j))

FairSpec == Spec /\ Fairness

-------------------------------------------------------------------------------
(* Properties.                                                               *)

Exists == report # NoReport

Complete == report.requested \subseteq report.files

\* A file the report row names is in the object store: no interleaving of workers,
\* throws and retries lets the row get ahead of the upload.
FilesExist == Exists => \A c \in report.files : object[c] # None

\* A report gets to IN_REVIEW only with every requested format recorded, although the
\* job that sends it there saw the row two awaits earlier.
ReviewMeansComplete == Exists /\ report.status = "IN_REVIEW" => Complete

\* A report whose requested formats are all there is not forgotten in DRAFT: when
\* jobs finish side by side, one of them sees all files and sends it to review -- or
\* is still at it, or used up its attempts.
CompleteIsNotForgotten ==
    (/\ Exists
     /\ report.status = "DRAFT"
     /\ report.files # {}
     /\ Complete)
    => \E j \in Jobs : job[j].state \in Active \cup {"queued", "dead"}

\* Behind an approved or filed report is somebody other than its author, whatever
\* approvals, filings and workers' writes overlap.
AssuredByOther ==
    Exists /\ report.status \in {"APPROVED", "FILED"}
        => report.approvedBy \notin {None, report.generatedBy}

\* A filed report carries the note of an approval by another person than its author, and
\* who filed it, although every write of the notes is a whole object built from an earlier
\* read.  The note is that of the very person whom the row names as its approver, unless an
\* approval was under way together with a filing, which then writes the note of the
\* approval before it back.
FiledCarriesNotes ==
    Exists /\ report.status = "FILED" =>
        /\ report.notes.filing # None
        /\ report.notes.approval \notin {None, report.generatedBy}
        /\ report.notes.approval = report.approvedBy \/ crossed

\* The jobs of the report cannot make it complete: one died, was never added, or is
\* of a format that has no column; or there are none.
CannotComplete ==
    \/ report.requested = {} \/ ~(report.requested \subseteq Columns)
    \/ \E j \in Jobs : job[j].state = "dead"
    \/ adding = {} /\ \E f \in report.requested : job[f].state = "none"

\* A report leaves DRAFT in the end, unless its jobs cannot make it complete.
ReportLeavesDraft ==
    (Exists /\ report.status = "DRAFT") ~> (report.status # "DRAFT" \/ CannotComplete)

\* MODULES.md: "100% reports reproducible from snapshot hash".  When the jobs are over,
\* the hash in the row is of the data that each file was built from.
ReproducibleFromAnchor ==
    (Exists /\ adding = {} /\ \A j \in Jobs : job[j].state \in {"none", "done"})
        => \A c \in report.files : object[c] = report.anchor
===============================================================================
