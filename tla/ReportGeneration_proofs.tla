------------------------ MODULE ReportGeneration_proofs ------------------------
(* Proofs of the safety properties of ReportGeneration, for any users, numbers *)
(* of requests, attempts, faults and changes of the data.                      *)
EXTENDS ReportGeneration, TLAPS

LEMMA JobFacts == /\ Formats \subseteq Jobs /\ "pdf" \in Jobs
                  /\ \A j \in Jobs : ColumnOf(j) \in Columns
                  /\ Requestable \subseteq Formats
  BY ReportAssumption DEF Formats, Jobs, ColumnOf, Columns

\* Jobs and requests are about a report that exists, and a job is added once.
StartsWithReport ==
    /\ ~Exists => /\ adding = {}
                  /\ \A j \in Jobs : job[j].state = "none"
                  /\ \A r \in Requests : req[r] = Idle
    /\ \A j \in adding : job[j].state = "none"

\* A job that is not dead has an attempt left.
AttemptsLeft == \A j \in Jobs : job[j].state # "dead" => job[j].left > 0

\* A job that goes on to update the row has stored its file.
UploadsComeFirst ==
    \A j \in Jobs :
        /\ job[j].state \in Active => job[j].built \in Data
        /\ job[j].state \in {"stored", "updated"} => object[ColumnOf(j)] # None

\* A job that is to send the report to review knows it to be complete.
ReadyMeansComplete ==
    \A j \in Jobs : (job[j].state = "updated" /\ job[j].ready) => Exists /\ Complete

\* j will yet send the report to review, try again, or died.
Flips(j) == \/ job[j].state \in {"queued", "resolved", "stored", "dead"}
            \/ job[j].state = "updated" /\ job[j].ready

\* CompleteIsNotForgotten, of jobs that are ready or have still to update the row:
\* the property itself is not inductive, as an active job might just end.
SomeJobWillFlip ==
    (/\ Exists
     /\ report.status = "DRAFT"
     /\ report.files # {}
     /\ Complete)
    => \E j \in Jobs : Flips(j)

\* AssuredByOther, with the approvals and filings in flight.
ApprovalsByOthers ==
    Exists =>
      /\ report.approvedBy # report.generatedBy
      /\ report.status \in {"APPROVED", "FILED"} => report.approvedBy # None
      /\ \A r \in Requests :
           /\ req[r].op = "approve" => req[r].actor # report.generatedBy
           /\ req[r].op = "file" => report.approvedBy # None

\* FiledCarriesNotes, with the notes that requests in flight have read: who files has read
\* those of an approval by another than the author, of the approver of the row if no
\* approval was ever under way beside a filing.
NotesAccumulate ==
    Exists =>
      /\ report.notes.approval # report.generatedBy
      /\ report.status \in {"APPROVED", "FILED"} => report.notes.approval # None
      /\ report.status = "FILED" => report.notes.filing # None
      /\ ~crossed => report.notes.approval = report.approvedBy
      /\ \A r \in Requests : req[r].op = "file" =>
            /\ req[r].notes.approval \notin {None, report.generatedBy}
            /\ ~crossed => req[r].notes.approval = report.approvedBy
      /\ ~crossed => \A r, s \in Requests :
            req[r].op = "file" => req[s].op # "approve"

IInv == /\ TypeOK
        /\ StartsWithReport
        /\ AttemptsLeft
        /\ UploadsComeFirst
        /\ FilesExist
        /\ ReadyMeansComplete
        /\ ReviewMeansComplete
        /\ SomeJobWillFlip
        /\ ApprovalsByOthers
        /\ NotesAccumulate

-------------------------------------------------------------------------------
(* Every step preserves IInv, one conjunct at a time.                        *)

\* What a job or a request at work can rely on.
LEMMA AtWork ==
  ASSUME IInv
  PROVE  /\ \A j \in Jobs : job[j].state # "none" => report \in Report
         /\ \A j \in Jobs : job[j].state \in Active => job[j].built \in Data
         /\ \A r \in Requests : req[r] # Idle => report \in Report /\ req[r] \in Request
         /\ report.status # "ABSENT" => report \in Report
         /\ Idle.op = "idle"
  BY DEF IInv, TypeOK, StartsWithReport, UploadsComeFirst, Exists, Idle, NoReport

\* A write to the row leaves it a report, and a write to a job leaves it a job.
LEMMA ReportKeeps ==
  ASSUME report \in Report
  PROVE  /\ \A s \in {"IN_REVIEW", "FILED"} : [report EXCEPT !.status = s] \in Report
         /\ \A c \in Columns, x \in Data :
               [report EXCEPT !.files = @ \cup {c}, !.anchor = x] \in Report
         /\ \A a \in Actors, n \in Notes :
               [report EXCEPT !.status = "APPROVED", !.approvedBy = a, !.notes = n] \in Report
         /\ \A n \in Notes :
               [report EXCEPT !.status = "FILED", !.notes = n] \in Report
  BY DEF Report

LEMMA JobKeeps ==
  ASSUME job \in [Jobs -> Job], NEW j \in Jobs
  PROVE  /\ \A s \in {"queued", "stored", "done"} :
               [job EXCEPT ![j].state = s] \in [Jobs -> Job]
         /\ \A x \in Data :
               [job EXCEPT ![j].state = "resolved", ![j].built = x] \in [Jobs -> Job]
         /\ \A b \in BOOLEAN :
               [job EXCEPT ![j].state = "updated", ![j].ready = b] \in [Jobs -> Job]
         /\ \A s \in {"queued", "dead"} :
               [job EXCEPT ![j].state = s, ![j].stalled = TRUE] \in [Jobs -> Job]
         /\ \A x \in Job : [job EXCEPT ![j] = x] \in [Jobs -> Job]
  <1>1. \A s \in {"queued", "stored", "done"} :
           [job EXCEPT ![j].state = s] \in [Jobs -> Job]
    BY DEF Job, Active
  <1>2. \A x \in Data :
           [job EXCEPT ![j].state = "resolved", ![j].built = x] \in [Jobs -> Job]
    <2> SUFFICES ASSUME NEW x \in Data
                 PROVE  [job EXCEPT ![j].state = "resolved", ![j].built = x] \in [Jobs -> Job]
      OBVIOUS
    <2>1. [job[j] EXCEPT !.state = "resolved", !.built = x] \in Job
      BY DEF Job, Active
    <2> QED BY <2>1
  <1>3. \A b \in BOOLEAN :
           [job EXCEPT ![j].state = "updated", ![j].ready = b] \in [Jobs -> Job]
    <2> SUFFICES ASSUME NEW b \in BOOLEAN
                 PROVE  [job EXCEPT ![j].state = "updated", ![j].ready = b] \in [Jobs -> Job]
      OBVIOUS
    <2>1. [job[j] EXCEPT !.state = "updated", !.ready = b] \in Job
      BY DEF Job, Active
    <2> QED BY <2>1
  <1>4. \A s \in {"queued", "dead"} :
           [job EXCEPT ![j].state = s, ![j].stalled = TRUE] \in [Jobs -> Job]
    <2> SUFFICES ASSUME NEW s \in {"queued", "dead"}
                 PROVE  [job EXCEPT ![j].state = s, ![j].stalled = TRUE] \in [Jobs -> Job]
      OBVIOUS
    <2>1. [job[j] EXCEPT !.state = s, !.stalled = TRUE] \in Job
      BY DEF Job, Active
    <2> QED BY <2>1
  <1>5. \A x \in Job : [job EXCEPT ![j] = x] \in [Jobs -> Job]
    OBVIOUS
  <1> QED BY <1>1, <1>2, <1>3, <1>4, <1>5

LEMMA FailedIsJob ==
  ASSUME NEW x \in Job, x.left > 0
  PROVE  Failed(x) \in Job
  <1>1. x.left - 1 \in 0 .. Attempts
    BY ReportAssumption DEF Job
  <1> QED BY <1>1 DEF Failed, Job

\* Types.
LEMMA TypeOKStep ==
  ASSUME IInv, [Next]_vars
  PROVE  TypeOK'
  <1> USE AtWork, JobFacts
  <1>0. TypeOK /\ AttemptsLeft
    BY DEF IInv
  <1>1. report' \in Report \cup {NoReport}
    <2>1. ASSUME NEW a \in Actors, NEW fs \in SUBSET Requestable, NEW jobs \in JobsFor(fs),
                 Generate(a, fs, jobs)
          PROVE  report' \in Report
      BY <2>1 DEF Generate, Report, Notes, NoNotes
    <2>2. ASSUME NEW j \in Jobs, JobUpdate(j) PROVE report' \in Report
      BY <2>2, ReportKeeps DEF JobUpdate, Recorded, Active
    <2>3. ASSUME NEW j \in Jobs, JobFlip(j) PROVE report' \in Report
      BY <2>3, ReportKeeps DEF JobFlip
    <2>4. ASSUME NEW r \in Requests, WriteApprove(r) PROVE report' \in Report
      <3>1. report \in Report /\ req[r] \in Request
        BY <2>4 DEF WriteApprove
      <3>2. req[r].actor \in Actors /\ [req[r].notes EXCEPT !.approval = req[r].actor] \in Notes
        BY <3>1 DEF Request, Notes
      <3> QED BY <2>4, <3>1, <3>2, ReportKeeps DEF WriteApprove
    <2>5. ASSUME NEW r \in Requests, WriteFile(r) PROVE report' \in Report
      <3>1. report \in Report /\ req[r] \in Request
        BY <2>5 DEF WriteFile
      <3>2. [req[r].notes EXCEPT !.filing = req[r].actor] \in Notes
        BY <3>1 DEF Request, Notes
      <3> QED BY <2>5, <3>1, <3>2, ReportKeeps DEF WriteFile, FilingNotes
    <2>6. CASE UNCHANGED report
      BY <1>0, <2>6 DEF TypeOK
    <2> QED BY <2>1, <2>2, <2>3, <2>4, <2>5, <2>6 DEF Next, Generation, Work, Review, vars,
         AddJob, GenerateStops, JobStart, JobPut, JobEnds, JobThrows, PdfThrows, JobStalls,
         BeginApprove, BeginFile, Begin, Abandon, DataChanges
  <1>2. adding' \in SUBSET Jobs
    <2>1. ASSUME NEW a \in Actors, NEW fs \in SUBSET Requestable, NEW jobs \in JobsFor(fs),
                 Generate(a, fs, jobs)
          PROVE  adding' \in SUBSET Jobs
      BY <2>1 DEF Generate, Jobs, JobsFor
    <2>2. CASE adding' \subseteq adding
      BY <1>0, <2>2 DEF TypeOK
    <2> QED BY <2>1, <2>2 DEF Next, Generation, Work, Review, vars, AddJob, GenerateStops,
         JobStart, JobPut, JobUpdate, JobFlip, JobEnds, JobThrows, PdfThrows, JobStalls,
         BeginApprove, WriteApprove, BeginFile, WriteFile, Begin, Abandon, DataChanges
  <1>3. job' \in [Jobs -> Job]
    <2>0. job \in [Jobs -> Job]
      BY <1>0 DEF TypeOK
    <2>1. ASSUME NEW j \in Jobs, Work(j) PROVE job' \in [Jobs -> Job]
      <3>1. CASE JobStart(j)
        BY <1>0, <2>0, <3>1, JobKeeps DEF JobStart, TypeOK
      <3>2. CASE JobPut(j)
        BY <2>0, <3>2, JobKeeps DEF JobPut
      <3>3. CASE JobUpdate(j)
        <4>1. Ready(report, Recorded(j)) \in BOOLEAN
          BY DEF Ready, AllDone
        <4> QED BY <2>0, <3>3, <4>1, JobKeeps DEF JobUpdate
      <3>4. CASE JobFlip(j) \/ JobEnds(j)
        <4>1. job' = [job EXCEPT ![j].state = "done"]
          BY <3>4 DEF JobFlip, JobEnds
        <4> QED BY <2>0, <4>1, JobKeeps
      <3>5. CASE JobThrows(j)
        <4>1. Failed(job[j]) \in Job
          BY <1>0, <2>0, <3>5, FailedIsJob DEF JobThrows, AttemptsLeft, Active
        <4> QED BY <2>0, <3>5, <4>1, JobKeeps DEF JobThrows
      <3>6. CASE JobStalls(j)
        BY <2>0, <3>6, JobKeeps DEF JobStalls
      <3> QED BY <2>1, <3>1, <3>2, <3>3, <3>4, <3>5, <3>6 DEF Work
    <2>2. ASSUME NEW j \in Jobs, AddJob(j) PROVE job' \in [Jobs -> Job]
      BY <2>0, <2>2, JobKeeps DEF AddJob
    <2>3. CASE PdfThrows
      <3>1. Failed(job["pdf"]) \in Job
        BY <1>0, <2>0, <2>3, FailedIsJob DEF PdfThrows, AttemptsLeft
      <3> QED BY <2>0, <2>3, <3>1, JobKeeps DEF PdfThrows
    <2>4. CASE UNCHANGED job
      BY <2>0, <2>4
    <2> QED BY <2>1, <2>2, <2>3, <2>4 DEF Next, Generation, Review, vars, Generate,
         GenerateStops, BeginApprove, WriteApprove, BeginFile, WriteFile, Begin, Abandon,
         DataChanges
  <1>4. object' \in [Columns -> Data \cup {None}]
    <2>0. object \in [Columns -> Data \cup {None}]
      BY <1>0 DEF TypeOK
    <2>1. ASSUME NEW j \in Jobs, JobPut(j) PROVE object' \in [Columns -> Data \cup {None}]
      <3>1. job[j].built \in Data
        BY <2>1 DEF JobPut, Active
      <3> QED BY <2>0, <2>1, <3>1 DEF JobPut
    <2>2. CASE UNCHANGED object
      BY <2>0, <2>2
    <2> QED BY <2>1, <2>2 DEF Next, Generation, Work, Review, vars, Generate, AddJob,
         GenerateStops, JobStart, JobUpdate, JobFlip, JobEnds, JobThrows, PdfThrows,
         JobStalls, BeginApprove, WriteApprove, BeginFile, WriteFile, Begin, Abandon,
         DataChanges
  <1>5. req' \in [Requests -> Request \cup {Idle}]
    <2>0. req \in [Requests -> Request \cup {Idle}]
      BY <1>0 DEF TypeOK
    <2>1. ASSUME NEW r \in Requests, NEW a \in Actors, NEW op \in {"approve", "file"},
                 report.status # "ABSENT", Begin(r, op, a)
          PROVE  req' \in [Requests -> Request \cup {Idle}]
      <3>1. [op |-> op, actor |-> a, notes |-> report.notes] \in Request
        BY <2>1 DEF Report, Request
      <3> QED BY <2>0, <2>1, <3>1 DEF Begin
    <2>2. ASSUME NEW r \in Requests, req' = [req EXCEPT ![r] = Idle]
          PROVE  req' \in [Requests -> Request \cup {Idle}]
      BY <2>0, <2>2
    <2>3. CASE UNCHANGED req
      BY <2>0, <2>3
    <2> QED BY <2>1, <2>2, <2>3 DEF Next, Generation, Work, Review, vars, Generate, AddJob,
         GenerateStops, JobStart, JobPut, JobUpdate, JobFlip, JobEnds, JobThrows, PdfThrows,
         JobStalls, BeginApprove, ApprovableBy, WriteApprove, BeginFile, WriteFile, Abandon,
         DataChanges
  <1>6. data' \in Data /\ faults' \in 0 .. MaxFaults
    <2>1. faults' = faults \/ Fault
      BY DEF Next, Generation, Work, Review, vars, Generate, AddJob, GenerateStops, JobStart,
         JobPut, JobUpdate, JobFlip, JobEnds, JobThrows, PdfThrows, JobStalls, BeginApprove,
         WriteApprove, BeginFile, WriteFile, Begin, Abandon, DataChanges
    <2>2. data' = data \/ DataChanges
      BY DEF Next, Generation, Work, Review, vars, Generate, AddJob, GenerateStops, JobStart,
         JobPut, JobUpdate, JobFlip, JobEnds, JobThrows, PdfThrows, JobStalls, BeginApprove,
         WriteApprove, BeginFile, WriteFile, Begin, Abandon
    <2> QED BY <1>0, <2>1, <2>2, ReportAssumption DEF TypeOK, Data, DataChanges, Fault
  <1>7. crossed' \in BOOLEAN
    <2>1. crossed' = crossed \/ \E r \in Requests, op \in {"approve", "file"}, a \in Actors : Begin(r, op, a)
      BY DEF Next, Generation, Work, Review, vars, Generate, AddJob, GenerateStops, JobStart,
         JobPut, JobUpdate, JobFlip, JobEnds, JobThrows, PdfThrows, JobStalls, BeginApprove,
         WriteApprove, BeginFile, WriteFile, Abandon, DataChanges
    <2> QED BY <1>0, <2>1 DEF TypeOK, Begin
  <1> QED BY <1>1, <1>2, <1>3, <1>4, <1>5, <1>6, <1>7 DEF TypeOK

\* A job that fails its last attempt is dead.
LEMMA AttemptsLeftStep ==
  ASSUME IInv, [Next]_vars
  PROVE  AttemptsLeft'
  <1> USE ReportAssumption, JobFacts DEF IInv
  <1>0. CASE UNCHANGED <<job>>
    BY <1>0 DEF TypeOK, StartsWithReport, AttemptsLeft, Job, Active
  <1>1. ASSUME NEW j \in Jobs, AddJob(j) PROVE AttemptsLeft'
    BY <1>1 DEF TypeOK, StartsWithReport, AttemptsLeft, Job, Active, AddJob
  <1>2. ASSUME NEW j \in Jobs, JobStart(j) PROVE AttemptsLeft'
    BY <1>2 DEF TypeOK, StartsWithReport, AttemptsLeft, Job, Active, JobStart
  <1>3. ASSUME NEW j \in Jobs, JobPut(j) PROVE AttemptsLeft'
    BY <1>3 DEF TypeOK, StartsWithReport, AttemptsLeft, Job, Active, JobPut
  <1>4. ASSUME NEW j \in Jobs, JobUpdate(j) PROVE AttemptsLeft'
    BY <1>4 DEF TypeOK, StartsWithReport, AttemptsLeft, Job, Active, JobUpdate,
       Recorded, Ready
  <1>5. ASSUME NEW j \in Jobs, JobFlip(j) PROVE AttemptsLeft'
    BY <1>5 DEF TypeOK, StartsWithReport, AttemptsLeft, Job, Active, JobFlip
  <1>6. ASSUME NEW j \in Jobs, JobEnds(j) PROVE AttemptsLeft'
    BY <1>6 DEF TypeOK, StartsWithReport, AttemptsLeft, Job, Active, JobEnds
  <1>7. ASSUME NEW j \in Jobs, JobThrows(j) PROVE AttemptsLeft'
    BY <1>7 DEF TypeOK, StartsWithReport, AttemptsLeft, Job, Active, JobThrows,
       Failed, Fault
  <1>8. CASE PdfThrows
    BY <1>8 DEF TypeOK, StartsWithReport, AttemptsLeft, Job, Active, PdfThrows,
       Failed
  <1>9. ASSUME NEW j \in Jobs, JobStalls(j) PROVE AttemptsLeft'
    BY <1>9 DEF TypeOK, StartsWithReport, AttemptsLeft, Job, Active, JobStalls,
       Fault
  <1> QED BY <1>0, <1>1, <1>2, <1>3, <1>4, <1>5, <1>6, <1>7, <1>8, <1>9 DEF Next,
     Generation, Work, Review, vars, Generate, GenerateStops, Fault, BeginApprove,
     ApprovableBy, Begin, WriteApprove, BeginFile, WriteFile, FilingNotes, Abandon,
     DataChanges

\* Jobs and requests are about a report that exists; reports are never deleted.
LEMMA StartsWithReportStep ==
  ASSUME IInv, [Next]_vars
  PROVE  StartsWithReport'
  <1> USE ReportAssumption, JobFacts DEF IInv
  <1>0. CASE UNCHANGED <<report, adding, job, req>>
    BY <1>0 DEF TypeOK, StartsWithReport, Exists, Report, NoReport, Active, Job,
       Request, Idle
  <1>1. ASSUME NEW a \in Actors, NEW fs \in SUBSET Requestable, NEW jobs \in JobsFor(fs), Generate(a, fs, jobs)
        PROVE  StartsWithReport'
    <2>1. adding' \subseteq Jobs
      BY <1>1 DEF Generate, Jobs, JobsFor
    <2>2. report' # NoReport
      BY <1>1 DEF Generate, NoReport
    <2> QED BY <1>1, <2>1, <2>2 DEF StartsWithReport, Exists, Generate
  <1>2. ASSUME NEW j \in Jobs, AddJob(j) PROVE StartsWithReport'
    BY <1>2 DEF TypeOK, StartsWithReport, Exists, Report, NoReport, Active, Job,
       Request, Idle, AddJob
  <1>3. CASE GenerateStops
    BY <1>3 DEF TypeOK, StartsWithReport, Exists, Report, NoReport, Active, Job,
       Request, Idle, GenerateStops, Fault
  <1>4. ASSUME NEW j \in Jobs, JobStart(j) PROVE StartsWithReport'
    BY <1>4 DEF TypeOK, StartsWithReport, Exists, Report, NoReport, Active, Job,
       Request, Idle, JobStart
  <1>5. ASSUME NEW j \in Jobs, JobPut(j) PROVE StartsWithReport'
    BY <1>5 DEF TypeOK, StartsWithReport, Exists, Report, NoReport, Active, Job,
       Request, Idle, JobPut
  <1>6. ASSUME NEW j \in Jobs, JobUpdate(j) PROVE StartsWithReport'
    BY <1>6 DEF TypeOK, StartsWithReport, Exists, Report, NoReport, Active, Job,
       Request, Idle, JobUpdate, Recorded, Ready
  <1>7. ASSUME NEW j \in Jobs, JobFlip(j) PROVE StartsWithReport'
    BY <1>7 DEF TypeOK, StartsWithReport, Exists, Report, NoReport, Active, Job,
       Request, Idle, JobFlip
  <1>8. ASSUME NEW j \in Jobs, JobEnds(j) PROVE StartsWithReport'
    BY <1>8 DEF TypeOK, StartsWithReport, Exists, Report, NoReport, Active, Job,
       Request, Idle, JobEnds
  <1>9. ASSUME NEW j \in Jobs, JobThrows(j) PROVE StartsWithReport'
    BY <1>9 DEF TypeOK, StartsWithReport, Exists, Report, NoReport, Active, Job,
       Request, Idle, JobThrows, Failed, Fault
  <1>10. CASE PdfThrows
    BY <1>10 DEF TypeOK, StartsWithReport, Exists, Report, NoReport, Active, Job,
       Request, Idle, PdfThrows, Failed
  <1>11. ASSUME NEW j \in Jobs, JobStalls(j) PROVE StartsWithReport'
    BY <1>11 DEF TypeOK, StartsWithReport, Exists, Report, NoReport, Active, Job,
       Request, Idle, JobStalls, Fault
  <1>12. ASSUME NEW r \in Requests, NEW a \in Actors, BeginApprove(r, a)
         PROVE  StartsWithReport'
    BY <1>12 DEF TypeOK, StartsWithReport, Exists, Report, NoReport, Active, Job,
       Request, Idle, BeginApprove, ApprovableBy, Begin
  <1>13. ASSUME NEW r \in Requests, WriteApprove(r) PROVE StartsWithReport'
    <2>1. req[r] # Idle
      BY <1>13 DEF WriteApprove, Idle
    <2>2. report \in Report
      BY <2>1 DEF TypeOK, StartsWithReport, Exists
    <2>3. report'.status = "APPROVED"
      BY <1>13, <2>2 DEF WriteApprove, Report
    <2>4. report' # NoReport
      BY <2>3 DEF NoReport
    <2> QED BY <1>13, <2>4 DEF StartsWithReport, Exists, WriteApprove
  <1>14. ASSUME NEW r \in Requests, NEW a \in Actors, BeginFile(r, a)
         PROVE  StartsWithReport'
    BY <1>14 DEF TypeOK, StartsWithReport, Exists, Report, NoReport, Active, Job,
       Request, Idle, BeginFile, Begin
  <1>15. ASSUME NEW r \in Requests, WriteFile(r) PROVE StartsWithReport'
    <2>1. req[r] # Idle
      BY <1>15 DEF WriteFile, Idle
    <2>2. report \in Report
      BY <2>1 DEF TypeOK, StartsWithReport, Exists
    <2>3. report'.status = "FILED"
      BY <1>15, <2>2 DEF WriteFile, Report
    <2>4. report' # NoReport
      BY <2>3 DEF NoReport
    <2> QED BY <1>15, <2>4 DEF StartsWithReport, Exists, WriteFile
  <1>16. ASSUME NEW r \in Requests, Abandon(r) PROVE StartsWithReport'
    BY <1>16 DEF TypeOK, StartsWithReport, Exists, Report, NoReport, Active, Job,
       Request, Idle, Abandon, Fault
  <1> QED BY <1>0, <1>1, <1>2, <1>3, <1>4, <1>5, <1>6, <1>7, <1>8, <1>9, <1>10,
     <1>11, <1>12, <1>13, <1>14, <1>15, <1>16 DEF Next, Generation, Work, Review,
     vars, DataChanges

\* A job holds the data it resolved, and has stored a file of it before it updates
\* the row.
LEMMA UploadsComeFirstStep ==
  ASSUME IInv, [Next]_vars
  PROVE  UploadsComeFirst'
  <1> USE ReportAssumption, JobFacts DEF IInv
  <1>0. CASE UNCHANGED <<job, object>>
    BY <1>0 DEF TypeOK, UploadsComeFirst, Job, Data, Active, ColumnOf, Columns
  <1>1. ASSUME NEW j \in Jobs, AddJob(j) PROVE UploadsComeFirst'
    <2>1. job'[j].state = "queued" /\ object' = object
      BY <1>1 DEF TypeOK, Job, AddJob
    <2>2. ASSUME NEW k \in Jobs, k # j PROVE job'[k] = job[k]
      BY <1>1, <2>2 DEF TypeOK, AddJob
    <2> QED BY <2>1, <2>2 DEF UploadsComeFirst, Active
  <1>2. ASSUME NEW j \in Jobs, JobStart(j) PROVE UploadsComeFirst'
    BY <1>2 DEF TypeOK, UploadsComeFirst, Job, Data, Active, ColumnOf, Columns,
       JobStart
  <1>3. ASSUME NEW j \in Jobs, JobPut(j) PROVE UploadsComeFirst'
    BY <1>3 DEF TypeOK, UploadsComeFirst, Job, Data, Active, ColumnOf, Columns,
       JobPut
  <1>4. ASSUME NEW j \in Jobs, JobUpdate(j) PROVE UploadsComeFirst'
    BY <1>4 DEF TypeOK, UploadsComeFirst, Job, Data, Active, ColumnOf, Columns,
       JobUpdate, Recorded, Ready
  <1>5. ASSUME NEW j \in Jobs, JobFlip(j) PROVE UploadsComeFirst'
    BY <1>5 DEF TypeOK, UploadsComeFirst, Job, Data, Active, ColumnOf, Columns,
       JobFlip
  <1>6. ASSUME NEW j \in Jobs, JobEnds(j) PROVE UploadsComeFirst'
    BY <1>6 DEF TypeOK, UploadsComeFirst, Job, Data, Active, ColumnOf, Columns,
       JobEnds
  <1>7. ASSUME NEW j \in Jobs, JobThrows(j) PROVE UploadsComeFirst'
    BY <1>7 DEF TypeOK, UploadsComeFirst, Job, Data, Active, ColumnOf, Columns,
       JobThrows, Failed, Fault
  <1>8. CASE PdfThrows
    BY <1>8 DEF TypeOK, UploadsComeFirst, Job, Data, Active, ColumnOf, Columns,
       PdfThrows, Failed
  <1>9. ASSUME NEW j \in Jobs, JobStalls(j) PROVE UploadsComeFirst'
    BY <1>9 DEF TypeOK, UploadsComeFirst, Job, Data, Active, ColumnOf, Columns,
       JobStalls, Fault
  <1> QED BY <1>0, <1>1, <1>2, <1>3, <1>4, <1>5, <1>6, <1>7, <1>8, <1>9 DEF Next,
     Generation, Work, Review, vars, Generate, GenerateStops, Fault, BeginApprove,
     ApprovableBy, Begin, WriteApprove, BeginFile, WriteFile, FilingNotes, Abandon,
     DataChanges

\* A column is written by a job that stored its file, and files are never removed.
LEMMA FilesExistStep ==
  ASSUME IInv, [Next]_vars
  PROVE  FilesExist'
  <1> USE ReportAssumption, JobFacts DEF IInv
  <1>0. CASE UNCHANGED <<report, object>>
    BY <1>0 DEF TypeOK, StartsWithReport, UploadsComeFirst, FilesExist, Exists,
       Report, NoReport, Job, Request, Data, Active, ColumnOf, Columns, Idle
  <1>1. ASSUME NEW a \in Actors, NEW fs \in SUBSET Requestable, NEW jobs \in JobsFor(fs), Generate(a, fs, jobs)
        PROVE  FilesExist'
    BY <1>1 DEF TypeOK, StartsWithReport, UploadsComeFirst, FilesExist, Exists,
       Report, NoReport, Job, Request, Data, Active, ColumnOf, Columns, Idle,
       Generate
  <1>2. ASSUME NEW j \in Jobs, JobPut(j) PROVE FilesExist'
    BY <1>2 DEF TypeOK, StartsWithReport, UploadsComeFirst, FilesExist, Exists,
       Report, NoReport, Job, Request, Data, Active, ColumnOf, Columns, Idle, JobPut
  <1>3. ASSUME NEW j \in Jobs, JobUpdate(j) PROVE FilesExist'
    BY <1>3 DEF TypeOK, StartsWithReport, UploadsComeFirst, FilesExist, Exists,
       Report, NoReport, Job, Request, Data, Active, ColumnOf, Columns, Idle,
       JobUpdate, Recorded, Ready
  <1>4. ASSUME NEW j \in Jobs, JobFlip(j) PROVE FilesExist'
    BY <1>4 DEF TypeOK, StartsWithReport, UploadsComeFirst, FilesExist, Exists,
       Report, NoReport, Job, Request, Data, Active, ColumnOf, Columns, Idle,
       JobFlip
  <1>5. ASSUME NEW r \in Requests, WriteApprove(r) PROVE FilesExist'
    BY <1>5 DEF TypeOK, StartsWithReport, UploadsComeFirst, FilesExist, Exists,
       Report, NoReport, Job, Request, Data, Active, ColumnOf, Columns, Idle,
       WriteApprove
  <1>6. ASSUME NEW r \in Requests, WriteFile(r) PROVE FilesExist'
    BY <1>6 DEF TypeOK, StartsWithReport, UploadsComeFirst, FilesExist, Exists,
       Report, NoReport, Job, Request, Data, Active, ColumnOf, Columns, Idle,
       WriteFile, FilingNotes
  <1> QED BY <1>0, <1>1, <1>2, <1>3, <1>4, <1>5, <1>6 DEF Next, Generation, Work,
     Review, vars, AddJob, GenerateStops, Fault, JobStart, JobEnds, JobThrows,
     Failed, PdfThrows, JobStalls, BeginApprove, ApprovableBy, Begin, BeginFile,
     Abandon, DataChanges

\* What a job decided on the updated row remains right: the requested formats are
\* fixed and columns are never cleared.
LEMMA ReadyMeansCompleteStep ==
  ASSUME IInv, [Next]_vars
  PROVE  ReadyMeansComplete'
  <1> USE ReportAssumption, JobFacts DEF IInv
  <1>0. CASE UNCHANGED <<report, job>>
    BY <1>0 DEF TypeOK, StartsWithReport, ReadyMeansComplete, Exists, Complete,
       AllDone, Report, NoReport, Job, Request, Active, Idle
  <1>1. ASSUME NEW a \in Actors, NEW fs \in SUBSET Requestable, NEW jobs \in JobsFor(fs), Generate(a, fs, jobs)
        PROVE  ReadyMeansComplete'
    BY <1>1 DEF TypeOK, StartsWithReport, ReadyMeansComplete, Exists, Complete,
       AllDone, Report, NoReport, Job, Request, Active, Idle, Generate
  <1>2. ASSUME NEW j \in Jobs, AddJob(j) PROVE ReadyMeansComplete'
    <2>1. ASSUME NEW k \in Jobs, job'[k].state = "updated" PROVE job'[k] = job[k]
      BY <1>2, <2>1 DEF TypeOK, Job, AddJob
    <2> QED BY <1>2, <2>1 DEF ReadyMeansComplete, Exists, Complete, AddJob
  <1>3. ASSUME NEW j \in Jobs, JobStart(j) PROVE ReadyMeansComplete'
    BY <1>3 DEF TypeOK, StartsWithReport, ReadyMeansComplete, Exists, Complete,
       AllDone, Report, NoReport, Job, Request, Active, Idle, JobStart
  <1>4. ASSUME NEW j \in Jobs, JobPut(j) PROVE ReadyMeansComplete'
    BY <1>4 DEF TypeOK, StartsWithReport, ReadyMeansComplete, Exists, Complete,
       AllDone, Report, NoReport, Job, Request, Active, Idle, JobPut
  <1>5. ASSUME NEW j \in Jobs, JobUpdate(j) PROVE ReadyMeansComplete'
    <2>1. report \in Report /\ report' # NoReport
      BY <1>5, AtWork DEF JobUpdate, Recorded, Report, NoReport
    <2>2. Complete => Complete'
      BY <1>5, <2>1 DEF JobUpdate, Recorded, Report, Complete
    <2>3. job'[j].ready => Complete'
      BY <1>5, <2>1 DEF TypeOK, Job, JobUpdate, Ready, AllDone, Complete
    <2>4. ASSUME NEW k \in Jobs, k # j PROVE job'[k] = job[k]
      BY <1>5, <2>4 DEF TypeOK, JobUpdate
    <2> QED BY <2>1, <2>2, <2>3, <2>4 DEF ReadyMeansComplete, Exists
  <1>6. ASSUME NEW j \in Jobs, JobFlip(j) PROVE ReadyMeansComplete'
    BY <1>6 DEF TypeOK, StartsWithReport, ReadyMeansComplete, Exists, Complete,
       AllDone, Report, NoReport, Job, Request, Active, Idle, JobFlip
  <1>7. ASSUME NEW j \in Jobs, JobEnds(j) PROVE ReadyMeansComplete'
    BY <1>7 DEF TypeOK, StartsWithReport, ReadyMeansComplete, Exists, Complete,
       AllDone, Report, NoReport, Job, Request, Active, Idle, JobEnds
  <1>8. ASSUME NEW j \in Jobs, JobThrows(j) PROVE ReadyMeansComplete'
    BY <1>8 DEF TypeOK, StartsWithReport, ReadyMeansComplete, Exists, Complete,
       AllDone, Report, NoReport, Job, Request, Active, Idle, JobThrows, Failed,
       Fault
  <1>9. CASE PdfThrows
    BY <1>9 DEF TypeOK, StartsWithReport, ReadyMeansComplete, Exists, Complete,
       AllDone, Report, NoReport, Job, Request, Active, Idle, PdfThrows, Failed
  <1>10. ASSUME NEW j \in Jobs, JobStalls(j) PROVE ReadyMeansComplete'
    BY <1>10 DEF TypeOK, StartsWithReport, ReadyMeansComplete, Exists, Complete,
       AllDone, Report, NoReport, Job, Request, Active, Idle, JobStalls, Fault
  <1>11. ASSUME NEW r \in Requests, WriteApprove(r) PROVE ReadyMeansComplete'
    BY <1>11 DEF TypeOK, StartsWithReport, ReadyMeansComplete, Exists, Complete,
       AllDone, Report, NoReport, Job, Request, Active, Idle, WriteApprove
  <1>12. ASSUME NEW r \in Requests, WriteFile(r) PROVE ReadyMeansComplete'
    BY <1>12 DEF TypeOK, StartsWithReport, ReadyMeansComplete, Exists, Complete,
       AllDone, Report, NoReport, Job, Request, Active, Idle, WriteFile, FilingNotes
  <1> QED BY <1>0, <1>1, <1>2, <1>3, <1>4, <1>5, <1>6, <1>7, <1>8, <1>9, <1>10,
     <1>11, <1>12 DEF Next, Generation, Work, Review, vars, GenerateStops, Fault,
     BeginApprove, ApprovableBy, Begin, BeginFile, Abandon, DataChanges

\* Only a job that is ready sends the report to review.
LEMMA ReviewMeansCompleteStep ==
  ASSUME IInv, [Next]_vars
  PROVE  ReviewMeansComplete'
  <1> USE ReportAssumption, JobFacts DEF IInv
  <1>0. CASE UNCHANGED <<report>>
    BY <1>0 DEF TypeOK, StartsWithReport, ReadyMeansComplete, ReviewMeansComplete,
       Exists, Complete, Report, NoReport, Job, Request, Active, Idle
  <1>1. ASSUME NEW a \in Actors, NEW fs \in SUBSET Requestable, NEW jobs \in JobsFor(fs), Generate(a, fs, jobs)
        PROVE  ReviewMeansComplete'
    BY <1>1 DEF TypeOK, StartsWithReport, ReadyMeansComplete, ReviewMeansComplete,
       Exists, Complete, Report, NoReport, Job, Request, Active, Idle, Generate
  <1>2. ASSUME NEW j \in Jobs, JobUpdate(j) PROVE ReviewMeansComplete'
    BY <1>2 DEF TypeOK, StartsWithReport, ReadyMeansComplete, ReviewMeansComplete,
       Exists, Complete, Report, NoReport, Job, Request, Active, Idle, JobUpdate,
       Recorded, Ready
  <1>3. ASSUME NEW j \in Jobs, JobFlip(j) PROVE ReviewMeansComplete'
    BY <1>3 DEF TypeOK, StartsWithReport, ReadyMeansComplete, ReviewMeansComplete,
       Exists, Complete, Report, NoReport, Job, Request, Active, Idle, JobFlip
  <1>4. ASSUME NEW r \in Requests, WriteApprove(r) PROVE ReviewMeansComplete'
    BY <1>4 DEF TypeOK, StartsWithReport, ReadyMeansComplete, ReviewMeansComplete,
       Exists, Complete, Report, NoReport, Job, Request, Active, Idle, WriteApprove
  <1>5. ASSUME NEW r \in Requests, WriteFile(r) PROVE ReviewMeansComplete'
    BY <1>5 DEF TypeOK, StartsWithReport, ReadyMeansComplete, ReviewMeansComplete,
       Exists, Complete, Report, NoReport, Job, Request, Active, Idle, WriteFile,
       FilingNotes
  <1> QED BY <1>0, <1>1, <1>2, <1>3, <1>4, <1>5 DEF Next, Generation, Work, Review,
     vars, AddJob, GenerateStops, Fault, JobStart, JobPut, JobEnds, JobThrows,
     Failed, PdfThrows, JobStalls, BeginApprove, ApprovableBy, Begin, BeginFile,
     Abandon, DataChanges

\* The update that completes the row makes its job ready; a job that ends without
\* being ready was not that one.
LEMMA SomeJobWillFlipStep ==
  ASSUME IInv, [Next]_vars
  PROVE  SomeJobWillFlip'
  <1> USE ReportAssumption, JobFacts DEF IInv
  <1>0. CASE UNCHANGED <<report, job>>
    BY <1>0 DEF TypeOK, StartsWithReport, SomeJobWillFlip, Flips, Exists, Complete,
       AllDone, Report, NoReport, Job, Request, Active, Idle
  <1>1. ASSUME NEW a \in Actors, NEW fs \in SUBSET Requestable, NEW jobs \in JobsFor(fs), Generate(a, fs, jobs)
        PROVE  SomeJobWillFlip'
    BY <1>1 DEF TypeOK, StartsWithReport, SomeJobWillFlip, Flips, Exists, Complete,
       AllDone, Report, NoReport, Job, Request, Active, Idle, Generate
  <1>2. ASSUME NEW j \in Jobs, AddJob(j) PROVE SomeJobWillFlip'
    BY <1>2 DEF TypeOK, StartsWithReport, SomeJobWillFlip, Flips, Exists, Complete,
       AllDone, Report, NoReport, Job, Request, Active, Idle, AddJob
  <1>3. ASSUME NEW j \in Jobs, JobStart(j) PROVE SomeJobWillFlip'
    BY <1>3 DEF TypeOK, StartsWithReport, SomeJobWillFlip, Flips, Exists, Complete,
       AllDone, Report, NoReport, Job, Request, Active, Idle, JobStart
  <1>4. ASSUME NEW j \in Jobs, JobPut(j) PROVE SomeJobWillFlip'
    BY <1>4 DEF TypeOK, StartsWithReport, SomeJobWillFlip, Flips, Exists, Complete,
       AllDone, Report, NoReport, Job, Request, Active, Idle, JobPut
  <1>5. ASSUME NEW j \in Jobs, JobUpdate(j) PROVE SomeJobWillFlip'
    BY <1>5 DEF TypeOK, StartsWithReport, SomeJobWillFlip, Flips, Exists, Complete,
       AllDone, Report, NoReport, Job, Request, Active, Idle, JobUpdate, Recorded,
       Ready
  <1>6. ASSUME NEW j \in Jobs, JobFlip(j) PROVE SomeJobWillFlip'
    BY <1>6 DEF TypeOK, StartsWithReport, SomeJobWillFlip, Flips, Exists, Complete,
       AllDone, Report, NoReport, Job, Request, Active, Idle, JobFlip
  <1>7. ASSUME NEW j \in Jobs, JobEnds(j) PROVE SomeJobWillFlip'
    BY <1>7 DEF TypeOK, StartsWithReport, SomeJobWillFlip, Flips, Exists, Complete,
       AllDone, Report, NoReport, Job, Request, Active, Idle, JobEnds
  <1>8. ASSUME NEW j \in Jobs, JobThrows(j) PROVE SomeJobWillFlip'
    BY <1>8 DEF TypeOK, StartsWithReport, SomeJobWillFlip, Flips, Exists, Complete,
       AllDone, Report, NoReport, Job, Request, Active, Idle, JobThrows, Failed,
       Fault
  <1>9. CASE PdfThrows
    BY <1>9 DEF TypeOK, StartsWithReport, SomeJobWillFlip, Flips, Exists, Complete,
       AllDone, Report, NoReport, Job, Request, Active, Idle, PdfThrows, Failed
  <1>10. ASSUME NEW j \in Jobs, JobStalls(j) PROVE SomeJobWillFlip'
    BY <1>10 DEF TypeOK, StartsWithReport, SomeJobWillFlip, Flips, Exists, Complete,
       AllDone, Report, NoReport, Job, Request, Active, Idle, JobStalls, Fault
  <1>11. ASSUME NEW r \in Requests, WriteApprove(r) PROVE SomeJobWillFlip'
    BY <1>11 DEF TypeOK, StartsWithReport, SomeJobWillFlip, Flips, Exists, Complete,
       AllDone, Report, NoReport, Job, Request, Active, Idle, WriteApprove
  <1>12. ASSUME NEW r \in Requests, WriteFile(r) PROVE SomeJobWillFlip'
    BY <1>12 DEF TypeOK, StartsWithReport, SomeJobWillFlip, Flips, Exists, Complete,
       AllDone, Report, NoReport, Job, Request, Active, Idle, WriteFile, FilingNotes
  <1> QED BY <1>0, <1>1, <1>2, <1>3, <1>4, <1>5, <1>6, <1>7, <1>8, <1>9, <1>10,
     <1>11, <1>12 DEF Next, Generation, Work, Review, vars, GenerateStops, Fault,
     BeginApprove, ApprovableBy, Begin, BeginFile, Abandon, DataChanges

\* An approval in flight is by somebody else than the author, who never changes; a
\* filing in flight follows an approval, which never goes away.
LEMMA ApprovalsByOthersStep ==
  ASSUME IInv, [Next]_vars
  PROVE  ApprovalsByOthers'
  <1> USE ReportAssumption, JobFacts DEF IInv
  <1>0. CASE UNCHANGED <<report, req>>
    BY <1>0 DEF TypeOK, StartsWithReport, ApprovalsByOthers, Exists, Report,
       NoReport, Request, Idle
  <1>1. ASSUME NEW a \in Actors, NEW fs \in SUBSET Requestable, NEW jobs \in JobsFor(fs), Generate(a, fs, jobs)
        PROVE  ApprovalsByOthers'
    <2>a. report = NoReport /\ req' = req
      BY <1>1 DEF Generate
    <2>b. \A r \in Requests : req[r] = Idle
      BY <2>a DEF StartsWithReport, Exists
    <2>1. \A r \in Requests : req'[r].op = "idle"
      BY <2>a, <2>b DEF Idle
    <2>2. report'.status = "DRAFT" /\ report'.approvedBy = None /\ report'.generatedBy # None
      BY <1>1 DEF Generate
    <2> QED BY <2>1, <2>2 DEF ApprovalsByOthers
  <1>2. ASSUME NEW j \in Jobs, JobUpdate(j) PROVE ApprovalsByOthers'
    BY <1>2 DEF TypeOK, StartsWithReport, ApprovalsByOthers, Exists, Report,
       NoReport, Request, Idle, JobUpdate, Recorded, Ready
  <1>3. ASSUME NEW j \in Jobs, JobFlip(j) PROVE ApprovalsByOthers'
    BY <1>3 DEF TypeOK, StartsWithReport, ApprovalsByOthers, Exists, Report,
       NoReport, Request, Idle, JobFlip
  <1>4. ASSUME NEW r \in Requests, NEW a \in Actors, BeginApprove(r, a)
        PROVE  ApprovalsByOthers'
    BY <1>4 DEF TypeOK, StartsWithReport, ApprovalsByOthers, Exists, Report,
       NoReport, Request, Idle, BeginApprove, ApprovableBy, Begin
  <1>5. ASSUME NEW r \in Requests, WriteApprove(r) PROVE ApprovalsByOthers'
    BY <1>5 DEF TypeOK, StartsWithReport, ApprovalsByOthers, Exists, Report,
       NoReport, Request, Idle, WriteApprove
  <1>6. ASSUME NEW r \in Requests, NEW a \in Actors, BeginFile(r, a)
        PROVE  ApprovalsByOthers'
    BY <1>6 DEF TypeOK, StartsWithReport, ApprovalsByOthers, Exists, Report,
       NoReport, Request, Idle, BeginFile, Begin
  <1>7. ASSUME NEW r \in Requests, WriteFile(r) PROVE ApprovalsByOthers'
    BY <1>7 DEF TypeOK, StartsWithReport, ApprovalsByOthers, Exists, Report,
       NoReport, Request, Idle, WriteFile, FilingNotes
  <1>8. ASSUME NEW r \in Requests, Abandon(r) PROVE ApprovalsByOthers'
    BY <1>8 DEF TypeOK, StartsWithReport, ApprovalsByOthers, Exists, Report,
       NoReport, Request, Idle, Abandon, Fault
  <1> QED BY <1>0, <1>1, <1>2, <1>3, <1>4, <1>5, <1>6, <1>7, <1>8 DEF Next,
     Generation, Work, Review, vars, AddJob, GenerateStops, Fault, JobStart, JobPut,
     JobEnds, JobThrows, Failed, PdfThrows, JobStalls, DataChanges

\* A request in flight holds at least the notes that its guard implies, and adds
\* its own.
LEMMA NotesAccumulateStep ==
  ASSUME IInv, [Next]_vars
  PROVE  NotesAccumulate'
  <1> USE ReportAssumption, JobFacts DEF IInv
  <1>0. CASE UNCHANGED <<report, req, crossed>>
    BY <1>0 DEF TypeOK, StartsWithReport, NotesAccumulate, Exists, Report, NoReport,
       Request, Idle
  <1>1. ASSUME NEW a \in Actors, NEW fs \in SUBSET Requestable, NEW jobs \in JobsFor(fs), Generate(a, fs, jobs)
        PROVE  NotesAccumulate'
    <2>a. report = NoReport /\ req' = req
      BY <1>1 DEF Generate
    <2>b. \A r \in Requests : req[r] = Idle
      BY <2>a DEF StartsWithReport, Exists
    <2>1. \A r \in Requests : req'[r].op = "idle"
      BY <2>a, <2>b DEF Idle
    <2>2. report'.status = "DRAFT" /\ report'.approvedBy = None /\ report'.generatedBy # None
        /\ report'.notes = NoNotes
      BY <1>1 DEF Generate
    <2> QED BY <2>1, <2>2 DEF NotesAccumulate, NoNotes
  <1>2. ASSUME NEW j \in Jobs, JobUpdate(j) PROVE NotesAccumulate'
    BY <1>2 DEF TypeOK, StartsWithReport, NotesAccumulate, Exists, Report, NoReport,
       Request, Idle, JobUpdate, Recorded, Ready
  <1>3. ASSUME NEW j \in Jobs, JobFlip(j) PROVE NotesAccumulate'
    BY <1>3 DEF TypeOK, StartsWithReport, NotesAccumulate, Exists, Report, NoReport,
       Request, Idle, JobFlip
  <1>4. ASSUME NEW r \in Requests, NEW a \in Actors, BeginApprove(r, a)
        PROVE  NotesAccumulate'
    BY <1>4 DEF TypeOK, StartsWithReport, NotesAccumulate, Exists, Report, NoReport,
       Request, Idle, BeginApprove, ApprovableBy, Begin
  <1>5. ASSUME NEW r \in Requests, WriteApprove(r) PROVE NotesAccumulate'
    <2>1. req[r] \in Request /\ report \in Report /\ Exists
      BY <1>5, AtWork DEF WriteApprove, Exists, Report, NoReport
    <2>2. req[r].actor \notin {None, report.generatedBy}
      BY <1>5, <2>1 DEF ApprovalsByOthers, WriteApprove, Request
    <2>3. /\ report'.notes.approval = req[r].actor /\ report'.approvedBy = req[r].actor
          /\ report'.generatedBy = report.generatedBy /\ report'.status = "APPROVED"
      BY <1>5, <2>1 DEF WriteApprove, Report, Request, Notes
    <2>4. \A q \in Requests : req'[q] = req[q] \/ req'[q].op = "idle"
      BY <1>5 DEF WriteApprove, TypeOK, Idle
    <2>5. ~crossed => \A q \in Requests : req[q].op # "file"
      BY <1>5, <2>1 DEF WriteApprove, NotesAccumulate
    <2>6. crossed' = crossed
      BY <1>5 DEF WriteApprove
    <2> QED BY <2>1, <2>2, <2>3, <2>4, <2>5, <2>6 DEF NotesAccumulate
  <1>6. ASSUME NEW r \in Requests, NEW a \in Actors, BeginFile(r, a)
        PROVE  NotesAccumulate'
    BY <1>6 DEF TypeOK, StartsWithReport, NotesAccumulate, Exists, Report, NoReport,
       Request, Idle, BeginFile, Begin
  <1>7. ASSUME NEW r \in Requests, WriteFile(r) PROVE NotesAccumulate'
    <2>1. req[r] \in Request /\ report \in Report /\ Exists
      BY <1>7, AtWork DEF WriteFile, Exists, Report, NoReport
    <2>2. /\ req[r].notes.approval \notin {None, report.generatedBy}
          /\ ~crossed => req[r].notes.approval = report.approvedBy
      BY <1>7, <2>1 DEF NotesAccumulate, WriteFile
    <2>3. /\ report'.notes = [req[r].notes EXCEPT !.filing = req[r].actor]
          /\ report'.approvedBy = report.approvedBy
          /\ report'.generatedBy = report.generatedBy
      BY <1>7, <2>1 DEF WriteFile, FilingNotes, Report
    <2>4. req[r].notes \in Notes /\ req[r].actor # None
      BY <2>1 DEF Request
    <2>5. report'.notes.approval = req[r].notes.approval /\ report'.notes.filing # None
      BY <2>3, <2>4 DEF Notes
    <2>6. \A q \in Requests : req'[q] = req[q] \/ req'[q].op = "idle"
      BY <1>7 DEF WriteFile, TypeOK, Idle
    <2>7. crossed' = crossed
      BY <1>7 DEF WriteFile
    <2> QED BY <2>1, <2>2, <2>3, <2>5, <2>6, <2>7 DEF NotesAccumulate
  <1>8. ASSUME NEW r \in Requests, Abandon(r) PROVE NotesAccumulate'
    BY <1>8 DEF TypeOK, StartsWithReport, NotesAccumulate, Exists, Report, NoReport,
       Request, Idle, Abandon, Fault
  <1> QED BY <1>0, <1>1, <1>2, <1>3, <1>4, <1>5, <1>6, <1>7, <1>8 DEF Next,
     Generation, Work, Review, vars, AddJob, GenerateStops, Fault, JobStart, JobPut,
     JobEnds, JobThrows, Failed, PdfThrows, JobStalls, DataChanges

-------------------------------------------------------------------------------
LEMMA Invariance == Spec => []IInv
  <1>1. Init => IInv
    <2> SUFFICES ASSUME Init PROVE IInv
      OBVIOUS
    <2>0. \A j \in Jobs : [state |-> "none", left |-> Attempts, stalled |-> FALSE,
                           built |-> None, ready |-> FALSE] \in Job
      BY ReportAssumption DEF Job
    <2>1. TypeOK
      <3>1. job \in [Jobs -> Job] /\ object \in [Columns -> Data \cup {None}]
        BY <2>0 DEF Init
      <3>2. /\ adding \in SUBSET Jobs
            /\ data \in Data /\ faults \in 0 .. MaxFaults
        <4>1. adding = {} /\ data = 0 /\ faults = 0
          BY DEF Init
        <4> QED BY <4>1, ReportAssumption DEF Data
      <3>4. crossed \in BOOLEAN
        BY Zenon DEF Init
      <3>3. /\ report \in Report \cup {NoReport}
            /\ req \in [Requests -> Request \cup {Idle}]
        BY DEF Init
      <3> QED BY <3>1, <3>2, <3>3, <3>4 DEF TypeOK
    <2>2. ~Exists
      BY DEF Init, Exists
    <2>3. \A r \in Requests : req[r].op = "idle"
      BY DEF Init, Idle
    <2>4. \A j \in Jobs : job[j].state = "none" /\ job[j].left = Attempts
      BY DEF Init
    <2>5. /\ StartsWithReport /\ AttemptsLeft /\ UploadsComeFirst
          /\ ReadyMeansComplete /\ SomeJobWillFlip
      BY <2>2, <2>3, <2>4, ReportAssumption, JobFacts DEF Init, StartsWithReport, AttemptsLeft, UploadsComeFirst,
         ReadyMeansComplete, SomeJobWillFlip, Exists, Active, Idle
    <2>6. FilesExist /\ ReviewMeansComplete /\ ApprovalsByOthers /\ NotesAccumulate
      BY <2>2, <2>3 DEF FilesExist, ReviewMeansComplete, ApprovalsByOthers, NotesAccumulate, Exists
    <2> QED BY <2>1, <2>5, <2>6 DEF IInv
  <1>2. IInv /\ [Next]_vars => IInv'
    BY TypeOKStep, StartsWithReportStep, AttemptsLeftStep, UploadsComeFirstStep, FilesExistStep,
       ReadyMeansCompleteStep, ReviewMeansCompleteStep, SomeJobWillFlipStep,
       ApprovalsByOthersStep, NotesAccumulateStep DEF IInv
  <1> QED BY <1>1, <1>2, PTL DEF Spec

\* The report, its jobs and the requests keep their types.
THEOREM TypeCorrect == Spec => []TypeOK
  BY Invariance, PTL DEF IInv

\* The row never names a file that was not stored.
THEOREM FilesStored == Spec => []FilesExist
  BY Invariance, PTL DEF IInv

\* A report in review has every requested format.
THEOREM ReviewsAreComplete == Spec => []ReviewMeansComplete
  BY Invariance, PTL DEF IInv

\* A complete report is not left in DRAFT by jobs that finish side by side.
THEOREM CompleteNotForgotten == Spec => []CompleteIsNotForgotten
  <1>1. IInv => CompleteIsNotForgotten
    BY DEF IInv, SomeJobWillFlip, Flips, CompleteIsNotForgotten, Active
  <1> QED BY <1>1, Invariance, PTL

\* Nobody but another user than the author stands behind an approved or filed report.
THEOREM AssuredByAnother == Spec => []AssuredByOther
  <1>1. IInv => AssuredByOther
    BY DEF IInv, ApprovalsByOthers, AssuredByOther
  <1> QED BY <1>1, Invariance, PTL

\* A filed report carries the notes of its approval and of its filing.
THEOREM FilingsCarryNotes == Spec => []FiledCarriesNotes
  <1>1. IInv => FiledCarriesNotes
    BY DEF IInv, NotesAccumulate, FiledCarriesNotes
  <1> QED BY <1>1, Invariance, PTL
===============================================================================
