----------------------------- MODULE MCUndisturbed -----------------------------
(* What holds besides when nothing interferes: metrics and reviews with one     *)
(* request at a time, the ingestion of a document while no process stops, and a  *)
(* report that is generated and that nobody approves meanwhile.  A behaviour is  *)
(* about one of them, its part.  The reviews come with their theorems, which     *)
(* MetricLifecycle_proofs cites.                                               *)
EXTENDS MetricLifecycle

CONSTANTS ReviewFields, Attributable, Numbers, Text, Callbacks, JobAttempts,
          Docs, Uploads, Runs, CallbackAttempts, None,
          Requestable, ReportAttempts, MaxData, MaxFaults

VARIABLES part,
          row, events, reviewReq, validation, approvedAs, dropped,
          status, batches, upload, dispatch, target, engineJob, result, call, crashes,
          latest, overlapped,
          report, adding, reportJob, object, data, faults, reportReq, crossed

Review == INSTANCE ExtractionReview_proofs WITH Fields <- ReviewFields, req <- reviewReq,
                                                job <- validation
Ingestion == INSTANCE DocumentIngestion WITH job <- engineJob, MaxCrashes <- 0,
                                             MaxAttempts <- CallbackAttempts
Report == INSTANCE ReportGeneration WITH Requests <- {}, Attempts <- ReportAttempts,
                                         job <- reportJob, req <- reportReq

ASSUME Assumptions == /\ Review!ReviewAssumption
                      /\ Ingestion!IngestionAssumption
                      /\ Report!ReportAssumption

reviewVars == <<row, events, reviewReq, validation, approvedAs, dropped>>
ingestionVars == <<status, batches, upload, dispatch, target, engineJob, result, call, crashes,
                   latest, overlapped>>
reportVars == <<report, adding, reportJob, object, data, faults, reportReq, crossed>>

MCInit == /\ part \in {"metric", "review", "ingestion", "report"}
          /\ Init
          /\ Review!Init
          /\ Ingestion!Init
          /\ Report!Init

\* Runs are told apart by nothing but their names: one of them comes first.
FirstRunFirst == LET first == CHOOSE x \in Runs : TRUE
                 IN (\E x \in Runs : dispatch[x] # "unused") => dispatch[first] # "unused"

MCNext ==
    /\ UNCHANGED part
    /\ \/ part = "metric" /\ Next
       \/ part # "metric" /\ UNCHANGED vars
    /\ \/ part = "review" /\ Review!Next
       \/ part # "review" /\ UNCHANGED reviewVars
    /\ \/ part = "ingestion" /\ Ingestion!Next /\ FirstRunFirst'
       \/ part # "ingestion" /\ UNCHANGED ingestionVars
    /\ \/ part = "report" /\ Report!Next
       \/ part # "report" /\ UNCHANGED reportVars

MCSpec == /\ MCInit
          /\ [][MCNext]_<<part, vars, reviewVars, ingestionVars, reportVars>>
          /\ part = "ingestion" => Ingestion!Fairness
          /\ part = "report" => Report!Fairness

\* With one request at a time no extraction is promoted to two metric events, the approval
\* in bulk and the repeated approval included: NeverTwoEventsPerExtraction of
\* ExtractionReview.
NeverTwoEventsPerExtraction == Review!NeverTwoEventsPerExtraction

\* While no process stops, every dispatch of a document comes to an end, and every run
\* that the engine took on is closed: DispatchSettles and RunsClose of DocumentIngestion.
IngestionSettles == Ingestion!DispatchSettles /\ Ingestion!RunsClose

\* A report whose jobs can complete leaves DRAFT: ReportLeavesDraft of ReportGeneration.
ReportLeavesDraft == Report!ReportLeavesDraft
===============================================================================
