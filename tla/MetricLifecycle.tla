---------------------------- MODULE MetricLifecycle ----------------------------
(***************************************************************************)
(* The life of a MetricEvent row in services/api: MetricsService (create,   *)
(* bulk import, update, submit, approve, reject, lock) and the two other    *)
(* writers of the table, the promotion of an approved extraction and the    *)
(* calculation worker.                                                      *)
(*                                                                         *)
(* Every handler that changes a row awaits findOne, checks the row it got,  *)
(* and awaits an update BY ID: nothing in the update mentions the status it *)
(* was decided on, and no transaction spans the two calls.  A request is    *)
(* therefore two steps, Begin* (the read and the guard) and Write* (the     *)
(* update), and the steps of concurrent requests interleave.  A guard that  *)
(* fails throws before anything is written, so it is a Begin* that is not   *)
(* enabled.  The audit_log row written after each update is not modelled.   *)
(***************************************************************************)
CONSTANTS
    Events,     \* the identifiers metric events can have
    Actors,     \* users
    Values,     \* what a metric event can measure
    Requests,   \* HTTP requests the API serves at the same time
    NoActor     \* an empty approved_by column

ASSUME NoActorAssumption == NoActor \notin Actors

VARIABLES
    event,      \* event[e]: the metric_event row of e, or NoRow
    req,        \* req[r]: the handler running for r between its read and its
                \* update, or Idle
    submitters  \* submitters[e]: everyone who has been submitted_by of e (history)

vars == <<event, req, submitters>>

Workflow == INSTANCE MetricWorkflow WITH Events <- Events, Actors <- Actors,
                                        Values <- Values, NoActor <- NoActor,
                                        event <- event

NoRow == [status |-> "ABSENT"]

\* MetricStatus also has REVIEWED and REJECTED, which no code writes.
Row == [status      : {"DRAFT", "SUBMITTED", "APPROVED", "LOCKED"},
        value       : Values,
        submittedBy : Actors,
        approvedBy  : Actors \cup {NoActor},
        calculated  : BOOLEAN]     \* source_calc_run_id is set

Idle == [op |-> "idle"]

Request == [op    : {"update", "submit", "approve", "reject", "lock"},
            event : Events,
            actor : Actors,
            value : Values]        \* dto.value of an update

TypeOK ==
    /\ event \in [Events -> Row \cup {NoRow}]
    /\ req \in [Requests -> Request \cup {Idle}]
    /\ submitters \in [Events -> SUBSET Actors]

Init ==
    /\ event = [e \in Events |-> NoRow]
    /\ req = [r \in Requests |-> Idle]
    /\ submitters = [e \in Events |-> {}]

-------------------------------------------------------------------------------
(* Inserting rows: one statement each, so one step each.                     *)

DraftRowWithoutSubmitter(a, v) ==
    [status |-> "DRAFT", value |-> v, submittedBy |-> NoActor,
     approvedBy |-> NoActor, calculated |-> FALSE]

DraftRow(a, v) == [status |-> "DRAFT", value |-> v, submittedBy |-> a,
                   approvedBy |-> NoActor, calculated |-> FALSE]

CalculatedRow(a, v) == [status |-> "APPROVED", value |-> v, submittedBy |-> a,
                        approvedBy |-> NoActor, calculated |-> TRUE]

InsertRows(es, a, row) ==
    /\ \A e \in es : event[e] = NoRow
    /\ event' = [e \in Events |-> IF e \in es THEN row ELSE event[e]]
    /\ submitters' = [e \in Events |-> IF e \in es THEN {a} ELSE submitters[e]]
    /\ UNCHANGED req

\* MetricsService.create
Create(e, a, v) == InsertRows({e}, a, DraftRow(a, v))

\* ExtractionService.promoteToMetricEvent: a draft submitted by the approver
\* of the extraction.
Promote(e, a, v) == InsertRows({e}, a, DraftRow(a, v))

\* MetricsService.bulkImportXlsx: all rows that pass client-side validation, in
\* one transaction.
BulkImport(es, a, v) == InsertRows(es, a, DraftRow(a, v))

\* CalculationProcessor: a result enters the table approved.
EmitCalculated(e, a, v) == InsertRows({e}, a, CalculatedRow(a, v))

-------------------------------------------------------------------------------
(* The reads: findOne, then the handler's guard on the row it returned.      *)
(* ApprovableByAnyone and the like are the guards with a plausible mistake.  *)

\* MetricsService.findOne of a request that goes on to update the row.  The row
\* it returns decides the guard and is then only written to the audit log.
FindOne(r, op, e, a, v) ==
    /\ req[r] = Idle
    /\ event[e] # NoRow
    /\ req' = [req EXCEPT ![r] =
                  [op |-> op, event |-> e, actor |-> a, value |-> v]]
    /\ UNCHANGED <<event, submitters>>

Editable(row) == row.status \in {"DRAFT", "SUBMITTED"}

SubmittableTwice(row) == row.status \in {"DRAFT", "SUBMITTED"}
Submittable(row) == row.status = "DRAFT"

ApprovableByAnyone(row, a) == row.status = "SUBMITTED"
ApprovableBy(row, a) == row.status = "SUBMITTED" /\ row.submittedBy # a

RejectableOnceApproved(row) == row.status \in {"SUBMITTED", "APPROVED"}
Rejectable(row) == row.status = "SUBMITTED"

Lockable(row) == row.status = "APPROVED"

BeginUpdate(r, e, a, v) == Editable(event[e]) /\ FindOne(r, "update", e, a, v)

BeginSubmit(r, e, a) ==
    Submittable(event[e]) /\ FindOne(r, "submit", e, a, event[e].value)

BeginApprove(r, e, a) ==
    ApprovableBy(event[e], a) /\ FindOne(r, "approve", e, a, event[e].value)

BeginReject(r, e, a) ==
    Rejectable(event[e]) /\ FindOne(r, "reject", e, a, event[e].value)

BeginLock(r, e, a) ==
    Lockable(event[e]) /\ FindOne(r, "lock", e, a, event[e].value)

-------------------------------------------------------------------------------
(* The updates, by id, of whatever the row has become since it was read.     *)

UpdateById(r, op, row) ==
    /\ req[r].op = op
    /\ event' = [event EXCEPT ![req[r].event] = row]
    /\ req' = [req EXCEPT ![r] = Idle]

WriteUpdate(r) ==
    LET e == req[r].event IN
    /\ UpdateById(r, "update", [event[e] EXCEPT !.value = req[r].value])
    /\ UNCHANGED submitters

WriteSubmit(r) ==
    LET e == req[r].event  a == req[r].actor IN
    /\ UpdateById(r, "submit",
                  [event[e] EXCEPT !.status = "SUBMITTED", !.submittedBy = a])
    /\ submitters' = [submitters EXCEPT ![e] = @ \cup {a}]

WriteApprove(r) ==
    LET e == req[r].event  a == req[r].actor IN
    /\ UpdateById(r, "approve",
                  [event[e] EXCEPT !.status = "APPROVED", !.approvedBy = a])
    /\ UNCHANGED submitters

WriteReject(r) ==
    LET e == req[r].event IN
    /\ UpdateById(r, "reject", [event[e] EXCEPT !.status = "DRAFT"])
    /\ UNCHANGED submitters

WriteLock(r) ==
    LET e == req[r].event IN
    /\ UpdateById(r, "lock", [event[e] EXCEPT !.status = "LOCKED"])
    /\ UNCHANGED submitters

\* The update throws, or the API process stops: the request ends without a write.
Abandon(r) ==
    /\ req[r] # Idle
    /\ req' = [req EXCEPT ![r] = Idle]
    /\ UNCHANGED <<event, submitters>>

-------------------------------------------------------------------------------
Insert == \E a \in Actors, v \in Values :
            \/ \E e \in Events : \/ Create(e, a, v)
                                 \/ Promote(e, a, v)
                                 \/ EmitCalculated(e, a, v)
            \/ \E es \in (SUBSET Events) \ {{}} : BulkImport(es, a, v)

Begin(r) == \E e \in Events, a \in Actors :
              \/ \E v \in Values : BeginUpdate(r, e, a, v)
              \/ BeginSubmit(r, e, a)
              \/ BeginApprove(r, e, a)
              \/ BeginReject(r, e, a)
              \/ BeginLock(r, e, a)

End(r) == \/ WriteUpdate(r)
          \/ WriteSubmit(r)
          \/ WriteApprove(r)
          \/ WriteReject(r)
          \/ WriteLock(r)
          \/ Abandon(r)

Next == Insert \/ \E r \in Requests : Begin(r) \/ End(r)

Spec == Init /\ [][Next]_vars

-------------------------------------------------------------------------------
(* Properties.                                                               *)

Assured(e) == event[e].status \in {"APPROVED", "LOCKED"}

InFlight(e) == {r \in Requests : req[r] # Idle /\ req[r].event = e}

\* Two people stand behind the approval of e, if anyone approved it.
BackedByTwo(e) == \E s \in submitters[e] : s # event[e].approvedBy

\* A row that calculations and reports may read (APPROVED or LOCKED) is either
\* the result of a calculation run or was approved by somebody, and at some
\* time somebody other than that approver had submitted it -- in whatever order
\* the reads and writes of submit, approve, reject and lock interleave.
AssuranceIsBacked ==
    \A e \in Events :
        Assured(e) => \/ event[e].calculated
                      \/ event[e].approvedBy # NoActor /\ BackedByTwo(e)

\* Once an approved or locked row has no request left in flight it is settled:
\* the row no longer changes under anything but a lock, and a locked row not at
\* all, because no handler but lock (and none) passes its guard any more.
SettledRowsStay ==
    [][\A e \in Events :
         Assured(e) /\ InFlight(e) = {} =>
            /\ event'[e] = event[e]
            /\ \A r \in InFlight(e)' :
                  event[e].status = "APPROVED" /\ req'[r].op = "lock"]_vars

\* When requests on the same row do not overlap, the handlers implement the
\* atomic workflow of MetricWorkflow.
ImplementsWorkflow == Workflow!Spec

\* audit_status.md, module 8: "APPROVED/LOCKED are immutable".
ApprovedAndLockedAreImmutable ==
    [][\A e \in Events :
         Assured(e) => event'[e].value = event[e].value /\ Assured(e)']_vars
===============================================================================
