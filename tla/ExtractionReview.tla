---------------------------- MODULE ExtractionReview ----------------------------
(***************************************************************************)
(* The extraction_field rows of one document: created by the extraction    *)
(* callback, checked by the extraction-validation job (PostExtraction-     *)
(* Processor), changed by reviewers (ExtractionService), deleted by a      *)
(* reprocess, and turned into metric events when approved.                 *)
(*                                                                         *)
(* A reviewer's request awaits several calls of the database: the read it  *)
(* decides on, the write by id, and for an approval the search for an      *)
(* existing metric event and its creation.  Each is a step, and the steps  *)
(* of requests, jobs, callbacks and a reprocess interleave.                *)
(***************************************************************************)
EXTENDS Naturals, Sequences

CONSTANTS
    Fields,         \* ids of extraction_field rows
    Attributable,   \* the fields of a registered metric that have a period
    Numbers, Text,  \* extracted values: numbers, and anything else
    Callbacks,      \* deliveries of handleExtractionCallback for the document
    Requests,       \* reviewers' requests served at the same time
    JobAttempts     \* attempts of a validation job (3 in the code)

ASSUME ReviewAssumption == /\ Attributable \subseteq Fields
                           /\ Text \notin Numbers
                           /\ JobAttempts \in Nat \ {0}

VARIABLES
    row,            \* row[f]: the extraction_field row of f, Unborn or Deleted
    events,         \* events[f]: values of the metric events promoted from f
    req,            \* req[r]: what the handler serving r holds, or Idle
    job,            \* job[c]: the validation job that callback c asks for
    approvedAs,     \* approvedAs[f]: the promotable values f had while APPROVED
                    \* (history)
    dropped         \* approved fields whose promotion was given up (history)

vars == <<row, events, req, job, approvedAs, dropped>>

FieldValues == Numbers \cup {Text}

Unborn == [status |-> "UNBORN"]
Deleted == [status |-> "DELETED"]

\* "bad": a unit was extracted, and the registry neither expects nor allows it.
Units == {"ok", "bad"}

Row == [status : {"DRAFT", "NEEDS_REVIEW", "APPROVED", "REJECTED", "OVERRIDDEN"},
        value  : FieldValues,
        unit   : Units,
        from   : Callbacks]

Exists(f) == row[f] \notin {Unborn, Deleted}

\* promoteToMetricEvent creates an event of such a field.
Promotable(f, x) == f \in Attributable /\ x.value \in Numbers /\ x.unit = "ok"

Idle == [op |-> "idle"]

\* An update or approval after its read; a bulk approval between its updateMany
\* and its findMany; the fields a request has still to promote, as it read them;
\* and a promotion that found no event for one of them.
Request ==
    [op : {"update"}, field : Fields, value : FieldValues, unit : Units]
      \cup [op : {"reject"}, field : Fields]
      \cup [op : {"approve"}, field : Fields, before : Row]
      \cup [op : {"bulk"}, ids : SUBSET Fields]
      \cup [op : {"promote"}, held : UNION {[fs -> Row] : fs \in SUBSET Fields}]
      \cup [op : {"create"}, held : UNION {[fs -> Row] : fs \in SUBSET Fields},
            field : Fields]

\* none: no such callback yet; adding: rows committed, queue.add awaited.
Job == [state : {"none", "adding", "queued", "running", "done", "dead"},
        left  : 0 .. JobAttempts,      \* attempts it has left
        todo  : SUBSET Fields]         \* mismatches of its snapshot not flagged yet

TypeOK ==
    /\ row \in [Fields -> Row \cup {Unborn, Deleted}]
    /\ events \in [Fields -> Seq(FieldValues)]
    /\ req \in [Requests -> Request \cup {Idle}]
    /\ job \in [Callbacks -> Job]
    /\ approvedAs \in [Fields -> SUBSET FieldValues]
    /\ dropped \in SUBSET Fields

Init ==
    /\ row = [f \in Fields |-> Unborn]
    /\ events = [f \in Fields |-> <<>>]
    /\ req = [r \in Requests |-> Idle]
    /\ job = [c \in Callbacks |-> [state |-> "none", left |-> JobAttempts, todo |-> {}]]
    /\ approvedAs = [f \in Fields |-> {}]
    /\ dropped = {}

-------------------------------------------------------------------------------
(* FilesService: rows come and go.                                           *)

\* handleExtractionCallback, its transaction: a row per extracted field; a
\* confidence below 0.85 makes it NEEDS_REVIEW.
Callback(c, new) ==
    /\ job[c].state = "none"
    /\ \A f \in DOMAIN new : row[f] = Unborn
    /\ row' = [f \in Fields |-> IF f \in DOMAIN new THEN new[f] ELSE row[f]]
    /\ job' = [job EXCEPT ![c].state = "adding"]
    /\ UNCHANGED <<events, req, approvedAs, dropped>>

\* handleExtractionCallback, validationQueue.add after the transaction.
Enqueue(c) ==
    /\ job[c].state = "adding"
    /\ job' = [job EXCEPT ![c].state = "queued"]
    /\ UNCHANGED <<row, events, req, approvedAs, dropped>>

\* Redis refuses the job, or the API stops before it is added.
EnqueueFails(c) ==
    /\ job[c].state = "adding"
    /\ job' = [job EXCEPT ![c].state = "dead"]
    /\ UNCHANGED <<row, events, req, approvedAs, dropped>>

\* reprocess: deleteMany.  Nothing ties a metric event to the row it came from.
Reprocess ==
    /\ \E f \in Fields : Exists(f)
    /\ row' = [f \in Fields |-> IF Exists(f) THEN Deleted ELSE row[f]]
    /\ UNCHANGED <<events, req, job, approvedAs, dropped>>

-------------------------------------------------------------------------------
(* PostExtractionProcessor.                                                  *)

\* findMany: the snapshot whose units are compared with the registry.
JobStart(c) ==
    /\ job[c].state = "queued"
    /\ job' = [job EXCEPT ![c].state = "running",
                          ![c].todo = {f \in Fields : Exists(f) /\ row[f].unit = "bad"}]
    /\ UNCHANGED <<row, events, req, approvedAs, dropped>>

\* Flag one mismatch, whatever the row has become since the snapshot.
JobFlag(c, f) ==
    /\ job[c].state = "running"
    /\ f \in job[c].todo
    /\ Exists(f)
    /\ row' = [row EXCEPT ![f].status = "NEEDS_REVIEW"]
    /\ job' = [job EXCEPT ![c].todo = @ \ {f}]
    /\ UNCHANGED <<events, req, approvedAs, dropped>>

\* A call of the database throws: always when the row to flag was deleted.  The
\* error is rethrown, and BullMQ starts the job again while it has attempts left.
JobThrowsSwallowed(c) ==
    /\ job[c].state = "running"
    /\ job' = [job EXCEPT ![c].state = "done", ![c].todo = {}]
    /\ UNCHANGED <<row, events, req, approvedAs, dropped>>

JobThrowsForever(c) ==
    /\ job[c].state = "running"
    /\ job' = [job EXCEPT ![c] = [state |-> "queued", left |-> @.left - 1, todo |-> {}]]
    /\ UNCHANGED <<row, events, req, approvedAs, dropped>>

JobThrows(c) ==
    /\ job[c].state = "running"
    /\ job' = [job EXCEPT ![c] =
                  [state |-> IF @.left > 1 THEN "queued" ELSE "dead",
                   left |-> @.left - 1, todo |-> {}]]
    /\ UNCHANGED <<row, events, req, approvedAs, dropped>>

JobDone(c) ==
    /\ job[c].state = "running"
    /\ job[c].todo = {}
    /\ job' = [job EXCEPT ![c].state = "done"]
    /\ UNCHANGED <<row, events, req, approvedAs, dropped>>

-------------------------------------------------------------------------------
(* ExtractionService: update, reject, approve and bulkApprove.               *)

Begin(r, q) ==
    /\ req[r] = Idle
    /\ req' = [req EXCEPT ![r] = q]
    /\ UNCHANGED <<row, events, job, approvedAs, dropped>>

\* update, its read and guard: the unit to write is dto.unit, which nobody compares with
\* the registry, or else the one read.
BeginUpdate(r, f, v, u) ==
    /\ Exists(f)
    /\ row[f].status # "APPROVED"
    /\ Begin(r, [op |-> "update", field |-> f, value |-> v, unit |-> u])

UpdatedInPlace(x, v, u) == [x EXCEPT !.value = v, !.unit = u]
Updated(x, v, u) == [x EXCEPT !.value = v, !.unit = u, !.status = "OVERRIDDEN"]

WriteUpdate(r) ==
    LET f == req[r].field IN
    /\ req[r].op = "update"
    /\ Exists(f)
    /\ row' = [row EXCEPT ![f] = Updated(@, req[r].value, req[r].unit)]
    /\ req' = [req EXCEPT ![r] = Idle]
    /\ UNCHANGED <<events, job, approvedAs, dropped>>

BeginReject(r, f) == Exists(f) /\ Begin(r, [op |-> "reject", field |-> f])

WriteReject(r) ==
    LET f == req[r].field IN
    /\ req[r].op = "reject"
    /\ Exists(f)
    /\ row' = [row EXCEPT ![f].status = "REJECTED"]
    /\ req' = [req EXCEPT ![r] = Idle]
    /\ UNCHANGED <<events, job, approvedAs, dropped>>

\* approve, its read: an APPROVED row is returned as it is, and not promoted again.
BeginApprove(r, f) ==
    /\ Exists(f)
    /\ row[f].status # "APPROVED"
    /\ Begin(r, [op |-> "approve", field |-> f, before |-> row[f]])

\* The fields fs become APPROVED.
Approve(fs) ==
    /\ row' = [f \in Fields |-> IF f \in fs THEN [row[f] EXCEPT !.status = "APPROVED"]
                                            ELSE row[f]]
    /\ approvedAs' = [f \in Fields |-> IF f \in fs /\ Promotable(f, row[f])
                                       THEN approvedAs[f] \cup {row[f].value}
                                       ELSE approvedAs[f]]

\* approve, its update: what is promoted is the row the update returned.
PromoteBefore(r) ==
    LET f == req[r].field IN
    /\ req[r].op = "approve"
    /\ Exists(f)
    /\ Approve({f})
    /\ req' = [req EXCEPT ![r] = [op |-> "promote", held |-> [g \in {f} |-> req[r].before]]]
    /\ dropped' = dropped \ {f}
    /\ UNCHANGED <<events, job>>

WriteApprove(r) ==
    LET f == req[r].field IN
    /\ req[r].op = "approve"
    /\ Exists(f)
    /\ Approve({f})
    /\ req' = [req EXCEPT ![r] = [op |-> "promote", held |-> [g \in {f} |-> row'[f]]]]
    /\ dropped' = dropped \ {f}
    /\ UNCHANGED <<events, job>>

\* bulkApprove: updateMany of those not APPROVED yet.
BulkApprove(r, ids) ==
    /\ req[r] = Idle
    /\ ids # {}
    /\ Approve({f \in ids : Exists(f) /\ row[f].status # "APPROVED"})
    /\ req' = [req EXCEPT ![r] = [op |-> "bulk", ids |-> ids]]
    /\ UNCHANGED <<events, job, dropped>>

\* bulkApprove: findMany, of all of them that are APPROVED now.
BulkFind(r) ==
    LET found == {f \in req[r].ids : Exists(f) /\ row[f].status = "APPROVED"} IN
    /\ req[r].op = "bulk"
    /\ req' = [req EXCEPT ![r] = [op |-> "promote", held |-> [f \in found |-> row[f]]]]
    /\ dropped' = dropped \ found
    /\ UNCHANGED <<row, events, job, approvedAs>>

\* The request r is over with promoting f.
Promoted(r, f) ==
    LET rest == DOMAIN req[r].held \ {f} IN
    req' = [req EXCEPT ![r] = [op |-> "promote", held |-> [g \in rest |-> req[r].held[g]]]]

\* promoteToMetricEvent, findFirst and the checks: does a metric event of f exist
\* already, and does the row make one?
NotIdempotent(f, x) == ~Promotable(f, x)
NothingToCreate(f, x) == events[f] # <<>> \/ ~Promotable(f, x)

PromoteSkip(r, f) ==
    /\ req[r].op = "promote"
    /\ f \in DOMAIN req[r].held
    /\ NothingToCreate(f, req[r].held[f])
    /\ Promoted(r, f)
    /\ UNCHANGED <<row, events, job, approvedAs, dropped>>

PromoteCheck(r, f) ==
    /\ req[r].op = "promote"
    /\ f \in DOMAIN req[r].held
    /\ ~NothingToCreate(f, req[r].held[f])
    /\ req' = [req EXCEPT ![r] = [op |-> "create", held |-> req[r].held, field |-> f]]
    /\ UNCHANGED <<row, events, job, approvedAs, dropped>>

\* promoteToMetricEvent, metricEvent.create.
PromoteCreate(r) ==
    LET f == req[r].field IN
    /\ req[r].op = "create"
    /\ events' = [events EXCEPT ![f] = Append(@, req[r].held[f].value)]
    /\ Promoted(r, f)
    /\ UNCHANGED <<row, job, approvedAs, dropped>>

\* promoteToMetricEvent throws: bulkApprove goes on with the next field, and an
\* approval, which has no other, answers 500.
PromoteThrows(r, f) ==
    /\ \/ req[r].op = "promote" /\ f \in DOMAIN req[r].held
       \/ req[r].op = "create" /\ f = req[r].field
    /\ Promoted(r, f)
    /\ dropped' = dropped \cup {f}
    /\ UNCHANGED <<row, events, job, approvedAs>>

\* Nothing is left to promote.
Respond(r) ==
    /\ req[r].op = "promote"
    /\ DOMAIN req[r].held = {}
    /\ req' = [req EXCEPT ![r] = Idle]
    /\ UNCHANGED <<row, events, job, approvedAs, dropped>>

\* The fields r has approved and not promoted.
OwnedBy(r) == CASE req[r].op = "bulk" -> req[r].ids
                [] req[r].op \in {"promote", "create"} -> DOMAIN req[r].held
                [] OTHER -> {}

\* A call of the database throws (always when the row to write was deleted), or the
\* API stops.
Abandon(r) ==
    /\ req[r] # Idle
    /\ req' = [req EXCEPT ![r] = Idle]
    /\ dropped' = dropped \cup OwnedBy(r)
    /\ UNCHANGED <<row, events, job, approvedAs>>

-------------------------------------------------------------------------------
NewRows(c) == [status : {"DRAFT", "NEEDS_REVIEW"}, value : FieldValues, unit : Units, from : {c}]

Files == \/ \E c \in Callbacks : \/ \E fs \in SUBSET Fields : \E new \in [fs -> NewRows(c)] :
                                       Callback(c, new)
                                 \/ Enqueue(c)
                                 \/ EnqueueFails(c)
         \/ Reprocess

Validation(c) == \/ JobStart(c)
                 \/ \E f \in Fields : JobFlag(c, f)
                 \/ JobThrows(c)
                 \/ JobDone(c)

Review(r) == \/ \E f \in Fields : \/ \E v \in FieldValues, u \in Units : BeginUpdate(r, f, v, u)
                                  \/ BeginReject(r, f)
                                  \/ BeginApprove(r, f)
                                  \/ PromoteSkip(r, f)
                                  \/ PromoteCheck(r, f)
                                  \/ PromoteThrows(r, f)
             \/ \E ids \in SUBSET Fields : BulkApprove(r, ids)
             \/ WriteUpdate(r)
             \/ WriteReject(r)
             \/ WriteApprove(r)
             \/ BulkFind(r)
             \/ PromoteCreate(r)
             \/ Respond(r)
             \/ Abandon(r)

Next == \/ Files
        \/ \E c \in Callbacks : Validation(c)
        \/ \E r \in Requests : Review(r)

Spec == Init /\ [][Next]_vars

-------------------------------------------------------------------------------
(* Properties.                                                               *)

\* A metric event promoted from a field holds a value the field had, with an
\* allowed unit, while it was APPROVED -- although the handler that promotes it
\* read the field before it wrote, and others write in between.
EventsComeFromApproval ==
    \A f \in Fields : \A i \in DOMAIN events[f] : events[f][i] \in approvedAs[f]

\* An approved field that can become a metric event has one, or a request is still
\* at it, or its promotion was given up when a call threw or the API stopped --
\* whichever of approve, bulkApprove, update and reject overlap on it.
ApprovedIsPromoted ==
    \A f \in Fields :
        (row[f].status = "APPROVED" /\ Promotable(f, row[f]))
           => \/ events[f] # <<>>
              \/ f \in dropped
              \/ \E r \in Requests : f \in OwnedBy(r)

\* A field with a unit the registry does not allow remains DRAFT only until the
\* validation job of the callback that stored it gets to it, or if that job died:
\* retries, other callbacks' jobs and a reprocess do not make it slip through.
MismatchIsFlagged ==
    \A f \in Fields :
        (row[f].status = "DRAFT" /\ row[f].unit = "bad")
           => LET j == job[row[f].from] IN
              \/ j.state \in {"adding", "queued", "dead"}
              \/ j.state = "running" /\ f \in j.todo

\* extraction.service.ts: "never create two metric_events for the same extraction".
NeverTwoEventsPerExtraction == \A f \in Fields : Len(events[f]) <= 1
===============================================================================
