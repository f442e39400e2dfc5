# Formal models of the BRSR platform

TLA+ models of the platform: how a number gets from an uploaded document through
extraction, review, approval and calculation into a filed disclosure report, and the
services around that path.  The models are written from the source; TLC checks them on
small instances, and TLAPS proves the main safety properties for every value of the
constants.  Paths such as `metrics/…` are relative to `src/services/api/src/`.

- [1. The system](#1-the-system)
- [2. The modules and how they correspond to the code](#2-the-modules-and-how-they-correspond-to-the-code)
- [3. What the runs check](#3-what-the-runs-check)
- [4. What is proved](#4-what-is-proved)
- [5. Where code and documentation disagree](#5-where-code-and-documentation-disagree)
- [6. What is not modelled](#6-what-is-not-modelled)
- [7. Plan](#7-plan)

## 1. The system

A Next.js application talks to a NestJS API (`services/api`), which keeps its
state in PostgreSQL through Prisma, files in S3 and jobs in BullMQ (Redis).  A
Python AI engine (`services/ai-engine`) extracts data from documents; a second
Python service (`services/copilot`) answers chat questions.  Several replicas of
the API may run, each of them with one worker per queue.

| Component | State | Operations | What is hard |
|---|---|---|---|
| **Metric events** `metrics/` | `metric_event` rows: status DRAFT, SUBMITTED, APPROVED, LOCKED; submitter, approver | create, bulk import, update, submit, approve, reject, lock | every handler reads, checks, then updates *by id*: nothing ties the update to the row that was checked |
| **Ingestion** `files/files.service.ts` | `document` rows, stored rows of results | upload with dedup, dispatch to the AI engine, callback, reprocess, soft delete | fire-and-forget dispatch; callback races the dispatcher's own write; retries of a callback that committed; overlapping runs |
| **AI engine** `services/ai-engine` | background task per run; a stream and a buffer of corrections | accept, extract, deliver callback with retries, validate fields, collect feedback | lost answers, exhausted retries, a stop of the process, a shared semaphore, acknowledged but unwritten corrections |
| **Extraction review** `extraction/` | `extraction_field` rows, promoted `metric_event` rows | update, reject, approve, bulk approve, promotion | four awaited calls per approval, find-then-create, partial failure of a bulk approval |
| **Validation worker** `files/post-extraction.processor.ts` | BullMQ job per callback | flag fields whose unit is not allowed | works on a snapshot, writes by id, is retried |
| **Report generation** `brsr/` | `report` row, objects in S3, a BullMQ job per format | generate, resolve, render, store, record, send to review | jobs run side by side and each decides whether all are done; retries and stalls |
| **Approval and filing** `reports/` | the same `report` row | approve, file | checks on an earlier read; whole JSON objects written back |
| **Calculations** `calculations/` | `calc_run` rows, a BullMQ job per run, emitted metric events | create a formula, start a run, worker | retry after some outputs were stored, formula order, idempotency key, outputs of other runs among the inputs |
| **Audit log** `audit/` and its trigger | hash chain, daily anchor | log, anchor, export | concurrent inserts and one predecessor; missed anchors |
| **Hierarchy** `hierarchy/` | tree of materialised paths | create, move, import, list, rollup | import order, a transaction that fails, prefix tests on paths |
| **Assurance** `assurance/` | snapshots, exceptions | create, raise, respond | a snapshot of rows that go on changing |
| **Materiality, suppliers** | surveys, assessments, invitations, scores | launch, respond, close, assess, sign, invite, score | check-then-act |
| **Sessions** `iam/`, web `auth/`, `middleware.ts` | three maps in the memory of each replica; a cookie, a getter and a shared refresh in the browser | login, refresh, logout, deactivation; pages, session calls, 401s, retries | rotation under overlap, a restart that forgets, a replica that never knew, two refreshes with one cookie, old cookies that come back |
| **Read models** `carbon/`, `dashboard/`, `brsr.resolve` | none | rollups by scope, year and month | each filters and adds for itself |
| **Catalogue** `packages/` | declarations | metrics, disclosures, crosswalks, units, periods, emission factors | lists that refer to each other and nothing checks |
| **Web queries** `apps/web/src/lib/api/queries` | the cache of the tab | hooks over the API's routes, invalidation after mutations | answers that were asked for before a change and come after it; routes that do not exist |
| **Copilot** `services/copilot` | a dialogue | stream, tools, citations | cut-off replies, tools that fail |

How they interact.  An upload starts a run of the AI engine over HTTP, whose
callback stores extraction rows and queues a validation job.  Approving a row
creates a metric event.  Metric events are reviewed, approved and locked;
calculation runs read the assured ones and insert more, which they may read again.
Reports resolve the assured events when each format's job runs; assurance snapshots hash
them; carbon and dashboard add them up.  Components share the database and little else:
what one does between two awaits of another is not excluded by any lock, transaction or
version column.

What makes each component correct:

- *Metric events*: what calculations and reports may read (APPROVED, LOCKED) has
  two people behind it, or a calculation; and it stays what it was.
- *Ingestion*: a status never claims more than is stored, no document is forgotten
  in PENDING, a content is dispatched once, results of superseded runs do not mix
  with new ones.
- *Review*: what is promoted was approved, what was approved is promoted, at most
  once, and a field with a disallowed unit does not pass as a clean draft.
- *Reports*: the row names only files that exist, IN_REVIEW means complete, a
  complete report gets there, approval is by another person, and a filed report carries the
  note of whom it names as approver.
- *Calculations*: a result stands for one state of the data and, for the keys its formula
  declares, for the results of its own attempt; no run is forgotten; a repeated request stores nothing.
- *Audit log*: it can be replayed, recomputed and exported, whatever inserts overlap.
- *Hierarchy*: paths follow parents, a rollup is a subtree as long as no code has a dot, an import does not depend on
  the order of its rows.
- *Assurance, surveys, invitations*: what was signed, closed, scored or snapshot stays so,
  and nobody's answer is left out.
- *Sessions*: one usable token per session, none after its end; a tab ends its session for
  a reason only, and its requests neither multiply nor hang.
- *Engine and copilot*: an answer not flagged for review is complete and adds up; slots are
  returned; corrections are kept; every claim the user saw is judged.
- *Web queries*: who changed something sees it, and no page goes back to older data.
- *Read models and catalogue*: pages agree with each other, and lists with the lists they
  refer to.

The hazards, each at its line with the properties that cover it, are listed in
`PROJECT.json`.

## 2. The modules and how they correspond to the code

A handler is modelled as the calls it awaits: a `Begin…` action is the read with
the guards and early returns that follow it, a `Write…` action is the update and
what depends on its result.  What the handler holds in local variables between
two calls is a record in `req[r]` (`pending[r]`, `serving[r]`, `call[r]`, `visit[r]`).  A
guard that fails throws before anything is written, so that it is a `Begin…` that is not
enabled.  `Abandon` is an awaited call that rejects, or a process that stops.  Variables
marked "history" are no state of the program; they say what a property excuses.
`PROJECT.json` maps every definition to its lines.

### From the document to the report

**`MetricWorkflow`** – the abstract specification: the review workflow with atomic
steps (`Edit`, `Submit`, `Approve`, `SendBack`, `Lock`, `Insert`).

**`MetricLifecycle`** – `MetricsService`.  `event[e]` is the row; `req[r]` the
handler in flight; `submitters[e]` is history, everyone who ever was
`submitted_by`.  `Create`, `BulkImport`, `Promote` (of extraction) and
`EmitCalculated` (of a calculation run) insert rows.  `ApprovableBy`,
`Submittable`, `Rejectable`, `Lockable`, `Editable` are the guards.  It implements
`MetricWorkflow` when requests on a row do not overlap (`ImplementsWorkflow`); when
they do, `AssuranceIsBacked` and `SettledRowsStay` say what is left.

**`DocumentIngestion`** – `FilesService` and the engine's endpoint.  `status[d]` is
the row, `batches[d]` the result batches stored for it, `dispatch[x]` how far the
API got with dispatching run x, `job[x]` the engine's task, `call[x][n]` its n-th
delivery attempt.  A reply that gets lost after the commit is `Retry` of a
`committed` attempt; `HandleCallback` may then store a second batch.  `UploadFind`
and `UploadCreate`/`UploadDuplicate` are the dedup by hash with the unique index
(error P2002) behind it.  `latest` and `overlapped` are history.

**`ExtractionReview`** – the rows of one document: `Callback`, `Reprocess`, the
validation job (`JobStart` is the snapshot, `JobFlag` one flag by id, `JobThrows`
an attempt that fails), `ExtractionService` with `WriteApprove`, `BulkApprove`,
`BulkFind`, and `promoteToMetricEvent` as `PromoteSkip`, `PromoteCheck`,
`PromoteCreate`, `PromoteThrows`.  `approvedAs` records the promotable values a
field had while APPROVED, `dropped` the promotions that were given up.

**`ReportGeneration`** – `BrsrService.generate` (`Generate`, `AddJob`), the worker
(`JobStart` resolves the data, `JobPut` uploads, `JobUpdate` records the file and
computes "all done" on the returned row, `JobFlip` sends the report to review),
BullMQ's retries and stalls, and `ReportsService`.  A report has four kinds of
format: the three with a column and `other`, any other string of the request,
which is rendered as XBRL and stored under the column of XBRL but looked for under
its own name.  Without an idempotency key XBRL is queued twice (`"xbrl again"`); with one BullMQ drops every
job whose name is taken, the second for XBRL and whatever another report had with that key
(`JobsFor`).  `object[c]` is the data version the stored file was built from.  `notes` are those
of `narrativeOverrides`: whose `approvalNotes` it holds and who is its `filedBy`; a write puts back, as
the code does, the whole of what its handler read, with its own note changed.  `crossed` is history: an
approval and a filing were under way together.

### Calculations, and what they and the reports rest on

**`FormulaOrder`** – `topoSortFormulas` as a depth-first search: `VisitAll` is a recursive function of the
formulas still to visit, the stack and what is done; `SortIsSound` is its reference definition: inputs
first, refused for a cycle only.

**`FormulaLanguage`** – `cel-evaluator.ts`: `Parse` is the Pratt parser over tokens, and trees are
evaluated to numbers with units, truth values or an error.  The methods of the parser call each other:
`Parser` is one recursive function of the call, that is of the method, the position, the binding power and how many
rounds of the loop of `parseExpression` went before, and `Method` what each does given that function.
The reference is a grammar given
the other way round, by writing a tree with as few parentheses as precedence asks for.

**`CalcRun`** – `CalculationsService.startRun` (`StartRun`, `AddJob`, `AddFails`) and the worker
await by await: `LoadFormulas` sorts, `LoadInputs` takes the snapshot of the data, `EmitOutput` stores one result and puts it into the
context, `SkipFormula`, `WriteRun`, `JobThrows`, `JobStalls`, `JobExpires`.  A formula has the keys it declares (`in`),
by which it is sorted, and those that its expression reads (`reads`), by which it is evaluated: nothing ties the
one to the other.  The value of an event is
the set of events it was summed from.  `Report` and `CreateFormula` are other users at work.

**`Periods`**, **`Units`** – `shared/src/dates.ts` and `units.ts` as functions: fiscal years, quarters,
months, the split of a period; families, factors and conversion.

**`CanonicalMetrics`**, **`BrsrDisclosures`**, **`GriDisclosures`**, **`ClimateDisclosures`**, **`Crosswalks`** –
the catalogue of `packages/frameworks`: each metric with its units and aggregation, each disclosure
with its metrics, formula and template, and the lookups made of them.  These modules are data;
`Crosswalks` has the code that builds the lookups, and the properties that the data have to meet.

**`EmissionFactors`** – the factors of `packages/frameworks` and `packages/shared` with their lookups, and the
ids of the rows that `seed.ts` stores: grid, fuels, potentials in two packages.

### Services

**`AuditTrail`** – an insert is three steps: ids and times are given (`Log`), the trigger reads the
latest committed row (`Chain`), the transaction commits (`Commit`).  `AnchorBegin`, `AnchorTenant`,
`AnchorFails` are the nightly job, `Page` the export.

**`HierarchyTree`** – `create`, `bulkImport` with the search of `FormulaOrder` along `parentCode` and the
transaction that a failed INSERT aborts, `list`, `rollup`, and which moves `validateParentChild` lets
through.  The codes, the nodes there are from the start and the files are constants.  A code is the sequence
of what is between its dots (`LabelsOf`): `create` refuses one with a dot, an import does not.

**`Materiality`**, **`SupplierPortal`** – surveys, responses, assessments and signatures; suppliers,
invitations, the portal, submissions and scores, each as its reads and writes.

**`AssuranceSnapshot`** – extends `MetricLifecycle`: a snapshot is taken of rows whose handlers go on.

**`Sessions`** – `IamService`: `jtis`, `revokedFamilies` and `failed` are the three maps, of each of the
`Replicas`; login and refresh are a look at the maps of the replica that serves them, an awaited user row and a
change of the maps.  `Restart` empties the maps of one replica.

**`WebSession`** – extends `Sessions` with a browser tab: a call of the web server (`visit[r]`) carries the cookie it
was sent with, and is of a page, of the session or of the copilot.  The middleware runs the jwt callback for
each of them, and the routes of the latter two run it again with the same cookie (`RunsOf`, `AfterRun`).  The answer
replaces the cookie, the axios client shares one refresh among the
requests that wait (`refresher`), `getter` is the token `AuthTokenBridge` registered last.

**`ApiRoutes`** – the routes the controllers declare, in their order, and the hooks of the web application
with the endpoint each calls, its key, and the keys its mutation invalidates.

**`QueryCache`** – one entry of the tab's cache: pages that use it come and go (`Mount`, `Unmount`), a request
is answered and arrives later, mutations are sent, applied and succeed, or are lost on
the way.  `ownChange` and `outrun` are history.

**`EmissionRollups`** – `emissions`, `emissionsOverview` with the default periods of both (`resolvePeriod`,
`resolveOverviewPeriod`; `Unasked` is a query without a period), `netZero` of carbon, the
figures of the dashboard and `resolve` of BRSR, as functions of the table of metric events.  The table is a
sequence, in the order in which the database returns its rows; what a query finds is a set of positions, and a figure the sum
of the amounts at them.

### Engine and copilot

**`ExtractionPipeline`** – one document from text layer and Document AI over dictionary, language model and
checks to the response; a document is what the two readings of it yield.  Numbers have decimals, counted in
units of their last place (`Scale` is 1 in them), so that the tolerances of the mapper and of the
checks are those of the code.

**`FieldValidation`** – the coroutines of `validate` that share the slots of a semaphore, with the retries and
the fallback of `LLMRouter`.  A field may come in flagged for review (`needs_review` of the request) and keeps that flag.

**`FeedbackStream`** – the endpoint, the Redis stream with its group, and the consumer: batch, buffer,
acknowledgement, flush.

**`CopilotAgent`** – `BaseAgent.stream` over replies that may be cut off, and `CitationEnforcer`.  The replies
are a constant; what was shown, asked and answered are sets that name the turn and the
place in the reply, as their order decides nothing but the next tool.

### Composition

The components share rows (a promoted or calculated metric event, the data of
a report, the batch of a callback).  `AssuranceSnapshot` and `WebSession` extend the module they
work on; otherwise each module has the other side as an environment action with every
outcome that side can produce: `Promote`, `EmitCalculated`, `DataChanges`, `Callback`,
`FinishExtraction`, `Report`.  `QueryCache` extends `ApiRoutes`, so that what a mutation invalidates is
what its hook says.

`MCMetricLifecycle`, `MCDocumentIngestion`, `MCExtractionReview` and `MCReportGeneration` add the
symmetry sets, the last a bound on the formats.  `MCUndisturbed`, `MCCalcRun`, `MCApiServices` and `MCEngine` put components that do not
share state side by side: the variable `part` says which of them a behaviour is about, the
variables of the others stay as they are, so that the instances are checked one after
the other and not multiplied.  The `…_proofs` modules hold the theorems; `ApiServices_proofs` and
`Engine_proofs` are about the specifications of `MCApiServices` and `MCEngine`, whose components they
take one by one, and `CalcRun_proofs` is about `CalcRun` and the samples of `MCCalcRun`.

## 3. What the runs check

Passing runs:

| Run | Checks | Instance |
|---|---|---|
| `metric_interleaved` | `TypeOK`, `AssuranceIsBacked`, `SettledRowsStay` | 1 event, 3 users, 3 overlapping requests |
| `ingestion_overlap` | `TypeOK`, `PendingIsBeingDispatched`, `ClaimedResultIsStored`, `ResultsAreOfLatestRun`, `ConcurrentUploadsDispatchOnce` | 1 document, 2 uploads, 2 runs, 2 attempts, 1 stop |
| `review_overlap` | `TypeOK`, `EventsComeFromApproval`, `ApprovedIsPromoted`, `MismatchIsFlagged` | 1 field, 2 requests, 2 numbers, job with 2 attempts |
| `report_overlap` | `TypeOK`, `FilesExist`, `ReviewMeansComplete`, `CompleteIsNotForgotten`, `AssuredByOther`, `FiledCarriesNotes` | up to 2 of 3 formats, one of which always fails, 2 requests, 2 users, 2 attempts, 1 fault, data that changes |
| `undisturbed` | `ImplementsWorkflow` (refinement), `NeverTwoEventsPerExtraction`, `IngestionSettles` and `ReportLeavesDraft` (liveness) | 2 events and 1 field with one request at a time; 2 runs without a stop; pdf, xlsx and an unknown format with 2 faults |
| `calc_runs` | `TypeOK`, `StoredResultsAreSound`, `RunsAreAccountedFor`, `QueuedJobsEnd` (liveness); and of samples `FormulasAreSound`, `CatalogueIsSound` | 2 runs with 2 attempts, 3 keys, 1 fault, 1 reported event, a formula that is added |
| `api_services` | `AuditIsSound`, `SessionsAreSound`, `BrowserSessionIsSound`, `HierarchyIsSound`, `EngagementsAreSound`, `RollupsAgree`, `WhatIsOverStaysOver` | 2 requests everywhere; see below |
| `engine` | `PipelineIsSound`, `DialogueIsSound`, `FeedbackIsKept`, `ValidationIsSound`, `ValidationEnds` (liveness) | see below |

A property of a run over several parts is the conjunction of named properties of the
component modules, which say what each is about:

- `AuditIsSound`: `LinksReachGenesis`, `OrderedInsertsMakeAChain`, `AnchorsStayTrue`, `ExportIsComplete`.
- `SessionsAreSound`: `OneUsableToken`, `EndedStaysEnded`.
- `BrowserSessionIsSound`: `SessionEndsForAReason`, `AtMostFourSends`, `WaitersAreServed`; `OwnChangesAreShown` of
  `QueryCache`.
- `HierarchyIsSound`: `PathsFollowParents`, `RollupIsSubtree`, `MovesChangeNothing`, `ImportIsOrderFree`.
- `EngagementsAreSound`: `AssessmentCountsAll`, `AnsweredOnce`, `SnapshotCanBeVerified`, `ClosedAtIsOfClosed`.
- `RollupsAgree`: `PagesAgree`, `ScopesAgree`, `YearHoldsItsEvent`, `AnswersAreStable`, `PathwayMeetsTarget`.
- `WhatIsOverStaysOver` (action properties): `DeactivatedGetsNothing`, `LockHolds`, `ClosedSurveysStay`,
  `SignaturesStay`, `ArchivedStays`, `ScoreMovesOn`, `ClosedExceptionsStay`, `SignOutHolds`,
  `ShownNeverGoesBack`.
- `PipelineIsSound`: `ReadyIsSound`, `EscalationHelps`, `FailsForAReason`, `MetersAlwaysBalance`.
- `DialogueIsSound`: `DialogueIsWellFormed`, `EveryClaimIsJudged`, `StopsAtTheCapOnly`.
- `FeedbackIsKept`: `AckedIsKept`, `PendingIsInHand`, `StoredOnce`.
- `ValidationIsSound`: `SlotsAreReturned`, `AnswerIsSound`.
- `StoredResultsAreSound`: `ComputedFromOneAttempt`, `OneResultPerAttempt`.
- `RunsAreAccountedFor`: `PendingHasReason`, `RepeatStoresNothing`, `RowNamesStoredOutput`.
- `FormulasAreSound`: `SortIsSound`, also of every list the runs can sort (`SortsAreSound`), `WrittenIsParsed`,
  `ParsedIsWritten`.
- `CatalogueIsSound`: `FiscalYearsTile`, `MonthsTile`, `UnitIsResolved`, `UnitsOfMetricFit`, `CrosswalksAgree`,
  `DisclosureIsAnswered`, `SumsRollUp`, `FactorsAreSound`, `RouteIsReached`, `HookIsServed`, `KeysAreDistinct`.

Why the bounds are enough.  A race needs two handlers on one row, and the third
request of `metric_interleaved` adds the chains (submit, submit, approve) that need
three people; rows do not interact, so one event is enough there, and two are used
where the refinement has to keep them apart.  Two runs and two attempts give every
order of an overtaken run's callback, its repetition and the new run's; a third run
repeats what the second does to the first.  One stop covers each loss of in-memory
state, at every point.  For reports two formats (`MaxFormats`), which are up to three jobs, give a last job, a job that is not
last, two that share a column (where the data changes, of one format less, `FewFormats`), and, in the pdf, one that dies without a fault; the fault
interrupts or stalls another.  Three formats at once are in `undisturbed`.  Two faults, with which any job dies, are in `undisturbed`.

`calc_runs`: a second run on the same key and period is enough to repeat a request and to
read the first one's outputs; a chain of two formulas and a second formula for the last key
show order, context and duplicates, and one of them reads a key it does not declare.  The pure parts are evaluated on whole samples: all
lists of up to three out of seventeen formulas, all trees of two levels of operators, all
texts of up to five tokens of eight (trees may be sixteen high, as the highest
formula of a disclosure is), instants around a leap day for twelve fiscal years,
periods of up to a year, and every unit, metric, key, disclosure, factor, route and hook there is.

`api_services`: three rows of the log with one tenant, as chains of tenants do not meet, and two
days, which the clock's four half-days are; tokens of one user, as maps are indexed by user or token,
with three generations of them, which is the login, a refresh and a refresh of either; two replicas, one of
which (`Home`) issues all of them, while the other may be asked to refresh or to end what it does not know
(`OneReplicaIssues`; failed logins, which do not touch the maps of tokens, are counted while there are fewer
than three tokens, `CountsEarly`); imports whose
rows are out of order, refused, taken, cyclic and with a dot in a code; one or two metric events of two nodes at the turn of a fiscal
year for rollups, where each service filters and adds per event.  The tab has one request under way
and two tokens: the retry after a refresh is where requests multiply, and two
session calls are where a refresh overlaps.  There (`TabIsSmall`) either the user is deactivated or the replica that issued the tokens restarts,
both of which make it refuse the token; calls that overlap are session calls, beside which a request
of the client waits if there is one; and a page or the copilot asks while the client has no request.  An entry of the cache is that of a list or of one file, which
mutations with either of two ids invalidate or do not; the data change twice, once by the
tab and once by another or by the tab again, as an answer can be older than one
change and newer than another.

`engine`: bills with up to three readings of a field and meters with decimals (`Scale`), the combinations of which are the initial
states (without a text layer only one of the two readings of a file is asked for, and the other is blank); replies with text and tools in either order, whole and cut off, for three turns, so
that the cap comes; three corrections, which is a batch with something handled and something
not, and two faults; two fields for one slot, so that one waits while the other retries.

The proofs of section 4 hold for every size.

Bounds that are no part of the code: `Runs` and `MaxRuns`, `MaxCrashes`, `Callbacks`, `MaxData`,
`MaxFaults`, `MaxReported`, `MaxRows`, `MaxNow`, `MaxTokens`, `TabTokens`, `CountsEarly`, `OneReplicaIssues`, `TabIsSmall`, `MaxFormats`, `FewFormats`, `Keyed`, `MaxResponses`, `MaxMessages`,
`MaxSeconds`, `MaxVersion`, `MaxHeight`, `TextLength`, `Params`, `Watched`, and the sizes of the sets.  `MaxAttempts`, `JobAttempts`, `Attempts`, `MaxFailures`, `MaxTurns`,
`BatchSize` and `Slots` are parameters of the code, smaller here.  Deadlock is not checked: in every model
the work there is room for can be used up, which is no error.

Fairness.  `DocumentIngestion!Fairness`: an awaited POST or update ends, an
extraction ends, and a delivery attempt ends at its timeout; nothing makes a
callback arrive.  The code justifies it: the engine answers `202` before it
extracts, `extract_endpoint`'s task ends in a callback on success and on every
exception, and the HTTP client has a timeout.  `ReportGeneration!Fairness` and
`CalcRun!Fairness`: an awaited `queue.add` ends, a worker takes up a queued job, and an attempt ends, in
success or failure; BullMQ does that for every job in Redis.  `FieldValidation!Fairness`: a call of a model
ends, as it has a timeout, the event loop goes on with every coroutine that can, and `gather`
returns.  No fairness is assumed of users, and none between success and failure.

Symmetry is used in runs of safety and action properties only: users and requests are told
apart by nothing but their names.  In `api_services` the calls that write the log bear the names of the
requests, which are of other parts, so that one permutation is enough.  Where liveness is
checked, renamed behaviours are left out by an order: the first run of a document is always the same one
(`FirstRunFirst` of `MCUndisturbed`), and the r-th calculation run has one of the first r idempotency keys
(`KeysInOrder` of `MCCalcRun`).  Neither takes a step from a behaviour that is not taken under
another name.

Runs that TLC must find violated (`metric_immutable`, `ingestion_limbo`,
`review_duplicate`, `report_anchor`) are in section 5.

## 4. What is proved

TLAPS checks these for any sets of users, requests, documents, fields, tokens and attempts, and
any bounds, from the assumptions named in each module (empty markers are not
members, attempts are positive, the fields of a request are finitely many):

| Module | Theorems |
|---|---|
| `MetricLifecycle_proofs` | `TypeCorrect`, `AssuranceBacked`, `SettledStays`, `SerialRequestsImplementWorkflow`, `UndisturbedPromotesOnce` |
| `DocumentIngestion_proofs` | `TypeCorrect`, `PendingDispatched`, `ClaimedStored`, `StoredResultsAreLatest`, `UploadsDispatchOnce` |
| `ExtractionReview_proofs` | `TypeCorrect`, `EventsApproved`, `ApprovalsPromoted`, `MismatchesFlagged`, `OnePromotionAtATime`, `SerialReviewsPromoteOnce` |
| `ReportGeneration_proofs` | `TypeCorrect`, `FilesStored`, `ReviewsAreComplete`, `CompleteNotForgotten`, `AssuredByAnother`, `FilingsCarryNotes` |
| `FormulaOrder_proofs` | `SortSorts` |
| `CalcRun_proofs` | `CalcRunTyped`, `RunsAccounted`, `RunsSort`, `ResultsAreSound`; of the language of formulas `TreesAreParsed`, `TextsAreFormulas`, `FormulasHold`; of the periods that runs are of `FiscalYearsTileTime`, `MonthsTilePeriods` |
| `ApiServices_proofs` | of the sessions `TypeCorrect`, `TokensOfASession`, `NothingForTheDeactivated`, `LocksHold`; of what reads metric events `PagesShowTheSame`, `ScopesMayDiffer`, `YearsHoldTheirEvents`, `AnswersDoNotDepend`, `PathwaysMeetTargets`; of all services `ServiceSessionsAreSound`, `AuditHolds`, `HierarchyHolds`, `EngagementsHold`, `BrowserHolds`, `RollupsHold`, and of the action property `WhatIsOverHolds` |
| `Engine_proofs` | `AnswersAreSound`, `DialogueHolds`, `CorrectionsAreKept`, `RequestsAreValidated` |

The arguments.

*Assurance.*  `AssuranceIsBacked` is not inductive: an approve that is in flight
carries a check made on an earlier row.  `BackingInv` adds what that check still
guarantees.  An approver passed `submittedBy # actor` on a row whose submitter
entered `submitters[e]`, and that set only grows; so whoever approves finds another
person in it, whatever submits come between.  `submittedBy` itself gives no such
guarantee, which is why the property speaks of the history.

*Settled rows.*  With no request in flight on an assured row only `lock` passes its
guard, so the next write there can only be that of a lock.

*Refinement.*  `SerialRequestsImplementWorkflow` needs `NoOverlap` (at most one
request at a time) and `GuardsHold` (what a `Begin…` checked is still so when its
`Write…` comes), from which each `Write…` is a step of the workflow and each
`Begin…` stutters.  Without `NoOverlap` it is false: `metric_immutable`.

*Ingestion.*  `UnusedRunsAreIdle`, `LatestRunsMatch` and `OnlyLatestAtWork`: a run not
yet started has no traces, `latest[d]` is a run on d, and unless a reprocess overtook
a run, the latest is the only run of the document at work.  The last carries
`ResultsAreOfLatestRun` through callbacks, the reset in `reprocess` carries
`ClaimedResultIsStored`.

*Review.*  `HeldWasApproved` says a request that promotes holds a row whose value is in
`approvedAs`; `ApprovedIsOwned` that an approved field without an event is with a
request or was dropped; `AttemptsLeft` that a live job can go on.

*One event per extraction.*  Two requests that both found no event both create one
(`review_duplicate`).  `CreatesTheFirst`: as long as one at most is between its search and its
create, it creates the first, as nothing else creates events of extractions.
`OnePromotionAtATime` assumes just that of a behaviour, `OneCreatesAtATime`; with one request at a
time it is so (`SerialReviewsPromoteOnce`), and so in `undisturbed`, whose reviews are this module's
(`UndisturbedPromotesOnce`).

*Reports.*  `UploadsComeFirst` (a job past its upload has its object stored),
`ReadyMeansComplete` (a job that decided to send the report to review saw it
complete, and files are never removed), `SomeJobWillFlip` (a complete DRAFT report
has a job that is ready, one not yet at its update, or a dead one),
`ApprovalsByOthers` and `NotesAccumulate` (an approve in flight is by somebody else
than the author; the note in the row is that of its approver, and so is the one a filing in flight
holds, unless an approval and a filing were under way together: until then the one that is under way is alone
in writing it).

*Calculation runs.*  `LastIsStored`: what a job at work holds as its last output is in the table, and
that of its own run and attempt, as ids are new and rows stay; `RowIsWritten` carries it to the row.
`OnlyJobsStore` and `OneJobPerKey`: outputs are those of jobs that were in Redis, of
which an idempotency key has one at a time, so that a repetition has results only after the
first was forgotten.  `DroppedHasReason`: a run without a job lost it in `queue.add`, to a job with its
key, or in the end.

*Results.*  `SoundInv` says of a job at work (`JobIsSound`) that what it still has to do is the rest of an
order in which declared inputs come first, that for each key its context has this attempt's result or what was read of the data, and that
what the attempt stored is what it has done; `EventIsSound` says of a stored
result that it was summed from the events its attempt had.  For a key that is declared the results of the attempt are all
there when the formula's turn comes; for one that is only read they may come later (`FromOne`).  Ids of events are new, so a
result of an earlier attempt is never taken for one of this.  That the order is
one with inputs first is `RunsSort`, which is `SortSorts` of the lists a run can load.

*Sorting.*  No prover here can compute anything of a recursive function, or use an induction rule.
`Recursion` therefore says of any body `H` over a well-ordered domain that the function it defines is
there, if `H` asks for values below only (`Depends`; a least point without a solution refutes the
opposite), and `Induction` the same of what the function does.  The calls of the search are ordered
by the keys that are not on the stack, then by the formulas still to visit (`Within`, `CallsEnd`), so that
`VisitAll` is what its body says (`VisitAllIs`).  `Ends` is what a call does for its caller, by
induction (`CallsEndRight`): what was done stays and is in order, what was to visit is done, and nothing more
of the stack is.  A call has a chain (`IsChain`): a key of the stack is computed from another, and the last
from those to visit, so that a formula found on the stack is in a cycle (`FoundOnStack`); and an order with one formula for each key has none (`OrderedIsAcyclic`).

*The language of formulas.*  A method calls others further on, or, at the same position, one that comes before it in
the grammar, so that `Rank` falls with every call and `Parser` is what its body says (`ParserIs`, from
`Recursion`; `MethodAgrees` says that a method looks at no other call).  That gives both directions.

- *What is written is read* (`TreesAreParsed`).  `Readable` says more than the property: a tree is read wherever its text
  occurs in a text, by every binding power its level allows, if what follows does not go on with it (`Stops`).
  That is needed of the parts of a tree, and passes from them to the whole (`UnaryReadable`, `BinReadable`, `CondReadable`,
  `CallReadable`), as parentheses stand where the level of a part is too low (`PlacedIsRead`), and a list of
  arguments is read one by one (`ArgsAreReadable`).
- *What is read is what is written* (`TextsAreFormulas`).  `Fits` says of what a method returns that its tree
  is one of the language, is no higher than the tokens that were read, and is written, but for parentheses, as they are.
  It holds of the rounds of an expression, one after the other (`RoundFits`, `ExpressionFits`), and by induction over the
  position, from the end backwards, of every call (`AllFits`).

Trees are of height `MaxHeight` at most, as TLA+ has no set of all of them; the theorems hold for every `MaxHeight`.
`FormulasHold` needs no more than that samples stay what they are.

*Sessions.*  `TokensAreIssued`: a token is known at most to the replica that issued it, its home, which is that of
its family too, so that no other replica accepts it; `OneLiveToken`: of a family one token is live at most unless refreshes
overlapped, as `Rotate` marks one before it issues the next, `RefreshIsAlone`: a refresh
that passed the check is alone with its token, or its family is among the overlapped;
`EndedIsForgottenAtMost`: a restart forgets that a family was revoked, and with it its
tokens, so that they are unknown instead of revoked; `FoundWasActive`: a handler that
found the user active read the row before a deactivation.

*The services of the API.*  `ServicesInv` has one part per component; in a behaviour that is about
another, the variables of a component stay as they began, so that its part holds all along.

- `AuditInv`: `InsertsAreNew` – an insert in flight was logged at this clock tick or the last, its id
  is in no row, and what the trigger linked it to is committed; from it links reach the genesis
  hash, each to an older row.  `AnchorsArePast`: an anchor is of a day that was over before the last
  tick, so that no insert in flight is of it (`PastWindow`).  `ChainsAreOrdered`: the rows of a tenant whose inserts
  were in order are one chain.  `ExportReads`: an export is in order and has every row that was there when it began, but those
  after its last.
- `HierarchyInv`: the table is a tree (`IsTree`), and so was the one an import began with.  A node that
  may be where it is keeps it one (`TreeGrows`), which an import does for each of its rows
  (`ImportedIsTree`).  `RollupsAreSubtrees` and `MovesAreNone` hold of any tree.  For `ImportIsOrderFree`, what an
  import leads to is said without an order: `IsResult` relates the nodes after it to those before and the
  *set* of rows, each of which is added just when its parent, before or added, lets it.  A file
  in order leads to its result (`ImportGivesResult`), and to no other (`ResultIsImported`); that the sort puts a
  file in order, or refuses it in every order, is `SortSorts` (`SortedIsOrder`, `CycleIsOfRows`).
- `SurveyInv`: `AssessedIsClosed`, `CountedIsComplete` – who counts the responses has read a closed survey,
  and what comes later was let in before.
- `PortalInv`: `SubmitsAlone`, `ScoresAlone` – a handler that read an open invitation, or a score, is alone with
  it unless the history says that two overlapped.
- `AssuranceInv`: `MembersAreSettled` – an event of a snapshot is assured, has the value it had, and no request but a
  lock is under way on it, unless one was at the time; `ResponsesAgree` – who read a closed
  exception writes it back as closed.  It rests on the types of the metric events.
- `CacheInv`: data shown, data answered and own changes are in the order of their versions.
- `TabInv`: `SendsAreFew` counts what is left of the four sends by the step a request is at;
  `WaitersHaveACall`: the refresh that requests wait for is a call under way; `SignedOutIsLeft`: after a
  sign-out, calls that could bring a session back are among those that were under way; `SessionIsGood`: unless there is a reason
  for an error, no family was revoked, the cookie is a live token when no call is under way, and a call that is
  under way is the only one and carries, or is to set, a live token (`GoodVisit`).  It rests on the
  invariant of `Sessions` above, as every step of the tab is a step of `Sessions` or leaves the API alone.

*Rollups.*  Every figure is a sum over a set of rows.  `SumIs` and `SumWith` say what the
fold of the community modules is over a finite set and one element more; by `SetInduction` two disjoint sets add up
(`SumOfUnion`), a sum is the sum over its parts by month or key (`SumOfParts`), and the order of the rows plays no role
(`SumRenamed`).  What remains is which rows are found: those of a fiscal year have their
ends in its twelve months (`MonthsOfYear`), so that the months of one page and the sparkline of the other
are the same (`PagesShowTheSame`), and sets of keys without a common one make the total.
The overview and the pages of the scopes find the same rows if they take the same period (`ScopesMayDiffer`).
The sums of `resolve` do not depend on the order of the table; of LATEST, FIRST, MIN and MAX `IsAnswer`
says what may come out, of which there is one if no two rows end together
(`OneAnswerOfRows`).  The pathway of a target is linear in the year, and ends at the target (`PathwaysMeetTargets`).
None of this assumes anything of the table but what `IsLedger` says: the invariant of `RollupsHold` is that the table of
the behaviour is one of `Ledgers`.

*Periods.*  Each is stated of any table of days per month and any
year of the calendar, not of the samples that TLC takes.  A fiscal year begins on its configured day, which every month has
up to the 28th; years are in order (`YearsGrow`, with the days of a year bounded by those of its months), so that an instant is in one of
them, and the one that `getFiscalYear` chooses by month and day is that one
(`FiscalYearsTileTime`, but for the first and the last year of the calendar).  Months are in order too (`MonthsGrow`), an instant is in the month that holds it
(`MonthHolds`), and the parts of a period have as many days as the period, as the days of each are the
difference of its ends (`MonthsTilePeriods`).

*The pipeline.*  `SoundReading` is what `RunDI` gives of any layout (`RunIsSound`), `SoundAnswer` what `Process`
makes of two readings (`ProcessIsSound`), and `PipelineInv` that the answer is none or made so.  The checks
look at values and `score` at confidences (`ChecksSeeValues`), so that what `Ready` saw of the scored document
holds of the one that is sent.  A confidence is a sum over the fields divided by that of their weights:
`SumsExist`, `SumIs` and `SumBound` say of the fold of the community modules over a finite set what it is and that the
former is at most a thousand times the latter, by a least counterexample (`LeastOf`, from `WFMin`: the size of the
set is the number that falls).  It is assumed of the model that its confidences are from 0 to 1, as
the prompt of `fill` asks.

*The copilot.*  `TurnsAreTaken`: user and assistant speak by turns, and uses are answered by their results;
`AskedOnce`: the length of the dialogue counts the turns; `ToolsAreAsked`: while tools run, the last
message has the ids of their uses, one of which at least waits; `TurnIsNew`: when the model is
asked, nothing of this turn is in the log.

*Corrections.*  `DeliveredInOrder`, `BatchHasNoRepeats` and `UnhandledIsNowhere`: a message is handled in the one
batch it was delivered in, and is in no object before; `FlushIsAlone`, `MemoryIsNotStored`: what a flush writes was taken out
of the buffer and is under no key yet, unless a put was unsure.

*Validation.*  `FieldIsSound` relates the stage of a field to its opinion, calls and flag; slots are counted by
`free = Slots - Cardinality(Holding)`, which a step changes by one member (`OneMember`).

Only model-checked:

- liveness under fairness (`IngestionSettles`, `ReportLeavesDraft`, `QueuedJobsEnd`, `ValidationEnds`), which is out of
  the prover's reach;
- `CatalogueIsSound`, which is about data: TLC evaluates it on all there are.  What it says of fiscal years and
  months is proved for every calendar (`FiscalYearsTileTime`, `MonthsTilePeriods`).

## 5. Where code and documentation disagree

Each of the first four has a run in which TLC finds the disagreement.

1. `metric_immutable`: "APPROVED/LOCKED are immutable" (`audit_status.md:356`).
   An update or reject that read the row before its approval writes after it.
2. `ingestion_limbo`: "never leave the doc in CLASSIFIED limbo" (`extract.py:86`).  The
   dispatcher's own write of CLASSIFIED may come after the callback's.
3. `review_duplicate`: "never create two metric_events for the same extraction"
   (`extraction.service.ts:208`).  Two approvals at once both create one.
4. `report_anchor`: "100% reports reproducible from snapshot hash" (`MODULES.md:462`).
   The jobs of a spreadsheet and of XBRL each resolve the data for themselves; when it changes between them
   the two files are of different data, and the row has the hash of one.

The models show more of the kind, without a run of their own.

Events and reports:

- Segregation of duties (`metrics.service.ts:224`): a submit that read the row while it
  was DRAFT writes `submittedBy` after an approval; submitter and approver are then
  the same in the row.
- A rejected, corrected and re-approved field: the event of the first approval is found
  (`extraction.service.ts:213`), the corrected value is in no event, against :153-154.
- `reprocess` deletes rows that metric events refer to (`files.service.ts:367`), against
  the lineage promised at `extraction.service.ts:199-201`.
- A requested pdf never lands: `buildPdf` has no `bufferPages`, `switchToPage(0)` throws
  (`brsr-report.processor.ts:149`), although `audit_status.md:282` says it was added.
- "Only completed, reviewable states can be approved" (`reports.service.ts:49`), but DRAFT
  is in the set of line 51.
- "Report already filed" (`reports.service.ts:47`), but an approve, or the worker's flip,
  that read the report before writes after the filing: FILED becomes APPROVED or
  IN_REVIEW.
- A filing that read the report before a second approval was written puts the note of the first approver back,
  under the name of the second (`reports.service.ts:62-72`, `90-99`).
- A calculation may sum data that its own run has outdated: `inputs` of a formula is optional
  (`calculations.dto.ts:53-57`, `calculations.service.ts:61-62`), `createFormula` looks at the syntax only
  (`:33`), and the worker sorts by `inputs` but evaluates over every key there is (`calculation.processor.ts:147-153`).
- Two submissions of one invitation at once are both stored (`suppliers.service.ts:202`), and the score is that of the later
  write.  A `queue.add` that fails after the report was created leaves one that is never built
  (`brsr.service.ts:341`), and that the unique index keeps from being generated again.
- `resolve` (`brsr.service.ts:141-`): WEIGHTED_AVG and COUNT are sums; LATEST and FIRST take
  one of several rows that end together, as the database happens to return them.

Formulas and catalogue:

- A composite unit is only written out: `kWh * kgCO2e/kWh` is not reduced
  (`cel-evaluator.ts:17`, `combineUnits`), and `5 + x` has no unit where x has one.  `coalesce`
  evaluates all its arguments, so that an error in a later one throws.
- "golden wins" (`crosswalks/index.ts:176`), but the golden table is merged; it claims that
  electricity answers nine disclosures that do not map it.
- "to bring the count to >200" (`brsr.ts:1686`): there are 155.
- "conversion happens on ingest" of `allowed_units` (`canonical/metrics.ts:90`): 26 of them
  `units.ts` cannot convert to the canonical one.  A volume of water in "ml" is read as
  millilitres, where the metric means megalitres.  `ghg_intensity_per_unit_output` does not allow its own unit.
- `P3.E.11.b` counts, and its formula is that of a frequency rate; `{{calc.*}}` of templates is defined nowhere.
- A fiscal year that starts after the 28th: `dates.ts` has years that overlap or leave a gap at
  short months.

Emission factors:

- The two packages differ in SF6 of AR6 over 100 years (24300 and 25200) and HFC-23 over 20 (15300 and 12700).
- Blends under AR5 (R-404A, R-407A and others) carry the figures of AR4; R-507A under AR6 is 4282, its
  constituents weigh to 4775, though `ipcc-gwp.ts` says "weighted from constituents".  The seed's
  refrigerants "AR5" (1430, 675, 14800) are of AR4, and its methane of 27.9, "fossil", is that of unknown origin.
- LPG is 1.51 per kilogram in `defra.ts` and 1.5571 per litre in `seed.ts`.
- `getCeaFactor` never falls back to the region, and takes no account of the year for a state it
  knows, against its comment (`cea-india.ts:121-`).

Web queries:

- Three hooks call what no route serves (`Unserved`): `PATCH tenants/me/settings`, `GET carbon/macc`, `POST reports`.
- A first request, or one whose page was left, is not asked again by an invalidation that overtakes it: its
  older answer is stored as if it were new (`outrun`).  A mutation whose answer is lost invalidates nothing.
- `useApproveField` leaves the file, its extractions and the metric events in the cache as they were, `useEditField` the
  counts, `useGenerateReport` and `useInviteSupplier` the one report and supplier.

Read models:

- The CEA factor "only" without a direct event of Scope 2 (`carbon.service.ts:114-117`,
  `dashboard.service.ts:14-16`): it is always added.
- The total of the dashboard has Scope 2 by location and by market; that of carbon has one.
- The fiscal year ends at 23:59:59.000: an event that ends later in that second is in no year, and one
  that began in the year before is not shown in the year it chose.
- `netZero` takes its baseline from events of any status, and neither current emissions nor
  abatement, which its comment mentions.

- By default a page of a scope is of the fiscal year of today (`carbon.service.ts:183-194`), the overview of that of the latest
  event (`:144-168`), and `useScope3` asks for no period (`queries/index.ts:417-420`): when the latest data are of a
  year before, the page is empty beside an overview that is not.

Hierarchy, audit, people:

- `validateParentChild` compares the types of two enumerations that share only GROUP: no move that it
  lets through changes anything, and the documented table of parents and children is not enforced.
- The code of a row of a CSV file is not held against `CODE_RE` (`hierarchy.dto.ts:28`, `102-109`; `hierarchy.service.ts:295-300`):
  with a dot in it `rollup` counts the node under another whose path it continues, and two nodes may have one path, which
  `create` refuses.
- `list` with `scopeNodeId` takes a sibling whose code begins with the node's for a descendant.
- Two inserts into the audit log at once have one predecessor (`migration.sql:452`), so that the
  chain is a tree.
- The counter of failed logins is meant "for a single API replica" (`iam.service.ts:31-35`), as are, without
  a word, the maps of tokens beside it, and `infra/k8s/helm/api/values.yaml:6` deploys six: a logout that another replica serves ends nothing, and tokens stay usable where they were issued; a
  refresh or the reuse of a token at another is refused as not recognised, so that the session ends in the browser, and a reuse
  there is not noticed as one; an account is locked at one replica at a time.
- "transparently refreshes" (`config.ts:7-8`): two session calls at once burn the session, and so does one, if it is a session call
  and not a page that finds the access token expired: the middleware refreshes and then the route again, with the same
  cookie (`middleware.ts:29`, `46-49`).  What `auth()` gets for the route of the copilot it keeps to itself.  The client does not call
  its logout on a 401 after a refresh, though `providers.tsx:65-68` says so; `signOut` never
  tells the API; the request that is retried may carry the token of the getter, which is the old one.

Engine and copilot:

- A confidence of the language model that is no number makes a document fail whose text layer
  was read; one field's garbled opinion fails the validation of all of them.
- A row of numbers is a meter if consumption is the difference of its readings to within 0.5 (`mapper.py:138`), so that the check of
  readings (`validate.py:64`) cannot fail, and the multiplying factor of a bill that has another is lost: what is taken for it is
  1 or, of a small difference, the first number that differs little enough from 1.
- A text block after a tool block ends the answer with a KeyError.
- A citation counts as "actually fetched" (`citation_enforcer.py:161`) though the call failed.
- `copilot.service.ts:87` posts to `/chat/stream`, which the copilot does not have; replies are not stored.

## 6. What is not modelled

- Tenants, roles, input validation, pagination, formatting.  The models look at one
  tenant and requests that pass validation.  Row-level security is a filter of queries,
  taken as given.
- Values and units beyond what a property tells apart: a number or not, a unit allowed
  or not, the events a number was summed from.  Decimal arithmetic is that of integers or
  fractions (of bills, of decimals with as many places as `Scale` has), and rounding, of floats too, is left out; in
  formulas so are strings and `round`.
- The heuristics of the extractors and the agents that no endpoint reaches
  (`rules_engine.py`, the older `DocumentOrchestrator.extract` but for its callback), and rate
  and budget limits, which no request that is served calls: what is not run has no behaviour.
- What language models, Document AI, retrieval and tools answer: any of the outcomes the code
  tells apart.
- The content and layout of report files: a version number of the data, and `resolve` in
  `EmissionRollups`.
- Rows that are only inserted, updated by id or deleted, and that nothing else decides on: targets, abatement
  projects, credits, topics, stakeholder groups, data sources, conversations, roles.
- Audit rows are modelled where they are chained, not at each of the handlers that write one,
  which is best effort.
- The bucket of uploaded documents: an object without a row is read by nobody.
- `bulkImportXlsx` when one row fails in the database: the transaction is aborted and
  commits nothing, which PostgreSQL decides; the model has the imports that commit.
- Access tokens and the expiry of refresh tokens at the API; other tabs of the same session share its cookie and are
  session calls of the one modelled.
- Path filters are tests of prefixes; that `_` is a wildcard of the LIKE which Prisma makes of them is left out.
- `MetricsService.create` may name an extraction in `sourceExtractionId` (`metrics.service.ts:115`): then a client, and no
  promotion, made the event.
- A POST to the engine whose sender stopped, or gave it up, is accepted before that or not at all; a callback without fields
  counts as a batch.  The last flush of the consumer of corrections may follow a put that is under way.
- A conditional or `&&` in a formula leaves keys unread in some evaluations; of a formula `reads` is one set.
- Documents as citations, events and given histories of the copilot.
- GraphQL, health, pages and components of the web application, which show what their hooks give; the
  Temporal client, a stub; deployment, seeds, scripts and tests.
- `getCanonicalKeysForDisclosure` and the texts of the catalogue.

The statuses in `PROJECT.json` say for each component what is in and what is out.

## 7. Plan

Done, in this order: `MetricWorkflow` and `MetricLifecycle`, `DocumentIngestion`, `ExtractionReview`,
`ReportGeneration`; then `FormulaOrder`, `FormulaLanguage` and `CalcRun`, `AuditTrail`,
`HierarchyTree`, `AssuranceSnapshot`, `Materiality` and `SupplierPortal`, `Sessions` and `WebSession`, the
catalogue with `Units` and `Periods`, `EmissionRollups`, `ExtractionPipeline`, `FieldValidation`, `FeedbackStream`,
`CopilotAgent`; `EmissionFactors`, `ApiRoutes` and `QueryCache`.  The theorems came with each part, those of the services,
the copilot, the results of calculations, the sort and the hierarchy, and then the rollups, the periods and
the language of formulas last.

What is left, by what it would add:

1. `DocumentIngestion` composed with `ExtractionReview`, the batches of one being the callbacks of the
   other; `ReportWorkflow`, an abstract specification that `ReportGeneration`
   implements for serial requests.
2. Update and delete of hierarchy nodes, targets and abatement projects of carbon, should
   something come to depend on them.
