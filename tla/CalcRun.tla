-------------------------------- MODULE CalcRun --------------------------------
(***************************************************************************)
(* Calculation runs over one scope and period: CalculationsService creates  *)
(* a calc_run row and queues a job; the worker of CalculationProcessor      *)
(* reads the formulas, sorts them, sums the assured metric events by key    *)
(* and evaluates formula after formula, storing each result as a metric     *)
(* event that is APPROVED from the start; BullMQ retries a job that throws  *)
(* and runs a stalled one again.                                            *)
(*                                                                         *)
(* Numbers are abstracted to where they come from: the value of an event is *)
(* the set of events summed for each key its formula reads.                 *)
(***************************************************************************)
EXTENDS FormulaOrder, SequencesExt

CONSTANTS
    MaxRuns,        \* how many calc_run rows there are (a bound)
    Keys,           \* canonical keys
    Factors,        \* the keys that name emission factors
    Formulas,       \* the formulas there can be, see Formula
    Seeded,         \* those that are there from the start
    Fragile,        \* the formulas whose arithmetic can fail, as a division can
    BuiltIn,        \* the built-in formula of ghg_scope2_location
    RequestKeys,    \* the sets of output keys that clients ask for
    IdempotencyKeys, \* a request without one is a request with a key of its own
    Reported,       \* the <<key, unit>> of metric events people get approved
    Attempts,       \* attempts of a job (3 in the code)
    MaxReported,    \* how many such events there are (a bound)
    MaxFaults       \* how often a call throws or a process stops (a bound)

\* calc_run rows, in the order of their creation.
Runs == 1 .. MaxRuns

Units == {f.unit : f \in Formulas \cup {BuiltIn}} \cup {p[2] : p \in Reported}

\* A FrameworkMapping row with a formula: in are the inputs it declares, reads the keys its
\* expression refers to, which nobody compares; the unit is that of the result.
Formula == [id : {f.id : f \in Formulas \cup {BuiltIn}}, out : Keys, in : Seq(Keys),
            reads : SUBSET Keys, unit : Units]

ASSUME CalcAssumption == /\ Formulas \cup {BuiltIn} \subseteq Formula
                         /\ IsFiniteSet(Formulas)
                         /\ \A f, g \in Formulas \cup {BuiltIn} : f.id = g.id => f = g
                         /\ Seeded \cup Fragile \subseteq Formulas
                         /\ Factors \subseteq Keys
                         /\ RequestKeys \subseteq SUBSET Keys
                         /\ {p[1] : p \in Reported} \subseteq Keys
                         /\ Attempts \in Nat \ {0}
                         /\ MaxReported \in Nat
                         /\ MaxFaults \in Nat
                         /\ MaxRuns \in Nat

VARIABLES
    formulas,   \* the formulas there are
    metric,     \* the APPROVED metric events, by EventId
    run,        \* run[r]: the calc_run row r, or NoRun
    job,        \* job[r]: the BullMQ job of run r
    faults      \* how many calls threw or processes stopped

vars == <<formulas, metric, run, job, faults>>

NoRun == [requested |-> "absent"]

\* Which event it is: of which run, attempt and formula; those people reported, which
\* have no run, are numbered.  (The rows have the run and the formula.)
EventId == [run : {0} \cup Runs, attempt : Nat, formula : {"none"} \cup {f.id : f \in Formulas \cup {BuiltIn}}]

NoEvent == [run |-> 0, attempt |-> 0, formula |-> "none"]

\* formulaVersionId is 'pending' from the start; output is the event that the row has
\* key, value and formula of, NoEvent when no formula succeeded.
Run == [requested : SUBSET Keys, idempotencyKey : IdempotencyKeys,
        pending : BOOLEAN, output : EventId]

\* from: the events of each key the formula summed.  seen is history: the events there
\* were when the attempt read its inputs.
Event == [key : Keys, unit : Units, from : [Keys -> SUBSET EventId], seen : SUBSET EventId]

\* sorted: the formulas are read; evaluating: the inputs are; written: the row is.
Active == {"sorted", "evaluating", "written"}
InRedis == {"queued", "done", "dead"} \cup Active

NothingHeld == [todo |-> <<>>, required |-> {}, ctx |-> [k \in Keys |-> {}], seen |-> {},
                last |-> NoEvent]

\* hold: the local variables of process: the formulas still to evaluate, the inputs they
\* declare, metricCtx, the events there were, and lastSuccessful.
Job == [state   : {"none", "adding", "dropped", "lost", "expired"} \cup InRedis,
        left    : 0 .. Attempts, stalled : BOOLEAN, attempt : 0 .. Attempts + 1,
        hold    : [todo : Seq(Formula), required : SUBSET Keys, ctx : [Keys -> SUBSET EventId],
                   seen : SUBSET EventId, last : EventId]]

TypeOK ==
    /\ formulas \subseteq Formulas
    /\ DOMAIN metric \subseteq EventId
    /\ \A e \in DOMAIN metric : metric[e] \in Event
    /\ run \in [Runs -> Run \cup {NoRun}]
    /\ job \in [Runs -> Job]
    /\ faults \in 0 .. MaxFaults

Init ==
    /\ formulas = Seeded
    /\ metric = <<>>
    /\ run = [r \in Runs |-> NoRun]
    /\ job = [r \in Runs |-> [state |-> "none", left |-> Attempts, stalled |-> FALSE,
                              attempt |-> 0, hold |-> NothingHeld]]
    /\ faults = 0

Fault == faults < MaxFaults /\ faults' = faults + 1

-------------------------------------------------------------------------------
(* CalculationsService                                                       *)

\* createFormula, of a formula that passes its checks.
CreateFormula(f) ==
    /\ f \notin formulas
    /\ formulas' = formulas \cup {f}
    /\ UNCHANGED <<metric, run, job, faults>>

\* startRun, up to calcRun.create.
StartRun(r, requested, key) ==
    /\ run[r] = NoRun
    /\ \A s \in Runs : s < r => run[s] # NoRun
    /\ run' = [run EXCEPT ![r] = [requested |-> requested, idempotencyKey |-> key,
                                  pending |-> TRUE, output |-> NoEvent]]
    /\ job' = [job EXCEPT ![r].state = "adding"]
    /\ UNCHANGED <<formulas, metric, faults>>

NeverDuplicate(r) == FALSE

\* The idempotency key is part of the jobId: BullMQ drops a job whose id it holds.
Duplicate(r) == \E s \in Runs : /\ run[s] # NoRun
                                /\ run[s].idempotencyKey = run[r].idempotencyKey
                                /\ job[s].state \in InRedis

\* queue.add
AddJob(r) ==
    /\ job[r].state = "adding"
    /\ job' = [job EXCEPT ![r].state = IF Duplicate(r) THEN "dropped" ELSE "queued"]
    /\ UNCHANGED <<formulas, metric, run, faults>>

\* queue.add throws, or the API stops before it.
AddFails(r) ==
    /\ job[r].state = "adding"
    /\ job' = [job EXCEPT ![r].state = "lost"]
    /\ Fault
    /\ UNCHANGED <<formulas, metric, run>>

-------------------------------------------------------------------------------
(* CalculationProcessor.process                                              *)

\* An attempt ends: BullMQ queues the job again while it has attempts left.
Ended(x, state) == [x EXCEPT !.state = state, !.hold = NothingHeld]
FailedForever(x) == [Ended(x, "queued") EXCEPT !.left = x.left - 1]
Failed(x) == [Ended(x, IF x.left > 1 THEN "queued" ELSE "dead") EXCEPT !.left = x.left - 1]

\* canonicalKeys has the output and the inputs of a formula.
Selected(requested) ==
    {f \in formulas : requested = {} \/ requested \cap ({f.out} \cup Range(f.in)) # {}}

FallsBack(requested) ==
    /\ requested = {} \/ BuiltIn.out \in requested
    /\ BuiltIn.out \notin {f.out : f \in Selected(requested)}

\* The rows come in any order, the built-in formula last.
Resolved(requested) ==
    {rows \o (IF FallsBack(requested) THEN <<BuiltIn>> ELSE <<>>) :
        rows \in SetToSeqs(Selected(requested))}

Order(fs) == TopoSort(fs)

\* Read the formulas and sort them; a cycle throws.
LoadFormulas(r) ==
    /\ job[r].state = "queued"
    /\ \E fs \in Resolved(run[r].requested) :
         LET begun == [job[r] EXCEPT !.state = "sorted", !.attempt = @ + 1,
                                     !.hold.todo = Order(fs).done,
                                     !.hold.required = UNION {Range(fs[i].in) : i \in DOMAIN fs}]
         IN job' = [job EXCEPT ![r] = IF Order(fs).cycle THEN Failed(begun) ELSE begun]
    /\ UNCHANGED <<formulas, metric, run, faults>>

\* The events of key k a query for the keys required finds: all keys if there are none.
Found(required, k) == {e \in DOMAIN metric : metric[e].key = k /\ (k \in required \/ required = {})}

UnitsMix(required) ==
    \E k \in Keys : \E d, e \in Found(required, k) : metric[d].unit # metric[e].unit

LoadInputsOnceUnitsAgree(r) ==
    /\ job[r].state = "sorted"
    /\ ~UnitsMix(job[r].hold.required)
    /\ job' = [job EXCEPT ![r].state = "evaluating", ![r].hold.seen = DOMAIN metric,
                          ![r].hold.ctx = [k \in Keys |-> Found(job[r].hold.required, k)]]
    /\ UNCHANGED <<formulas, metric, run, faults>>

\* Read and sum the APPROVED and LOCKED events; different units of one key throw.
LoadInputs(r) ==
    /\ job[r].state = "sorted"
    /\ LET required == job[r].hold.required
       IN job' = [job EXCEPT ![r] =
              IF UnitsMix(required) THEN Failed(@)
              ELSE [@ EXCEPT !.state = "evaluating", !.hold.seen = DOMAIN metric,
                             !.hold.ctx = [k \in Keys |-> Found(required, k)]]]
    /\ UNCHANGED <<formulas, metric, run, faults>>

\* metricCtx once formula f has given event e.
ContextAdded(ctx, f, e) == [ctx EXCEPT ![f.out] = @ \cup {e}]
Context(ctx, f, e) == [ctx EXCEPT ![f.out] = {e}]

Resolvable(f, ctx) == \A k \in f.reads : ctx[k] # {} \/ k \in Factors

\* The event that formula f gives in job r.
Result(r, f) == [key |-> f.out, unit |-> f.unit,
                 from |-> [k \in Keys |-> IF k \in f.reads THEN job[r].hold.ctx[k] ELSE {}],
                 seen |-> job[r].hold.seen]

Insert(e, row) == metric' = [d \in DOMAIN metric \cup {e} |-> IF d = e THEN row ELSE metric[d]]

\* Evaluate the next formula, store its result and put it into metricCtx.
EmitOutput(r) ==
    /\ job[r].state = "evaluating"
    /\ job[r].hold.todo # <<>>
    /\ LET hold == job[r].hold
           f == Head(hold.todo)
           e == [run |-> r, attempt |-> job[r].attempt, formula |-> f.id]
       IN /\ Resolvable(f, hold.ctx)
          /\ Insert(e, Result(r, f))
          /\ job' = [job EXCEPT ![r].hold = [hold EXCEPT !.todo = Tail(@),
                                                         !.ctx = Context(@, f, e), !.last = e]]
    /\ UNCHANGED <<formulas, run, faults>>

\* The next formula throws and is left out: a key it reads is missing, or the arithmetic
\* fails.
SkipFormula(r) ==
    /\ job[r].state = "evaluating"
    /\ job[r].hold.todo # <<>>
    /\ LET f == Head(job[r].hold.todo) IN f \in Fragile \/ ~Resolvable(f, job[r].hold.ctx)
    /\ job' = [job EXCEPT ![r].hold.todo = Tail(@)]
    /\ UNCHANGED <<formulas, metric, run, faults>>

\* calcRun.update with the last successful output.
WriteRun(r) ==
    /\ job[r].state = "evaluating"
    /\ job[r].hold.todo = <<>>
    /\ run' = [run EXCEPT ![r].pending = FALSE, ![r].output = job[r].hold.last]
    /\ job' = [job EXCEPT ![r].state = "written"]
    /\ UNCHANGED <<formulas, metric, faults>>

JobDone(r) ==
    /\ job[r].state = "written"
    /\ job' = [job EXCEPT ![r] = Ended(@, "done")]
    /\ UNCHANGED <<formulas, metric, run, faults>>

\* An awaited call rejects; the catch block throws on.
JobThrowsSwallowed(r) ==
    /\ job[r].state \in Active
    /\ Fault
    /\ job' = [job EXCEPT ![r] = Ended(@, "done")]
    /\ UNCHANGED <<formulas, metric, run>>

JobThrows(r) ==
    /\ job[r].state \in Active
    /\ Fault
    /\ job' = [job EXCEPT ![r] = Failed(@)]
    /\ UNCHANGED <<formulas, metric, run>>

\* The worker's process stops.  BullMQ finds the job stalled and queues it again, at
\* the same attempt; the second time it fails the job (maxStalledCount is 1).
JobStalls(r) ==
    /\ job[r].state \in Active
    /\ Fault
    /\ job' = [job EXCEPT ![r] = [Ended(@, IF @.stalled THEN "dead" ELSE "queued")
                                    EXCEPT !.stalled = TRUE]]
    /\ UNCHANGED <<formulas, metric, run>>

\* removeOnComplete and removeOnFail: in the end BullMQ forgets the job, and its id.
JobExpires(r) ==
    /\ job[r].state \in {"done", "dead"}
    /\ job' = [job EXCEPT ![r].state = "expired"]
    /\ UNCHANGED <<formulas, metric, run, faults>>

-------------------------------------------------------------------------------
\* A metric event that people reported is approved, of a key and in a unit.
Report(k, u) ==
    /\ \E n \in 1 .. MaxReported :
         LET e == [NoEvent EXCEPT !.attempt = n]
         IN /\ e \notin DOMAIN metric
            /\ Insert(e, [key |-> k, unit |-> u, from |-> [x \in Keys |-> {}], seen |-> {}])
    /\ UNCHANGED <<formulas, run, job, faults>>

Request(r) == \/ \E requested \in RequestKeys, key \in IdempotencyKeys :
                    StartRun(r, requested, key)
              \/ AddJob(r)
              \/ AddFails(r)

Work(r) == \/ LoadFormulas(r)
           \/ LoadInputs(r)
           \/ EmitOutput(r)
           \/ SkipFormula(r)
           \/ WriteRun(r)
           \/ JobDone(r)
           \/ JobThrows(r)
           \/ JobStalls(r)

Next == \/ \E f \in Formulas : CreateFormula(f)
        \/ \E r \in Runs : Request(r) \/ Work(r) \/ JobExpires(r)
        \/ \E p \in Reported : Report(p[1], p[2])

Spec == Init /\ [][Next]_vars

\* The await of queue.add ends; a worker takes a queued job and goes on with it.
Fairness == \A r \in Runs : WF_vars(AddJob(r) \/ AddFails(r)) /\ WF_vars(Work(r))

FairSpec == Spec /\ Fairness

-------------------------------------------------------------------------------
(* Properties.                                                               *)

Outputs(r) == {e \in DOMAIN metric : e.run = r}

\* What run r had stored for key k in the attempt that stored event e.
Siblings(e, k) == {d \in Outputs(e.run) : d.attempt = e.attempt /\ metric[d].key = k}

\* The formula that gave event e.
FormulaOf(e) == CHOOSE f \in Formulas \cup {BuiltIn} : f.id = e.formula

\* A result is computed from one state of the data: for each key that its formula both
\* declares and reads, from the result the same attempt has for that key, and from it
\* alone, whatever outputs of other runs and attempts there are; or, if the attempt has
\* none, from all events the attempt read at its start.  In particular no formula goes
\* before one whose output it declares.  A key that is read but not declared is no worse
\* than out of date: it gives that result, or all those events, although the attempt may
\* have computed the key since, or nothing, when there is an emission factor.
ComputedFromOneAttempt ==
    \A r \in Runs : \A e \in Outputs(r) : \A k \in FormulaOf(e).reads :
        LET read == {d \in metric[e].seen : metric[d].key = k}
        IN  IF k \in Range(FormulaOf(e).in)
            THEN metric[e].from[k] = IF Siblings(e, k) # {} THEN Siblings(e, k) ELSE read
            ELSE metric[e].from[k] \in {Siblings(e, k), read, {}}

\* However many formulas there are for a key, an attempt stores one result of it, so
\* that a run leaves no more copies of an output than it had attempts.
OneResultPerAttempt ==
    \A r \in Runs : \A e \in Outputs(r) : Siblings(e, metric[e].key) = {e}

\* A run that still says "pending" is not forgotten: its job is to be added, queued or
\* at work, or died, or was never there -- queue.add failed, or the job of a run with
\* the same idempotency key took its place.
PendingHasReason ==
    \A r \in Runs :
        run[r] # NoRun /\ run[r].pending =>
            \/ job[r].state \in {"adding", "queued", "sorted", "evaluating", "dead", "expired", "lost"}
            \/ /\ job[r].state = "dropped"
               /\ \E s \in Runs \ {r} : /\ run[s] # NoRun
                                        /\ run[s].idempotencyKey = run[r].idempotencyKey
                                        /\ job[s].state \in InRedis \cup {"expired"}

\* A repeated request stores nothing: two runs with one idempotency key have results
\* only when BullMQ had forgotten the job of one when the other was added.
RepeatStoresNothing ==
    \A r, s \in Runs :
        (/\ r # s
         /\ Outputs(r) # {} /\ Outputs(s) # {}
         /\ run[r].idempotencyKey = run[s].idempotencyKey)
        => "expired" \in {job[r].state, job[s].state}

\* The output a run row names is one that the run stored, in the last attempt that got
\* to its end; and a job that is done has left it there.
RowNamesStoredOutput ==
    \A r \in Runs : run[r] # NoRun =>
        /\ job[r].state = "done" => ~run[r].pending
        /\ run[r].output # NoEvent =>
              /\ run[r].output \in Outputs(r)
              /\ job[r].state = "done" => run[r].output.attempt = job[r].attempt

\* A queued job ends, done or dead, in a bounded number of attempts.
QueuedJobsEnd == \A r \in Runs : (job[r].state = "queued") ~> (job[r].state \in {"done", "dead"})

\* topoSortFormulas, of any selection of the formulas in any order: SortIsSound of
\* FormulaOrder.  That results are sound rests on it.
SortsAreSound ==
    \A S \in SUBSET (Formulas \cup {BuiltIn}) : \A fs \in SetToSeqs(S) : SortIsSound(fs)

\* What is stored is sound: the two properties of results.
StoredResultsAreSound == ComputedFromOneAttempt /\ OneResultPerAttempt

\* Runs are accounted for: the three properties of run rows.
RunsAreAccountedFor == PendingHasReason /\ RepeatStoresNothing /\ RowNamesStoredOutput
===============================================================================
