----------------------------- MODULE CalcRun_proofs -----------------------------
(* Proofs about calculation runs, for any number of runs, formulas, idempotency    *)
(* keys, attempts and faults: they are accounted for (RunsAreAccountedFor of       *)
(* CalcRun), and what they store is sound (StoredResultsAreSound), as              *)
(* topoSortFormulas orders the formulas or refuses them (RunsSort).  And about the *)
(* periods they are of: fiscal years tile every calendar (FiscalYearsTileTime),    *)
(* and months every period (MonthsTilePeriods).  And about the language of         *)
(* formulas, for trees and texts of any size: what is written for a tree is parsed *)
(* to it (TreesAreParsed), and nothing else is accepted (TextsAreFormulas).        *)
EXTENDS MCCalcRun, FormulaOrder_proofs, FiniteSetTheorems, SequenceTheorems, TLAPS

\* The states of a job.
States == {"none", "adding", "dropped", "lost", "expired"} \cup InRedis

\* The fields of a job and of what it holds; nothing is said of their types but of its
\* state's.
IsJob(x) ==
    /\ x = [f \in {"state", "left", "stalled", "attempt", "hold"} |-> x[f]]
    /\ x.hold = [f \in {"todo", "required", "ctx", "seen", "last"} |-> x.hold[f]]
    /\ x.state \in States

\* The fields of a row.
IsRun(x) == x = [f \in {"requested", "idempotencyKey", "pending", "output"} |-> x[f]]

\* There is a job and a row for each run, and a job is idle as long as its row is not there.
Shapes == /\ DOMAIN run = Runs /\ DOMAIN job = Runs
          /\ \A r \in Runs : IsJob(job[r])
          /\ \A r \in Runs : run[r] # NoRun => IsRun(run[r])
          /\ \A r \in Runs : run[r] = NoRun <=> job[r].state = "none"

\* An event of run r that its present attempt stored, or no event.
StoredNow(r, e) == e = NoEvent \/ (e \in Outputs(r) /\ e.attempt = job[r].attempt)

\* The last successful output of an attempt, before it has read its inputs and after.
LastIsStored ==
    \A r \in Runs :
        /\ job[r].state \in {"none", "adding", "queued", "sorted"} => job[r].hold.last = NoEvent
        /\ job[r].state = "evaluating" => StoredNow(r, job[r].hold.last)

\* The row of a run, while its job has its last step ahead and after.
RowIsWritten ==
    \A r \in Runs :
        /\ job[r].state \in {"written", "done"} => ~run[r].pending /\ StoredNow(r, run[r].output)
        /\ run[r] # NoRun => run[r].output = NoEvent \/ run[r].output \in Outputs(r)

\* A run has outputs only once its job was queued.
OnlyJobsStore == \A r \in Runs : Outputs(r) # {} => job[r].state \in InRedis \cup {"expired"}

\* BullMQ holds one job of an idempotency key.
OneJobPerKey ==
    \A r, s \in Runs : /\ r # s
                       /\ job[r].state \in InRedis /\ job[s].state \in InRedis
                       => run[r].idempotencyKey # run[s].idempotencyKey

\* BullMQ drops a job for one that it has or had.
DroppedHasReason ==
    \A r \in Runs : job[r].state = "dropped" =>
        \E s \in Runs \ {r} : /\ run[s] # NoRun
                              /\ run[s].idempotencyKey = run[r].idempotencyKey
                              /\ job[s].state \in InRedis \cup {"expired"}

\* What is proved of run rows, and all that it takes.
IInv == /\ Shapes /\ LastIsStored /\ RowIsWritten /\ OnlyJobsStore
        /\ OneJobPerKey /\ DroppedHasReason

-------------------------------------------------------------------------------
(* What a step makes of one job.                                             *)

\* A row that is there is not NoRun.
LEMMA RunIsNoNoRun ==
  ASSUME NEW x, IsRun(x)
  PROVE  x # NoRun
  BY DEF IsRun, NoRun

\* The job of r changes to x, and nothing else of jobs and runs does.
Moves(r, x) == job' = [job EXCEPT ![r] = x] /\ run' = run

\* A job that fails or is found stalled is queued again or dead, and holds nothing.
LEMMA EndedIsJob ==
  ASSUME NEW x, IsJob(x), NEW state \in InRedis
  PROVE  /\ IsJob(Ended(x, state))
         /\ Ended(x, state).state = state
         /\ Ended(x, state).attempt = x.attempt
         /\ Ended(x, state).hold.last = NoEvent
  <1>1. Ended(x, state).hold = NothingHeld /\ Ended(x, state).state = state
    BY DEF IsJob, Ended
  <1> QED BY <1>1 DEF IsJob, Ended, NothingHeld, States

\* An attempt that fails leaves a job that is queued or dead.
LEMMA FailedIsJob ==
  ASSUME NEW x, IsJob(x)
  PROVE  /\ IsJob(Failed(x)) /\ Failed(x).state \in {"queued", "dead"}
         /\ Failed(x).hold.last = NoEvent
  <1>1. \A s \in {"queued", "dead"} :
           /\ IsJob(Ended(x, s)) /\ Ended(x, s).state = s /\ Ended(x, s).hold.last = NoEvent
    BY EndedIsJob DEF InRedis
  <1> QED BY <1>1 DEF Failed, IsJob

\* A job that was queued or at work and moves within BullMQ, with the events as they are
\* and its row as it is.
LEMMA MoveKeepsIInv ==
  ASSUME IInv, NEW r \in Runs, NEW x, Moves(r, x), metric' = metric,
         job[r].state \in InRedis, IsJob(x), x.state \in InRedis \cup {"expired"},
         x.state \in {"queued", "sorted"} => x.hold.last = NoEvent,
         x.state = "evaluating" => \/ x.hold.last = NoEvent
                                   \/ /\ job[r].state = "evaluating"
                                      /\ x.hold.last = job[r].hold.last
                                      /\ x.attempt = job[r].attempt,
         x.state \in {"written", "done"} => job[r].state = "written" /\ x.attempt = job[r].attempt
  PROVE  IInv'
  <1> USE DEF IInv
  <1>1. /\ \A s \in Runs : job'[s] = IF s = r THEN x ELSE job[s]
        /\ run' = run /\ \A s \in Runs : Outputs(s)' = Outputs(s)
        /\ DOMAIN job' = Runs
    BY DEF Moves, Shapes, Outputs
  <1>2. run[r] # NoRun
    BY DEF Shapes, InRedis, Active
  <1>3. Shapes'
    BY <1>1, <1>2 DEF Shapes, IsJob, IsRun, InRedis, Active
  <1>4. LastIsStored'
    BY <1>1 DEF LastIsStored, StoredNow, InRedis, Active
  <1>5. RowIsWritten'
    BY <1>1 DEF RowIsWritten, StoredNow
  <1>6. OnlyJobsStore' /\ OneJobPerKey'
    BY <1>1 DEF OnlyJobsStore, OneJobPerKey, InRedis, Active
  <1>7. DroppedHasReason'
    <2>1. ASSUME NEW q \in Runs, job'[q].state = "dropped"
          PROVE  \E s \in Runs \ {q} : /\ run'[s] # NoRun
                                       /\ run'[s].idempotencyKey = run'[q].idempotencyKey
                                       /\ job'[s].state \in InRedis \cup {"expired"}
      <3>1. q # r /\ job[q].state = "dropped"
        BY <1>1, <2>1 DEF InRedis, Active
      <3> QED BY <1>1, <3>1 DEF DroppedHasReason
    <2> QED BY <2>1 DEF DroppedHasReason
  <1> QED BY <1>3, <1>4, <1>5, <1>6, <1>7

-------------------------------------------------------------------------------
(* The steps.                                                                *)

\* The steps of a job that only move it.
LEMMA WorkMoves ==
  ASSUME IInv, NEW r \in Runs,
         \/ LoadFormulas(r) \/ LoadInputs(r) \/ SkipFormula(r) \/ JobDone(r)
         \/ JobThrows(r) \/ JobStalls(r) \/ JobExpires(r)
  PROVE  IInv'
  <1> DEFINE y == job[r]
  <1>0. IsJob(y) /\ (y.state \in {"queued", "sorted"} => y.hold.last = NoEvent)
        /\ metric' = metric /\ run' = run
    BY DEF IInv, Shapes, LastIsStored, LoadFormulas, LoadInputs, SkipFormula, JobDone, JobThrows,
       JobStalls, JobExpires
  <1>1. ASSUME Moves(r, Failed(y)), y.state \in InRedis PROVE IInv'
    BY <1>0, <1>1, FailedIsJob, MoveKeepsIInv DEF InRedis, Active
  <1>2. CASE LoadFormulas(r)
    <2>1. PICK fs \in Resolved(run[r].requested) :
            LET begun == [y EXCEPT !.state = "sorted", !.attempt = @ + 1,
                                   !.hold.todo = Order(fs).done,
                                   !.hold.required = UNION {Range(fs[i].in) : i \in DOMAIN fs}]
            IN job' = [job EXCEPT ![r] = IF Order(fs).cycle THEN Failed(begun) ELSE begun]
      BY <1>2 DEF LoadFormulas
    <2> DEFINE todo == Order(fs).done
               required == UNION {Range(fs[i].in) : i \in DOMAIN fs}
               begun == [y EXCEPT !.state = "sorted", !.attempt = @ + 1, !.hold.todo = todo,
                                  !.hold.required = required]
    <2>2. y.state = "queued"
      BY <1>2 DEF LoadFormulas
    <2>3. IsJob(begun) /\ begun.state = "sorted" /\ begun.hold.last = NoEvent
      <3> HIDE DEF todo, required
      <3> QED BY <1>0, <2>2 DEF IsJob, States, InRedis, Active
    <2>4. Moves(r, Failed(begun)) \/ Moves(r, begun)
      BY <1>0, <2>1 DEF Moves
    <2> HIDE DEF begun
    <2>5. CASE Moves(r, Failed(begun))
      BY <1>0, <2>2, <2>3, <2>5, FailedIsJob, MoveKeepsIInv DEF InRedis, Active
    <2>6. CASE Moves(r, begun)
      BY <1>0, <2>2, <2>3, <2>6, MoveKeepsIInv DEF InRedis, Active
    <2> QED BY <2>4, <2>5, <2>6
  <1>3. CASE LoadInputs(r)
    <2> DEFINE required == y.hold.required
               ctx == [k \in Keys |-> Found(required, k)]
               x == [y EXCEPT !.state = "evaluating", !.hold.seen = DOMAIN metric, !.hold.ctx = ctx]
    <2>1. Moves(r, Failed(y)) \/ Moves(r, x)
      BY <1>0, <1>3 DEF LoadInputs, Moves
    <2>2. y.state = "sorted"
      BY <1>3 DEF LoadInputs
    <2>3. IsJob(x) /\ x.state = "evaluating" /\ x.hold.last = NoEvent
      <3> HIDE DEF ctx
      <3> QED BY <1>0, <2>2 DEF IsJob, States, InRedis, Active
    <2> HIDE DEF x
    <2>4. CASE Moves(r, x)
      BY <1>0, <2>2, <2>3, <2>4, MoveKeepsIInv DEF InRedis, Active
    <2> QED BY <1>1, <2>1, <2>2, <2>4 DEF InRedis, Active
  <1>4. CASE SkipFormula(r)
    <2> DEFINE todo == Tail(y.hold.todo)
               x == [y EXCEPT !.hold.todo = todo]
    <2>1. Moves(r, x) /\ y.state = "evaluating"
      BY <1>0, <1>4 DEF SkipFormula, Moves
    <2>2. IsJob(x) /\ x.state = "evaluating" /\ x.hold.last = y.hold.last /\ x.attempt = y.attempt
      <3> HIDE DEF todo
      <3> QED BY <1>0, <2>1 DEF IsJob, States, InRedis, Active
    <2> HIDE DEF x
    <2> QED BY <1>0, <2>1, <2>2, MoveKeepsIInv DEF InRedis, Active
  <1>5. CASE JobDone(r)
    <2>1. Moves(r, Ended(y, "done")) /\ y.state = "written"
      BY <1>0, <1>5 DEF JobDone, Moves
    <2>2. IsJob(Ended(y, "done")) /\ Ended(y, "done").state = "done"
          /\ Ended(y, "done").attempt = y.attempt
      BY <1>0, EndedIsJob DEF InRedis
    <2> QED BY <1>0, <2>1, <2>2, MoveKeepsIInv DEF InRedis, Active
  <1>6. CASE JobThrows(r)
    BY <1>0, <1>1, <1>6 DEF JobThrows, Moves, InRedis
  <1>7. CASE JobStalls(r)
    <2> DEFINE s == IF y.stalled THEN "dead" ELSE "queued"
               e == Ended(y, s)
               x == [e EXCEPT !.stalled = TRUE]
    <2>1. Moves(r, x) /\ y.state \in Active
      BY <1>0, <1>7 DEF JobStalls, Moves
    <2>2. IsJob(e) /\ e.state \in {"queued", "dead"} /\ e.hold.last = NoEvent
      <3>1. s \in {"queued", "dead"}
        OBVIOUS
      <3> HIDE DEF s
      <3> QED BY <1>0, <3>1, EndedIsJob DEF InRedis
    <2> HIDE DEF e
    <2>3. IsJob(x) /\ x.state \in {"queued", "dead"} /\ x.hold.last = NoEvent
      BY <2>2 DEF IsJob
    <2> HIDE DEF x
    <2> QED BY <1>0, <2>1, <2>3, MoveKeepsIInv DEF InRedis, Active
  <1>8. CASE JobExpires(r)
    <2> DEFINE x == [y EXCEPT !.state = "expired"]
    <2>1. Moves(r, x) /\ y.state \in {"done", "dead"}
      BY <1>0, <1>8 DEF JobExpires, Moves
    <2>2. IsJob(x) /\ x.state = "expired"
      BY <1>0 DEF IsJob, States
    <2> HIDE DEF x
    <2> QED BY <1>0, <2>1, <2>2, MoveKeepsIInv DEF InRedis, Active
  <1> QED BY <1>2, <1>3, <1>4, <1>5, <1>6, <1>7, <1>8

\* One more event, of another run than r or of none, changes nothing for r.
LEMMA OutputsOnceInserted ==
  ASSUME NEW e, NEW row, Insert(e, row), NEW r
  PROVE  Outputs(r)' = Outputs(r) \cup (IF e.run = r THEN {e} ELSE {})
  BY DEF Insert, Outputs

\* The output of a formula: the one event an attempt had last is that of its last formula.
LEMMA EmitKeepsIInv ==
  ASSUME IInv, NEW r \in Runs, EmitOutput(r)
  PROVE  IInv'
  <1> DEFINE y == job[r]
             f == Head(y.hold.todo)
             e == [run |-> r, attempt |-> y.attempt, formula |-> f.id]
             todo == Tail(y.hold.todo)
             ctx == Context(y.hold.ctx, f, e)
             x == [y EXCEPT !.hold = [y.hold EXCEPT !.todo = todo, !.ctx = ctx, !.last = e]]
  <1>1. Insert(e, Result(r, f)) /\ Moves(r, x) /\ y.state = "evaluating"
    BY DEF EmitOutput, Moves
  <1>2. IsJob(y)
    BY DEF IInv, Shapes
  <1>3. /\ IsJob(x) /\ x.state = "evaluating" /\ x.attempt = y.attempt /\ x.hold.last = e
        /\ e.run = r /\ e.attempt = y.attempt
    <2> HIDE DEF todo, ctx
    <2> QED BY <1>1, <1>2 DEF IsJob, States, InRedis, Active
  <1>4. \A s \in Runs : Outputs(s)' = Outputs(s) \cup (IF s = r THEN {e} ELSE {})
    <2> HIDE DEF e
    <2> QED BY <1>1, <1>3, OutputsOnceInserted
  <1> HIDE DEF x, e
  <1>5. /\ \A s \in Runs : job'[s] = IF s = r THEN x ELSE job[s]
        /\ run' = run /\ DOMAIN job' = Runs
    BY <1>1 DEF IInv, Moves, Shapes
  <1>6. Shapes'
    BY <1>1, <1>3, <1>5 DEF IInv, Shapes, IsJob, IsRun
  <1>7. LastIsStored'
    BY <1>1, <1>3, <1>4, <1>5 DEF IInv, LastIsStored, StoredNow
  <1>8. RowIsWritten'
    BY <1>1, <1>3, <1>4, <1>5 DEF IInv, RowIsWritten, StoredNow
  <1>9. OnlyJobsStore' /\ OneJobPerKey'
    BY <1>1, <1>3, <1>4, <1>5 DEF IInv, OnlyJobsStore, OneJobPerKey, InRedis, Active
  <1>10. DroppedHasReason'
    BY <1>1, <1>3, <1>5 DEF IInv, DroppedHasReason, InRedis, Active
  <1> QED BY <1>6, <1>7, <1>8, <1>9, <1>10 DEF IInv

\* The row of a run once all its formulas are evaluated.
LEMMA WriteKeepsIInv ==
  ASSUME IInv, NEW r \in Runs, WriteRun(r)
  PROVE  IInv'
  <1> DEFINE y == job[r]
             x == [y EXCEPT !.state = "written"]
             row == [run[r] EXCEPT !.pending = FALSE, !.output = y.hold.last]
  <1>1. y.state = "evaluating" /\ IsJob(y) /\ run[r] # NoRun /\ IsRun(run[r])
        /\ StoredNow(r, y.hold.last)
    BY DEF IInv, Shapes, LastIsStored, WriteRun
  <1>2. IsJob(x) /\ x.state = "written" /\ x.attempt = y.attempt
    BY <1>1 DEF IsJob, States, InRedis, Active
  <1>3. /\ IsRun(row) /\ row.idempotencyKey = run[r].idempotencyKey
        /\ ~row.pending /\ row.output = y.hold.last
    BY <1>1 DEF IsRun
  <1>4. job' = [job EXCEPT ![r] = x] /\ run' = [run EXCEPT ![r] = row] /\ metric' = metric
    BY DEF WriteRun
  <1> HIDE DEF x, row
  <1>5. /\ \A s \in Runs : job'[s] = IF s = r THEN x ELSE job[s]
        /\ \A s \in Runs : run'[s] = IF s = r THEN row ELSE run[s]
        /\ \A s \in Runs : Outputs(s)' = Outputs(s)
        /\ DOMAIN job' = Runs /\ DOMAIN run' = Runs
    BY <1>4 DEF IInv, Shapes, Outputs
  <1>6. Shapes'
    BY <1>1, <1>2, <1>3, <1>5, RunIsNoNoRun DEF IInv, Shapes
  <1>7. LastIsStored'
    BY <1>1, <1>2, <1>5 DEF IInv, LastIsStored, StoredNow
  <1>8. RowIsWritten'
    BY <1>1, <1>2, <1>3, <1>5, RunIsNoNoRun DEF IInv, RowIsWritten, StoredNow
  <1>9. OnlyJobsStore' /\ OneJobPerKey'
    BY <1>1, <1>2, <1>3, <1>5 DEF IInv, OnlyJobsStore, OneJobPerKey, InRedis, Active
  <1>10. DroppedHasReason'
    BY <1>1, <1>2, <1>3, <1>5, RunIsNoNoRun DEF IInv, DroppedHasReason, InRedis, Active
  <1> QED BY <1>6, <1>7, <1>8, <1>9, <1>10 DEF IInv

\* A new run: its row, before its job.
LEMMA StartKeepsIInv ==
  ASSUME IInv, NEW r \in Runs, NEW requested, NEW key, StartRun(r, requested, key)
  PROVE  IInv'
  <1> DEFINE x == [job[r] EXCEPT !.state = "adding"]
             row == [requested |-> requested, idempotencyKey |-> key, pending |-> TRUE,
                     output |-> NoEvent]
  <1>1. job[r].state = "none" /\ IsJob(job[r]) /\ run[r] = NoRun /\ job[r].hold.last = NoEvent
        /\ Outputs(r) = {}
    BY DEF IInv, Shapes, LastIsStored, OnlyJobsStore, StartRun, InRedis, Active
  <1>2. IsJob(x) /\ x.state = "adding" /\ x.hold.last = NoEvent
    BY <1>1 DEF IsJob, States
  <1>3. IsRun(row) /\ row.output = NoEvent
    BY DEF IsRun
  <1>4. job' = [job EXCEPT ![r] = x] /\ run' = [run EXCEPT ![r] = row] /\ metric' = metric
    BY DEF StartRun
  <1> HIDE DEF x, row
  <1>5. /\ \A s \in Runs : job'[s] = IF s = r THEN x ELSE job[s]
        /\ \A s \in Runs : run'[s] = IF s = r THEN row ELSE run[s]
        /\ \A s \in Runs : Outputs(s)' = Outputs(s)
        /\ DOMAIN job' = Runs /\ DOMAIN run' = Runs
    BY <1>4 DEF IInv, Shapes, Outputs
  <1>6. Shapes'
    BY <1>2, <1>3, <1>5, RunIsNoNoRun DEF IInv, Shapes
  <1>7. LastIsStored'
    BY <1>2, <1>5 DEF IInv, LastIsStored, StoredNow
  <1>8. RowIsWritten'
    BY <1>2, <1>3, <1>5 DEF IInv, RowIsWritten, StoredNow
  <1>9. OnlyJobsStore' /\ OneJobPerKey'
    BY <1>1, <1>2, <1>5 DEF IInv, OnlyJobsStore, OneJobPerKey, InRedis, Active
  <1>10. DroppedHasReason'
    BY <1>1, <1>2, <1>5 DEF IInv, DroppedHasReason
  <1> QED BY <1>6, <1>7, <1>8, <1>9, <1>10 DEF IInv

\* queue.add returns, with the job or with the one that has its id, or throws.
LEMMA AddKeepsIInv ==
  ASSUME IInv, NEW r \in Runs, AddJob(r) \/ AddFails(r)
  PROVE  IInv'
  <1>1. job[r].state = "adding" /\ IsJob(job[r]) /\ job[r].hold.last = NoEvent
        /\ run[r] # NoRun /\ run' = run /\ metric' = metric
    BY DEF IInv, Shapes, LastIsStored, AddJob, AddFails
  <1>2. PICK state \in {"dropped", "queued", "lost"} :
          /\ job' = [job EXCEPT ![r] = [job[r] EXCEPT !.state = state]]
          /\ state = "dropped" => Duplicate(r)
          /\ state = "queued" => ~Duplicate(r)
    BY DEF AddJob, AddFails
  <1> DEFINE x == [job[r] EXCEPT !.state = state]
  <1>3. IsJob(x) /\ x.state = state /\ x.hold.last = NoEvent
    BY <1>1 DEF IsJob, States, InRedis
  <1> HIDE DEF x
  <1>4. /\ \A s \in Runs : job'[s] = IF s = r THEN x ELSE job[s]
        /\ \A s \in Runs : Outputs(s)' = Outputs(s)
        /\ DOMAIN job' = Runs
    BY <1>1, <1>2 DEF IInv, Shapes, Outputs, x
  <1>5. Shapes'
    BY <1>1, <1>3, <1>4 DEF IInv, Shapes
  <1>6. LastIsStored' /\ RowIsWritten'
    BY <1>1, <1>3, <1>4 DEF IInv, LastIsStored, RowIsWritten, StoredNow
  <1>7. OnlyJobsStore'
    BY <1>1, <1>3, <1>4 DEF IInv, OnlyJobsStore, InRedis, Active
  <1>8. OneJobPerKey'
    <2>1. state = "queued" => \A s \in Runs : job[s].state \in InRedis =>
                               run[s].idempotencyKey # run[r].idempotencyKey
      BY <1>2 DEF IInv, Shapes, Duplicate, InRedis, Active
    <2> QED BY <1>1, <1>3, <1>4, <2>1 DEF IInv, OneJobPerKey, InRedis, Active
  <1>9. DroppedHasReason'
    <2>1. state = "dropped" => \E s \in Runs \ {r} : /\ run[s] # NoRun
                                                     /\ run[s].idempotencyKey = run[r].idempotencyKey
                                                     /\ job[s].state \in InRedis
      BY <1>1, <1>2 DEF Duplicate, InRedis, Active
    <2>2. ASSUME NEW q \in Runs, job'[q].state = "dropped"
          PROVE  \E s \in Runs \ {q} : /\ run[s] # NoRun
                                       /\ run[s].idempotencyKey = run[q].idempotencyKey
                                       /\ job[s].state \in InRedis \cup {"expired"}
      BY <1>3, <1>4, <2>1, <2>2 DEF IInv, DroppedHasReason
    <2>3. \A s \in Runs : job[s].state \in InRedis \cup {"expired"} => job'[s] = job[s]
      BY <1>1, <1>4 DEF InRedis, Active
    <2> QED BY <1>1, <2>2, <2>3 DEF DroppedHasReason
  <1> QED BY <1>5, <1>6, <1>7, <1>8, <1>9 DEF IInv

-------------------------------------------------------------------------------
(* The invariant and what follows from it.                                   *)

\* No run is there at the start.
LEMMA InitIInv == Init => IInv
  <1> SUFFICES ASSUME Init PROVE IInv
    OBVIOUS
  <1>1. \A r \in Runs : /\ run[r] = NoRun /\ job[r].state = "none" /\ IsJob(job[r])
                        /\ job[r].hold.last = NoEvent /\ Outputs(r) = {}
    <2> SUFFICES ASSUME NEW r \in Runs
                 PROVE  /\ run[r] = NoRun /\ job[r].state = "none" /\ IsJob(job[r])
                        /\ job[r].hold.last = NoEvent /\ Outputs(r) = {}
      OBVIOUS
    <2>1. Outputs(r) = {}
      BY DEF Init, Outputs
    <2>2. run[r] = NoRun /\ job[r] = [state |-> "none", left |-> Attempts, stalled |-> FALSE,
                                      attempt |-> 0, hold |-> NothingHeld]
      BY DEF Init
    <2>3. /\ NothingHeld = [f \in {"todo", "required", "ctx", "seen", "last"} |-> NothingHeld[f]]
          /\ NothingHeld.last = NoEvent
      <3> DEFINE none == [k \in Keys |-> {}]
      <3> HIDE DEF none
      <3>1. NothingHeld = [todo |-> <<>>, required |-> {}, ctx |-> none, seen |-> {}, last |-> NoEvent]
        BY DEF NothingHeld, none
      <3> QED BY <3>1
    <2> QED BY <2>1, <2>2, <2>3 DEF IsJob, States
  <1>2. Shapes
    BY <1>1 DEF Init, Shapes
  <1> QED BY <1>1, <1>2 DEF IInv, LastIsStored, RowIsWritten, OnlyJobsStore, OneJobPerKey,
             DroppedHasReason, InRedis, Active

\* A step that leaves runs, jobs and their events.
LEMMA NothingOfRuns ==
  ASSUME IInv, run' = run, job' = job, \A r \in Runs : Outputs(r)' = Outputs(r)
  PROVE  IInv'
  <1>1. Shapes' /\ OneJobPerKey' /\ DroppedHasReason'
    BY DEF IInv, Shapes, OneJobPerKey, DroppedHasReason
  <1>2. LastIsStored' /\ RowIsWritten' /\ OnlyJobsStore'
    BY DEF IInv, LastIsStored, RowIsWritten, OnlyJobsStore, StoredNow
  <1> QED BY <1>1, <1>2 DEF IInv

\* Every step keeps rows accounted for.
LEMMA NextIInv == IInv /\ [Next]_vars => IInv'
  <1> SUFFICES ASSUME IInv, [Next]_vars PROVE IInv'
    OBVIOUS
  <1>1. ASSUME NEW r \in Runs, Request(r) PROVE IInv'
    BY <1>1, StartKeepsIInv, AddKeepsIInv DEF Request
  <1>2. ASSUME NEW r \in Runs, Work(r) PROVE IInv'
    BY <1>2, WorkMoves, EmitKeepsIInv, WriteKeepsIInv DEF Work
  <1>3. ASSUME NEW r \in Runs, JobExpires(r) PROVE IInv'
    BY <1>3, WorkMoves
  <1>4. ASSUME NEW f \in Formulas, CreateFormula(f) PROVE IInv'
    BY <1>4, NothingOfRuns DEF CreateFormula, Outputs
  <1>5. ASSUME NEW p \in Reported, Report(p[1], p[2]) PROVE IInv'
    <2>1. PICK n \in 1 .. MaxReported :
            LET e == [NoEvent EXCEPT !.attempt = n]
            IN Insert(e, [key |-> p[1], unit |-> p[2], from |-> [k \in Keys |-> {}], seen |-> {}])
      BY <1>5 DEF Report
    <2> DEFINE e == [NoEvent EXCEPT !.attempt = n]
               row == [key |-> p[1], unit |-> p[2], from |-> [k \in Keys |-> {}], seen |-> {}]
    <2>2. e.run = 0 /\ \A r \in Runs : r # 0
      BY CalcAssumption DEF NoEvent, Runs
    <2>3. Insert(e, row)
      BY <2>1
    <2> HIDE DEF e, row
    <2>4. \A r \in Runs : Outputs(r)' = Outputs(r)
      BY <2>2, <2>3, OutputsOnceInserted
    <2> QED BY <1>5, <2>4, NothingOfRuns DEF Report
  <1>6. CASE UNCHANGED vars
    BY <1>6, NothingOfRuns DEF vars, Outputs
  <1> QED BY <1>1, <1>2, <1>3, <1>4, <1>5, <1>6 DEF Next

\* The three properties of run rows follow.
LEMMA AccountedFor == IInv => RunsAreAccountedFor
  <1> SUFFICES ASSUME IInv PROVE RunsAreAccountedFor
    OBVIOUS
  <1>1. PendingHasReason
    <2> SUFFICES ASSUME NEW r \in Runs, run[r] # NoRun, run[r].pending, job[r].state # "dropped"
                 PROVE  job[r].state \in {"adding", "queued", "sorted", "evaluating", "dead",
                                          "expired", "lost"}
      BY DEF PendingHasReason, IInv, DroppedHasReason
    <2>1. job[r].state \in States /\ job[r].state \notin {"none", "written", "done"}
      BY DEF IInv, Shapes, IsJob, RowIsWritten
    <2> QED BY <2>1 DEF States, InRedis, Active
  <1>2. RepeatStoresNothing
    BY DEF IInv, OnlyJobsStore, OneJobPerKey, RepeatStoresNothing
  <1>3. RowNamesStoredOutput
    BY DEF IInv, RowIsWritten, StoredNow, RowNamesStoredOutput
  <1> QED BY <1>1, <1>2, <1>3 DEF RunsAreAccountedFor

\* A run whose row says "pending" has a job that will change it or a reason; a repeated
\* request stores nothing while BullMQ has the first job; and the output a row names is
\* one its last attempt stored: startRun and process, with crashes, retries and stalls.
THEOREM RunsAccounted == Spec => []RunsAreAccountedFor
  <1> QED BY InitIInv, NextIInv, AccountedFor, PTL DEF Spec

-------------------------------------------------------------------------------
(* What is stored is sound.  The rest of this module is about what an attempt *)
(* knows while it evaluates formula after formula.                            *)

\* Those of the rows and the built-in one.
AllFormulas == Formulas \cup {BuiltIn}

\* Formulas that are evaluated in this order: each computes a key of its own, which none
\* before it, and not itself, reads.
IsOrdered(todo) ==
    /\ todo \in Seq(AllFormulas)
    /\ UniqueOutputs(todo)
    /\ \A i, j \in DOMAIN todo : i <= j => todo[j].out \notin Range(todo[i].in)

\* What attempt a of run r has stored.
Made(m, r, a) == {e \in DOMAIN m : e.run = r /\ e.attempt = a}

\* What it has stored for key k.
MadeOf(m, r, a, k) == {e \in Made(m, r, a) : m[e].key = k}

\* Of the events given for a key: they are what the attempt made of it, or else what it
\* read; of a key that was not declared, one or the other or nothing.
FromOne(given, made, read, declared) ==
    IF declared THEN given = IF made # {} THEN made ELSE read
    ELSE given \in {made, read, {}}

\* An event is computed from one state of the data, and alone of its key in its attempt.
EventIsSound(m, e) ==
    /\ \A k \in FormulaOf(e).reads :
          FromOne(m[e].from[k], MadeOf(m, e.run, e.attempt, k), {d \in m[e].seen : m[d].key = k},
                  k \in Range(FormulaOf(e).in))
    /\ MadeOf(m, e.run, e.attempt, m[e].key) = {e}

\* The attempts that job y used before the one under way.
Used(y) == Attempts - y.left + (IF y.stalled THEN 1 ELSE 0)

\* What is left to evaluate, of the keys that were asked for.
TodoIsSound(y) ==
    /\ IsOrdered(y.hold.todo)
    /\ \A i \in DOMAIN y.hold.todo : Range(y.hold.todo[i].in) \subseteq y.hold.required

\* metricCtx has for each key that is required the result of this attempt, or else the
\* events it has read; and what was stored is not to be computed again, nor did its formula
\* declare what is to come.
EvaluationIsSound(m, r, y) ==
    /\ y.hold.seen \subseteq DOMAIN m
    /\ \A k \in Keys :
          FromOne(y.hold.ctx[k], MadeOf(m, r, y.attempt, k), {d \in y.hold.seen : m[d].key = k},
                  k \in y.hold.required)
    /\ \A e \in Made(m, r, y.attempt) : \A i \in DOMAIN y.hold.todo :
          /\ m[e].key # y.hold.todo[i].out
          /\ e.formula # y.hold.todo[i].id
          /\ y.hold.todo[i].out \notin Range(FormulaOf(e).in)

\* A job's attempts are counted, its events are of these, and its evaluation is sound.
JobIsSound(m, r, y) ==
    /\ y.state \in {"none", "adding", "queued"} => y.left > 0 /\ y.attempt = Used(y)
    /\ y.state \in Active => y.left > 0 /\ y.attempt = Used(y) + 1
    /\ \A e \in DOMAIN m : e.run = r => e.attempt <= y.attempt
    /\ y.state \in {"sorted", "evaluating"} => TodoIsSound(y)
    /\ y.state = "sorted" => Made(m, r, y.attempt) = {}
    /\ y.state = "evaluating" => EvaluationIsSound(m, r, y)

\* What is proved of results, and all that it takes: every state is typed, every job is
\* sound, and so is every event of a run; and nothing is read that was not there.
SoundInv ==
    /\ TypeOK
    /\ \A r \in Runs : JobIsSound(metric, r, job[r])
    /\ \A e \in DOMAIN metric : e.run \in Runs => EventIsSound(metric, e)
    /\ \A e \in DOMAIN metric : metric[e].seen \subseteq DOMAIN metric

-------------------------------------------------------------------------------
(* Formulas.                                                                 *)

\* One more formula after others.
LEMMA OneMoreListed ==
  ASSUME NEW S, IsFiniteSet(S), NEW rows \in SetToSeqs(S), NEW b, b \notin S
  PROVE  rows \o <<b>> \in SetToSeqs(S \cup {b})
  <1> DEFINE n == Cardinality(S)
             longer == rows \o <<b>>
  <1>1. n \in Nat /\ Cardinality(S \cup {b}) = n + 1
    BY FS_CardinalityType, FS_AddElement
  <1>2. rows \in [1 .. n -> S] /\ \A i, j \in 1 .. n : i # j => rows[i] # rows[j]
    BY DEF SetToSeqs
  <1> HIDE DEF n
  <1>3. rows \in Seq(S \cup {b}) /\ Len(rows) = n /\ <<b>> \in Seq(S \cup {b})
    BY <1>1, <1>2
  <1>4. /\ longer \in [1 .. n + 1 -> S \cup {b}]
        /\ \A i \in 1 .. n : longer[i] = rows[i]
        /\ longer[n + 1] = b
    <2>1. Len(<<b>>) = 1 /\ <<b>>[1] = b
      OBVIOUS
    <2>2. /\ longer \in Seq(S \cup {b}) /\ Len(longer) = n + 1
          /\ \A i \in 1 .. n + 1 : longer[i] = IF i <= n THEN rows[i] ELSE <<b>>[i - n]
      <3>1. /\ longer \in Seq(S \cup {b}) /\ Len(longer) = Len(rows) + Len(<<b>>)
            /\ \A i \in 1 .. Len(rows) + Len(<<b>>) :
                  longer[i] = IF i <= Len(rows) THEN rows[i] ELSE <<b>>[i - Len(rows)]
        BY <1>3, ConcatProperties
      <3> QED BY <1>3, <2>1, <3>1
    <2> HIDE DEF longer
    <2>3. longer \in [1 .. n + 1 -> S \cup {b}]
      BY <1>1, <2>2
    <2>4. \A i \in 1 .. n : longer[i] = rows[i]
      BY <1>1, <2>2
    <2>5. longer[n + 1] = b
      <3>1. n + 1 \in 1 .. n + 1 /\ ~(n + 1 <= n) /\ (n + 1) - n = 1
        BY <1>1
      <3> QED BY <2>1, <2>2, <3>1
    <2> QED BY <2>3, <2>4, <2>5
  <1> HIDE DEF longer
  <1>5. \A i, j \in 1 .. n + 1 : i # j => longer[i] # longer[j]
    <2>1. \A i \in 1 .. n + 1 : i \in 1 .. n \/ i = n + 1
      BY <1>1
    <2> QED BY <1>2, <1>4, <2>1
  <1> QED BY <1>1, <1>4, <1>5 DEF SetToSeqs, longer

\* The rows that are read, in whatever order, are a selection of the formulas.
LEMMA ResolvedAreFormulas ==
  ASSUME TypeOK, NEW requested, NEW fs \in Resolved(requested)
  PROVE  \E S \in SUBSET AllFormulas : fs \in SetToSeqs(S) /\ fs \in Seq(AllFormulas)
  <1> DEFINE S == Selected(requested)
  <1>1. PICK rows \in SetToSeqs(S) :
          fs = rows \o (IF FallsBack(requested) THEN <<BuiltIn>> ELSE <<>>)
    BY DEF Resolved
  <1>2. S \subseteq Formulas
    BY DEF Selected, TypeOK
  <1>3. IsFiniteSet(S) /\ Cardinality(S) \in Nat
    BY <1>2, CalcAssumption, FS_Subset, FS_CardinalityType DEF CalcAssumption
  <1>4. rows \in [1 .. Cardinality(S) -> S]
    BY <1>1 DEF SetToSeqs
  <1>5. rows \in Seq(AllFormulas)
    BY <1>2, <1>3, <1>4 DEF AllFormulas
  <1>6. <<BuiltIn>> \in Seq(AllFormulas) /\ <<>> \in Seq(AllFormulas)
    BY DEF AllFormulas
  <1>7. CASE FallsBack(requested)
    <2>1. BuiltIn \notin S
      BY <1>7 DEF FallsBack
    <2> HIDE DEF S
    <2>2. fs \in SetToSeqs(S \cup {BuiltIn})
      BY <1>1, <1>3, <1>7, <2>1, OneMoreListed
    <2>3. fs \in Seq(AllFormulas)
      BY <1>1, <1>5, <1>6, <1>7
    <2> QED BY <1>2, <2>2, <2>3 DEF AllFormulas
  <1>8. CASE ~FallsBack(requested)
    <2>1. fs = rows
      BY <1>1, <1>5, <1>8
    <2> QED BY <1>1, <1>2, <1>5, <2>1 DEF AllFormulas
  <1> QED BY <1>7, <1>8

\* topoSortFormulas orders any list that a run can load, or refuses it.
THEOREM RunsSort == SortsAreSound
  <1> SUFFICES ASSUME NEW S \in SUBSET AllFormulas, NEW fs \in SetToSeqs(S)
               PROVE  SortIsSound(fs)
    BY DEF SortsAreSound, AllFormulas
  <1>1. IsFiniteSet(AllFormulas)
    BY CalcAssumption, FS_AddElement DEF AllFormulas
  <1>2. Cardinality(S) \in Nat
    BY <1>1, FS_Subset, FS_CardinalityType
  <1>3. fs \in [1 .. Cardinality(S) -> S]
    BY DEF SetToSeqs
  <1>4. fs \in Seq(Range(fs))
    BY <1>2, <1>3 DEF Range
  <1>5. ASSUME NEW f \in Range(fs) PROVE f # Undefined /\ f.in \in Seq(Range(f.in))
    <2>1. f \in Formula
      BY <1>3, CalcAssumption DEF Range, AllFormulas
    <2>2. f.in \in Seq(Keys)
      BY <2>1 DEF Formula
    <2>3. f.in \in Seq(Range(f.in))
      BY <2>2 DEF Range
    <2>4. "out" \in DOMAIN f /\ "out" \notin DOMAIN Undefined
      BY <2>1 DEF Formula, Undefined
    <2> QED BY <2>3, <2>4
  <1> QED BY <1>4, <1>5, SortSorts DEF Sortable

\* A sorted list can be evaluated in its order.
LEMMA SortedIsOrdered ==
  ASSUME NEW S \in SUBSET AllFormulas, NEW fs \in SetToSeqs(S),
         fs \in Seq(AllFormulas), ~Order(fs).cycle
  PROVE  /\ IsOrdered(Order(fs).done)
         /\ \A i \in DOMAIN Order(fs).done :
               Range(Order(fs).done[i].in) \subseteq UNION {Range(fs[j].in) : j \in DOMAIN fs}
  <1> DEFINE done == Order(fs).done
  <1>1. Topological(fs, done)
    BY RunsSort DEF SortsAreSound, SortIsSound, Order, AllFormulas
  <1> HIDE DEF done
  <1>2. /\ done \in Seq(Range(fs)) /\ UniqueOutputs(done)
        /\ OutputKeys(done) = OutputKeys(fs)
        /\ \A i \in DOMAIN done :
             Range(done[i].in) \cap OutputKeys(fs) \subseteq OutputKeys(SubSeq(done, 1, i - 1))
    BY <1>1 DEF Topological
  <1>3. \A i \in DOMAIN done : done[i] \in Range(fs)
    BY <1>2
  <1>4. done \in Seq(AllFormulas)
    <2>1. Range(fs) \subseteq AllFormulas
      BY DEF Range
    <2> QED BY <1>2, <2>1
  <1>5. ASSUME NEW i \in DOMAIN done, NEW j \in DOMAIN done, i <= j,
               done[j].out \in Range(done[i].in)
        PROVE  FALSE
    <2>1. done[j].out \in OutputKeys(SubSeq(done, 1, i - 1))
      BY <1>2, <1>5 DEF OutputKeys
    <2>2. PICK l \in 1 .. i - 1 : done[l].out = done[j].out
      <3>1. i \in Nat /\ i <= Len(done) /\ Len(done) \in Nat
        BY <1>2
      <3>2. /\ DOMAIN SubSeq(done, 1, i - 1) = 1 .. i - 1
            /\ \A l \in 1 .. i - 1 : SubSeq(done, 1, i - 1)[l] = done[l]
        BY <1>2, <3>1
      <3> QED BY <2>1, <3>2 DEF OutputKeys
    <2>3. l \in DOMAIN done /\ l # j
      BY <1>2, <1>5
    <2> QED BY <1>2, <2>2, <2>3 DEF UniqueOutputs
  <1>6. \A i \in DOMAIN done : Range(done[i].in) \subseteq UNION {Range(fs[j].in) : j \in DOMAIN fs}
    BY <1>3 DEF Range
  <1> QED BY <1>2, <1>4, <1>5, <1>6 DEF IsOrdered, done

\* What is left once the first formula is done.
LEMMA RestIsOrdered ==
  ASSUME NEW todo, IsOrdered(todo), todo # <<>>
  PROVE  /\ IsOrdered(Tail(todo))
         /\ Head(todo) = todo[1] /\ 1 \in DOMAIN todo /\ Head(todo) \in AllFormulas
         /\ \A i \in DOMAIN Tail(todo) :
               i + 1 \in DOMAIN todo /\ i + 1 # 1 /\ Tail(todo)[i] = todo[i + 1]
  <1> USE DEF IsOrdered
  <1>1. /\ Head(todo) = todo[1] /\ 1 \in DOMAIN todo /\ Head(todo) \in AllFormulas
        /\ Tail(todo) \in Seq(AllFormulas)
        /\ \A i \in DOMAIN Tail(todo) :
               i \in Nat /\ i + 1 \in DOMAIN todo /\ i + 1 # 1 /\ Tail(todo)[i] = todo[i + 1]
    OBVIOUS
  <1>2. UniqueOutputs(Tail(todo))
    BY <1>1 DEF UniqueOutputs
  <1>3. \A i, j \in DOMAIN Tail(todo) : i <= j => Tail(todo)[j].out \notin Range(Tail(todo)[i].in)
    BY <1>1
  <1> QED BY <1>1, <1>2, <1>3

-------------------------------------------------------------------------------
(* Events.                                                                   *)

\* One more event: what attempts have made, with it.
LEMMA MadeOnceInserted ==
  ASSUME NEW m, NEW e, e \notin DOMAIN m, NEW row, NEW n,
         n = [d \in DOMAIN m \cup {e} |-> IF d = e THEN row ELSE m[d]]
  PROVE  /\ DOMAIN n = DOMAIN m \cup {e} /\ n[e] = row /\ \A d \in DOMAIN m : n[d] = m[d]
         /\ \A r, a : r # e.run \/ a # e.attempt => Made(n, r, a) = Made(m, r, a)
         /\ Made(n, e.run, e.attempt) = Made(m, e.run, e.attempt) \cup {e}
         /\ \A r, a, k : r # e.run \/ a # e.attempt \/ k # row.key =>
                             MadeOf(n, r, a, k) = MadeOf(m, r, a, k)
         /\ MadeOf(n, e.run, e.attempt, row.key) = MadeOf(m, e.run, e.attempt, row.key) \cup {e}
  BY DEF Made, MadeOf

\* The events there were stay sound: those of the attempt have other keys than the new one,
\* and none declares that key.
LEMMA EventStaysSound ==
  ASSUME NEW m, NEW e, e \notin DOMAIN m, NEW row, NEW n,
         n = [d \in DOMAIN m \cup {e} |-> IF d = e THEN row ELSE m[d]],
         NEW d \in DOMAIN m, EventIsSound(m, d), m[d].seen \subseteq DOMAIN m,
         d \in Made(m, e.run, e.attempt) =>
            row.key \notin Range(FormulaOf(d).in) /\ MadeOf(m, e.run, e.attempt, row.key) = {}
  PROVE  EventIsSound(n, d)
  <1>1. n[d] = m[d]
    BY MadeOnceInserted
  <1>2. \A k : d.run # e.run \/ d.attempt # e.attempt \/ k # row.key =>
            MadeOf(n, d.run, d.attempt, k) = MadeOf(m, d.run, d.attempt, k)
    <2>1. \A r, a, k : r # e.run \/ a # e.attempt \/ k # row.key =>
                          MadeOf(n, r, a, k) = MadeOf(m, r, a, k)
      BY MadeOnceInserted
    <2> QED BY <2>1, Zenon
  <1>3. d.run = e.run /\ d.attempt = e.attempt =>
           /\ row.key \notin Range(FormulaOf(d).in) /\ m[d].key # row.key
           /\ MadeOf(m, d.run, d.attempt, row.key) = {}
    <2> SUFFICES ASSUME d.run = e.run, d.attempt = e.attempt
                 PROVE  /\ row.key \notin Range(FormulaOf(d).in) /\ m[d].key # row.key
                        /\ MadeOf(m, d.run, d.attempt, row.key) = {}
      OBVIOUS
    <2>1. d \in Made(m, e.run, e.attempt)
      BY DEF Made
    <2> QED BY <2>1 DEF MadeOf
  <1>4. \A k : {x \in n[d].seen : n[x].key = k} = {x \in m[d].seen : m[x].key = k}
    BY <1>1, MadeOnceInserted
  <1>5. MadeOf(n, d.run, d.attempt, n[d].key) = {d}
    BY <1>1, <1>2, <1>3 DEF EventIsSound
  <1>6. ASSUME NEW k \in FormulaOf(d).reads
        PROVE  FromOne(n[d].from[k], MadeOf(n, d.run, d.attempt, k), {x \in n[d].seen : n[x].key = k},
                       k \in Range(FormulaOf(d).in))
    <2>1. FromOne(n[d].from[k], MadeOf(m, d.run, d.attempt, k), {x \in n[d].seen : n[x].key = k},
                  k \in Range(FormulaOf(d).in))
      BY <1>1, <1>4 DEF EventIsSound
    <2>2. CASE MadeOf(n, d.run, d.attempt, k) = MadeOf(m, d.run, d.attempt, k)
      BY <2>1, <2>2
    <2>3. CASE d.run = e.run /\ d.attempt = e.attempt /\ k = row.key
      BY <1>3, <2>1, <2>3 DEF FromOne
    <2> QED BY <1>2, <2>2, <2>3
  <1> QED BY <1>5, <1>6 DEF EventIsSound

\* A job that does not store the new event stays sound.
LEMMA JobStaysSound ==
  ASSUME NEW m, NEW e, e \notin DOMAIN m, NEW row, NEW n,
         n = [d \in DOMAIN m \cup {e} |-> IF d = e THEN row ELSE m[d]],
         NEW r, r # e.run, NEW y, JobIsSound(m, r, y)
  PROVE  JobIsSound(n, r, y)
  <1>1. /\ DOMAIN n = DOMAIN m \cup {e} /\ \A d \in DOMAIN m : n[d] = m[d]
        /\ \A a : Made(n, r, a) = Made(m, r, a)
        /\ \A a, k : MadeOf(n, r, a, k) = MadeOf(m, r, a, k)
    BY DEF Made, MadeOf
  <1>2. EvaluationIsSound(m, r, y) => EvaluationIsSound(n, r, y)
    <2> SUFFICES ASSUME EvaluationIsSound(m, r, y) PROVE EvaluationIsSound(n, r, y)
      OBVIOUS
    <2>1. y.hold.seen \subseteq DOMAIN n
      BY <1>1 DEF EvaluationIsSound
    <2>2. \A k : {d \in y.hold.seen : n[d].key = k} = {d \in y.hold.seen : m[d].key = k}
      BY <1>1 DEF EvaluationIsSound
    <2>3. \A d \in Made(n, r, y.attempt) : n[d] = m[d] /\ d \in Made(m, r, y.attempt)
      BY <1>1 DEF Made
    <2>4. ASSUME NEW k \in Keys
          PROVE  FromOne(y.hold.ctx[k], MadeOf(n, r, y.attempt, k), {d \in y.hold.seen : n[d].key = k},
                         k \in y.hold.required)
      <3>1. MadeOf(n, r, y.attempt, k) = MadeOf(m, r, y.attempt, k)
        BY <1>1
      <3>2. {d \in y.hold.seen : n[d].key = k} = {d \in y.hold.seen : m[d].key = k}
        BY <2>2
      <3> QED BY <3>1, <3>2 DEF EvaluationIsSound
    <2>5. ASSUME NEW d \in Made(n, r, y.attempt), NEW i \in DOMAIN y.hold.todo
          PROVE  /\ n[d].key # y.hold.todo[i].out
                 /\ d.formula # y.hold.todo[i].id
                 /\ y.hold.todo[i].out \notin Range(FormulaOf(d).in)
      <3>1. n[d] = m[d] /\ d \in Made(m, r, y.attempt)
        BY <2>3
      <3>2. /\ m[d].key # y.hold.todo[i].out
            /\ d.formula # y.hold.todo[i].id
            /\ y.hold.todo[i].out \notin Range(FormulaOf(d).in)
        BY <3>1 DEF EvaluationIsSound
      <3> QED BY <3>1, <3>2
    <2> QED BY <2>1, <2>4, <2>5 DEF EvaluationIsSound
  <1>3. \A d \in DOMAIN n : d.run = r => d \in DOMAIN m
    BY <1>1
  <1>4. Made(n, r, y.attempt) = Made(m, r, y.attempt)
    BY <1>1
  <1> QED BY <1>2, <1>3, <1>4 DEF JobIsSound

-------------------------------------------------------------------------------
(* Steps that store no event.                                                *)

\* A job that is sound moves to one that is, and the events stay.
LEMMA MoveKeepsSound ==
  ASSUME SoundInv, NEW r \in Runs, NEW x \in Job, JobIsSound(metric, r, x),
         job' = [job EXCEPT ![r] = x], metric' = metric, formulas' \subseteq Formulas,
         run' \in [Runs -> Run \cup {NoRun}], faults' \in 0 .. MaxFaults
  PROVE  SoundInv'
  <1>1. /\ \A s \in Runs : job'[s] = IF s = r THEN x ELSE job[s]
        /\ job' \in [Runs -> Job]
    BY DEF SoundInv, TypeOK
  <1>2. TypeOK'
    BY <1>1 DEF SoundInv, TypeOK
  <1>3. \A s \in Runs : JobIsSound(metric', s, job'[s])
    BY <1>1 DEF SoundInv
  <1> QED BY <1>2, <1>3 DEF SoundInv

\* The fields of a job, one by one.
LEMMA FieldsOfJob ==
  ASSUME NEW y \in Job
  PROVE  /\ y.state \in {"none", "adding", "dropped", "lost", "expired"} \cup InRedis
         /\ y.left \in 0 .. Attempts /\ y.stalled \in BOOLEAN /\ y.attempt \in 0 .. Attempts + 1
         /\ y.hold.todo \in Seq(Formula) /\ y.hold.required \subseteq Keys
         /\ y.hold.ctx \in [Keys -> SUBSET EventId] /\ y.hold.seen \subseteq EventId
         /\ y.hold.last \in EventId
         /\ y.hold \in [todo : Seq(Formula), required : SUBSET Keys, ctx : [Keys -> SUBSET EventId],
                        seen : SUBSET EventId, last : EventId]
  BY DEF Job

\* A job holds nothing between its attempts.
LEMMA NothingIsHeld ==
  NothingHeld \in [todo : Seq(Formula), required : SUBSET Keys, ctx : [Keys -> SUBSET EventId],
                   seen : SUBSET EventId, last : EventId]
  <1>1. [k \in Keys |-> {}] \in [Keys -> SUBSET EventId]
    OBVIOUS
  <1>2. NoEvent \in EventId
    BY DEF NoEvent, EventId
  <1>3. <<>> \in Seq(Formula)
    OBVIOUS
  <1> DEFINE none == [k \in Keys |-> {}]
  <1> HIDE DEF none
  <1>4. none \in [Keys -> SUBSET EventId]
    BY <1>1 DEF none
  <1>5. NothingHeld = [todo |-> <<>>, required |-> {}, ctx |-> none, seen |-> {}, last |-> NoEvent]
    BY DEF NothingHeld, none
  <1> QED BY <1>2, <1>3, <1>4, <1>5

\* A job, whatever it holds.
IsCounted(y) ==
    /\ \E s, h : y = [state |-> s, left |-> y.left, stalled |-> y.stalled,
                      attempt |-> y.attempt, hold |-> h]
    /\ y.left \in 0 .. Attempts /\ y.stalled \in BOOLEAN /\ y.attempt \in 0 .. Attempts + 1

\* A job is a job, whatever it holds.
LEMMA JobIsCounted ==
  ASSUME NEW y \in Job
  PROVE  IsCounted(y)
  <1>1. PICK s, l, b, a, h :
          y = [state |-> s, left |-> l, stalled |-> b, attempt |-> a, hold |-> h]
    BY DEF Job
  <1>2. y = [state |-> s, left |-> y.left, stalled |-> y.stalled, attempt |-> y.attempt,
             hold |-> h]
    BY <1>1
  <1> QED BY <1>2, FieldsOfJob DEF IsCounted

\* Whatever the state is that a job ends in, and whatever it held, it is a job.
LEMMA EndedInJob ==
  ASSUME NEW y, IsCounted(y), NEW state \in InRedis
  PROVE  /\ Ended(y, state) \in Job
         /\ Ended(y, state) = [state |-> state, left |-> y.left, stalled |-> y.stalled,
                               attempt |-> y.attempt, hold |-> NothingHeld]
  <1>1. PICK s, l, b, a, h :
          y = [state |-> s, left |-> l, stalled |-> b, attempt |-> a, hold |-> h]
    BY DEF IsCounted
  <1>2. Ended(y, state) = [state |-> state, left |-> y.left, stalled |-> y.stalled,
                           attempt |-> y.attempt, hold |-> NothingHeld]
    <2>1. Ended(y, state) = [state |-> state, left |-> l, stalled |-> b, attempt |-> a,
                             hold |-> NothingHeld]
      <3> DEFINE moved == [y EXCEPT !.state = state]
      <3>1. moved = [state |-> state, left |-> l, stalled |-> b, attempt |-> a, hold |-> h]
        BY <1>1
      <3>2. Ended(y, state) = [moved EXCEPT !.hold = NothingHeld]
        BY DEF Ended
      <3> HIDE DEF moved
      <3> QED BY <3>1, <3>2
    <2>2. y.left = l /\ y.stalled = b /\ y.attempt = a
      BY <1>1
    <2> QED BY <2>1, <2>2
  <1> QED BY <1>2, NothingIsHeld DEF IsCounted, Job

\* A job that was at work and fails is queued again, one attempt less, or dead.
LEMMA FailedIsSound ==
  ASSUME NEW m, NEW r, NEW y, IsCounted(y), y.left > 0, y.attempt = Used(y) + 1,
         \A e \in DOMAIN m : e.run = r => e.attempt <= y.attempt
  PROVE  Failed(y) \in Job /\ JobIsSound(m, r, Failed(y))
  <1> DEFINE state == IF y.left > 1 THEN "queued" ELSE "dead"
             left == y.left - 1
             z == [state |-> state, left |-> left, stalled |-> y.stalled, attempt |-> y.attempt,
                   hold |-> NothingHeld]
  <1>1. state \in InRedis /\ state \in {"queued", "dead"} /\ (state = "queued" => left > 0)
        /\ left \in 0 .. Attempts
    BY CalcAssumption DEF IsCounted, InRedis, CalcAssumption
  <1>2. Failed(y) = z
    <2>1. Ended(y, state) = [state |-> state, left |-> y.left, stalled |-> y.stalled,
                             attempt |-> y.attempt, hold |-> NothingHeld]
      BY <1>1, EndedInJob
    <2>2. Failed(y) = [Ended(y, state) EXCEPT !.left = left]
      BY DEF Failed
    <2> HIDE DEF state, left
    <2> QED BY <2>1, <2>2
  <1>3. Used(z) = Used(y) + 1
    BY CalcAssumption DEF IsCounted, CalcAssumption, Used
  <1>4. z.state = state /\ z.left = left /\ z.attempt = y.attempt
    OBVIOUS
  <1>5. z \in Job
    <2> HIDE DEF state, left
    <2> QED BY <1>1, NothingIsHeld DEF IsCounted, Job
  <1> HIDE DEF z, state
  <1>6. JobIsSound(m, r, z)
    BY <1>1, <1>3, <1>4 DEF JobIsSound, Active
  <1> QED BY <1>2, <1>5, <1>6

\* A call rejects.
LEMMA ThrowsKeepsSound ==
  ASSUME SoundInv, NEW r \in Runs, JobThrows(r)
  PROVE  SoundInv'
  <1>1. /\ job[r].state \in Active /\ job[r] \in Job /\ JobIsSound(metric, r, job[r])
        /\ job' = [job EXCEPT ![r] = Failed(job[r])]
    BY DEF SoundInv, TypeOK, JobThrows
  <1>2. Failed(job[r]) \in Job /\ JobIsSound(metric, r, Failed(job[r]))
    BY <1>1, JobIsCounted, FailedIsSound DEF JobIsSound
  <1>3. /\ metric' = metric /\ formulas' \subseteq Formulas /\ run' \in [Runs -> Run \cup {NoRun}]
        /\ faults' \in 0 .. MaxFaults
    BY CalcAssumption DEF CalcAssumption, JobThrows, Fault, SoundInv, TypeOK
  <1> QED BY <1>1, <1>2, <1>3, MoveKeepsSound

\* The worker's process stops.
LEMMA StallsKeepsSound ==
  ASSUME SoundInv, NEW r \in Runs, JobStalls(r)
  PROVE  SoundInv'
  <1> DEFINE y == job[r]
             state == IF y.stalled THEN "dead" ELSE "queued"
             z == [state |-> state, left |-> y.left, stalled |-> TRUE, attempt |-> y.attempt,
                   hold |-> NothingHeld]
  <1>1. /\ y.state \in Active /\ y \in Job /\ JobIsSound(metric, r, y)
        /\ job' = [job EXCEPT ![r] = [Ended(y, state) EXCEPT !.stalled = TRUE]]
    BY DEF SoundInv, TypeOK, JobStalls
  <1>2. state \in InRedis /\ state \in {"queued", "dead"} /\ (state = "queued" => ~y.stalled)
    BY DEF InRedis
  <1>3. job' = [job EXCEPT ![r] = z]
    <2>1. Ended(y, state) = [state |-> state, left |-> y.left, stalled |-> y.stalled,
                             attempt |-> y.attempt, hold |-> NothingHeld]
      BY <1>1, <1>2, JobIsCounted, EndedInJob
    <2> HIDE DEF state, y
    <2>2. ASSUME NEW b
          PROVE  [Ended(y, state) EXCEPT !.stalled = b]
                 = [state |-> state, left |-> y.left, stalled |-> b, attempt |-> y.attempt,
                    hold |-> NothingHeld]
      BY <2>1
    <2>3. [Ended(y, state) EXCEPT !.stalled = TRUE] = z
      BY <2>2, Zenon
    <2> HIDE DEF z
    <2> QED BY <1>1, <2>3
  <1>4. z.state = state /\ z.left = y.left /\ z.stalled = TRUE /\ z.attempt = y.attempt
    OBVIOUS
  <1>5. z \in Job
    <2> HIDE DEF state
    <2> QED BY <1>1, <1>2, FieldsOfJob, NothingIsHeld DEF Job
  <1>6. JobIsSound(metric, r, z)
    <2>1. y.stalled \in BOOLEAN /\ y.left \in Nat
      BY <1>1, FieldsOfJob, CalcAssumption DEF CalcAssumption
    <2>2. state = "queued" => Used(z) = Used(y) + 1
      BY <1>2, <1>4, <2>1, CalcAssumption DEF CalcAssumption, Used
    <2> HIDE DEF z, state
    <2> QED BY <1>1, <1>2, <1>4, <2>2 DEF JobIsSound, Active
  <1>7. /\ metric' = metric /\ formulas' \subseteq Formulas /\ run' \in [Runs -> Run \cup {NoRun}]
        /\ faults' \in 0 .. MaxFaults
    BY CalcAssumption DEF CalcAssumption, JobStalls, Fault, SoundInv, TypeOK
  <1> HIDE DEF z
  <1> QED BY <1>3, <1>5, <1>6, <1>7, MoveKeepsSound

\* A job that changes its state alone.
LEMMA StateOfJob ==
  ASSUME NEW y \in Job,
         NEW state \in {"none", "adding", "dropped", "lost", "expired"} \cup InRedis
  PROVE  LET x == [y EXCEPT !.state = state]
         IN  /\ x \in Job
             /\ x.state = state /\ x.left = y.left /\ x.stalled = y.stalled
             /\ x.attempt = y.attempt /\ x.hold = y.hold
  BY DEF Job

\* A job changes its state alone: to one in which nothing is evaluated, and with its
\* attempts counted as they were.
LEMMA StateKeepsSound ==
  ASSUME SoundInv, NEW r \in Runs,
         NEW state \in {"adding", "queued", "written", "dropped", "lost", "expired"},
         job' = [job EXCEPT ![r].state = state],
         state \in {"adding", "queued"} => job[r].state \in {"none", "adding"},
         state = "written" => job[r].state = "evaluating",
         metric' = metric, formulas' = formulas,
         run' \in [Runs -> Run \cup {NoRun}], faults' \in 0 .. MaxFaults
  PROVE  SoundInv'
  <1> DEFINE y == job[r]
             x == [y EXCEPT !.state = state]
  <1>1. y \in Job /\ JobIsSound(metric, r, y)
    BY DEF SoundInv, TypeOK
  <1>2. x \in Job /\ x.state = state /\ x.left = y.left /\ x.stalled = y.stalled
        /\ x.attempt = y.attempt /\ x.hold = y.hold
    <2>1. state \in {"none", "adding", "dropped", "lost", "expired"} \cup InRedis
      BY DEF InRedis, Active
    <2> QED BY <1>1, <2>1, StateOfJob
  <1>3. job' = [job EXCEPT ![r] = x] /\ formulas' \subseteq Formulas
    BY DEF SoundInv, TypeOK
  <1> HIDE DEF x
  <1>4. Used(x) = Used(y)
    BY <1>2 DEF Used
  <1>5. JobIsSound(metric, r, x)
    BY <1>1, <1>2, <1>4 DEF JobIsSound, Active
  <1> QED BY <1>2, <1>3, <1>5, MoveKeepsSound

\* A request, and what becomes of its job before a worker takes it.
LEMMA RequestKeepsSound ==
  ASSUME IInv, SoundInv, NEW r \in Runs, Request(r)
  PROVE  SoundInv'
  <1>1. ASSUME NEW requested \in RequestKeys, NEW key \in IdempotencyKeys,
               StartRun(r, requested, key)
        PROVE  SoundInv'
    <2> DEFINE row == [requested |-> requested, idempotencyKey |-> key, pending |-> TRUE,
                       output |-> NoEvent]
    <2>1. row \in Run
      BY CalcAssumption DEF CalcAssumption, Run, NoEvent, EventId
    <2> HIDE DEF row
    <2>2. run' \in [Runs -> Run \cup {NoRun}]
      BY <1>1, <2>1 DEF StartRun, SoundInv, TypeOK, row
    <2>3. job[r].state = "none"
      BY <1>1 DEF StartRun, IInv, Shapes
    <2> QED BY <1>1, <2>2, <2>3, StateKeepsSound DEF StartRun, SoundInv, TypeOK
  <1>2. CASE AddJob(r) \/ AddFails(r)
    <2>1. PICK state \in {"queued", "dropped", "lost"} : job' = [job EXCEPT ![r].state = state]
      BY <1>2 DEF AddJob, AddFails
    <2>2. faults' \in 0 .. MaxFaults /\ run' \in [Runs -> Run \cup {NoRun}]
      BY <1>2, CalcAssumption DEF CalcAssumption, AddJob, AddFails, Fault, SoundInv, TypeOK
    <2>3. job[r].state = "adding" /\ metric' = metric /\ formulas' = formulas
      BY <1>2 DEF AddJob, AddFails
    <2> QED BY <2>1, <2>2, <2>3, StateKeepsSound
  <1> QED BY <1>1, <1>2 DEF Request

\* The row of a run is written, and the job expires.
LEMMA WriteKeepsSound ==
  ASSUME IInv, SoundInv, NEW r \in Runs, WriteRun(r) \/ JobExpires(r)
  PROVE  SoundInv'
  <1>1. CASE WriteRun(r)
    <2> DEFINE row == [run[r] EXCEPT !.pending = FALSE, !.output = job[r].hold.last]
    <2>1. run[r] # NoRun /\ job[r] \in Job
      BY <1>1 DEF WriteRun, IInv, Shapes, SoundInv, TypeOK
    <2>2. row \in Run
      <3>1. run[r] \in Run
        BY <2>1 DEF SoundInv, TypeOK
      <3>2. job[r].hold.last \in EventId
        BY <2>1, FieldsOfJob
      <3> QED BY <3>1, <3>2 DEF Run
    <2>3. run' = [run EXCEPT ![r] = row]
      BY <1>1 DEF WriteRun
    <2> HIDE DEF row
    <2>4. run' \in [Runs -> Run \cup {NoRun}]
      BY <2>2, <2>3 DEF SoundInv, TypeOK
    <2> QED BY <1>1, <2>4, StateKeepsSound DEF WriteRun, SoundInv, TypeOK
  <1>2. CASE JobExpires(r)
    BY <1>2, StateKeepsSound DEF JobExpires, SoundInv, TypeOK
  <1> QED BY <1>1, <1>2

\* A job is done.
LEMMA DoneKeepsSound ==
  ASSUME SoundInv, NEW r \in Runs, JobDone(r)
  PROVE  SoundInv'
  <1> DEFINE y == job[r]
             x == Ended(y, "done")
  <1>1. /\ y \in Job /\ JobIsSound(metric, r, y) /\ job' = [job EXCEPT ![r] = x]
        /\ metric' = metric /\ formulas' \subseteq Formulas /\ run' \in [Runs -> Run \cup {NoRun}]
        /\ faults' \in 0 .. MaxFaults
    BY DEF JobDone, SoundInv, TypeOK
  <1>2. x \in Job /\ x.state = "done" /\ x.attempt = y.attempt
    BY <1>1, JobIsCounted, EndedInJob DEF InRedis
  <1> HIDE DEF x
  <1>3. JobIsSound(metric, r, x)
    BY <1>1, <1>2 DEF JobIsSound, Active
  <1> QED BY <1>1, <1>2, <1>3, MoveKeepsSound

\* A formula that throws is left out, and what follows it is as it was.
LEMMA SkipKeepsSound ==
  ASSUME SoundInv, NEW r \in Runs, SkipFormula(r)
  PROVE  SoundInv'
  <1> DEFINE y == job[r]
             todo == Tail(y.hold.todo)
             hold == [y.hold EXCEPT !.todo = todo]
             x == [y EXCEPT !.hold = hold]
  <1>1. /\ y \in Job /\ JobIsSound(metric, r, y) /\ job' = [job EXCEPT ![r] = x]
        /\ metric' = metric /\ formulas' \subseteq Formulas /\ run' \in [Runs -> Run \cup {NoRun}]
        /\ faults' \in 0 .. MaxFaults /\ y.state = "evaluating" /\ y.hold.todo # <<>>
    BY DEF SkipFormula, SoundInv, TypeOK
  <1>2. TodoIsSound(y) /\ EvaluationIsSound(metric, r, y)
    BY <1>1 DEF JobIsSound
  <1>3. /\ IsOrdered(todo)
        /\ \A i \in DOMAIN todo : i + 1 \in DOMAIN y.hold.todo /\ todo[i] = y.hold.todo[i + 1]
    BY <1>1, <1>2, RestIsOrdered DEF TodoIsSound
  <1>4. todo \in Seq(Formula)
    BY <1>1, FieldsOfJob
  <1> HIDE DEF todo
  <1>5. /\ hold.todo = todo /\ hold.required = y.hold.required /\ hold.ctx = y.hold.ctx
        /\ hold.seen = y.hold.seen
        /\ hold \in [todo : Seq(Formula), required : SUBSET Keys, ctx : [Keys -> SUBSET EventId],
                     seen : SUBSET EventId, last : EventId]
    BY <1>1, <1>4, FieldsOfJob
  <1> HIDE DEF hold
  <1>6. /\ x \in Job /\ x.state = y.state /\ x.left = y.left /\ x.stalled = y.stalled
        /\ x.attempt = y.attempt /\ x.hold = hold
    BY <1>1, <1>5 DEF Job
  <1> HIDE DEF x
  <1>7. TodoIsSound(x)
    BY <1>2, <1>3, <1>5, <1>6 DEF TodoIsSound
  <1>8. EvaluationIsSound(metric, r, x)
    <2>1. ASSUME NEW e \in Made(metric, r, x.attempt), NEW i \in DOMAIN x.hold.todo
          PROVE  /\ metric[e].key # x.hold.todo[i].out
                 /\ e.formula # x.hold.todo[i].id
                 /\ x.hold.todo[i].out \notin Range(FormulaOf(e).in)
      <3>1. x.hold.todo[i] = y.hold.todo[i + 1] /\ i + 1 \in DOMAIN y.hold.todo
            /\ e \in Made(metric, r, y.attempt)
        BY <1>3, <1>5, <1>6
      <3>2. /\ metric[e].key # y.hold.todo[i + 1].out
            /\ e.formula # y.hold.todo[i + 1].id
            /\ y.hold.todo[i + 1].out \notin Range(FormulaOf(e).in)
        BY <1>2, <3>1 DEF EvaluationIsSound
      <3> QED BY <3>1, <3>2
    <2>2. /\ x.attempt = y.attempt /\ x.hold.seen = y.hold.seen /\ x.hold.ctx = y.hold.ctx
          /\ x.hold.required = y.hold.required
      BY <1>5, <1>6
    <2>3. ASSUME NEW k \in Keys
          PROVE  FromOne(x.hold.ctx[k], MadeOf(metric, r, x.attempt, k),
                         {d \in x.hold.seen : metric[d].key = k}, k \in x.hold.required)
      BY <1>2, <2>2 DEF EvaluationIsSound
    <2> QED BY <1>2, <2>1, <2>2, <2>3 DEF EvaluationIsSound
  <1>9. JobIsSound(metric, r, x)
    BY <1>1, <1>6, <1>7, <1>8 DEF JobIsSound, Active, Used
  <1> QED BY <1>1, <1>6, <1>9, MoveKeepsSound

\* An attempt begins: it has made nothing yet, and has its formulas in order, or fails.
LEMMA LoadFormulasKeepsSound ==
  ASSUME SoundInv, NEW r \in Runs, LoadFormulas(r)
  PROVE  SoundInv'
  <1>1. PICK fs \in Resolved(run[r].requested) :
          LET begun == [job[r] EXCEPT !.state = "sorted", !.attempt = @ + 1,
                                      !.hold.todo = Order(fs).done,
                                      !.hold.required = UNION {Range(fs[i].in) : i \in DOMAIN fs}]
          IN job' = [job EXCEPT ![r] = IF Order(fs).cycle THEN Failed(begun) ELSE begun]
    BY DEF LoadFormulas
  <1> DEFINE y == job[r]
             todo == Order(fs).done
             cycle == Order(fs).cycle
             required == UNION {Range(fs[i].in) : i \in DOMAIN fs}
             attempt == y.attempt + 1
             x == [y EXCEPT !.state = "sorted", !.attempt = @ + 1,
                            !.hold.todo = todo, !.hold.required = required]
  <1>2. job' = [job EXCEPT ![r] = IF cycle THEN Failed(x) ELSE x]
    BY <1>1
  <1>3. PICK S \in SUBSET AllFormulas : fs \in SetToSeqs(S) /\ fs \in Seq(AllFormulas)
    BY ResolvedAreFormulas DEF SoundInv
  <1>4. /\ y \in Job /\ JobIsSound(metric, r, y) /\ y.state = "queued"
        /\ metric' = metric /\ formulas' \subseteq Formulas /\ run' \in [Runs -> Run \cup {NoRun}]
        /\ faults' \in 0 .. MaxFaults
    BY DEF LoadFormulas, SoundInv, TypeOK
  <1>5. required \subseteq Keys
    BY <1>3, CalcAssumption DEF CalcAssumption, AllFormulas, Formula, Range
  <1>6. ~cycle => /\ IsOrdered(todo)
                  /\ \A i \in DOMAIN todo : Range(todo[i].in) \subseteq required
    BY <1>3, SortedIsOrdered
  <1>7. ~cycle => todo \in Seq(Formula)
    BY <1>6, CalcAssumption DEF CalcAssumption, AllFormulas, IsOrdered
  <1> HIDE DEF todo, cycle, required
  <1>8. PICK s, l, b, a, t, q, c, e, z :
          y = [state |-> s, left |-> l, stalled |-> b, attempt |-> a,
               hold |-> [todo |-> t, required |-> q, ctx |-> c, seen |-> e, last |-> z]]
    BY <1>4 DEF Job
  <1>9. x = [state |-> "sorted", left |-> l, stalled |-> b, attempt |-> attempt,
             hold |-> [todo |-> todo, required |-> required, ctx |-> c, seen |-> e, last |-> z]]
    <2> DEFINE x1 == [y EXCEPT !.state = "sorted"]
               x2 == [x1 EXCEPT !.attempt = @ + 1]
               x3 == [x2 EXCEPT !.hold.todo = todo]
    <2>1. x1 = [state |-> "sorted", left |-> l, stalled |-> b, attempt |-> a,
                hold |-> [todo |-> t, required |-> q, ctx |-> c, seen |-> e, last |-> z]]
      BY <1>8
    <2>2. x = [x3 EXCEPT !.hold.required = required]
      OBVIOUS
    <2>3. a = y.attempt
      BY <1>8
    <2> HIDE DEF x1, y
    <2>4. x2 = [state |-> "sorted", left |-> l, stalled |-> b, attempt |-> attempt,
                hold |-> [todo |-> t, required |-> q, ctx |-> c, seen |-> e, last |-> z]]
      BY <2>1, <2>3
    <2> HIDE DEF x2
    <2>5. x3 = [state |-> "sorted", left |-> l, stalled |-> b, attempt |-> attempt,
                hold |-> [todo |-> todo, required |-> q, ctx |-> c, seen |-> e, last |-> z]]
      BY <2>4
    <2> HIDE DEF x3
    <2> QED BY <2>2, <2>5
  <1> HIDE DEF x
  <1>10. /\ x.state = "sorted" /\ x.left = y.left /\ x.stalled = y.stalled /\ x.attempt = y.attempt + 1
         /\ x.hold.todo = todo /\ x.hold.required = required /\ Used(x) = Used(y)
    <2>1. /\ x.state = "sorted" /\ x.left = y.left /\ x.stalled = y.stalled /\ x.attempt = y.attempt + 1
          /\ x.hold.todo = todo /\ x.hold.required = required
      BY <1>8, <1>9
    <2> QED BY <2>1 DEF Used
  <1>11. /\ x.left > 0 /\ x.attempt = Used(x) + 1 /\ x.attempt \in 0 .. Attempts + 1
         /\ \A d \in DOMAIN metric : d.run = r => d.attempt < x.attempt
    <2>1. /\ y.left > 0 /\ y.attempt = Used(y)
          /\ \A d \in DOMAIN metric : d.run = r => d.attempt <= y.attempt
      BY <1>4 DEF JobIsSound
    <2>2. y.left \in 0 .. Attempts /\ y.stalled \in BOOLEAN /\ y.attempt \in 0 .. Attempts + 1
      BY <1>4, FieldsOfJob
    <2>3. y.attempt <= Attempts
      BY <2>1, <2>2, CalcAssumption DEF CalcAssumption, Used
    <2>4. \A d \in DOMAIN metric : d.attempt \in Nat
      BY DEF SoundInv, TypeOK, EventId
    <2> QED BY <1>10, <2>1, <2>2, <2>3, <2>4, CalcAssumption DEF CalcAssumption
  <1>12. IsCounted(x)
    <2>1. x = [state |-> "sorted", left |-> x.left, stalled |-> x.stalled, attempt |-> x.attempt,
               hold |-> x.hold]
      BY <1>9
    <2> QED BY <1>4, <1>10, <1>11, <2>1, FieldsOfJob DEF IsCounted
  <1>13. CASE cycle
    <2>1. \A d \in DOMAIN metric : d.run = r => d.attempt <= x.attempt
      BY <1>4, <1>10, FieldsOfJob DEF JobIsSound, SoundInv, TypeOK, EventId
    <2>2. Failed(x) \in Job /\ JobIsSound(metric, r, Failed(x))
      BY <1>11, <1>12, <2>1, FailedIsSound
    <2> QED BY <1>2, <1>4, <1>13, <2>2, MoveKeepsSound
  <1>14. CASE ~cycle
    <2>1. x \in Job
      <3> USE <1>4, FieldsOfJob
      <3>1. c \in [Keys -> SUBSET EventId] /\ e \subseteq EventId /\ z \in EventId
        BY <1>8
      <3>2. l \in 0 .. Attempts /\ b \in BOOLEAN /\ attempt \in 0 .. Attempts + 1
        BY <1>8, <1>10, <1>11
      <3>3. x.hold = [todo |-> todo, required |-> required, ctx |-> c, seen |-> e, last |-> z]
        BY <1>9
      <3>4. x.hold \in [todo : Seq(Formula), required : SUBSET Keys, ctx : [Keys -> SUBSET EventId],
                        seen : SUBSET EventId, last : EventId]
        BY <1>5, <1>7, <1>14, <3>1, <3>3
      <3>5. x = [state |-> "sorted", left |-> l, stalled |-> b, attempt |-> attempt,
                 hold |-> x.hold]
        BY <1>9, <3>3
      <3> HIDE DEF attempt
      <3> QED BY <3>2, <3>4, <3>5 DEF Job, InRedis, Active
    <2>2. TodoIsSound(x)
      BY <1>6, <1>10, <1>14 DEF TodoIsSound
    <2>3. Made(metric, r, x.attempt) = {}
      BY <1>4, <1>10, <1>11, FieldsOfJob DEF Made
    <2>4. JobIsSound(metric, r, x)
      BY <1>4, <1>10, <1>11, <2>2, <2>3, FieldsOfJob DEF JobIsSound, SoundInv, TypeOK, EventId
    <2> QED BY <1>2, <1>4, <1>14, <2>1, <2>4, MoveKeepsSound
  <1> QED BY <1>13, <1>14

\* The attempt reads its inputs, or fails since their units differ.
LEMMA LoadInputsKeepsSound ==
  ASSUME SoundInv, NEW r \in Runs, LoadInputs(r)
  PROVE  SoundInv'
  <1> DEFINE y == job[r]
             required == y.hold.required
             ctx == [k \in Keys |-> Found(required, k)]
             seen == DOMAIN metric
             x == [y EXCEPT !.state = "evaluating", !.hold.seen = seen, !.hold.ctx = ctx]
  <1>1. /\ y \in Job /\ JobIsSound(metric, r, y) /\ y.state = "sorted"
        /\ metric' = metric /\ formulas' \subseteq Formulas /\ run' \in [Runs -> Run \cup {NoRun}]
        /\ faults' \in 0 .. MaxFaults
        /\ job' = [job EXCEPT ![r] = IF UnitsMix(required) THEN Failed(y) ELSE x]
    BY DEF LoadInputs, SoundInv, TypeOK
  <1>2. CASE UnitsMix(required)
    <2>1. Failed(y) \in Job /\ JobIsSound(metric, r, Failed(y))
      BY <1>1, JobIsCounted, FailedIsSound DEF JobIsSound, Active
    <2> QED BY <1>1, <1>2, <2>1, MoveKeepsSound
  <1>3. CASE ~UnitsMix(required)
    <2>1. /\ ctx \in [Keys -> SUBSET EventId] /\ seen \subseteq EventId /\ seen = DOMAIN metric
          /\ \A k \in Keys : FromOne(ctx[k], {}, {d \in seen : metric[d].key = k}, k \in required)
      <3>1. \A k \in Keys : Found(required, k) \subseteq EventId
        BY DEF Found, SoundInv, TypeOK
      <3>2. \A k \in Keys :
              /\ k \in required => Found(required, k) = {d \in seen : metric[d].key = k}
              /\ Found(required, k) \in {{}, {d \in seen : metric[d].key = k}}
        BY DEF Found
      <3> QED BY <3>1, <3>2 DEF SoundInv, TypeOK, FromOne
    <2> HIDE DEF ctx, seen
    <2>2. PICK s, l, b, a, t, q, c, e, z :
            y = [state |-> s, left |-> l, stalled |-> b, attempt |-> a,
                 hold |-> [todo |-> t, required |-> q, ctx |-> c, seen |-> e, last |-> z]]
      BY <1>1 DEF Job
    <2>3. x = [state |-> "evaluating", left |-> l, stalled |-> b, attempt |-> a,
               hold |-> [todo |-> t, required |-> q, ctx |-> ctx, seen |-> seen, last |-> z]]
      <3> DEFINE x1 == [y EXCEPT !.state = "evaluating"]
                 x2 == [x1 EXCEPT !.hold.seen = seen]
      <3>1. x1 = [state |-> "evaluating", left |-> l, stalled |-> b, attempt |-> a,
                  hold |-> [todo |-> t, required |-> q, ctx |-> c, seen |-> e, last |-> z]]
        BY <2>2
      <3>2. x = [x2 EXCEPT !.hold.ctx = ctx]
        OBVIOUS
      <3> HIDE DEF x1
      <3>3. x2 = [state |-> "evaluating", left |-> l, stalled |-> b, attempt |-> a,
                  hold |-> [todo |-> t, required |-> q, ctx |-> c, seen |-> seen, last |-> z]]
        BY <3>1
      <3> HIDE DEF x2
      <3> QED BY <3>2, <3>3
    <2> HIDE DEF x
    <2>4. /\ x.state = "evaluating" /\ x.left = y.left /\ x.stalled = y.stalled
          /\ x.attempt = y.attempt /\ x.hold.todo = y.hold.todo /\ x.hold.required = required
          /\ x.hold.ctx = ctx /\ x.hold.seen = seen
      BY <2>2, <2>3
    <2>5. x \in Job
      <3>1. x.hold = [todo |-> y.hold.todo, required |-> required, ctx |-> ctx, seen |-> seen,
                      last |-> y.hold.last]
        BY <2>2, <2>3
      <3>2. x.hold \in [todo : Seq(Formula), required : SUBSET Keys, ctx : [Keys -> SUBSET EventId],
                        seen : SUBSET EventId, last : EventId]
        BY <1>1, <2>1, <3>1, FieldsOfJob
      <3>3. x = [state |-> "evaluating", left |-> y.left, stalled |-> y.stalled,
                 attempt |-> y.attempt, hold |-> x.hold]
        BY <2>2, <2>3
      <3> HIDE DEF y
      <3> QED BY <1>1, <3>2, <3>3, FieldsOfJob DEF Job, InRedis, Active
    <2>6. Made(metric, r, x.attempt) = {} /\ TodoIsSound(x)
      BY <1>1, <2>4 DEF JobIsSound, TodoIsSound
    <2>7. EvaluationIsSound(metric, r, x)
      <3>1. \A k : MadeOf(metric, r, x.attempt, k) = {}
        BY <2>6 DEF MadeOf
      <3> QED BY <2>1, <2>4, <2>6, <3>1 DEF EvaluationIsSound
    <2>8. JobIsSound(metric, r, x)
      BY <1>1, <2>4, <2>6, <2>7 DEF JobIsSound, Active, Used
    <2> QED BY <1>1, <1>3, <2>5, <2>8, MoveKeepsSound
  <1> QED BY <1>2, <1>3

-------------------------------------------------------------------------------
(* Steps that store an event.                                                *)

\* An event that no attempt of a run made: the jobs and the events of runs are as sound as
\* they were.
LEMMA ReportKeepsSound ==
  ASSUME SoundInv, NEW p \in Reported, Report(p[1], p[2])
  PROVE  SoundInv'
  <1>1. PICK a \in 1 .. MaxReported :
          LET e == [NoEvent EXCEPT !.attempt = a]
          IN /\ e \notin DOMAIN metric
             /\ Insert(e, [key |-> p[1], unit |-> p[2], from |-> [k \in Keys |-> {}], seen |-> {}])
    BY DEF Report
  <1> DEFINE e == [NoEvent EXCEPT !.attempt = a]
             from == [k \in Keys |-> {}]
             row == [key |-> p[1], unit |-> p[2], from |-> from, seen |-> {}]
  <1>2. /\ e \in EventId /\ e.run = 0
        /\ \A s \in Runs : s # 0
    BY CalcAssumption DEF CalcAssumption, NoEvent, EventId, Runs
  <1>3. /\ e \notin DOMAIN metric
        /\ metric' = [d \in DOMAIN metric \cup {e} |-> IF d = e THEN row ELSE metric[d]]
        /\ formulas' = formulas /\ run' = run /\ job' = job /\ faults' = faults
    BY <1>1 DEF Insert, Report
  <1>4. row \in Event /\ row.seen = {}
    <2>1. p[1] \in Keys /\ p[2] \in Units
      BY CalcAssumption DEF CalcAssumption, Units
    <2>2. from \in [Keys -> SUBSET EventId]
      OBVIOUS
    <2> HIDE DEF from
    <2> QED BY <2>1, <2>2 DEF Event
  <1> HIDE DEF e, row
  <1>5. /\ DOMAIN metric' = DOMAIN metric \cup {e} /\ metric'[e] = row
        /\ \A d \in DOMAIN metric : metric'[d] = metric[d]
    BY <1>3
  <1>6. TypeOK'
    BY <1>2, <1>3, <1>4, <1>5 DEF SoundInv, TypeOK
  <1>7. \A s \in Runs : JobIsSound(metric', s, job'[s])
    BY <1>2, <1>3, JobStaysSound DEF SoundInv
  <1>8. ASSUME NEW d \in DOMAIN metric', d.run \in Runs
        PROVE  EventIsSound(metric', d)
    <2>1. d \in DOMAIN metric /\ EventIsSound(metric, d) /\ metric[d].seen \subseteq DOMAIN metric
      BY <1>2, <1>5, <1>8 DEF SoundInv
    <2>2. d \notin Made(metric, e.run, e.attempt)
      BY <1>2, <1>8 DEF Made
    <2> QED BY <1>3, <2>1, <2>2, EventStaysSound
  <1>9. \A d \in DOMAIN metric' : metric'[d].seen \subseteq DOMAIN metric'
    BY <1>4, <1>5 DEF SoundInv
  <1> QED BY <1>6, <1>7, <1>8, <1>9 DEF SoundInv

\* The output of a formula: it is the first of its key in its attempt, nothing before it was
\* computed from that key, and nothing after it computes it again.
LEMMA EmitKeepsSound ==
  ASSUME SoundInv, NEW r \in Runs, EmitOutput(r)
  PROVE  SoundInv'
  <1> DEFINE y == job[r]
             f == Head(y.hold.todo)
             e == [run |-> r, attempt |-> y.attempt, formula |-> f.id]
             row == Result(r, f)
             todo == Tail(y.hold.todo)
             ctx == Context(y.hold.ctx, f, e)
             hold == [y.hold EXCEPT !.todo = todo, !.ctx = ctx, !.last = e]
             x == [y EXCEPT !.hold = hold]
  <1>1. /\ y \in Job /\ JobIsSound(metric, r, y) /\ job' = [job EXCEPT ![r] = x]
        /\ metric' = [d \in DOMAIN metric \cup {e} |-> IF d = e THEN row ELSE metric[d]]
        /\ formulas' = formulas /\ run' = run /\ faults' = faults
        /\ y.state = "evaluating" /\ y.hold.todo # <<>>
    BY DEF EmitOutput, Insert, SoundInv, TypeOK
  <1>2. TodoIsSound(y) /\ EvaluationIsSound(metric, r, y)
    BY <1>1 DEF JobIsSound
  <1>3. /\ IsOrdered(todo) /\ f = y.hold.todo[1] /\ 1 \in DOMAIN y.hold.todo /\ f \in AllFormulas
        /\ \A i \in DOMAIN todo :
              /\ i + 1 \in DOMAIN y.hold.todo /\ i + 1 # 1 /\ todo[i] = y.hold.todo[i + 1]
              /\ todo[i].out # f.out /\ todo[i].id # f.id /\ todo[i].out \notin Range(f.in)
    <2>1. IsOrdered(y.hold.todo)
      BY <1>2 DEF TodoIsSound
    <2>2. /\ IsOrdered(todo) /\ f = y.hold.todo[1] /\ 1 \in DOMAIN y.hold.todo /\ f \in AllFormulas
          /\ \A i \in DOMAIN todo :
                i + 1 \in DOMAIN y.hold.todo /\ i + 1 # 1 /\ todo[i] = y.hold.todo[i + 1]
      BY <1>1, <2>1, RestIsOrdered
    <2> HIDE DEF todo, f, y
    <2>3. ASSUME NEW i \in DOMAIN todo
          PROVE  todo[i].out # f.out /\ todo[i].id # f.id /\ todo[i].out \notin Range(f.in)
      <3>1. i + 1 \in DOMAIN y.hold.todo /\ i + 1 # 1 /\ todo[i] = y.hold.todo[i + 1]
            /\ 1 <= i + 1 /\ todo[i] \in AllFormulas
        BY <2>1, <2>2 DEF IsOrdered
      <3>2. todo[i].out # f.out
        BY <2>1, <2>2, <3>1 DEF IsOrdered, UniqueOutputs
      <3>3. todo[i].id # f.id
        BY <2>2, <3>1, <3>2, CalcAssumption DEF CalcAssumption, AllFormulas
      <3>4. todo[i].out \notin Range(f.in)
        BY <2>1, <2>2, <3>1 DEF IsOrdered
      <3> QED BY <3>2, <3>3, <3>4
    <2> QED BY <2>2, <2>3
  <1>4. /\ f.out \in Keys /\ f.unit \in Units /\ Range(f.in) \subseteq y.hold.required
        /\ f.reads \subseteq Keys /\ e \in EventId /\ FormulaOf(e) = f
    <2>1. f \in Formula
      BY <1>3, CalcAssumption DEF CalcAssumption, AllFormulas
    <2>2. Range(f.in) \subseteq y.hold.required
      BY <1>2, <1>3 DEF TodoIsSound
    <2>3. f.id \in {g.id : g \in Formulas \cup {BuiltIn}}
      BY <1>3 DEF AllFormulas
    <2>4. y.attempt \in Nat
      BY <1>1, FieldsOfJob, CalcAssumption DEF CalcAssumption
    <2>5. FormulaOf(e) = f
      <3>1. e.formula = f.id /\ f \in Formulas \cup {BuiltIn}
        BY <1>3 DEF AllFormulas
      <3> HIDE DEF e, f
      <3> QED BY <3>1, CalcAssumption DEF CalcAssumption, FormulaOf
    <2>6. f.out \in Keys /\ f.unit \in Units /\ f.reads \subseteq Keys
      BY <2>1 DEF Formula
    <2>7. e \in EventId
      BY <2>3, <2>4 DEF EventId
    <2> QED BY <2>2, <2>5, <2>6, <2>7
  <1>5. e.run = r /\ e.attempt = y.attempt /\ e.formula = f.id
    OBVIOUS
  <1>6. \A d \in Made(metric, r, y.attempt) :
           metric[d].key # f.out /\ d.formula # f.id /\ f.out \notin Range(FormulaOf(d).in)
    <2> SUFFICES ASSUME NEW d \in Made(metric, r, y.attempt)
                 PROVE  metric[d].key # f.out /\ d.formula # f.id /\ f.out \notin Range(FormulaOf(d).in)
      OBVIOUS
    <2>1. /\ metric[d].key # y.hold.todo[1].out /\ d.formula # y.hold.todo[1].id
          /\ y.hold.todo[1].out \notin Range(FormulaOf(d).in)
      BY <1>2, <1>3 DEF EvaluationIsSound
    <2> HIDE DEF f
    <2> QED BY <1>3, <2>1
  <1>7. /\ row \in Event /\ row.key = f.out /\ row.seen = y.hold.seen
        /\ \A k \in f.reads : row.from[k] = y.hold.ctx[k]
    <2> DEFINE from == [k \in Keys |-> IF k \in f.reads THEN y.hold.ctx[k] ELSE {}]
    <2>1. row = [key |-> f.out, unit |-> f.unit, from |-> from, seen |-> y.hold.seen]
      BY DEF Result
    <2>2. y.hold.ctx \in [Keys -> SUBSET EventId] /\ y.hold.seen \subseteq EventId
      BY <1>1, FieldsOfJob
    <2>3. from \in [Keys -> SUBSET EventId]
      BY <2>2
    <2>4. \A k \in f.reads : from[k] = y.hold.ctx[k]
      BY <1>4
    <2> HIDE DEF from, row, f, y
    <2> QED BY <1>4, <2>1, <2>2, <2>3, <2>4 DEF Event
  <1>8. /\ ctx \in [Keys -> SUBSET EventId] /\ ctx[f.out] = {e}
        /\ \A k \in Keys : k # f.out => ctx[k] = y.hold.ctx[k]
    <2>1. y.hold.ctx \in [Keys -> SUBSET EventId] /\ {e} \subseteq EventId
      BY <1>1, <1>4, FieldsOfJob
    <2> HIDE DEF e, f, y
    <2> QED BY <1>4, <2>1 DEF Context
  <1>9. todo \in Seq(Formula)
    BY <1>1, FieldsOfJob
  <1>10. /\ hold.todo = todo /\ hold.required = y.hold.required /\ hold.ctx = ctx
         /\ hold.seen = y.hold.seen
         /\ hold \in [todo : Seq(Formula), required : SUBSET Keys, ctx : [Keys -> SUBSET EventId],
                      seen : SUBSET EventId, last : EventId]
    <2>1. y.hold \in [todo : Seq(Formula), required : SUBSET Keys, ctx : [Keys -> SUBSET EventId],
                      seen : SUBSET EventId, last : EventId]
      BY <1>1, FieldsOfJob
    <2> HIDE DEF todo, ctx, e, y
    <2> QED BY <1>4, <1>8, <1>9, <2>1
  <1> HIDE DEF hold
  <1>11. /\ x \in Job /\ x.state = y.state /\ x.left = y.left /\ x.stalled = y.stalled
         /\ x.attempt = y.attempt /\ x.hold = hold
    BY <1>1, <1>10 DEF Job
  <1> HIDE DEF x, row, f, e, ctx, todo, y
  <1>12. e \notin DOMAIN metric
    BY <1>5, <1>6 DEF Made
  <1>13. /\ DOMAIN metric' = DOMAIN metric \cup {e} /\ metric'[e] = row
         /\ \A d \in DOMAIN metric : metric'[d] = metric[d]
         /\ Made(metric', r, y.attempt) = Made(metric, r, y.attempt) \cup {e}
         /\ \A k : k # f.out => MadeOf(metric', r, y.attempt, k) = MadeOf(metric, r, y.attempt, k)
         /\ MadeOf(metric', r, y.attempt, f.out) = MadeOf(metric, r, y.attempt, f.out) \cup {e}
    <2>1. metric' = [d \in DOMAIN metric \cup {e} |-> IF d = e THEN row ELSE metric[d]]
      BY <1>1
    <2>2. /\ DOMAIN metric' = DOMAIN metric \cup {e} /\ metric'[e] = row
          /\ \A d \in DOMAIN metric : metric'[d] = metric[d]
      BY <1>12, <2>1
    <2>3. Made(metric', r, y.attempt) = Made(metric, r, y.attempt) \cup {e}
      BY <1>5, <2>2 DEF Made
    <2>4. /\ \A k : k # f.out => MadeOf(metric', r, y.attempt, k) = MadeOf(metric, r, y.attempt, k)
          /\ MadeOf(metric', r, y.attempt, f.out) = MadeOf(metric, r, y.attempt, f.out) \cup {e}
      BY <1>5, <1>7, <1>12, <2>2 DEF Made, MadeOf
    <2> QED BY <2>2, <2>3, <2>4
  <1>14. MadeOf(metric', r, y.attempt, f.out) = {e}
    BY <1>6, <1>13 DEF MadeOf
  <1>15. \A k : {d \in y.hold.seen : metric'[d].key = k} = {d \in y.hold.seen : metric[d].key = k}
    BY <1>2, <1>13 DEF EvaluationIsSound
  <1> DEFINE made(k) == MadeOf(metric', r, y.attempt, k)
             read(k) == {d \in y.hold.seen : metric'[d].key = k}
  <1>16. /\ \A k \in Keys : k # f.out =>
               FromOne(y.hold.ctx[k], made(k), read(k), k \in y.hold.required)
         /\ y.hold.ctx[f.out] \in {read(f.out), {}}
    <2>1. \A k \in Keys : FromOne(y.hold.ctx[k], MadeOf(metric, r, y.attempt, k), read(k),
                                 k \in y.hold.required)
      BY <1>2, <1>15 DEF EvaluationIsSound
    <2>2. MadeOf(metric, r, y.attempt, f.out) = {}
      BY <1>6 DEF MadeOf
    <2> HIDE DEF read
    <2>3. ASSUME NEW k \in Keys, k # f.out
          PROVE  FromOne(y.hold.ctx[k], made(k), read(k), k \in y.hold.required)
      <3>1. made(k) = MadeOf(metric, r, y.attempt, k)
        BY <1>13, <2>3
      <3> HIDE DEF made
      <3> QED BY <2>1, <3>1
    <2>4. y.hold.ctx[f.out] \in {read(f.out), {}}
      BY <1>4, <2>1, <2>2 DEF FromOne
    <2> QED BY <2>3, <2>4
  <1>17. f.out \notin Range(f.in)
    <2>1. IsOrdered(y.hold.todo)
      BY <1>2 DEF TodoIsSound
    <2>2. 1 <= 1
      OBVIOUS
    <2> QED BY <1>3, <2>1, <2>2 DEF IsOrdered
  <1>18. EventIsSound(metric', e)
    <2>1. ASSUME NEW k \in f.reads
          PROVE  FromOne(metric'[e].from[k], made(k), read(k), k \in Range(f.in))
      <3>1. k \in Keys /\ metric'[e].from[k] = y.hold.ctx[k]
        BY <1>4, <1>7, <1>13
      <3> HIDE DEF made, read
      <3>2. CASE k = f.out
        BY <1>16, <1>17, <3>1, <3>2 DEF FromOne
      <3>3. CASE k # f.out
        BY <1>4, <1>16, <3>1, <3>3 DEF FromOne
      <3> QED BY <3>2, <3>3
    <2>2. metric'[e].seen = y.hold.seen
      BY <1>7, <1>13
    <2>3. MadeOf(metric', e.run, e.attempt, metric'[e].key) = {e}
      BY <1>5, <1>7, <1>13, <1>14
    <2> QED BY <1>4, <1>5, <2>1, <2>2, <2>3 DEF EventIsSound
  <1>19. ASSUME NEW d \in DOMAIN metric', d.run \in Runs
         PROVE  EventIsSound(metric', d)
    <2>1. CASE d = e
      BY <1>18, <2>1
    <2>2. CASE d # e
      <3>1. d \in DOMAIN metric /\ EventIsSound(metric, d) /\ metric[d].seen \subseteq DOMAIN metric
        BY <1>13, <1>19, <2>2 DEF SoundInv
      <3>2. d \in Made(metric, e.run, e.attempt) =>
              /\ row.key \notin Range(FormulaOf(d).in)
              /\ MadeOf(metric, e.run, e.attempt, row.key) = {}
        BY <1>5, <1>6, <1>7 DEF MadeOf
      <3>3. metric' = [c \in DOMAIN metric \cup {e} |-> IF c = e THEN row ELSE metric[c]]
        BY <1>1
      <3> QED BY <1>12, <3>1, <3>2, <3>3, EventStaysSound
    <2> QED BY <2>1, <2>2
  <1>20. \A d \in DOMAIN metric' : metric'[d].seen \subseteq DOMAIN metric'
    BY <1>2, <1>7, <1>13 DEF SoundInv, EvaluationIsSound
  <1>21. EvaluationIsSound(metric', r, x)
    <2>1. x.hold.seen \subseteq DOMAIN metric'
      BY <1>2, <1>10, <1>11, <1>13 DEF EvaluationIsSound
    <2>2. ASSUME NEW k \in Keys
          PROVE  FromOne(x.hold.ctx[k], MadeOf(metric', r, x.attempt, k),
                         {d \in x.hold.seen : metric'[d].key = k}, k \in x.hold.required)
      <3>1. FromOne(ctx[k], made(k), read(k), k \in y.hold.required)
        <4>1. CASE k = f.out
          BY <1>8, <1>14, <4>1 DEF FromOne
        <4>2. CASE k # f.out
          BY <1>8, <1>16, <4>2
        <4> QED BY <4>1, <4>2
      <3> QED BY <1>10, <1>11, <3>1
    <2>3. ASSUME NEW d \in Made(metric', r, x.attempt), NEW i \in DOMAIN x.hold.todo
          PROVE  /\ metric'[d].key # x.hold.todo[i].out
                 /\ d.formula # x.hold.todo[i].id
                 /\ x.hold.todo[i].out \notin Range(FormulaOf(d).in)
      <3>1. /\ i \in DOMAIN todo /\ x.hold.todo[i] = todo[i] /\ i + 1 \in DOMAIN y.hold.todo
            /\ todo[i] = y.hold.todo[i + 1]
        BY <1>3, <1>10, <1>11
      <3>2. CASE d = e
        <4>1. todo[i].out # f.out /\ todo[i].id # f.id /\ todo[i].out \notin Range(f.in)
          BY <1>3, <3>1
        <4> QED BY <1>4, <1>5, <1>7, <1>13, <3>1, <3>2, <4>1
      <3>3. CASE d # e
        <4>1. d \in Made(metric, r, y.attempt) /\ metric'[d] = metric[d]
          BY <1>11, <1>13, <3>3 DEF Made
        <4>2. /\ metric[d].key # y.hold.todo[i + 1].out
              /\ d.formula # y.hold.todo[i + 1].id
              /\ y.hold.todo[i + 1].out \notin Range(FormulaOf(d).in)
          BY <1>2, <3>1, <4>1 DEF EvaluationIsSound
        <4> QED BY <3>1, <4>1, <4>2
      <3> QED BY <3>2, <3>3
    <2> QED BY <2>1, <2>2, <2>3 DEF EvaluationIsSound
  <1>22. TodoIsSound(x)
    BY <1>2, <1>3, <1>10, <1>11 DEF TodoIsSound
  <1>23. JobIsSound(metric', r, x)
    <2>1. \A d \in DOMAIN metric' : d.run = r => d.attempt <= x.attempt
      <3>1. y.attempt \in Int
        BY <1>1, FieldsOfJob
      <3> QED BY <1>1, <1>5, <1>11, <1>13, <3>1 DEF JobIsSound
    <2>2. Used(x) = Used(y)
      BY <1>11 DEF Used
    <2> QED BY <1>1, <1>11, <1>21, <1>22, <2>1, <2>2 DEF JobIsSound, Active
  <1>24. \A s \in Runs : job'[s] = IF s = r THEN x ELSE job[s]
    BY <1>1 DEF SoundInv, TypeOK
  <1>25. ASSUME NEW s \in Runs
         PROVE  JobIsSound(metric', s, job'[s])
    <2>1. CASE s = r
      BY <1>23, <1>24, <2>1
    <2>2. CASE s # r
      <3>1. metric' = [d \in DOMAIN metric \cup {e} |-> IF d = e THEN row ELSE metric[d]]
        BY <1>1
      <3>2. s # e.run /\ JobIsSound(metric, s, job[s])
        BY <1>5, <2>2 DEF SoundInv
      <3>3. JobIsSound(metric', s, job[s])
        BY <1>12, <3>1, <3>2, JobStaysSound
      <3> QED BY <1>24, <2>2, <3>3
    <2> QED BY <2>1, <2>2
  <1>26. TypeOK'
    <2>1. job' \in [Runs -> Job]
      BY <1>1, <1>11 DEF SoundInv, TypeOK
    <2>2. DOMAIN metric' \subseteq EventId
      BY <1>4, <1>13 DEF SoundInv, TypeOK
    <2>3. \A d \in DOMAIN metric' : metric'[d] \in Event
      BY <1>7, <1>13 DEF SoundInv, TypeOK
    <2> QED BY <1>1, <2>1, <2>2, <2>3 DEF SoundInv, TypeOK
  <1> QED BY <1>19, <1>20, <1>25, <1>26 DEF SoundInv

-------------------------------------------------------------------------------
(* The invariant of results and what follows from it.                        *)

\* No run and no event of a run is there at the start.
LEMMA InitSound == Init => SoundInv
  <1> SUFFICES ASSUME Init PROVE SoundInv
    OBVIOUS
  <1> DEFINE y == [state |-> "none", left |-> Attempts, stalled |-> FALSE, attempt |-> 0,
                   hold |-> NothingHeld]
  <1>1. y \in Job
    BY NothingIsHeld, CalcAssumption DEF CalcAssumption, Job
  <1>2. /\ y.state = "none" /\ y.left > 0 /\ y.attempt = Used(y)
    BY CalcAssumption DEF CalcAssumption, Used
  <1>3. job = [r \in Runs |-> y] /\ DOMAIN metric = {}
    BY DEF Init
  <1> HIDE DEF y
  <1>4. \A r \in Runs : job[r] = y
    BY <1>3
  <1>5. TypeOK
    <2>1. job \in [Runs -> Job] /\ run \in [Runs -> Run \cup {NoRun}]
      BY <1>1, <1>3 DEF Init
    <2>2. formulas \subseteq Formulas /\ faults \in 0 .. MaxFaults
      BY CalcAssumption DEF CalcAssumption, Init
    <2> QED BY <1>3, <2>1, <2>2 DEF TypeOK
  <1>6. \A r \in Runs : JobIsSound(metric, r, job[r])
    BY <1>2, <1>3, <1>4 DEF JobIsSound, Active
  <1> QED BY <1>3, <1>5, <1>6 DEF SoundInv

\* Every step keeps jobs and events sound.
LEMMA NextSound == IInv /\ SoundInv /\ [Next]_vars => SoundInv'
  <1> SUFFICES ASSUME IInv, SoundInv, [Next]_vars PROVE SoundInv'
    OBVIOUS
  <1>1. ASSUME NEW r \in Runs, Request(r) PROVE SoundInv'
    BY <1>1, RequestKeepsSound
  <1>2. ASSUME NEW r \in Runs, Work(r) PROVE SoundInv'
    BY <1>2, LoadFormulasKeepsSound, LoadInputsKeepsSound, EmitKeepsSound, SkipKeepsSound,
       WriteKeepsSound, DoneKeepsSound, ThrowsKeepsSound, StallsKeepsSound DEF Work
  <1>3. ASSUME NEW r \in Runs, JobExpires(r) PROVE SoundInv'
    BY <1>3, WriteKeepsSound
  <1>4. ASSUME NEW p \in Reported, Report(p[1], p[2]) PROVE SoundInv'
    BY <1>4, ReportKeepsSound
  <1>5. ASSUME formulas' \subseteq Formulas, UNCHANGED <<metric, run, job, faults>> PROVE SoundInv'
    BY <1>5 DEF SoundInv, TypeOK
  <1>6. ASSUME NEW f \in Formulas, CreateFormula(f) PROVE SoundInv'
    BY <1>5, <1>6 DEF CreateFormula, SoundInv, TypeOK
  <1>7. CASE UNCHANGED vars
    BY <1>5, <1>7 DEF vars, SoundInv, TypeOK
  <1> QED BY <1>1, <1>2, <1>3, <1>4, <1>6, <1>7 DEF Next

\* Sound events are what the two properties of results ask for.
LEMMA SoundResults == SoundInv => StoredResultsAreSound
  <1> SUFFICES ASSUME SoundInv PROVE StoredResultsAreSound
    OBVIOUS
  <1>1. ASSUME NEW r \in Runs, NEW e \in Outputs(r)
        PROVE  /\ EventIsSound(metric, e) /\ e.run = r
               /\ \A k : Siblings(e, k) = MadeOf(metric, e.run, e.attempt, k)
    BY DEF Outputs, SoundInv, Siblings, Made, MadeOf
  <1>2. ComputedFromOneAttempt
    <2> SUFFICES ASSUME NEW r \in Runs, NEW e \in Outputs(r), NEW k \in FormulaOf(e).reads
                 PROVE  LET read == {d \in metric[e].seen : metric[d].key = k}
                        IN  IF k \in Range(FormulaOf(e).in)
                            THEN metric[e].from[k] = IF Siblings(e, k) # {} THEN Siblings(e, k) ELSE read
                            ELSE metric[e].from[k] \in {Siblings(e, k), read, {}}
      BY DEF ComputedFromOneAttempt
    <2>1. Siblings(e, k) = MadeOf(metric, e.run, e.attempt, k)
      BY <1>1
    <2>2. EventIsSound(metric, e)
      BY <1>1
    <2> QED BY <2>1, <2>2 DEF EventIsSound, FromOne
  <1>3. OneResultPerAttempt
    BY <1>1 DEF OneResultPerAttempt, EventIsSound
  <1> QED BY <1>2, <1>3 DEF StoredResultsAreSound

\* Everything calculation runs keep is what it is declared to be, in particular the number
\* of attempts of a job: BullMQ's retries and its one stall together end.
THEOREM CalcRunTyped == Spec => []TypeOK
  <1>1. Init => IInv /\ SoundInv
    BY InitIInv, InitSound
  <1>2. IInv /\ SoundInv /\ [Next]_vars => IInv' /\ SoundInv'
    BY NextIInv, NextSound
  <1>3. SoundInv => TypeOK
    BY DEF SoundInv
  <1> QED BY <1>1, <1>2, <1>3, PTL DEF Spec

\* A result that process stores is computed from one state of the data, and there is one
\* of its key in an attempt, whatever formulas were added meanwhile, whatever other runs
\* and attempts store and however often the job is retried.
THEOREM ResultsAreSound == Spec => []StoredResultsAreSound
  <1>1. Init => IInv /\ SoundInv
    BY InitIInv, InitSound
  <1>2. IInv /\ SoundInv /\ [Next]_vars => IInv' /\ SoundInv'
    BY NextIInv, NextSound
  <1> QED BY <1>1, <1>2, SoundResults, PTL DEF Spec
-------------------------------------------------------------------------------
(* Reporting periods, for every calendar.                                    *)

\* A month is one of the twelve of its year.
LEMMA PartsOfMonth ==
  ASSUME NEW k \in Int
  PROVE  /\ YearOf(k) \in Int /\ MonthOf(k) \in 1 .. 12
         /\ k = MonthIndex(YearOf(k), MonthOf(k))
  BY DEF YearOf, MonthOf, MonthIndex

LEMMA MonthOfYear ==
  ASSUME NEW y \in Int, NEW m \in 1 .. 12
  PROVE  /\ MonthIndex(y, m) \in Int
         /\ YearOf(MonthIndex(y, m)) = y /\ MonthOf(MonthIndex(y, m)) = m
  BY DEF YearOf, MonthOf, MonthIndex

\* The day before the first day of a year.
YearBegins(y) == 365 * y + ((y - 1) \div 4 - (y - 1) \div 100 + (y - 1) \div 400)

\* The first day of a month, by its year and its place in it.
LEMMA FirstDayIs ==
  ASSUME NEW k \in Int
  PROVE  FirstDay(k) = YearBegins(YearOf(k)) + DaysBefore[MonthOf(k)]
                         + (IF Leap(YearOf(k)) /\ MonthOf(k) > 2 THEN 1 ELSE 0)
  BY DEF FirstDay, YearBegins

\* A year has 365 days, a leap year 366.
LEMMA YearLength ==
  ASSUME NEW y \in Int
  PROVE  /\ YearBegins(y) \in Int
         /\ YearBegins(y + 1) = YearBegins(y) + 365 + (IF Leap(y) THEN 1 ELSE 0)
  <1> DEFINE a == y \div 4
             b == y \div 100
             c == y \div 400
             d == (y - 1) \div 4
             e == (y - 1) \div 100
             f == (y - 1) \div 400
  <1>1. a = d + (IF y % 4 = 0 THEN 1 ELSE 0)
    OBVIOUS
  <1>2. b = e + (IF y % 100 = 0 THEN 1 ELSE 0)
    OBVIOUS
  <1>3. c = f + (IF y % 400 = 0 THEN 1 ELSE 0)
    OBVIOUS
  <1>4. /\ y % 400 = 0 => y % 100 = 0
        /\ y % 100 = 0 => y % 4 = 0
    OBVIOUS
  <1>5. /\ d \in Int /\ e \in Int /\ f \in Int
        /\ a \in Int /\ b \in Int /\ c \in Int
    OBVIOUS
  <1>6. YearBegins(y) = 365 * y + (d - e + f)
    BY DEF YearBegins
  <1>7. YearBegins(y + 1) = 365 * (y + 1) + (a - b + c)
    <2>1. (y + 1) - 1 = y
      OBVIOUS
    <2> QED BY <2>1 DEF YearBegins
  <1> HIDE DEF a, b, c, d, e, f
  <1> QED BY <1>1, <1>2, <1>3, <1>4, <1>5, <1>6, <1>7 DEF Leap

\* Of two numbers, the quotient of the larger is not the smaller one, nor does it grow faster.
LEMMA QuotientsGrow ==
  ASSUME NEW x \in Int, NEW y \in Int, x <= y
  PROVE  /\ x \div 400 <= y \div 400
         /\ (y \div 100) - (x \div 100) <= (y \div 4) - (x \div 4)
  <1>1. x \div 400 <= y \div 400
    OBVIOUS
  <1>2. x \div 4 <= y \div 4
    OBVIOUS
  <1>3. (x \div 100) = (x \div 4) \div 25
    OBVIOUS
  <1>4. (y \div 100) = (y \div 4) \div 25
    OBVIOUS
  <1>5. ASSUME NEW p \in Int, NEW q \in Int, p <= q
        PROVE  (q \div 25) - (p \div 25) <= q - p
    BY <1>5
  <1>6. x \div 4 \in Int /\ y \div 4 \in Int
    OBVIOUS
  <1>7. ((y \div 4) \div 25) - ((x \div 4) \div 25) <= (y \div 4) - (x \div 4)
    BY <1>2, <1>5, <1>6
  <1> QED BY <1>1, <1>3, <1>4, <1>7

\* Years follow each other.
LEMMA YearsGrow ==
  ASSUME NEW y \in Int, NEW z \in Int, y < z
  PROVE  YearBegins(y) + 365 + (IF Leap(y) THEN 1 ELSE 0) <= YearBegins(z)
  <1>1. YearBegins(y + 1) <= YearBegins(z)
    <2> DEFINE a == y \div 4
               b == y \div 100
               c == y \div 400
               d == (z - 1) \div 4
               e == (z - 1) \div 100
               f == (z - 1) \div 400
    <2>1. c <= f /\ e - b <= d - a
      <3>1. y <= z - 1 /\ z - 1 \in Int
        OBVIOUS
      <3> QED BY <3>1, QuotientsGrow
    <2>2. /\ d \in Int /\ e \in Int /\ f \in Int
          /\ a \in Int /\ b \in Int /\ c \in Int
      OBVIOUS
    <2>3. YearBegins(z) = 365 * z + (d - e + f)
      BY DEF YearBegins
    <2>4. YearBegins(y + 1) = 365 * (y + 1) + (a - b + c)
      <3>1. (y + 1) - 1 = y
        OBVIOUS
      <3> QED BY <3>1 DEF YearBegins
    <2> HIDE DEF a, b, c, d, e, f
    <2> QED BY <2>1, <2>2, <2>3, <2>4
  <1> QED BY <1>1, YearLength

\* A month has 28 days or more, and the next one begins after them.
LEMMA MonthLength ==
  ASSUME NEW k \in Int
  PROVE  /\ FirstDay(k) \in Int /\ LengthOfMonth(k) \in 28 .. 31
         /\ FirstDay(k + 1) = FirstDay(k) + LengthOfMonth(k)
  <1> DEFINE y == YearOf(k)
             m == MonthOf(k)
  <1>1. y \in Int /\ m \in 1 .. 12 /\ k = MonthIndex(y, m)
    BY PartsOfMonth
  <1>2. FirstDay(k) = YearBegins(y) + DaysBefore[m] + (IF Leap(y) /\ m > 2 THEN 1 ELSE 0)
    BY FirstDayIs
  <1>3. YearBegins(y) \in Int /\ YearBegins(y + 1) = YearBegins(y) + 365 + (IF Leap(y) THEN 1 ELSE 0)
    BY <1>1, YearLength
  <1>4. LengthOfMonth(k) = CASE m = 2 -> IF Leap(y) THEN 29 ELSE 28
                             [] m \in {4, 6, 9, 11} -> 30
                             [] OTHER -> 31
    BY DEF LengthOfMonth
  <1>5. CASE m = 12
    <2>1. YearOf(k + 1) = y + 1 /\ MonthOf(k + 1) = 1
      <3>1. k + 1 = MonthIndex(y + 1, 1)
        BY <1>1, <1>5 DEF MonthIndex
      <3> QED BY <1>1, <3>1, MonthOfYear
    <2>2. FirstDay(k + 1) = YearBegins(y + 1) + DaysBefore[1] + 0
      BY <2>1, FirstDayIs
    <2> HIDE DEF y, m
    <2> QED BY <1>2, <1>3, <1>4, <1>5, <2>2 DEF DaysBefore
  <1>6. CASE m \in 1 .. 11
    <2>1. YearOf(k + 1) = y /\ MonthOf(k + 1) = m + 1
      <3>1. k + 1 = MonthIndex(y, m + 1)
        BY <1>1, <1>6 DEF MonthIndex
      <3>2. m + 1 \in 1 .. 12
        BY <1>6
      <3> HIDE DEF y, m
      <3> QED BY <1>1, <3>1, <3>2, MonthOfYear
    <2>2. FirstDay(k + 1) = YearBegins(y) + DaysBefore[m + 1] + (IF Leap(y) /\ m + 1 > 2 THEN 1 ELSE 0)
      BY <2>1, FirstDayIs
    <2>3. m \in {1, 2, 3, 4, 5, 6, 7, 8, 9, 10, 11}
      BY <1>6
    <2> HIDE DEF y, m
    <2> QED BY <1>2, <1>3, <1>4, <2>2, <2>3 DEF DaysBefore
  <1> QED BY <1>1, <1>5, <1>6

\* Months follow each other.
LEMMA MonthsGrow ==
  ASSUME NEW k \in Int, NEW l \in Int, k < l
  PROVE  FirstDay(k) + LengthOfMonth(k) <= FirstDay(l)
  <1> DEFINE j == k + 1
             y == YearOf(j)
             m == MonthOf(j)
             z == YearOf(l)
             n == MonthOf(l)
             v == DaysBefore[m]
             w == DaysBefore[n]
  <1>1. /\ y \in Int /\ m \in 1 .. 12 /\ j = MonthIndex(y, m)
        /\ z \in Int /\ n \in 1 .. 12 /\ l = MonthIndex(z, n)
    BY PartsOfMonth
  <1>2. y < z \/ (y = z /\ m <= n)
    <2>1. j <= l
      OBVIOUS
    <2> HIDE DEF j, y, m, z, n
    <2> QED BY <1>1, <2>1 DEF MonthIndex
  <1>3. /\ FirstDay(j) = YearBegins(y) + v + (IF Leap(y) /\ m > 2 THEN 1 ELSE 0)
        /\ FirstDay(l) = YearBegins(z) + w + (IF Leap(z) /\ n > 2 THEN 1 ELSE 0)
    BY FirstDayIs
  <1>4. YearBegins(y) \in Int /\ YearBegins(z) \in Int
    BY <1>1, YearLength
  <1>5. v \in 0 .. 334 /\ w \in 0 .. 334 /\ (m <= n => v <= w)
    <2>1. m \in {1, 2, 3, 4, 5, 6, 7, 8, 9, 10, 11, 12} /\ n \in {1, 2, 3, 4, 5, 6, 7, 8, 9, 10, 11, 12}
      BY <1>1
    <2> HIDE DEF m, n
    <2> QED BY <2>1 DEF DaysBefore
  <1>6. FirstDay(j) <= FirstDay(l)
    <2>1. y < z => YearBegins(y) + 365 <= YearBegins(z)
      BY <1>1, <1>4, YearsGrow
    <2> HIDE DEF j, y, m, z, n, v, w
    <2>2. CASE y < z
      BY <1>3, <1>4, <1>5, <2>1, <2>2
    <2>3. CASE y = z /\ m <= n
      BY <1>1, <1>3, <1>4, <1>5, <2>3
    <2> QED BY <1>2, <2>2, <2>3
  <1> QED BY <1>6, MonthLength

\* The month that holds an instant.
LEMMA HoldingIs ==
  ASSUME NEW k \in Months, NEW t \in Int,
         FirstDay(k) <= DayOf(t), DayOf(t) < FirstDay(k + 1)
  PROVE  MonthHolding(t) = k
  <1> DEFINE h == MonthHolding(t)
  <1>1. k \in Int /\ FirstDay(k + 1) = FirstDay(k) + LengthOfMonth(k)
    BY PeriodsAssumption, MonthLength DEF Months, MonthIndex
  <1>2. h \in Months /\ FirstDay(h) <= DayOf(t) /\ DayOf(t) < FirstDay(h) + LengthOfMonth(h)
    BY <1>1 DEF MonthHolding
  <1>3. h \in Int
    BY <1>2, PeriodsAssumption DEF Months, MonthIndex
  <1>4. /\ FirstDay(h) \in Int /\ LengthOfMonth(h) \in Int
        /\ FirstDay(k) \in Int /\ LengthOfMonth(k) \in Int /\ DayOf(t) \in Int
    BY <1>1, <1>3, MonthLength DEF DayOf
  <1> HIDE DEF h
  <1>5. ~(h < k) /\ ~(k < h)
    BY <1>1, <1>2, <1>3, <1>4, MonthsGrow
  <1> QED BY <1>1, <1>3, <1>5 DEF h

\* The instants of the calendar.
InCalendar(t) ==
    /\ t \in Int
    /\ FirstDay(MonthIndex(FirstYear, 1)) <= DayOf(t)
    /\ DayOf(t) < FirstDay(MonthIndex(LastYear + 2, 1))

\* Each is held by a month.
LEMMA MonthHolds ==
  ASSUME NEW t, InCalendar(t)
  PROVE  LET k == MonthHolding(t)
         IN k \in Months /\ k \in Int /\ FirstDay(k) <= DayOf(t) /\ DayOf(t) < FirstDay(k + 1)
  <1> DEFINE lo == MonthIndex(FirstYear, 1)
             hi == MonthIndex(LastYear + 1, 12)
             d == DayOf(t)
             N == {n \in Nat : FirstDay(hi - n) <= d}
  <1>1. lo \in Int /\ hi \in Int /\ hi + 1 = MonthIndex(LastYear + 2, 1) /\ Months = lo .. hi
    BY PeriodsAssumption DEF MonthIndex, Months
  <1>2. FirstDay(lo) <= d /\ d < FirstDay(hi + 1) /\ t \in Int /\ d \in Int
    <2> HIDE DEF hi
    <2> QED BY <1>1 DEF InCalendar, DayOf
  <1> HIDE DEF lo, hi, d
  <1>3. lo <= hi
    <2>1. ~(hi + 1 <= lo)
      <3>1. hi + 1 < lo => FirstDay(hi + 1) + LengthOfMonth(hi + 1) <= FirstDay(lo)
        BY <1>1, MonthsGrow
      <3>2. /\ FirstDay(lo) \in Int /\ FirstDay(hi + 1) \in Int /\ LengthOfMonth(hi + 1) \in 28 .. 31
        BY <1>1, MonthLength
      <3> QED BY <1>1, <1>2, <3>1, <3>2
    <2> QED BY <1>1, <2>1
  <1>4. N \in SUBSET Nat /\ hi - lo \in N
    <2>1. hi - (hi - lo) = lo /\ hi - lo \in Nat
      BY <1>1, <1>3
    <2> QED BY <1>2, <2>1
  <1>5. PICK n \in N : \A m \in N : n <= m
    <2> HIDE DEF N
    <2> QED BY <1>4, LeastNumber
  <1> DEFINE k == hi - n
  <1>6. n \in Nat /\ FirstDay(k) <= d /\ n <= hi - lo
    BY <1>4, <1>5
  <1>7. k \in Months /\ k \in Int
    BY <1>1, <1>6
  <1>8. d < FirstDay(k + 1)
    <2>1. CASE n = 0
      BY <1>1, <1>2, <2>1
    <2>2. CASE n > 0
      <3>1. n - 1 \in Nat /\ n - 1 \notin N /\ hi - (n - 1) = k + 1
        BY <1>1, <1>5, <1>6, <2>2
      <3> DEFINE l == k + 1
      <3>2. ~(FirstDay(l) <= d)
        BY <3>1
      <3>3. FirstDay(l) \in Int
        BY <1>7, MonthLength
      <3> HIDE DEF l, k
      <3>4. d < FirstDay(l)
        BY <1>2, <3>2, <3>3
      <3> QED BY <3>4 DEF l
    <2> QED BY <1>6, <2>1, <2>2
  <1> HIDE DEF k
  <1>9. MonthHolding(t) = k
    BY <1>2, <1>6, <1>7, <1>8, HoldingIs DEF d
  <1> QED BY <1>6, <1>7, <1>8, <1>9 DEF d

\* Midnight of a day that every month has.
Midnight(k, day) == 2 * (FirstDay(k) + day - 1)

LEMMA MidnightHeld ==
  ASSUME NEW k \in Months, NEW day \in 1 .. 28
  PROVE  LET t == Midnight(k, day)
         IN  /\ t \in Int /\ k \in Int /\ DayOf(t) = FirstDay(k) + day - 1
             /\ MonthHolding(t) = k /\ DayOfMonth(t) = day
             /\ \A n \in Int : MonthsLater(t, n) = Midnight(k + n, day)
  <1> DEFINE t == Midnight(k, day)
             a == FirstDay(k)
             b == FirstDay(k + 1)
  <1>1. k \in Int
    BY PeriodsAssumption DEF Months, MonthIndex
  <1>2. a \in Int /\ b \in Int /\ a + 28 <= b
    BY <1>1, MonthLength
  <1>3. t = 2 * (a + day - 1)
    BY DEF Midnight
  <1> HIDE DEF t, a, b
  <1>4. t \in Int /\ t \div 2 = a + day - 1
    BY <1>2, <1>3
  <1>5. DayOf(t) = a + day - 1
    BY <1>4 DEF DayOf
  <1>6. MonthHolding(t) = k
    <2>1. FirstDay(k) <= DayOf(t) /\ DayOf(t) < FirstDay(k + 1)
      BY <1>2, <1>5 DEF a, b
    <2> QED BY <1>4, <2>1, HoldingIs
  <1>7. DayOfMonth(t) = day
    BY <1>2, <1>5, <1>6 DEF DayOfMonth, a
  <1>8. \A n \in Int : MonthsLater(t, n) = Midnight(k + n, day)
    BY <1>6, <1>7 DEF MonthsLater, Midnight
  <1> QED BY <1>1, <1>4, <1>5, <1>6, <1>7, <1>8 DEF t, a

\* A configuration of fiscal years.
Configuration == [startMonth : 1 .. 12, startDay : 1 .. 31]

\* A fiscal year goes from midnight to midnight, twelve months later.
LEMMA FiscalYearIs ==
  ASSUME NEW year \in Int, NEW config \in Configuration
  PROVE  LET k == MonthIndex(year, config.startMonth)
         IN  /\ k \in Int /\ YearOf(k) = year /\ MonthOf(k) = config.startMonth
             /\ FiscalYear(year, config) =
                   [year |-> year, startsAt |-> Midnight(k, config.startDay),
                    endsAt |-> Midnight(k + 12, config.startDay) - 1]
  <1> DEFINE s == config.startMonth
             d == config.startDay
             k == MonthIndex(year, s)
  <1>1. s \in 1 .. 12
    BY DEF Configuration
  <1>2. k \in Int /\ YearOf(k) = year /\ MonthOf(k) = s
    BY <1>1, MonthOfYear
  <1>3. MonthIndex(year + 1, s) = k + 12
    BY <1>1 DEF MonthIndex
  <1>4. utc(year, s, d) = Midnight(k, d) /\ utc(year + 1, s, d) = Midnight(k + 12, d)
    BY <1>3 DEF utc, Midnight
  <1> QED BY <1>2, <1>4 DEF FiscalYear

\* getFiscalYear of the midnight a fiscal year starts at is that year.
LEMMA YearOfItsStart ==
  ASSUME NEW year \in Int, NEW config \in Configuration, config.startDay <= 28,
         MonthIndex(year, config.startMonth) \in Months
  PROVE  getFiscalYear(Midnight(MonthIndex(year, config.startMonth), config.startDay), config)
            = FiscalYear(year, config)
  <1> DEFINE k == MonthIndex(year, config.startMonth)
             t == Midnight(k, config.startDay)
  <1>1. config.startDay \in 1 .. 28 /\ config.startMonth \in 1 .. 12
    BY DEF Configuration
  <1>2. YearOf(k) = year /\ MonthOf(k) = config.startMonth
    BY FiscalYearIs
  <1>3. MonthHolding(t) = k /\ DayOfMonth(t) = config.startDay
    <2> HIDE DEF k
    <2> QED BY <1>1, MidnightHeld DEF k
  <1> HIDE DEF k, t
  <1>4. getFiscalYear(t, config) = FiscalYear(year, config)
    BY <1>1, <1>2, <1>3 DEF getFiscalYear
  <1> QED BY <1>4 DEF k, t

\* A quarter is three months of its fiscal year.
LEMMA QuarterIs ==
  ASSUME NEW year \in Int, NEW config \in Configuration, config.startDay <= 28,
         MonthIndex(year, 1) \in Months, MonthIndex(year + 1, 12) \in Months,
         NEW q \in 1 .. 4
  PROVE  LET k == MonthIndex(year, config.startMonth)
         IN ParseQuarter(q, year, config) =
              [start |-> Midnight(k + 3 * (q - 1), config.startDay),
               end |-> Midnight(k + 3 * q, config.startDay) - 1]
  <1> DEFINE s == config.startMonth
             d == config.startDay
             k == MonthIndex(year, s)
             month == ((s - 1 + (q - 1) * 3) % 12) + 1
             inYear == IF s + (q - 1) * 3 > 12 THEN year + 1 ELSE year
             l == k + 3 * (q - 1)
  <1>1. s \in 1 .. 12 /\ d \in 1 .. 28
    BY DEF Configuration
  <1>2. month = IF s + (q - 1) * 3 > 12 THEN s + (q - 1) * 3 - 12 ELSE s + (q - 1) * 3
    <2>1. q \in {1, 2, 3, 4}
      OBVIOUS
    <2> HIDE DEF s
    <2> QED BY <1>1, <2>1
  <1>3. MonthIndex(inYear, month) = l
    <2> HIDE DEF s, month
    <2>1. CASE s + (q - 1) * 3 > 12
      BY <1>1, <1>2, <2>1 DEF MonthIndex
    <2>2. CASE ~(s + (q - 1) * 3 > 12)
      BY <1>1, <1>2, <2>2 DEF MonthIndex
    <2> QED BY <2>1, <2>2
  <1>4. l \in Months /\ l \in Int /\ l + 3 = k + 3 * q
    <2>1. l = 12 * year + s - 1 + 3 * (q - 1)
      BY DEF MonthIndex
    <2>2. \A n \in Int : MonthIndex(year, 1) <= n /\ n <= MonthIndex(year + 1, 12) => n \in Months
      BY PeriodsAssumption DEF Months, MonthIndex
    <2>3. MonthIndex(year, 1) = 12 * year /\ MonthIndex(year + 1, 12) = 12 * year + 23
      BY DEF MonthIndex
    <2>4. k \in Int
      BY <1>1, MonthOfYear
    <2> HIDE DEF s, k
    <2> QED BY <1>1, <2>1, <2>2, <2>3, <2>4
  <1>5. utc(inYear, month, d) = Midnight(l, d)
    <2> HIDE DEF month, inYear, l
    <2> QED BY <1>3 DEF utc, Midnight
  <1>6. MonthsLater(Midnight(l, d), 3) = Midnight(l + 3, d)
    <2> HIDE DEF l, d
    <2> QED BY <1>1, <1>4, MidnightHeld
  <1>7. ParseQuarter(q, year, config) =
          [start |-> utc(inYear, month, d), end |-> MonthsLater(utc(inYear, month, d), 3) - 1]
    BY DEF ParseQuarter
  <1> HIDE DEF month, inYear
  <1> QED BY <1>4, <1>5, <1>6, <1>7

\* The month that holds an instant is of a year of the calendar if the instant is.
LEMMA YearHolding ==
  ASSUME NEW t, InCalendar(t), NEW y \in Int
  PROVE  LET k == MonthHolding(t)
         IN  /\ utc(y, 1, 1) <= t => y <= YearOf(k)
             /\ t < utc(y, 1, 1) => YearOf(k) < y
  <1> DEFINE k == MonthHolding(t)
             j == MonthIndex(y, 1)
             a == FirstDay(j)
             b == FirstDay(k)
             c == FirstDay(k + 1)
  <1>1. k \in Int /\ b <= DayOf(t) /\ DayOf(t) < c /\ t \in Int
    BY MonthHolds DEF InCalendar
  <1>2. j \in Int /\ j = 12 * y
    BY DEF MonthIndex
  <1>3. utc(y, 1, 1) = 2 * a /\ a \in Int /\ b \in Int /\ c \in Int
    <2>1. a \in Int /\ b \in Int /\ c \in Int
      <3> HIDE DEF j, k
      <3> QED BY <1>1, <1>2, MonthLength
    <2>2. utc(y, 1, 1) = 2 * (a + 1 - 1)
      BY DEF utc
    <2> HIDE DEF a
    <2> QED BY <2>1, <2>2
  <1> HIDE DEF k, j
  <1>4. 12 * YearOf(k) <= k /\ k < 12 * (YearOf(k) + 1) /\ YearOf(k) \in Int
    BY <1>1 DEF YearOf
  <1>5. k < j => c <= a
    <2>1. FirstDay(k + 1) = FirstDay(k) + LengthOfMonth(k)
      BY <1>1, MonthLength
    <2> QED BY <1>1, <1>2, <2>1, MonthsGrow
  <1>6. j <= k => a <= b
    <2>1. j < k => FirstDay(j) + LengthOfMonth(j) <= FirstDay(k)
      BY <1>1, <1>2, MonthsGrow
    <2>2. LengthOfMonth(j) \in 28 .. 31
      BY <1>2, MonthLength
    <2>3. j = k => a = b
      OBVIOUS
    <2> QED BY <1>1, <1>2, <1>3, <2>1, <2>2, <2>3
  <1> HIDE DEF a, b, c
  <1>7. DayOf(t) \in Int /\ 2 * DayOf(t) <= t /\ t <= 2 * DayOf(t) + 1
    BY <1>1 DEF DayOf
  <1> DEFINE d == DayOf(t)
             z == YearOf(k)
             u == utc(y, 1, 1)
  <1>8. (u <= t => y <= z) /\ (t < u => z < y)
    <2> HIDE DEF d, z, u
    <2>1. d \in Int /\ 2 * d <= t /\ t <= 2 * d + 1 /\ u = 2 * a /\ b <= d /\ d < c
      BY <1>1, <1>3, <1>7 DEF d, u
    <2>2. 12 * z <= k /\ k < 12 * (z + 1) /\ z \in Int
      BY <1>4 DEF z
    <2>3. ASSUME u <= t PROVE y <= z
      BY <1>1, <1>2, <1>3, <1>5, <2>1, <2>2, <2>3
    <2>4. ASSUME t < u PROVE z < y
      BY <1>1, <1>2, <1>3, <1>6, <2>1, <2>2, <2>4
    <2> QED BY <2>3, <2>4
  <1> QED BY <1>8 DEF k

\* Fiscal years and their quarters tile time, wherever the year starts up to the 28th of a
\* month, for every instant of a calendar but its first and its last year.
THEOREM FiscalYearsTileTime ==
  ASSUME NEW t \in Int, NEW config \in Configuration,
         utc(FirstYear + 1, 1, 1) <= t, t < utc(LastYear + 1, 1, 1)
  PROVE  FiscalYearsTile(t, config)
  <1> SUFFICES ASSUME config.startDay <= 28
               PROVE  FiscalYearsTile(t, config)
    BY DEF FiscalYearsTile
  <1> DEFINE s == config.startMonth
             d == config.startDay
             h == MonthHolding(t)
             y == YearOf(h)
             m == MonthOf(h)
             started == \/ m > s
                        \/ m = s /\ DayOfMonth(t) >= d
             year == IF started THEN y ELSE y - 1
             k == MonthIndex(year, s)
             start == Midnight(k, d)
             next == Midnight(k + 12, d)
             fiscal == getFiscalYear(t, config)
  <1>1. s \in 1 .. 12 /\ d \in 1 .. 28
    BY DEF Configuration
  <1>2. InCalendar(t)
    <2> DEFINE a == FirstDay(MonthIndex(FirstYear, 1))
               b == FirstDay(MonthIndex(FirstYear + 1, 1))
               c == FirstDay(MonthIndex(LastYear + 1, 1))
               e == FirstDay(MonthIndex(LastYear + 2, 1))
    <2>1. a \in Int /\ b \in Int /\ c \in Int /\ e \in Int /\ a <= b /\ c <= e
      <3>1. ASSUME NEW v \in Int
            PROVE  /\ FirstDay(MonthIndex(v, 1)) \in Int
                   /\ FirstDay(MonthIndex(v, 1)) <= FirstDay(MonthIndex(v + 1, 1))
        <4> DEFINE j == MonthIndex(v, 1)
                   l == MonthIndex(v + 1, 1)
        <4>1. j \in Int /\ l \in Int /\ j < l
          BY DEF MonthIndex
        <4> HIDE DEF j, l
        <4>2. FirstDay(j) \in Int /\ FirstDay(l) \in Int /\ LengthOfMonth(j) \in 28 .. 31
          BY <4>1, MonthLength
        <4>3. FirstDay(j) + LengthOfMonth(j) <= FirstDay(l)
          BY <4>1, MonthsGrow
        <4> QED BY <4>2, <4>3 DEF j, l
      <3>2. FirstYear \in Int /\ LastYear + 1 \in Int /\ FirstYear + 1 \in Int /\ (LastYear + 1) + 1 = LastYear + 2
        BY PeriodsAssumption
      <3> QED BY <3>1, <3>2
    <2>2. 2 * b <= t /\ t < 2 * c
      <3>1. utc(FirstYear + 1, 1, 1) = 2 * (b + 1 - 1) /\ utc(LastYear + 1, 1, 1) = 2 * (c + 1 - 1)
        BY DEF utc
      <3> HIDE DEF b, c
      <3> QED BY <2>1, <3>1
    <2> HIDE DEF a, b, c, e
    <2>3. a <= t \div 2 /\ t \div 2 < e
      BY <2>1, <2>2
    <2> QED BY <2>3 DEF InCalendar, DayOf, a, e
  <1>3. /\ h \in Months /\ h \in Int /\ FirstDay(h) <= DayOf(t) /\ DayOf(t) < FirstDay(h + 1)
    BY <1>2, MonthHolds
  <1>4. y \in Int /\ m \in 1 .. 12 /\ h = MonthIndex(y, m)
    BY <1>3, PartsOfMonth
  <1>5. FirstYear + 1 <= y /\ y < LastYear + 1
    BY <1>2, PeriodsAssumption, YearHolding
  <1>6. year \in Int /\ FirstYear <= year /\ year <= LastYear
    <2> HIDE DEF y, started
    <2> QED BY <1>4, <1>5, PeriodsAssumption
  <1>7. fiscal = FiscalYear(year, config)
    BY DEF getFiscalYear
  <1>8. /\ k \in Int /\ fiscal = [year |-> year, startsAt |-> start, endsAt |-> next - 1]
    BY <1>6, <1>7, FiscalYearIs
  <1>9. /\ MonthIndex(year, 1) \in Months /\ MonthIndex(year + 1, 12) \in Months
        /\ k \in Months /\ k + 12 \in Months /\ MonthIndex(year + 1, s) = k + 12
    <2> HIDE DEF year, s
    <2> QED BY <1>1, <1>6, PeriodsAssumption DEF MonthIndex, Months
  <1>10. started => k <= h /\ (k = h => DayOfMonth(t) >= d)
    <2>1. started => k = MonthIndex(y, s)
      OBVIOUS
    <2> HIDE DEF k, y, m, s, h, year
    <2> QED BY <1>1, <1>4, <2>1 DEF MonthIndex
  <1>11. ~started => h <= k + 12 /\ (k + 12 = h => DayOfMonth(t) < d)
    <2>1. ~started => k = MonthIndex(y - 1, s)
      OBVIOUS
    <2>2. DayOfMonth(t) \in Int
      BY <1>3, MonthLength, <1>2 DEF DayOfMonth, DayOf, InCalendar
    <2> DEFINE u == DayOfMonth(t)
    <2> HIDE DEF k, y, m, s, h, year, d, u
    <2>3. ~started => m <= s /\ (m = s => u < d)
      BY <1>1, <1>4, <2>2 DEF u
    <2> HIDE DEF started
    <2> QED BY <1>1, <1>4, <2>1, <2>3 DEF MonthIndex, u
  <1>12. started => h < k + 12
    <2>1. started => k = MonthIndex(y, s)
      OBVIOUS
    <2> HIDE DEF k, y, m, s, h, year
    <2> QED BY <1>1, <1>4, <2>1 DEF MonthIndex
  <1>13. ~started => k < h
    <2>1. ~started => k = MonthIndex(y - 1, s)
      OBVIOUS
    <2> HIDE DEF k, y, m, s, h, year, d
    <2>2. ~started => m <= s
      BY <1>1, <1>4
    <2> HIDE DEF started
    <2> QED BY <1>1, <1>4, <2>1, <2>2 DEF MonthIndex
  <1> DEFINE day == DayOf(t)
             a == FirstDay(h)
             b == FirstDay(h + 1)
  <1>14. /\ a \in Int /\ b \in Int /\ day \in Int /\ a <= day /\ day < b
         /\ DayOfMonth(t) = day - a + 1
         /\ 2 * day <= t /\ t <= 2 * day + 1
    <2>1. a \in Int /\ b \in Int
      BY <1>3, MonthLength
    <2> QED BY <1>3, <2>1 DEF DayOf, DayOfMonth
  <1>15. ASSUME NEW l \in Months
         PROVE  /\ Midnight(l, d) \in Int
                /\ l < h => Midnight(l, d) <= 2 * a
                /\ l = h => Midnight(l, d) = 2 * (a + d - 1)
                /\ h < l => 2 * b <= Midnight(l, d)
    <2> DEFINE p == FirstDay(l)
               n == LengthOfMonth(l)
    <2>1. l \in Int
      BY PeriodsAssumption DEF Months, MonthIndex
    <2>2. p \in Int /\ n \in 28 .. 31
      BY <2>1, MonthLength
    <2>3. l < h => p + n <= a
      BY <1>3, <2>1, MonthsGrow
    <2>4. h < l => b <= p
      <3>1. b = a + LengthOfMonth(h)
        BY <1>3, MonthLength
      <3> QED BY <1>3, <2>1, <3>1, MonthsGrow
    <2>5. Midnight(l, d) = 2 * (p + d - 1)
      BY DEF Midnight
    <2>6. l = h => p = a
      OBVIOUS
    <2> HIDE DEF p, n, a, b, d
    <2> QED BY <1>1, <1>14, <2>2, <2>3, <2>4, <2>5, <2>6
  <1>16. start <= t /\ t < next
    <2> DEFINE u == DayOfMonth(t)
    <2>1. start \in Int /\ next \in Int
      BY <1>9, <1>15
    <2>2. /\ k < h => start <= 2 * a
          /\ k = h => start = 2 * (a + d - 1)
          /\ k + 12 = h => next = 2 * (a + d - 1)
          /\ h < k + 12 => 2 * b <= next
      BY <1>9, <1>15
    <2> HIDE DEF k, h, d, start, next, a, b, day, started, u
    <2>3. CASE started
      <3>1. u = day - a + 1 /\ k <= h /\ (k = h => u >= d) /\ h < k + 12
        BY <1>10, <1>12, <1>14, <2>3 DEF u
      <3> QED BY <1>1, <1>3, <1>8, <1>14, <2>1, <2>2, <3>1
    <2>4. CASE ~started
      <3>1. u = day - a + 1 /\ k < h /\ h <= k + 12 /\ (k + 12 = h => u < d)
        BY <1>11, <1>13, <1>14, <2>4 DEF u
      <3> QED BY <1>1, <1>3, <1>8, <1>14, <2>1, <2>2, <3>1
    <2> QED BY <2>3, <2>4
  <1>17. getFiscalYear(next, config) = FiscalYear(year + 1, config)
    <2> HIDE DEF year
    <2> QED BY <1>6, <1>9, YearOfItsStart
  <1> DEFINE quarter == [q \in 1 .. 4 |-> ParseQuarter(q, year, config)]
  <1>18. \A q \in 1 .. 4 : quarter[q] = [start |-> Midnight(k + 3 * (q - 1), d),
                                         end |-> Midnight(k + 3 * q, d) - 1]
    <2> HIDE DEF year
    <2> QED BY <1>6, <1>9, QuarterIs
  <1>19. /\ quarter[1].start = start /\ quarter[4].end = next - 1
         /\ \A q \in 1 .. 3 : quarter[q + 1].start = Midnight(k + 3 * q, d)
         /\ \A q \in 1 .. 3 : quarter[q].end = Midnight(k + 3 * q, d) - 1
    <2>1. ASSUME NEW q \in 1 .. 3 PROVE q \in 1 .. 4 /\ q + 1 \in 1 .. 4 /\ (q + 1) - 1 = q
      OBVIOUS
    <2>2. k + 3 * (1 - 1) = k /\ k + 3 * 4 = k + 12 /\ 1 \in 1 .. 4 /\ 4 \in 1 .. 4
      BY <1>8
    <2> HIDE DEF quarter, k, d
    <2> QED BY <1>18, <2>1, <2>2
  <1>20. \A q \in 1 .. 3 : Midnight(k + 3 * q, d) \in Int
    <2>1. ASSUME NEW q \in 1 .. 3 PROVE k + 3 * q \in Months
      <3>1. MonthIndex(FirstYear, 1) \in Int /\ MonthIndex(LastYear + 1, 12) \in Int
        BY PeriodsAssumption DEF MonthIndex
      <3> HIDE DEF k
      <3> QED BY <1>8, <1>9, <3>1 DEF Months
    <2> QED BY <1>15, <2>1
  <1>21. /\ ParseFiscalYear(year, config).start = start
         /\ ParseFiscalYear(year, config).end = next - 1
    BY <1>7, <1>8 DEF ParseFiscalYear
  <1>22. start \in Int /\ next \in Int
    BY <1>9, <1>15
  <1> HIDE DEF start, next, k, quarter
  <1>23. /\ fiscal.year = year /\ fiscal.startsAt = start /\ fiscal.endsAt = next - 1
         /\ fiscal.endsAt + 1 = next
    BY <1>8, <1>22
  <1>24. /\ fiscal.startsAt <= t /\ t <= fiscal.endsAt
         /\ getFiscalYear(fiscal.endsAt + 1, config) = FiscalYear(fiscal.year + 1, config)
         /\ quarter[1].start = ParseFiscalYear(year, config).start
         /\ \A q \in 1 .. 3 : quarter[q + 1].start = quarter[q].end + 1
         /\ quarter[4].end = ParseFiscalYear(year, config).end
    <2> HIDE DEF fiscal, year
    <2> QED BY <1>16, <1>17, <1>19, <1>20, <1>21, <1>22, <1>23
  <1>25. quarter = [q \in 1 .. 4 |-> ParseQuarter(q, fiscal.year, config)]
    BY <1>23 DEF quarter
  <1> HIDE DEF year
  <1> QED BY <1>23, <1>24, <1>25 DEF FiscalYearsTile

\* The sum of the differences between neighbours is that between the last and the first.
LEMMA SumOfSteps ==
  ASSUME NEW n \in Nat, NEW g, \A i \in 1 .. n + 1 : g[i] \in Int,
         NEW f, \A i \in 1 .. n : f[i] = g[i + 1] - g[i]
  PROVE  SumFunctionOnSet(f, 1 .. n) = g[n + 1] - g[1]
  <1> DEFINE N == {m \in 0 .. n : SumFunctionOnSet(f, 1 .. m) # g[m + 1] - g[1]}
  <1>1. SUFFICES ASSUME N # {} PROVE FALSE
    OBVIOUS
  <1>2. PICK m \in N : \A l \in N : m <= l
    <2>1. N \in SUBSET Nat
      OBVIOUS
    <2> HIDE DEF N
    <2> QED BY <1>1, <2>1, LeastNumber
  <1>3. m \in 0 .. n /\ SumFunctionOnSet(f, 1 .. m) # g[m + 1] - g[1]
    OBVIOUS
  <1>4. CASE m = 0
    <2>1. 1 .. m = {} /\ m + 1 = 1 /\ g[1] \in Int
      BY <1>4
    <2>2. SumFunctionOnSet(f, 1 .. m) = 0
      BY <2>1, SumOfNone
    <2> QED BY <1>3, <2>1, <2>2
  <1>5. CASE m # 0
    <2> DEFINE l == m - 1
    <2>1. l \in 0 .. n /\ l \notin N /\ m \in 1 .. n
      BY <1>2, <1>3, <1>5
    <2>2. SumFunctionOnSet(f, 1 .. l) = g[l + 1] - g[1]
      BY <2>1
    <2>3. 1 .. m = (1 .. l) \cup {m} /\ m \notin 1 .. l /\ IsFiniteSet(1 .. l) /\ l + 1 = m
      <3>1. l \in Int /\ 1 \in Int /\ m = l + 1 /\ l \in Nat
        BY <2>1
      <3> HIDE DEF l
      <3>2. IsFiniteSet(1 .. l)
        BY <3>1, FS_Interval
      <3>3. 1 .. m = (1 .. l) \cup {m} /\ m \notin 1 .. l
        BY <3>1
      <3> QED BY <3>1, <3>2, <3>3
    <2>4. ASSUME NEW i \in (1 .. l) \cup {m} PROVE f[i] \in Int
      <3>1. i \in 1 .. n /\ i \in 1 .. n + 1 /\ i + 1 \in 1 .. n + 1
        BY <2>1
      <3> QED BY <3>1
    <2>5. SumFunctionOnSet(f, (1 .. l) \cup {m}) = f[m] + SumFunctionOnSet(f, 1 .. l)
      <3> HIDE DEF l
      <3> QED BY <2>3, <2>4, SumWith
    <2>6. f[m] = g[m + 1] - g[m] /\ g[m + 1] \in Int /\ g[m] \in Int /\ g[1] \in Int
      <3>1. m \in 1 .. n /\ m \in 1 .. n + 1 /\ m + 1 \in 1 .. n + 1 /\ 1 \in 1 .. n + 1
        BY <2>1
      <3> QED BY <3>1
    <2> HIDE DEF l, N
    <2>7. SumFunctionOnSet(f, 1 .. m) = f[m] + (g[m] - g[1])
      BY <2>2, <2>3, <2>5
    <2> QED BY <1>3, <2>6, <2>7
  <1> QED BY <1>4, <1>5

\* A period as the code makes them, from the beginning of a day to the end of one.
IsPeriod(p) ==
    /\ p = [start |-> p.start, end |-> p.end]
    /\ InCalendar(p.start) /\ InCalendar(p.end)
    /\ p.start <= p.end
    /\ p.start = 2 * DayOf(p.start)
    /\ p.end = 2 * DayOf(p.end) + 1

\* The months a period is split into are its own month, and those up to that of its end.
LEMMA PartsOfPeriod ==
  ASSUME NEW p, IsPeriod(p)
  PROVE  LET h == MonthHolding(p.start)
             e == MonthHolding(p.end)
             n == e - h + 1
             piece == splitIntoMonths(p)
             begins(i) == IF i = 1 THEN p.start ELSE 2 * FirstDay(h + i - 1)
             ends(i) == IF i = n THEN p.end ELSE 2 * FirstDay(h + i) - 1
         IN  /\ h \in Months /\ e \in Months /\ h \in Int /\ e \in Int /\ h <= e
             /\ piece = [i \in 1 .. n |-> Bucket(begins(i), p.end)]
             /\ \A i \in 1 .. n :
                   /\ piece[i].start = begins(i) /\ piece[i].end = ends(i)
                   /\ piece[i].year = YearOf(h + i - 1) /\ piece[i].month = MonthOf(h + i - 1)
                   /\ ends(i) = MinOf(2 * FirstDay(h + i) - 1, p.end)
  <1> DEFINE h == MonthHolding(p.start)
             e == MonthHolding(p.end)
             n == e - h + 1
             piece == splitIntoMonths(p)
             begins(i) == IF i = 1 THEN p.start ELSE 2 * FirstDay(h + i - 1)
             ends(i) == IF i = n THEN p.end ELSE 2 * FirstDay(h + i) - 1
             x == DayOf(p.start)
             z == DayOf(p.end)
  <1>1. /\ x \in Int /\ z \in Int /\ p.start = 2 * x /\ p.end = 2 * z + 1 /\ x <= z
        /\ p.start \in Int /\ p.end \in Int
    <2>1. x \in Int /\ z \in Int /\ p.start = 2 * x /\ p.end = 2 * z + 1 /\ p.start <= p.end
      BY DEF IsPeriod, InCalendar, DayOf
    <2> HIDE DEF x, z
    <2> QED BY <2>1
  <1>2. /\ h \in Months /\ h \in Int /\ FirstDay(h) <= x /\ x < FirstDay(h + 1)
        /\ e \in Months /\ e \in Int /\ FirstDay(e) <= z /\ z < FirstDay(e + 1)
    BY MonthHolds DEF IsPeriod
  <1>3. \A k \in Int : FirstDay(k) \in Int
    BY MonthLength
  <1>4. \A k, l \in Int : k <= l => FirstDay(k) <= FirstDay(l)
    <2> SUFFICES ASSUME NEW k \in Int, NEW l \in Int, k <= l PROVE FirstDay(k) <= FirstDay(l)
      OBVIOUS
    <2>1. CASE k = l
      BY <1>3, <2>1
    <2>2. CASE k < l
      <3>1. FirstDay(k) + LengthOfMonth(k) <= FirstDay(l) /\ LengthOfMonth(k) \in 28 .. 31
        BY <2>2, MonthLength, MonthsGrow
      <3> QED BY <1>3, <3>1
    <2> QED BY <2>1, <2>2
  <1>5. \A k \in Months : k \in Int
    BY PeriodsAssumption DEF Months, MonthIndex
  <1>6. \A k \in Int : h <= k /\ k <= e => k \in Months
    <2>1. MonthIndex(FirstYear, 1) \in Int /\ MonthIndex(LastYear + 1, 12) \in Int
      BY PeriodsAssumption DEF MonthIndex
    <2> HIDE DEF h, e
    <2> QED BY <1>2, <2>1 DEF Months
  <1> HIDE DEF h, e, x, z
  <1>7. h <= e
    <2>1. e + 1 <= h => FirstDay(e + 1) <= FirstDay(h)
      BY <1>2, <1>4
    <2>2. FirstDay(e + 1) \in Int /\ FirstDay(h) \in Int
      BY <1>2, <1>3
    <2> QED BY <1>1, <1>2, <2>1, <2>2
  <1>8. MonthsBeginningIn(p) = (h + 1) .. e
    <2>1. ASSUME NEW k \in Months, h < k, 2 * FirstDay(k) <= p.end PROVE k <= e
      <3>1. k \in Int /\ FirstDay(k) \in Int /\ FirstDay(e + 1) \in Int
        BY <1>2, <1>3, <1>5
      <3>2. e + 1 <= k => FirstDay(e + 1) <= FirstDay(k)
        BY <1>2, <1>4, <3>1
      <3> QED BY <1>1, <1>2, <2>1, <3>1, <3>2
    <2>2. ASSUME NEW k \in (h + 1) .. e PROVE k \in Months /\ h < k /\ 2 * FirstDay(k) <= p.end
      <3>1. k \in Int /\ h < k /\ k <= e
        BY <1>2
      <3>2. FirstDay(k) <= FirstDay(e) /\ FirstDay(k) \in Int /\ FirstDay(e) \in Int
        BY <1>2, <1>3, <1>4, <3>1
      <3> QED BY <1>1, <1>2, <1>6, <3>1, <3>2
    <2>3. MonthsBeginningIn(p) = {k \in Months : h < k /\ 2 * FirstDay(k) <= p.end}
      BY DEF MonthsBeginningIn, h
    <2>4. \A k \in Months : h < k /\ k <= e => k \in (h + 1) .. e
      BY <1>2, <1>5
    <2> QED BY <2>1, <2>2, <2>3, <2>4
  <1>9. Cardinality(MonthsBeginningIn(p)) + 1 = n
    <2>1. Cardinality((h + 1) .. e) = IF h + 1 > e THEN 0 ELSE e - (h + 1) + 1
      <3>1. h + 1 \in Int
        BY <1>2
      <3> QED BY <1>2, <3>1, FS_Interval
    <2> QED BY <1>2, <1>7, <1>8, <2>1
  <1>10. piece = [i \in 1 .. n |-> Bucket(begins(i), p.end)]
    BY <1>9 DEF splitIntoMonths, h
  <1>11. ASSUME NEW i \in 1 .. n
         PROVE  /\ MonthHolding(begins(i)) = h + i - 1
                /\ ends(i) = MinOf(2 * FirstDay(h + i) - 1, p.end)
    <2> DEFINE k == h + i - 1
    <2>1. k \in Int /\ h <= k /\ k <= e /\ h + i = k + 1 /\ (i = 1 <=> k = h) /\ (i = n <=> k = e)
      BY <1>2, <1>7
    <2>2. k \in Months /\ FirstDay(k) \in Int /\ FirstDay(k + 1) \in Int /\ FirstDay(e) \in Int
      BY <1>2, <1>3, <1>6, <2>1
    <2>3. MonthHolding(begins(i)) = k
      <3>1. CASE i = 1
        BY <2>1, <3>1 DEF h
      <3>2. CASE i # 1
        <4>1. begins(i) = 2 * FirstDay(k)
          BY <3>2
        <4>2. begins(i) = Midnight(k, 1)
          <5> HIDE DEF k
          <5> QED BY <2>2, <4>1 DEF Midnight
        <4> HIDE DEF k, begins
        <4> QED BY <2>2, <4>2, MidnightHeld
      <3> QED BY <3>1, <3>2
    <2> HIDE DEF k
    <2>4. ends(i) = IF k = e THEN p.end ELSE 2 * FirstDay(k + 1) - 1
      BY <2>1
    <2>5. k < e => FirstDay(k + 1) <= FirstDay(e)
      BY <1>2, <1>4, <2>1
    <2>6. ends(i) = MinOf(2 * FirstDay(k + 1) - 1, p.end)
      <3>1. CASE k = e
        BY <1>1, <1>2, <2>2, <2>4, <3>1 DEF MinOf
      <3>2. CASE k < e
        BY <1>1, <1>2, <2>2, <2>4, <2>5, <3>2 DEF MinOf
      <3> QED BY <1>2, <2>1, <3>1, <3>2
    <2> QED BY <2>1, <2>3, <2>6 DEF k
  <1>12. ASSUME NEW i \in 1 .. n
         PROVE  /\ piece[i].start = begins(i) /\ piece[i].end = ends(i)
                /\ piece[i].year = YearOf(h + i - 1) /\ piece[i].month = MonthOf(h + i - 1)
                /\ ends(i) = MinOf(2 * FirstDay(h + i) - 1, p.end)
    <2>1. piece[i] = Bucket(begins(i), p.end)
      <3> HIDE DEF piece, n, begins
      <3> QED BY <1>10
    <2> DEFINE b == begins(i)
               k == h + i - 1
    <2>2. MonthHolding(b) = k /\ k + 1 = h + i
      BY <1>2, <1>7, <1>11
    <2> HIDE DEF b, k, piece
    <2>3. /\ piece[i].start = b /\ piece[i].end = MinOf(2 * FirstDay(k + 1) - 1, p.end)
          /\ piece[i].year = YearOf(k) /\ piece[i].month = MonthOf(k)
      BY <2>1, <2>2 DEF Bucket, b
    <2> QED BY <1>11, <2>2, <2>3 DEF b, k
  <1> HIDE DEF piece
  <1> QED BY <1>2, <1>7, <1>10, <1>12 DEF h, e, piece

\* The months a period is split into are the whole of it, and each is the part of its
\* calendar month that is in the period, for any period of any calendar.
THEOREM MonthsTilePeriods ==
  ASSUME NEW p, IsPeriod(p)
  PROVE  MonthsTile(p)
  <1> DEFINE h == MonthHolding(p.start)
             e == MonthHolding(p.end)
             n == e - h + 1
             piece == splitIntoMonths(p)
             begins(i) == IF i = 1 THEN p.start ELSE 2 * FirstDay(h + i - 1)
             ends(i) == IF i = n THEN p.end ELSE 2 * FirstDay(h + i) - 1
             x == DayOf(p.start)
             z == DayOf(p.end)
  <1>1. /\ x \in Int /\ z \in Int /\ p.start = 2 * x /\ p.end = 2 * z + 1
        /\ p.start \in Int /\ p.end \in Int
    <2>1. x \in Int /\ z \in Int /\ p.start = 2 * x /\ p.end = 2 * z + 1
      BY DEF IsPeriod, InCalendar, DayOf
    <2> HIDE DEF x, z
    <2> QED BY <2>1
  <1>2. /\ h \in Int /\ FirstDay(h) <= x /\ x < FirstDay(h + 1)
        /\ e \in Int /\ FirstDay(e) <= z /\ z < FirstDay(e + 1)
    BY MonthHolds DEF IsPeriod
  <1>3. /\ h <= e /\ DOMAIN piece = 1 .. n
        /\ \A i \in 1 .. n :
              /\ piece[i].start = begins(i) /\ piece[i].end = ends(i)
              /\ piece[i].year = YearOf(h + i - 1) /\ piece[i].month = MonthOf(h + i - 1)
              /\ ends(i) = MinOf(2 * FirstDay(h + i) - 1, p.end)
    BY PartsOfPeriod
  <1>4. \A k \in Int : FirstDay(k) \in Int
    BY MonthLength
  <1>5. \A k, l \in Int : k < l => FirstDay(k) < FirstDay(l)
    <2> SUFFICES ASSUME NEW k \in Int, NEW l \in Int, k < l PROVE FirstDay(k) < FirstDay(l)
      OBVIOUS
    <2>1. FirstDay(k) + LengthOfMonth(k) <= FirstDay(l) /\ LengthOfMonth(k) \in 28 .. 31
      BY MonthLength, MonthsGrow
    <2> QED BY <1>4, <2>1
  <1>6. n \in Nat /\ 1 \in 1 .. n /\ n \in 1 .. n
    <2> HIDE DEF h, e
    <2> QED BY <1>2, <1>3
  <1>7. Len(piece) = n
    <2> HIDE DEF piece, n
    <2> QED BY <1>3, <1>6, LenProperties
  <1> HIDE DEF piece, h, e, x, z
  \* The days at which the parts begin, and the day after them all.
  <1> DEFINE g == [i \in 1 .. n + 1 |-> IF i = n + 1 THEN z + 1 ELSE IF i = 1 THEN x ELSE FirstDay(h + i - 1)]
  <1>8. ASSUME NEW i \in 1 .. n
        PROVE  /\ g[i] = (IF i = 1 THEN x ELSE FirstDay(h + i - 1))
               /\ g[i + 1] = (IF i = n THEN z + 1 ELSE FirstDay(h + i))
               /\ g[i] \in Int /\ g[i + 1] \in Int
               /\ g[i] < g[i + 1]
               /\ begins(i) = 2 * g[i] /\ ends(i) = 2 * g[i + 1] - 1
    <2> DEFINE k == h + i - 1
               a == FirstDay(k)
               b == FirstDay(k + 1)
    <2>1. k \in Int /\ h <= k /\ k <= e /\ h + i = k + 1 /\ (i = 1 <=> k = h) /\ (i = n <=> k = e)
      BY <1>2, <1>3
    <2>2. a \in Int /\ b \in Int /\ a < b
      BY <1>4, <1>5, <2>1
    <2>3. i \in 1 .. n + 1 /\ i + 1 \in 1 .. n + 1 /\ i # n + 1 /\ i + 1 # 1 /\ (i + 1 = n + 1 <=> i = n)
          /\ h + (i + 1) - 1 = k + 1
      BY <1>2, <1>6
    <2>4. /\ g[i] = IF i = 1 THEN x ELSE a
          /\ g[i + 1] = IF i = n THEN z + 1 ELSE b
      <3> HIDE DEF k, n
      <3> QED BY <2>3 DEF k
    <2>5. i = 1 => a <= x /\ x < b
      BY <1>2, <2>1
    <2>6. i = n => a <= z /\ z < b
      BY <1>2, <2>1
    <2>7. i = 1 /\ i = n => x <= z
      BY <1>1 DEF IsPeriod
    <2>8. begins(i) = (IF i = 1 THEN p.start ELSE 2 * a) /\ ends(i) = (IF i = n THEN p.end ELSE 2 * b - 1)
      BY <2>1
    <2> HIDE DEF g, a, b, begins, ends, n
    <2>9. g[i] \in Int /\ g[i + 1] \in Int
      BY <1>1, <2>2, <2>4
    <2>10. g[i] < g[i + 1]
      BY <1>1, <2>2, <2>4, <2>5, <2>6, <2>7
    <2>11. begins(i) = 2 * g[i] /\ ends(i) = 2 * g[i + 1] - 1
      <3>1. i = n => ends(i) = 2 * (z + 1) - 1
        BY <1>1, <2>8
      <3> QED BY <1>1, <2>2, <2>4, <2>8, <3>1
    <2> QED BY <2>1, <2>4, <2>9, <2>10, <2>11 DEF a, b, k
  <1>9. \A i \in 1 .. n :
           /\ piece[i].start = 2 * g[i] /\ piece[i].end = 2 * g[i + 1] - 1
           /\ DayOf(piece[i].start) = g[i] /\ DayOf(piece[i].end) = g[i + 1] - 1
    <2> SUFFICES ASSUME NEW i \in 1 .. n
                 PROVE  /\ piece[i].start = 2 * g[i] /\ piece[i].end = 2 * g[i + 1] - 1
                        /\ DayOf(piece[i].start) = g[i] /\ DayOf(piece[i].end) = g[i + 1] - 1
      OBVIOUS
    <2>1. piece[i].start = 2 * g[i] /\ piece[i].end = 2 * g[i + 1] - 1
      BY <1>3, <1>8
    <2>2. g[i] \in Int /\ g[i + 1] \in Int
      BY <1>8
    <2>3. \A a \in Int : (2 * a) \div 2 = a /\ (2 * a - 1) \div 2 = a - 1
      OBVIOUS
    <2> HIDE DEF g
    <2> QED BY <2>1, <2>2, <2>3 DEF DayOf
  <1>10. g[1] = x /\ g[n + 1] = z + 1 /\ \A i \in 1 .. n + 1 : g[i] \in Int
    <2>1. g[n + 1] = z + 1 /\ z + 1 \in Int
      BY <1>1, <1>6
    <2>2. g[1] = x
      BY <1>6, <1>8
    <2>3. ASSUME NEW i \in 1 .. n + 1 PROVE g[i] \in Int
      <3>1. i = n + 1 \/ i \in 1 .. n
        BY <1>6
      <3> QED BY <1>8, <2>1, <3>1
    <2> QED BY <2>1, <2>2, <2>3
  <1> HIDE DEF g, begins
  <1>11. piece[1].start = p.start /\ piece[Len(piece)].end = p.end
    <2>1. piece[1].start = 2 * g[1] /\ piece[n].end = 2 * g[n + 1] - 1
      BY <1>6, <1>9
    <2> HIDE DEF n
    <2> QED BY <1>1, <1>7, <1>10, <2>1
  <1>12. ASSUME NEW i \in 1 .. Len(piece) - 1
         PROVE  piece[i + 1].start = piece[i].end + 1
    <2>1. i \in 1 .. n /\ i + 1 \in 1 .. n
      BY <1>6, <1>7
    <2>2. piece[i + 1].start = 2 * g[i + 1] /\ piece[i].end = 2 * g[i + 1] - 1 /\ g[i + 1] \in Int
      BY <1>8, <1>9, <2>1
    <2> QED BY <2>2
  <1>13. ASSUME NEW i \in DOMAIN piece
         PROVE  /\ daysInPeriod(piece[i]) = g[i + 1] - g[i]
                /\ daysInPeriod(piece[i]) = overlapDays(ParseMonth(piece[i].year, piece[i].month), p)
                /\ ParseRange(2 * DayOf(piece[i].start), 2 * DayOf(piece[i].end)) =
                      [start |-> piece[i].start, end |-> piece[i].end]
    <2> DEFINE b == g[i]
               c == g[i + 1]
               k == h + i - 1
               m == ParseMonth(piece[i].year, piece[i].month)
    <2>1. i \in 1 .. n
      BY <1>3
    <2>2. /\ b \in Int /\ c \in Int /\ b < c
          /\ piece[i].start = 2 * b /\ piece[i].end = 2 * c - 1
          /\ DayOf(piece[i].start) = b /\ DayOf(piece[i].end) = c - 1
      BY <1>8, <1>9, <2>1
    <2>3. daysInPeriod(piece[i]) = c - b
      <3> HIDE DEF b, c
      <3> QED BY <2>2 DEF daysInPeriod
    <2>4. ParseRange(2 * DayOf(piece[i].start), 2 * DayOf(piece[i].end)) =
             [start |-> piece[i].start, end |-> piece[i].end]
      <3> HIDE DEF b, c
      <3>1. endOfDayUtc(2 * (c - 1)) = 2 * c - 1
        <4>1. (2 * (c - 1)) \div 2 = c - 1
          BY <2>2
        <4> QED BY <2>2, <4>1 DEF endOfDayUtc, DayOf
      <3> QED BY <2>2, <3>1 DEF ParseRange
    <2>5. k \in Int /\ h <= k /\ k + 1 = h + i /\ (i = 1 <=> k = h) /\ k <= e
      BY <1>2, <2>1
    <2>6. m = [start |-> 2 * FirstDay(k), end |-> 2 * FirstDay(k + 1) - 1]
      <3>1. piece[i].year = YearOf(k) /\ piece[i].month = MonthOf(k)
        BY <1>3, <2>1
      <3>2. MonthIndex(YearOf(k), MonthOf(k)) = k /\ MonthIndex(YearOf(k), MonthOf(k) + 1) = k + 1
        <4> HIDE DEF k
        <4>1. YearOf(k) \in Int /\ MonthOf(k) \in 1 .. 12 /\ k = MonthIndex(YearOf(k), MonthOf(k))
          BY <2>5, PartsOfMonth
        <4> QED BY <4>1 DEF MonthIndex
      <3>3. FirstDay(k) \in Int /\ FirstDay(k + 1) \in Int
        BY <1>4, <2>5
      <3> HIDE DEF k
      <3> QED BY <3>1, <3>2, <3>3 DEF ParseMonth, utc
    <2>7. MaxOf(m.start, p.start) = 2 * b
      <3>1. FirstDay(k) \in Int /\ FirstDay(h + 1) \in Int
        BY <1>2, <1>4, <2>5
      <3>2. CASE i = 1
        <4>1. b = x /\ FirstDay(k) <= x /\ k = h
          BY <1>2, <1>8, <2>1, <2>5, <3>2
        <4> HIDE DEF b, k, m
        <4> QED BY <1>1, <2>6, <3>1, <4>1 DEF MaxOf
      <3>3. CASE i # 1
        <4>1. b = FirstDay(k)
          BY <1>8, <2>1, <3>3
        <4>2. FirstDay(h + 1) <= FirstDay(k)
          <5>1. h + 1 < k \/ h + 1 = k
            BY <1>2, <2>5, <3>3
          <5> HIDE DEF k
          <5>2. h + 1 < k => FirstDay(h + 1) < FirstDay(k)
            BY <1>2, <1>5, <2>5
          <5>3. h + 1 = k => FirstDay(h + 1) = FirstDay(k)
            OBVIOUS
          <5> QED BY <3>1, <5>1, <5>2, <5>3
        <4> HIDE DEF b, k, m
        <4> QED BY <1>1, <1>2, <2>6, <3>1, <4>1, <4>2 DEF MaxOf
      <3> QED BY <3>2, <3>3
    <2>8. MinOf(m.end, p.end) = 2 * c - 1
      <3>1. piece[i].end = MinOf(2 * FirstDay(h + i) - 1, p.end)
        BY <1>3, <2>1
      <3> HIDE DEF c, k, m
      <3> QED BY <2>2, <2>5, <2>6, <3>1
    <2>9. overlapDays(m, p) = c - b
      <3>1. ~(2 * c - 1 < 2 * b)
        <4> HIDE DEF b, c
        <4> QED BY <2>2
      <3>2. overlapDays(m, p) = daysInPeriod([start |-> 2 * b, end |-> 2 * c - 1])
        <4> HIDE DEF b, c, m
        <4> QED BY <2>7, <2>8, <3>1 DEF overlapDays
      <3>3. DayOf(2 * b) = b /\ DayOf(2 * c - 1) = c - 1
        BY <2>2
      <3> HIDE DEF b, c, m
      <3> QED BY <2>2, <3>2, <3>3 DEF daysInPeriod
    <2> HIDE DEF b, c, m
    <2>10. daysInPeriod(piece[i]) = overlapDays(m, p)
      BY <2>3, <2>9
    <2> QED BY <2>3, <2>4, <2>10 DEF b, c, m
  <1>14. SumFunction([i \in DOMAIN piece |-> daysInPeriod(piece[i])]) = daysInPeriod(p)
    <2> DEFINE f == [i \in DOMAIN piece |-> daysInPeriod(piece[i])]
    <2>1. DOMAIN f = 1 .. n
      BY <1>3
    <2>2. \A i \in 1 .. n : f[i] = g[i + 1] - g[i]
      BY <1>3, <1>13
    <2> HIDE DEF f
    <2>3. SumFunctionOnSet(f, 1 .. n) = g[n + 1] - g[1]
      <3> HIDE DEF n
      <3> QED BY <1>6, <1>10, <2>2, SumOfSteps
    <2>4. SumFunction(f) = SumFunctionOnSet(f, 1 .. n)
      BY <2>1 DEF SumFunction
    <2>5. daysInPeriod(p) = z - x + 1
      BY DEF daysInPeriod, x, z
    <2> HIDE DEF n
    <2> QED BY <1>1, <1>10, <2>3, <2>4, <2>5 DEF f
  <1> QED BY <1>11, <1>12, <1>13, <1>14 DEF MonthsTile, piece

-------------------------------------------------------------------------------
(* The language of formulas, for trees and texts of any height and length.   *)

\* What the type of a node says of what it holds and of its parts.
IsOver(S, n) ==
    /\ n = <<n[1], n[2], n[3]>>
    /\ \/ n[1] = "num" /\ n[2] \in Int /\ n[3] = <<>>
       \/ n[1] = "bool" /\ n[2] \in BOOLEAN /\ n[3] = <<>>
       \/ n[1] = "nil" /\ n[2] = "" /\ n[3] = <<>>
       \/ n[1] = "ref" /\ n[2] \in STRING /\ n[3] = <<>>
       \/ n[1] = "unary" /\ n[2] \in UnaryOps /\ n[3] \in [1 .. 1 -> S]
       \/ n[1] = "bin" /\ n[2] \in BinaryOps /\ n[3] \in [1 .. 2 -> S]
       \/ n[1] = "cond" /\ n[2] = "" /\ n[3] \in [1 .. 3 -> S]
       \/ n[1] = "call" /\ n[2] \in STRING /\ n[3] \in Seq(S)

\* A tree with its parts in S is told by IsOver.
LEMMA NodeIsOver ==
  ASSUME NEW S, NEW n
  PROVE  n \in NodesOver(S) <=> IsOver(S, n)
  <1> DEFINE F == [1 .. 1 -> S]
             G == [1 .. 2 -> S]
             H == [1 .. 3 -> S]
             Q == Seq(S)
             B == BOOLEAN
  <1>1. n \in NodesOver(S) <=>
            \/ n \in {"num"} \X Int \X {<<>>}
            \/ n \in {"bool"} \X B \X {<<>>}
            \/ n \in {"nil"} \X {""} \X {<<>>}
            \/ n \in {"ref"} \X STRING \X {<<>>}
            \/ n \in {"unary"} \X UnaryOps \X F
            \/ n \in {"bin"} \X BinaryOps \X G
            \/ n \in {"cond"} \X {""} \X H
            \/ n \in {"call"} \X STRING \X Q
    BY Zenon DEF NodesOver
  <1> HIDE DEF F, G, H, Q, B
  <1>2. ASSUME NEW x, NEW U, NEW V
        PROVE  n \in {x} \X U \X V <=> n = <<n[1], n[2], n[3]>> /\ n[1] = x /\ n[2] \in U /\ n[3] \in V
    OBVIOUS
  <1>3. IsOver(S, n) <=>
            \/ n = <<n[1], n[2], n[3]>> /\ n[1] = "num" /\ n[2] \in Int /\ n[3] \in {<<>>}
            \/ n = <<n[1], n[2], n[3]>> /\ n[1] = "bool" /\ n[2] \in B /\ n[3] \in {<<>>}
            \/ n = <<n[1], n[2], n[3]>> /\ n[1] = "nil" /\ n[2] \in {""} /\ n[3] \in {<<>>}
            \/ n = <<n[1], n[2], n[3]>> /\ n[1] = "ref" /\ n[2] \in STRING /\ n[3] \in {<<>>}
            \/ n = <<n[1], n[2], n[3]>> /\ n[1] = "unary" /\ n[2] \in UnaryOps /\ n[3] \in F
            \/ n = <<n[1], n[2], n[3]>> /\ n[1] = "bin" /\ n[2] \in BinaryOps /\ n[3] \in G
            \/ n = <<n[1], n[2], n[3]>> /\ n[1] = "cond" /\ n[2] \in {""} /\ n[3] \in H
            \/ n = <<n[1], n[2], n[3]>> /\ n[1] = "call" /\ n[2] \in STRING /\ n[3] \in Q
    BY Zenon DEF IsOver, F, G, H, Q, B
  <1> QED BY Zenon, <1>1, <1>2, <1>3

\* What holds of a number if it holds of all smaller ones holds of every number.
LEMMA StrongInduction ==
  ASSUME NEW P, \A n \in Nat : (\A m \in 0 .. n - 1 : m \in P) => n \in P
  PROVE  Nat \subseteq P
  <1> DEFINE T == {n \in Nat : n \notin P}
  <1> SUFFICES ASSUME T # {} PROVE FALSE
    OBVIOUS
  <1>1. PICK n \in T : \A m \in T : n <= m
    BY LeastNumber
  <1>2. \A m \in 0 .. n - 1 : m \in P
    BY <1>1
  <1> QED BY <1>2

\* The set of the trees of bounded height is there.
LEMMA NodesUpToIs ==
  nodesUpTo = [height \in 0 .. MaxHeight |->
                 IF height = 0 THEN {} ELSE NodesOver(nodesUpTo[height - 1])]
  <1> DEFINE F(f, n) == [height \in 0 .. n |-> IF height = 0 THEN {} ELSE NodesOver(f[height - 1])]
             P == {n \in Nat : \E f : f = F(f, n)}
  <1>1. ASSUME NEW n \in Nat, \A m \in 0 .. n - 1 : m \in P
        PROVE  n \in P
    <2>1. CASE n = 0
      <3> DEFINE f == [height \in 0 .. 0 |-> {}]
      <3>1. f = F(f, 0)
        OBVIOUS
      <3> QED BY <2>1, <3>1
    <2>2. CASE n # 0
      <3>1. n - 1 \in P
        <4>1. n - 1 \in 0 .. n - 1
          BY <2>2
        <4> QED BY <1>1, <4>1
      <3>2. PICK f : f = F(f, n - 1)
        BY <3>1
      <3> DEFINE g == F(f, n)
      <3>3. \A height \in 0 .. n - 1 :
               f[height] = IF height = 0 THEN {} ELSE NodesOver(f[height - 1])
        <4>1. \A height \in 0 .. n - 1 :
                 F(f, n - 1)[height] = IF height = 0 THEN {} ELSE NodesOver(f[height - 1])
          OBVIOUS
        <4> HIDE DEF F
        <4> QED BY <3>2, <4>1
      <3>4. \A height \in 0 .. n :
               g[height] = IF height = 0 THEN {} ELSE NodesOver(f[height - 1])
        OBVIOUS
      <3>5. \A height \in 0 .. n - 1 : g[height] = f[height]
        <4> HIDE DEF g, F
        <4> QED BY <3>3, <3>4
      <3>6. \A height \in 0 .. n : height # 0 => g[height - 1] = f[height - 1]
        <4> HIDE DEF g, F
        <4> QED BY <3>5
      <3>7. F(g, n) = [height \in 0 .. n |-> IF height = 0 THEN {} ELSE NodesOver(f[height - 1])]
        <4> HIDE DEF g
        <4> QED BY <3>6
      <3>8. g = F(g, n)
        BY <3>7
      <3> QED BY <3>8
    <2> QED BY <2>1, <2>2
  <1>2. Nat \subseteq P
    <2> HIDE DEF P
    <2> QED BY <1>1, StrongInduction
  <1>3. PICK f : f = F(f, MaxHeight)
    BY <1>2, LanguageAssumption
  <1> QED BY <1>3 DEF nodesUpTo

\* Trees of some height are those over the trees that are lower.
LEMMA NodesAre ==
  /\ nodesUpTo[0] = {}
  /\ \A k \in Nat : k < MaxHeight => nodesUpTo[k + 1] = NodesOver(nodesUpTo[k])
  <1> DEFINE N == nodesUpTo
             G == [height \in 0 .. MaxHeight |-> IF height = 0 THEN {} ELSE NodesOver(N[height - 1])]
  <1>1. N = G
    BY NodesUpToIs
  <1>2. \A height \in 0 .. MaxHeight : G[height] = IF height = 0 THEN {} ELSE NodesOver(N[height - 1])
    OBVIOUS
  <1>3. ASSUME NEW k \in Nat, k < MaxHeight
        PROVE  k + 1 \in 0 .. MaxHeight /\ k + 1 # 0 /\ (k + 1) - 1 = k
    BY <1>3, LanguageAssumption
  <1> HIDE DEF N, G
  <1>4. /\ N[0] = {}
        /\ \A k \in Nat : k < MaxHeight => N[k + 1] = NodesOver(N[k])
    BY <1>1, <1>2, <1>3, LanguageAssumption
  <1> QED BY <1>4 DEF N

\* It grows with the height.
LEMMA NodesGrow ==
  ASSUME NEW m \in 0 .. MaxHeight, NEW n \in m .. MaxHeight
  PROVE  nodesUpTo[m] \subseteq nodesUpTo[n]
  <1> DEFINE N == nodesUpTo
             P == {k \in Nat : k < MaxHeight => N[k] \subseteq N[k + 1]}
  <1>1. ASSUME NEW S, NEW T, S \subseteq T
        PROVE  NodesOver(S) \subseteq NodesOver(T)
    <2>1. /\ [1 .. 1 -> S] \subseteq [1 .. 1 -> T]
          /\ [1 .. 2 -> S] \subseteq [1 .. 2 -> T]
          /\ [1 .. 3 -> S] \subseteq [1 .. 3 -> T]
      BY <1>1
    <2>2. Seq(S) \subseteq Seq(T)
      BY <1>1
    <2>3. ASSUME NEW x, IsOver(S, x) PROVE IsOver(T, x)
      BY <2>1, <2>2, <2>3, Zenon DEF IsOver
    <2> QED BY <2>3, NodeIsOver
  <1>2. /\ N[0] = {}
        /\ \A k \in Nat : k < MaxHeight => N[k + 1] = NodesOver(N[k])
    BY NodesAre
  <1> HIDE DEF N
  <1>3. ASSUME NEW k \in Nat, \A j \in 0 .. k - 1 : j \in P
        PROVE  k \in P
    <2>1. CASE k = 0
      BY <1>2, <2>1
    <2>2. CASE k # 0 /\ k < MaxHeight
      <3>1. k - 1 \in Nat /\ k - 1 < MaxHeight /\ (k - 1) + 1 = k /\ k - 1 \in 0 .. k - 1
        BY <2>2, LanguageAssumption
      <3>2. N[k - 1] \subseteq N[k]
        BY <1>3, <3>1
      <3>3. N[k] = NodesOver(N[k - 1]) /\ N[k + 1] = NodesOver(N[k])
        BY <1>2, <2>2, <3>1
      <3>4. N[k] \subseteq N[k + 1]
        BY <1>1, <3>2, <3>3
      <3> QED BY <3>4
    <2> QED BY <2>1, <2>2
  <1>4. Nat \subseteq P
    <2> HIDE DEF P
    <2> QED BY <1>3, StrongInduction
  <1> DEFINE Q == {d \in Nat : m + d <= MaxHeight => N[m] \subseteq N[m + d]}
  <1>5. ASSUME NEW d \in Nat, \A e \in 0 .. d - 1 : e \in Q
        PROVE  d \in Q
    <2>1. CASE d = 0
      BY <2>1
    <2>2. CASE d # 0 /\ m + d <= MaxHeight
      <3>1. d - 1 \in 0 .. d - 1 /\ m + (d - 1) <= MaxHeight
        BY <2>2, LanguageAssumption
      <3>2. m + (d - 1) \in Nat /\ m + (d - 1) < MaxHeight /\ (m + (d - 1)) + 1 = m + d
        BY <2>2, LanguageAssumption
      <3>3. N[m] \subseteq N[m + (d - 1)]
        BY <1>5, <3>1
      <3>4. N[m + (d - 1)] \subseteq N[m + d]
        <4>1. m + (d - 1) \in P
          BY <1>4, <3>2
        <4> QED BY <3>2, <4>1
      <3> QED BY <3>3, <3>4
    <2> QED BY <2>1, <2>2
  <1>6. Nat \subseteq Q
    <2> HIDE DEF Q
    <2> QED BY <1>5, StrongInduction
  <1>7. n - m \in Nat /\ m + (n - m) = n /\ n <= MaxHeight
    BY LanguageAssumption
  <1>8. n - m \in Q
    BY <1>6, <1>7
  <1> QED BY <1>7, <1>8 DEF N

\* A tree is over trees.
LEMMA NodesPart ==
  ASSUME NEW n \in Node
  PROVE  \E k \in Nat : /\ k < MaxHeight /\ n \in NodesOver(nodesUpTo[k])
                        /\ nodesUpTo[k] \subseteq Node
  <1>1. MaxHeight # 0
    BY NodesAre DEF Node
  <1>2. MaxHeight - 1 \in Nat /\ MaxHeight - 1 < MaxHeight /\ (MaxHeight - 1) + 1 = MaxHeight
        /\ MaxHeight - 1 \in 0 .. MaxHeight /\ MaxHeight \in (MaxHeight - 1) .. MaxHeight
    BY <1>1, LanguageAssumption
  <1>3. n \in NodesOver(nodesUpTo[MaxHeight - 1])
    BY <1>2, NodesAre DEF Node
  <1>4. nodesUpTo[MaxHeight - 1] \subseteq Node
    BY <1>2, NodesGrow DEF Node
  <1> QED BY <1>2, <1>3, <1>4

\* What is written for a tree depends on what is written for its parts.
LEMMA ComposedOfParts ==
  ASSUME NEW S, NEW n \in NodesOver(S), NEW f, NEW g, \A m \in S : f[m] = g[m]
  PROVE  Composed(f, n) = Composed(g, n)
  <1>1. ASSUME NEW m \in S, NEW level PROVE Placed(f, m, level) = Placed(g, m, level)
    BY DEF Placed
  <1>2. ASSUME NEW args \in Seq(S) PROVE Listed(f, args) = Listed(g, args)
    <2>1. \A i \in DOMAIN args : args[i] \in S
      OBVIOUS
    <2>2. \A i \in DOMAIN args : Placed(f, args[i], 0) = Placed(g, args[i], 0)
      BY <1>1, <2>1
    <2>3. [i \in DOMAIN args |-> Placed(f, args[i], 0) \o (IF i < Len(args) THEN <<Mark("comma")>> ELSE <<>>)]
            = [i \in DOMAIN args |-> Placed(g, args[i], 0) \o (IF i < Len(args) THEN <<Mark("comma")>> ELSE <<>>)]
      BY <2>2
    <2> QED BY <2>3 DEF Listed
  <1>3. IsOver(S, n)
    BY NodeIsOver
  <1>4. ASSUME NEW i \in DOMAIN n[3], NEW level
        PROVE  Placed(f, n[3][i], level) = Placed(g, n[3][i], level)
    <2>1. /\ \A h \in [1 .. 1 -> S] : \A j \in DOMAIN h : h[j] \in S
          /\ \A h \in [1 .. 2 -> S] : \A j \in DOMAIN h : h[j] \in S
          /\ \A h \in [1 .. 3 -> S] : \A j \in DOMAIN h : h[j] \in S
          /\ \A h \in Seq(S) : \A j \in DOMAIN h : h[j] \in S
          /\ DOMAIN <<>> = {}
      OBVIOUS
    <2>2. \/ n[3] = <<>>
          \/ n[3] \in [1 .. 1 -> S]
          \/ n[3] \in [1 .. 2 -> S]
          \/ n[3] \in [1 .. 3 -> S]
          \/ n[3] \in Seq(S)
      BY <1>3, Zenon DEF IsOver
    <2>3. n[3][i] \in S
      BY <2>1, <2>2, Zenon
    <2> QED BY <1>1, <2>3
  <1>5. CASE n[1] = "unary"
    <2>1. 1 \in DOMAIN n[3]
      BY <1>3, <1>5 DEF IsOver
    <2> QED BY <1>4, <1>5, <2>1 DEF Composed
  <1>6. CASE n[1] = "bin"
    <2>1. 1 \in DOMAIN n[3] /\ 2 \in DOMAIN n[3]
      BY <1>3, <1>6 DEF IsOver
    <2> QED BY <1>4, <1>6, <2>1 DEF Composed
  <1>7. CASE n[1] = "cond"
    <2>1. 1 \in DOMAIN n[3] /\ 2 \in DOMAIN n[3] /\ 3 \in DOMAIN n[3]
      <3>1. n[3] \in [1 .. 3 -> S]
        BY <1>3, <1>7 DEF IsOver
      <3> QED BY <3>1
    <2> QED BY <1>4, <1>7, <2>1 DEF Composed
  <1>8. CASE n[1] = "call"
    <2>1. n[3] \in Seq(S)
      BY <1>3, <1>8 DEF IsOver
    <2> QED BY <1>2, <1>8, <2>1 DEF Composed
  <1>9. CASE n[1] \notin {"unary", "bin", "cond", "call"}
    BY <1>9 DEF Composed
  <1> QED BY <1>5, <1>6, <1>7, <1>8, <1>9

\* The texts of all trees are there.
LEMMA TextsAre ==
  \A n \in Node : texts[n] = Composed(texts, n)
  <1> DEFINE N == nodesUpTo
             T(f, S) == [n \in S |-> Composed(f, n)]
             P == {k \in Nat : k <= MaxHeight => \E f : f = T(f, N[k])}
  <1>1. ASSUME NEW k \in Nat, \A j \in 0 .. k - 1 : j \in P
        PROVE  k \in P
    <2>1. CASE k = 0
      <3> DEFINE f == [n \in {} |-> Composed(n, n)]
      <3>1. f = T(f, {})
        OBVIOUS
      <3> QED BY <2>1, <3>1, NodesAre
    <2>2. CASE k # 0 /\ k <= MaxHeight
      <3>1. k - 1 \in Nat /\ k - 1 < MaxHeight /\ (k - 1) + 1 = k /\ k - 1 \in 0 .. k - 1
            /\ k - 1 \in 0 .. MaxHeight /\ k \in (k - 1) .. MaxHeight
        BY <2>2, LanguageAssumption
      <3>2. k - 1 \in P
        BY <1>1, <3>1
      <3>3. PICK f : f = T(f, N[k - 1])
        BY <3>1, <3>2
      <3> DEFINE g == T(f, N[k])
      <3>4. N[k] = NodesOver(N[k - 1]) /\ N[k - 1] \subseteq N[k]
        BY <3>1, NodesAre, NodesGrow
      <3>5. \A n \in N[k - 1] : f[n] = Composed(f, n)
        <4>1. \A n \in N[k - 1] : T(f, N[k - 1])[n] = Composed(f, n)
          OBVIOUS
        <4> HIDE DEF T
        <4> QED BY <3>3, <4>1
      <3>6. \A n \in N[k] : g[n] = Composed(f, n)
        OBVIOUS
      <3> HIDE DEF g, N, T
      <3>7. \A n \in N[k - 1] : g[n] = f[n]
        BY <3>4, <3>5, <3>6
      <3>8. \A n \in N[k] : Composed(g, n) = Composed(f, n)
        BY <3>4, <3>7, ComposedOfParts
      <3>9. T(g, N[k]) = T(f, N[k])
        BY <3>8 DEF T
      <3>10. g = T(g, N[k])
        BY <3>9 DEF g
      <3> QED BY <3>10
    <2> QED BY <2>1, <2>2
  <1>2. MaxHeight \in P
    <2> HIDE DEF P
    <2> QED BY <1>1, StrongInduction, LanguageAssumption
  <1>3. PICK f : f = T(f, Node)
    BY <1>2, LanguageAssumption DEF Node
  <1>4. texts = T(texts, Node)
    BY <1>3 DEF texts
  <1>5. \A n \in Node : T(texts, Node)[n] = Composed(texts, n)
    OBVIOUS
  <1> HIDE DEF T
  <1> QED BY <1>4, <1>5

\* f joins the sequences of seqs one after the other.
Joins(f, seqs, S) ==
    /\ f \in [0 .. Len(seqs) -> Seq(S)]
    /\ f[0] = <<>>
    /\ \A i \in 1 .. Len(seqs) : f[i] = f[i - 1] \o seqs[i]

\* FlattenSeq does.
LEMMA FlattenJoins ==
  ASSUME NEW S, NEW seqs \in Seq(Seq(S))
  PROVE  \E f : Joins(f, seqs, S) /\ FlattenSeq(seqs) = f[Len(seqs)]
  <1> DEFINE n == Len(seqs)
             A(g, k) == [i \in 1 .. k |-> IF i = 1 THEN seqs[i] ELSE g[i - 1] \o seqs[i]]
             P == {k \in Nat : \E g : g = A(g, k)}
  <1>0. n \in Nat /\ \A i \in 1 .. n : seqs[i] \in Seq(S)
    OBVIOUS
  <1>1. ASSUME NEW k \in Nat, \A j \in 0 .. k - 1 : j \in P
        PROVE  k \in P
    <2>1. CASE k = 0
      <3> DEFINE g == [i \in 1 .. 0 |-> <<>>]
      <3>1. g = A(g, 0)
        OBVIOUS
      <3> QED BY <2>1, <3>1
    <2>2. CASE k # 0
      <3>1. k - 1 \in 0 .. k - 1
        BY <2>2
      <3>2. k - 1 \in P
        BY <1>1, <3>1
      <3>3. PICK f : f = A(f, k - 1)
        BY <3>2
      <3> DEFINE g == A(f, k)
      <3>4. \A i \in 1 .. k - 1 : f[i] = IF i = 1 THEN seqs[i] ELSE f[i - 1] \o seqs[i]
        <4>1. \A i \in 1 .. k - 1 : A(f, k - 1)[i] = IF i = 1 THEN seqs[i] ELSE f[i - 1] \o seqs[i]
          OBVIOUS
        <4> HIDE DEF A
        <4> QED BY <3>3, <4>1
      <3>5. \A i \in 1 .. k : g[i] = IF i = 1 THEN seqs[i] ELSE f[i - 1] \o seqs[i]
        OBVIOUS
      <3> HIDE DEF g
      <3>6. \A i \in 1 .. k : i # 1 => g[i - 1] = f[i - 1]
        <4> HIDE DEF A
        <4> SUFFICES ASSUME NEW i \in 1 .. k, i # 1 PROVE g[i - 1] = f[i - 1]
          OBVIOUS
        <4>1. i - 1 \in 1 .. k - 1 /\ i - 1 \in 1 .. k
          BY <3>1
        <4> QED BY <3>4, <3>5, <4>1
      <3>7. A(g, k) = A(f, k)
        BY <3>6
      <3>8. g = A(g, k)
        BY <3>7 DEF g
      <3> QED BY <3>8
    <2> QED BY <2>1, <2>2
  <1>2. n \in P
    <2> HIDE DEF P
    <2> QED BY <1>0, <1>1, StrongInduction
  <1> DEFINE h == CHOOSE g : g = A(g, n)
  <1>3. h = A(h, n)
    BY <1>2
  <1>4. FlattenSeq(seqs) = IF n = 0 THEN seqs ELSE h[n]
    BY DEF FlattenSeq
  <1>5. \A i \in 1 .. n : h[i] = IF i = 1 THEN seqs[i] ELSE h[i - 1] \o seqs[i]
    <2>1. \A i \in 1 .. n : A(h, n)[i] = IF i = 1 THEN seqs[i] ELSE h[i - 1] \o seqs[i]
      OBVIOUS
    <2> HIDE DEF A, h
    <2> QED BY <1>3, <2>1
  <1> HIDE DEF h, A
  <1> DEFINE Q == {k \in Nat : k \in 1 .. n => h[k] \in Seq(S)}
  <1>6. ASSUME NEW k \in Nat, \A j \in 0 .. k - 1 : j \in Q
        PROVE  k \in Q
    <2> SUFFICES ASSUME k \in 1 .. n PROVE h[k] \in Seq(S)
      OBVIOUS
    <2>1. CASE k = 1
      BY <1>0, <1>5, <2>1
    <2>2. CASE k # 1
      <3>1. k - 1 \in 0 .. k - 1 /\ k - 1 \in 1 .. n
        BY <1>0, <2>2
      <3>2. h[k - 1] \in Seq(S)
        BY <1>6, <3>1
      <3>3. h[k] = h[k - 1] \o seqs[k]
        BY <1>5, <2>2
      <3> HIDE DEF n
      <3> QED BY <1>0, <3>2, <3>3
    <2> QED BY <2>1, <2>2
  <1>7. \A k \in 1 .. n : h[k] \in Seq(S)
    <2>1. Nat \subseteq Q
      <3> HIDE DEF Q
      <3> QED BY <1>6, StrongInduction
    <2> QED BY <1>0, <2>1
  <1> DEFINE f == [i \in 0 .. n |-> IF i = 0 THEN <<>> ELSE h[i]]
  <1>8. f \in [0 .. n -> Seq(S)] /\ f[0] = <<>>
    BY <1>0, <1>7
  <1>9. ASSUME NEW i \in 1 .. n PROVE f[i] = f[i - 1] \o seqs[i]
    <2>1. f[i] = h[i] /\ i - 1 \in 0 .. n /\ (i # 1 => f[i - 1] = h[i - 1])
      BY <1>0
    <2>2. CASE i = 1
      <3>1. <<>> \o seqs[i] = seqs[i]
        BY <1>0
      <3> HIDE DEF f
      <3> QED BY <1>0, <1>5, <1>8, <2>1, <2>2, <3>1
    <2>3. CASE i # 1
      <3> HIDE DEF f
      <3> QED BY <1>5, <2>1, <2>3
    <2> QED BY <2>2, <2>3
  <1>10. FlattenSeq(seqs) = f[n]
    <2>1. CASE n = 0
      <3>1. seqs = <<>>
        BY <2>1
      <3> QED BY <1>4, <1>8, <2>1, <3>1
    <2>2. CASE n # 0
      BY <1>0, <1>4, <2>2
    <2> QED BY <2>1, <2>2
  <1> HIDE DEF f
  <1> QED BY <1>8, <1>9, <1>10 DEF Joins, n

\* Sequences one after the other, joined, are what they are joined, one after the other.
LEMMA FlattenOfParts ==
  ASSUME NEW S, NEW a \in Seq(Seq(S)), NEW b \in Seq(Seq(S))
  PROVE  /\ a \o b \in Seq(Seq(S))
         /\ FlattenSeq(a) \in Seq(S)
         /\ FlattenSeq(a \o b) = FlattenSeq(a) \o FlattenSeq(b)
  <1> DEFINE c == a \o b
             l == Len(a)
             m == Len(b)
  <1>1. /\ l \in Nat /\ m \in Nat /\ c \in Seq(Seq(S)) /\ Len(c) = l + m
        /\ \A i \in 1 .. l : c[i] = a[i]
        /\ \A i \in 1 .. m : c[l + i] = b[i]
        /\ \A i \in 1 .. l : a[i] \in Seq(S)
        /\ \A i \in 1 .. m : b[i] \in Seq(S)
    OBVIOUS
  <1>2. PICK f : Joins(f, a, S) /\ FlattenSeq(a) = f[l]
    BY FlattenJoins
  <1>3. PICK g : Joins(g, b, S) /\ FlattenSeq(b) = g[m]
    BY FlattenJoins
  <1>4. PICK h : Joins(h, c, S) /\ FlattenSeq(c) = h[Len(c)]
    BY <1>1, FlattenJoins
  <1> HIDE DEF c
  <1>5. /\ f \in [0 .. l -> Seq(S)] /\ f[0] = <<>> /\ \A i \in 1 .. l : f[i] = f[i - 1] \o a[i]
        /\ g \in [0 .. m -> Seq(S)] /\ g[0] = <<>> /\ \A i \in 1 .. m : g[i] = g[i - 1] \o b[i]
        /\ h[0] = <<>> /\ \A i \in 1 .. l + m : h[i] = h[i - 1] \o c[i]
    BY <1>1, <1>2, <1>3, <1>4 DEF Joins
  <1> HIDE DEF l, m
  <1> DEFINE P == {k \in Nat : k <= l => h[k] = f[k]}
  <1>6. ASSUME NEW k \in Nat, \A j \in 0 .. k - 1 : j \in P
        PROVE  k \in P
    <2> SUFFICES ASSUME k <= l PROVE h[k] = f[k]
      OBVIOUS
    <2>1. CASE k = 0
      BY <1>5, <2>1
    <2>2. CASE k # 0
      <3>1. k - 1 \in 0 .. k - 1 /\ k - 1 <= l /\ k \in 1 .. l /\ k \in 1 .. l + m
        BY <1>1, <2>2
      <3>2. h[k - 1] = f[k - 1]
        BY <1>6, <3>1
      <3>3. f[k] = f[k - 1] \o a[k] /\ h[k] = h[k - 1] \o c[k]
        BY <1>5, <3>1, Zenon
      <3>4. c[k] = a[k]
        BY <1>1, <3>1, Zenon
      <3> QED BY <3>2, <3>3, <3>4, Zenon
    <2> QED BY <2>1, <2>2
  <1>7. h[l] = f[l]
    <2>1. Nat \subseteq P
      <3> HIDE DEF P
      <3> QED BY <1>6, StrongInduction
    <2> QED BY <1>1, <2>1
  <1> DEFINE Q == {k \in Nat : k <= m => h[l + k] = f[l] \o g[k]}
  <1>8. f[l] \in Seq(S) /\ f[l] \o <<>> = f[l]
    <2>1. f[l] \in Seq(S)
      BY <1>1, <1>5
    <2> QED BY <2>1
  <1>9. ASSUME NEW k \in Nat, \A j \in 0 .. k - 1 : j \in Q
        PROVE  k \in Q
    <2> SUFFICES ASSUME k <= m PROVE h[l + k] = f[l] \o g[k]
      OBVIOUS
    <2>1. CASE k = 0
      <3>1. l + k = l /\ g[k] = <<>>
        BY <1>1, <1>5, <2>1
      <3> QED BY <1>7, <1>8, <3>1, Zenon
    <2>2. CASE k # 0
      <3>1. k - 1 \in 0 .. k - 1 /\ k - 1 <= m /\ k \in 1 .. m /\ l + k \in 1 .. l + m
            /\ (l + k) - 1 = l + (k - 1) /\ k - 1 \in 0 .. m
        BY <1>1, <2>2
      <3>2. h[l + (k - 1)] = f[l] \o g[k - 1]
        BY <1>9, <3>1
      <3>3. h[l + k] = h[l + (k - 1)] \o b[k]
        BY <1>1, <1>5, <3>1
      <3>4. g[k] = g[k - 1] \o b[k]
        BY <1>5, <3>1
      <3>5. g[k - 1] \in Seq(S) /\ b[k] \in Seq(S)
        BY <1>1, <1>5, <3>1
      <3>6. (f[l] \o g[k - 1]) \o b[k] = f[l] \o (g[k - 1] \o b[k])
        <4>1. \A x \in Seq(S) : \A y \in Seq(S) : \A z \in Seq(S) : (x \o y) \o z = x \o (y \o z)
          BY ConcatAssociative, SMTT(30)
        <4> QED BY <1>8, <3>5, <4>1, Zenon
      <3> QED BY <3>2, <3>3, <3>4, <3>6, Zenon
    <2> QED BY <2>1, <2>2
  <1>10. h[l + m] = f[l] \o g[m]
    <2>1. Nat \subseteq Q
      <3> HIDE DEF Q
      <3> QED BY <1>9, StrongInduction
    <2>2. m \in Q
      BY <1>1, <2>1
    <2>3. m <= m
      BY <1>1
    <2> QED BY <2>2, <2>3, Zenon
  <1> QED BY <1>1, <1>2, <1>3, <1>4, <1>8, <1>10 DEF c, l, m

\* What joins a single sequence, and none.
LEMMA FlattenOfOne ==
  ASSUME NEW S, NEW s \in Seq(S)
  PROVE  /\ <<s>> \in Seq(Seq(S)) /\ FlattenSeq(<<s>>) = s
         /\ <<>> \in Seq(Seq(S)) /\ FlattenSeq(<<>>) = <<>>
  <1>1. <<s>> \in Seq(Seq(S)) /\ Len(<<s>>) = 1 /\ <<s>>[1] = s /\ <<>> \o s = s
        /\ <<>> \in Seq(Seq(S)) /\ Len(<<>>) = 0
    OBVIOUS
  <1> DEFINE a == <<s>>
  <1>2. PICK f : Joins(f, a, S) /\ FlattenSeq(a) = f[Len(a)]
    BY <1>1, FlattenJoins
  <1> HIDE DEF a
  <1>3. Len(a) = 1 /\ a[1] = s
    BY <1>1 DEF a
  <1>4. f[0] = <<>> /\ f[1] = f[0] \o a[1]
    <2>1. 1 \in 1 .. Len(a) /\ 1 - 1 = 0
      BY <1>3
    <2>2. f[0] = <<>> /\ \A i \in 1 .. Len(a) : f[i] = f[i - 1] \o a[i]
      BY <1>2 DEF Joins
    <2> QED BY <2>1, <2>2, Zenon
  <1>5. FlattenSeq(a) = s
    BY <1>1, <1>2, <1>3, <1>4
  <1>6. FlattenSeq(<<>>) = <<>>
    BY <1>1 DEF FlattenSeq
  <1> QED BY <1>1, <1>5, <1>6 DEF a

\* A sequence of tokens that does not begin with a closing parenthesis.
IsText(t) == t \in Seq(Tokens) /\ Len(t) >= 1 /\ t[1].t # "rparen"

\* What is written with parentheses if need be is a text, too.
LEMMA PlacedIsText ==
  ASSUME NEW f, NEW n, IsText(f[n]), NEW level
  PROVE  IsText(Placed(f, n, level))
  <1> DEFINE t == f[n]
             l == Mark("lparen")
             r == Mark("rparen")
  <1>1. l \in Tokens /\ r \in Tokens /\ l.t # "rparen"
    BY DEF Tokens, Mark, Token
  <1>2. t \in Seq(Tokens) /\ Len(t) >= 1 /\ t[1].t # "rparen"
    BY DEF IsText
  <1> HIDE DEF t, l, r
  <1>3. IsText(<<l>> \o t \o <<r>>)
    BY <1>1, <1>2 DEF IsText
  <1> QED BY <1>2, <1>3 DEF t, l, r, Placed, IsText

\* What a sequence consists of; and what it does if it is made element by element.
LEMMA SeqIs ==
  ASSUME NEW S, NEW s \in Seq(S)
  PROVE  Len(s) \in Nat /\ DOMAIN s = 1 .. Len(s) /\ \A i \in 1 .. Len(s) : s[i] \in S
  OBVIOUS

\* A function from 1 to n is a sequence of n elements.
LEMMA SeqMade ==
  ASSUME NEW S, NEW n \in Nat, NEW f \in [1 .. n -> S]
  PROVE  f \in Seq(S) /\ Len(f) = n
  OBVIOUS

\* A sequence is its first element and the others.
LEMMA SeqOfFirst ==
  ASSUME NEW S, NEW s \in Seq(S), Len(s) >= 1
  PROVE  /\ s[1] \in S /\ Tail(s) \in Seq(S) /\ Len(Tail(s)) = Len(s) - 1
         /\ \A i \in 1 .. Len(s) - 1 : Tail(s)[i] = s[i + 1]
         /\ s = <<s[1]>> \o Tail(s)
  OBVIOUS

\* Two sequences with the same elements are the same.
LEMMA SeqSame ==
  ASSUME NEW S, NEW s \in Seq(S), NEW t \in Seq(S), Len(s) = Len(t),
         \A i \in 1 .. Len(s) : s[i] = t[i]
  PROVE  s = t
  OBVIOUS

\* What joins sequences is the first one, and what joins the others.
LEMMA FlattenOfFirst ==
  ASSUME NEW S, NEW a \in Seq(Seq(S)), Len(a) >= 1
  PROVE  FlattenSeq(a) = a[1] \o FlattenSeq(Tail(a))
  <1>1. a[1] \in Seq(S) /\ Tail(a) \in Seq(Seq(S)) /\ a = <<a[1]>> \o Tail(a)
    BY SeqOfFirst
  <1>2. <<a[1]>> \in Seq(Seq(S)) /\ FlattenSeq(<<a[1]>>) = a[1]
    BY <1>1, FlattenOfOne
  <1>3. FlattenSeq(<<a[1]>> \o Tail(a)) = FlattenSeq(<<a[1]>>) \o FlattenSeq(Tail(a))
    BY <1>1, <1>2, FlattenOfParts
  <1> QED BY <1>1, <1>2, <1>3, Zenon

\* The list of arguments is that of the first one, and the others.
LEMMA ListedIs ==
  ASSUME NEW S, NEW f, \A n \in S : IsText(f[n]), NEW args \in Seq(S)
  PROVE  /\ Listed(f, args) \in Seq(Tokens)
         /\ Len(args) = 0 => Listed(f, args) = <<>>
         /\ Len(args) = 1 => Listed(f, args) = Placed(f, args[1], 0)
         /\ Len(args) > 1 =>
              Listed(f, args) = Placed(f, args[1], 0) \o <<Mark("comma")>> \o Listed(f, Tail(args))
  <1> DEFINE c == Mark("comma")
             P(n) == Placed(f, n, 0)
             L(xs) == [i \in DOMAIN xs |-> P(xs[i]) \o (IF i < Len(xs) THEN <<c>> ELSE <<>>)]
  <1>1. c \in Tokens
    BY DEF Tokens, Mark, Token
  <1>2. \A n \in S : P(n) \in Seq(Tokens)
    BY PlacedIsText DEF IsText
  <1> HIDE DEF P, c
  <1>3. ASSUME NEW x \in Seq(Tokens)
        PROVE  x \o <<c>> \in Seq(Tokens) /\ x \o <<>> = x
    BY <1>1
  <1> DEFINE E(xs, i) == P(xs[i]) \o (IF i < Len(xs) THEN <<c>> ELSE <<>>)
  <1>4. ASSUME NEW xs \in Seq(S), NEW i \in 1 .. Len(xs)
        PROVE  E(xs, i) \in Seq(Tokens)
    <2>1. P(xs[i]) \in Seq(Tokens)
      BY <1>2, SeqIs, Zenon
    <2> QED BY <1>3, <2>1
  <1>5. \A xs : L(xs) = [i \in DOMAIN xs |-> E(xs, i)]
    OBVIOUS
  <1> HIDE DEF L, E
  <1>6. ASSUME NEW xs \in Seq(S)
        PROVE  /\ L(xs) \in Seq(Seq(Tokens)) /\ Len(L(xs)) = Len(xs)
               /\ \A i \in 1 .. Len(xs) : L(xs)[i] = E(xs, i)
    <2>1. L(xs) = [i \in 1 .. Len(xs) |-> E(xs, i)]
      BY <1>5, SeqIs, Zenon
    <2>2. [i \in 1 .. Len(xs) |-> E(xs, i)] \in [1 .. Len(xs) -> Seq(Tokens)]
      BY <1>4
    <2>3. Len(xs) \in Nat
      BY SeqIs, Zenon
    <2>4. L(xs) \in Seq(Seq(Tokens)) /\ Len(L(xs)) = Len(xs)
      BY <2>1, <2>2, <2>3, SeqMade, ZenonT(60)
    <2> QED BY <2>1, <2>4, Zenon
  <1>7. \A xs : Listed(f, xs) = FlattenSeq(L(xs))
    BY DEF Listed, P, c, L
  <1>8. \A xs \in Seq(S) : FlattenSeq(L(xs)) \in Seq(Tokens)
    BY <1>6, FlattenOfParts
  <1>9. ASSUME Len(args) = 0 PROVE FlattenSeq(L(args)) = <<>>
    <2>1. L(args) \in Seq(Seq(Tokens)) /\ Len(L(args)) = 0
      BY <1>6, <1>9
    <2>2. L(args) = <<>> /\ <<>> \in Seq(Tokens)
      BY <2>1
    <2> QED BY <2>2, FlattenOfOne
  <1>10. ASSUME Len(args) >= 1
         PROVE  /\ FlattenSeq(L(args)) = E(args, 1) \o FlattenSeq(L(Tail(args)))
                /\ Tail(args) \in Seq(S) /\ Len(Tail(args)) = Len(args) - 1
                /\ Len(args) \in Nat /\ P(args[1]) \in Seq(Tokens)
    <2> DEFINE rest == Tail(args)
    <2>1. /\ rest \in Seq(S) /\ Len(rest) = Len(args) - 1 /\ Len(args) \in Nat /\ Len(rest) \in Nat
          /\ \A i \in 1 .. Len(args) - 1 : rest[i] = args[i + 1]
          /\ args[1] \in S
      BY <1>10, SeqOfFirst, SeqIs, Zenon
    <2> HIDE DEF rest
    <2>2. ASSUME NEW i \in 1 .. Len(rest) PROVE E(args, i + 1) = E(rest, i)
      <3>1. (i + 1 < Len(args) <=> i < Len(rest)) /\ rest[i] = args[i + 1]
        BY <2>1
      <3> QED BY <3>1 DEF E
    <2> DEFINE a == L(args)
               b == L(rest)
    <2>3. /\ a \in Seq(Seq(Tokens)) /\ Len(a) = Len(args)
          /\ \A i \in 1 .. Len(args) : a[i] = E(args, i)
          /\ b \in Seq(Seq(Tokens)) /\ Len(b) = Len(rest)
          /\ \A i \in 1 .. Len(rest) : b[i] = E(rest, i)
      BY <1>6, <2>1
    <2> HIDE DEF a, b
    <2>4. /\ Tail(a) \in Seq(Seq(Tokens)) /\ Len(Tail(a)) = Len(a) - 1
          /\ \A i \in 1 .. Len(a) - 1 : Tail(a)[i] = a[i + 1]
          /\ Len(a) >= 1
      BY <1>10, <2>3, SeqOfFirst
    <2>5. \A i \in 1 .. Len(rest) : Tail(a)[i] = b[i]
      <3> SUFFICES ASSUME NEW i \in 1 .. Len(rest) PROVE Tail(a)[i] = b[i]
        OBVIOUS
      <3>1. i \in 1 .. Len(a) - 1 /\ i + 1 \in 1 .. Len(args)
        BY <2>1, <2>3
      <3> QED BY <2>2, <2>3, <2>4, <3>1
    <2>6. Tail(a) = b
      <3>1. Len(Tail(a)) = Len(rest)
        BY <2>1, <2>3, <2>4
      <3> QED BY <2>3, <2>4, <2>5, <3>1, SeqSame
    <2>7. FlattenSeq(a) = a[1] \o FlattenSeq(b)
      BY <2>3, <2>4, <2>6, FlattenOfFirst
    <2>8. a[1] = E(args, 1)
      BY <1>10, <2>1, <2>3
    <2> QED BY <1>2, <2>1, <2>7, <2>8 DEF a, b, rest
  <1>11. ASSUME Len(args) = 1 PROVE FlattenSeq(L(args)) = P(args[1])
    <2>1. Len(args) >= 1 /\ ~(1 < Len(args)) /\ Len(args) - 1 = 0
      BY <1>11
    <2>2. Len(Tail(args)) = 0 /\ Tail(args) \in Seq(S)
      BY <1>10, <2>1
    <2>3. L(Tail(args)) = <<>>
      <3>1. L(Tail(args)) \in Seq(Seq(Tokens)) /\ Len(L(Tail(args))) = 0
        BY <1>6, <2>2
      <3> QED BY <3>1
    <2>4. FlattenSeq(<<>>) = <<>>
      <3>1. <<>> \in Seq(Tokens)
        OBVIOUS
      <3> QED BY <3>1, FlattenOfOne
    <2>5. FlattenSeq(L(args)) = E(args, 1) \o <<>>
      BY <1>10, <2>1, <2>3, <2>4
    <2>6. P(args[1]) \o <<>> = P(args[1])
      BY <1>3, <1>10, <2>1
    <2>7. E(args, 1) = P(args[1]) \o <<>>
      BY <2>1 DEF E
    <2> QED BY <2>5, <2>6, <2>7
  <1>12. ASSUME Len(args) > 1
         PROVE  FlattenSeq(L(args)) = P(args[1]) \o <<c>> \o FlattenSeq(L(Tail(args)))
    <2>1. Len(args) >= 1 /\ 1 < Len(args)
      <3>1. Len(args) \in Nat
        BY SeqIs, Zenon
      <3> QED BY <1>12, <3>1
    <2>2. E(args, 1) = P(args[1]) \o <<c>>
      BY <2>1 DEF E
    <2> QED BY <1>10, <2>1, <2>2
  <1> QED BY <1>7, <1>8, <1>9, <1>11, <1>12 DEF P, c

\* Without arguments, nothing is listed.
LEMMA ListedNone ==
  ASSUME NEW f
  PROVE  Listed(f, <<>>) = <<>>
  <1>1. \A g : [i \in DOMAIN <<>> |-> g[i]] = <<>>
    OBVIOUS
  <1>2. FlattenSeq(<<>>) = <<>>
    <2>1. <<>> \in Seq(Tokens)
      OBVIOUS
    <2> QED BY <2>1, FlattenOfOne
  <1>3. [i \in DOMAIN <<>> |-> Placed(f, <<>>[i], 0) \o (IF i < Len(<<>>) THEN <<Mark("comma")>> ELSE <<>>)] = <<>>
    OBVIOUS
  <1> QED BY <1>2, <1>3 DEF Listed

\* The parts of a tree, by its type.
LEMMA PartsAre ==
  ASSUME NEW S, NEW n \in NodesOver(S)
  PROVE  /\ n[1] = "unary" => n[2] \in UnaryOps /\ n[3][1] \in S /\ n = Unary(n[2], n[3][1])
         /\ n[1] = "bin" => /\ n[2] \in BinaryOps /\ n[3][1] \in S /\ n[3][2] \in S
                            /\ n = Bin(n[2], n[3][1], n[3][2])
         /\ n[1] = "cond" => /\ n[3][1] \in S /\ n[3][2] \in S /\ n[3][3] \in S
                             /\ n = Cond(n[3][1], n[3][2], n[3][3])
         /\ n[1] = "call" => n[2] \in STRING /\ n[3] \in Seq(S) /\ n = Call(n[2], n[3])
         /\ n[1] = "ref" => n[2] \in STRING /\ n = Ref(n[2])
         /\ n[1] = "num" => n[2] \in Int /\ n = <<n[1], n[2], <<>>>>
         /\ n[1] = "bool" => n[2] \in BOOLEAN /\ n = <<n[1], n[2], <<>>>>
         /\ n[1] = "nil" => n[2] = "" /\ n = <<n[1], n[2], <<>>>>
         /\ n[1] \in {"unary", "bin", "cond", "call", "ref", "num", "bool", "nil"}
  <1>1. IsOver(S, n)
    BY NodeIsOver
  <1>2. n = <<n[1], n[2], n[3]>>
    BY <1>1 DEF IsOver
  <1>3. ASSUME n[1] = "unary"
        PROVE  n[2] \in UnaryOps /\ n[3][1] \in S /\ n = Unary(n[2], n[3][1])
    <2>1. n[2] \in UnaryOps /\ n[3] \in [1 .. 1 -> S]
      BY <1>1, <1>3 DEF IsOver
    <2>2. \A h \in [1 .. 1 -> S] : h[1] \in S /\ h = <<h[1]>>
      OBVIOUS
    <2> QED BY <1>2, <1>3, <2>1, <2>2, Zenon DEF Unary
  <1>4. ASSUME n[1] = "bin"
        PROVE  /\ n[2] \in BinaryOps /\ n[3][1] \in S /\ n[3][2] \in S
               /\ n = Bin(n[2], n[3][1], n[3][2])
    <2>1. n[2] \in BinaryOps /\ n[3] \in [1 .. 2 -> S]
      BY <1>1, <1>4 DEF IsOver
    <2>2. \A h \in [1 .. 2 -> S] : h[1] \in S /\ h[2] \in S /\ h = <<h[1], h[2]>>
      OBVIOUS
    <2> QED BY <1>2, <1>4, <2>1, <2>2, Zenon DEF Bin
  <1>5. ASSUME n[1] = "cond"
        PROVE  /\ n[3][1] \in S /\ n[3][2] \in S /\ n[3][3] \in S
               /\ n = Cond(n[3][1], n[3][2], n[3][3])
    <2>1. n[2] = "" /\ n[3] \in [1 .. 3 -> S]
      BY <1>1, <1>5, Zenon DEF IsOver
    <2>2. \A h \in [1 .. 3 -> S] : h[1] \in S /\ h[2] \in S /\ h[3] \in S /\ h = <<h[1], h[2], h[3]>>
      OBVIOUS
    <2> QED BY <1>2, <1>5, <2>1, <2>2, Zenon DEF Cond
  <1>6. ASSUME n[1] \in {"call", "ref", "num", "bool", "nil"}
        PROVE  /\ n[1] = "call" => n[2] \in STRING /\ n[3] \in Seq(S) /\ n = Call(n[2], n[3])
               /\ n[1] = "ref" => n[2] \in STRING /\ n = Ref(n[2])
               /\ n[1] = "num" => n[2] \in Int /\ n = <<n[1], n[2], <<>>>>
               /\ n[1] = "bool" => n[2] \in BOOLEAN /\ n = <<n[1], n[2], <<>>>>
               /\ n[1] = "nil" => n[2] = "" /\ n = <<n[1], n[2], <<>>>>
    <2>1. /\ n[1] = "call" => n[2] \in STRING /\ n[3] \in Seq(S)
          /\ n[1] = "ref" => n[2] \in STRING /\ n[3] = <<>>
          /\ n[1] = "num" => n[2] \in Int /\ n[3] = <<>>
          /\ n[1] = "bool" => n[2] \in BOOLEAN /\ n[3] = <<>>
          /\ n[1] = "nil" => n[2] = "" /\ n[3] = <<>>
      BY <1>1 DEF IsOver
    <2> QED BY <1>2, <2>1, Zenon DEF Call, Ref
  <1>7. n[1] \in {"unary", "bin", "cond", "call", "ref", "num", "bool", "nil"}
    BY <1>1 DEF IsOver
  <1> QED BY <1>3, <1>4, <1>5, <1>6, <1>7

\* The tokens of the language.
LEMMA TokensAre ==
  /\ \A x \in STRING : Token("ident", x) \in Tokens
  /\ \A o \in UnaryOps \cup BinaryOps : Op(o) \in Tokens
  /\ \A m \in {"lparen", "rparen", "comma", "qmark", "colon"} : Mark(m) \in Tokens
  /\ \A n \in Int : Token("num", n) \in Tokens
  /\ \A b \in BOOLEAN : Token("bool", b) \in Tokens
  /\ Token("nil", "") \in Tokens
  /\ \A x, y : Token(x, y).t = x /\ Token(x, y).v = y
  /\ \A o : Op(o).t = "op" /\ Op(o).v = o
  /\ \A m : Mark(m).t = m
  <1>2. \A b \in BOOLEAN : Token("bool", b) \in Tokens
    BY Zenon DEF Tokens, Token
  <1>3. /\ \A x \in STRING : Token("ident", x) \in Tokens
        /\ \A n \in Int : Token("num", n) \in Tokens
        /\ \A o \in UnaryOps \cup BinaryOps : Op(o) \in Tokens
        /\ \A m \in {"lparen", "rparen", "comma", "qmark", "colon"} : Mark(m) \in Tokens
        /\ Token("nil", "") \in Tokens
    BY DEF Tokens, Token, Op, Mark
  <1>4. /\ \A x, y : Token(x, y).t = x /\ Token(x, y).v = y
        /\ \A o : Op(o).t = "op" /\ Op(o).v = o
        /\ \A m : Mark(m).t = m
    BY DEF Token, Op, Mark
  <1> QED BY <1>2, <1>3, <1>4

\* What is written for a tree is a text if what is written for its parts is.
LEMMA ComposedIsText ==
  ASSUME NEW S, NEW f, \A m \in S : IsText(f[m]), NEW n \in NodesOver(S)
  PROVE  IsText(Composed(f, n))
  <1> DEFINE P(i, level) == Placed(f, n[3][i], level)
  <1>1. \A i, level : n[3][i] \in S => IsText(P(i, level))
    BY PlacedIsText
  <1>2. ASSUME NEW x, IsText(x), NEW y, IsText(y), NEW z, IsText(z), NEW a \in Tokens, NEW b \in Tokens
        PROVE  /\ IsText(x \o <<a>> \o y) /\ IsText(x \o <<a>> \o y \o <<b>> \o z)
               /\ a.t # "rparen" => IsText(<<a>> \o x)
    BY <1>2 DEF IsText
  <1>3. ASSUME NEW s \in Seq(Tokens), NEW a \in Tokens, NEW b \in Tokens, NEW c \in Tokens, a.t # "rparen"
        PROVE  IsText(<<a, b>> \o s \o <<c>>)
    BY <1>3 DEF IsText
  <1>10. ASSUME NEW a \in Tokens, a.t # "rparen" PROVE IsText(<<a>>)
    BY <1>10 DEF IsText
  <1> HIDE DEF P
  <1>4. CASE n[1] = "unary"
    <2>1. IsText(P(1, 14)) /\ Op(n[2]) \in Tokens /\ Op(n[2]).t # "rparen"
      BY <1>1, <1>4, PartsAre, TokensAre
    <2>2. Composed(f, n) = <<Op(n[2])>> \o P(1, 14)
      BY <1>4 DEF Composed, P
    <2> QED BY <1>2, <2>1, <2>2
  <1>5. CASE n[1] = "bin"
    <2>1. /\ \A level : IsText(P(1, level)) /\ IsText(P(2, level))
          /\ Op(n[2]) \in Tokens
      BY <1>1, <1>5, PartsAre, TokensAre
    <2>2. Composed(f, n) = P(1, Level(n)) \o <<Op(n[2])>> \o P(2, Level(n) + 1)
      BY <1>5 DEF Composed, P
    <2> QED BY <1>2, <2>1, <2>2
  <1>6. CASE n[1] = "cond"
    <2>1. /\ IsText(P(1, 2)) /\ IsText(P(2, 0)) /\ IsText(P(3, 1))
          /\ Mark("qmark") \in Tokens /\ Mark("colon") \in Tokens
      BY <1>1, <1>6, PartsAre, TokensAre
    <2>2. Composed(f, n) = P(1, 2) \o <<Mark("qmark")>> \o P(2, 0) \o <<Mark("colon")>> \o P(3, 1)
      BY <1>6 DEF Composed, P
    <2> QED BY <1>2, <2>1, <2>2
  <1>7. CASE n[1] = "call"
    <2>1. n[3] \in Seq(S) /\ n[2] \in STRING
      BY <1>7, PartsAre
    <2>2. Listed(f, n[3]) \in Seq(Tokens)
      BY <2>1, ListedIs
    <2>3. /\ Token("ident", n[2]) \in Tokens /\ Mark("lparen") \in Tokens /\ Mark("rparen") \in Tokens
          /\ Token("ident", n[2]).t # "rparen"
      BY <2>1, TokensAre, ZenonT(30)
    <2>4. Composed(f, n) = <<Token("ident", n[2]), Mark("lparen")>> \o Listed(f, n[3]) \o <<Mark("rparen")>>
      BY <1>7 DEF Composed
    <2> QED BY <1>3, <2>2, <2>3, <2>4
  <1>8. CASE n[1] = "ref"
    <2>1. Token("ident", n[2]) \in Tokens /\ Token("ident", n[2]).t # "rparen"
      <3>1. n[2] \in STRING
        BY <1>8, PartsAre
      <3> QED BY <3>1, TokensAre, ZenonT(30)
    <2>2. Composed(f, n) = <<Token("ident", n[2])>>
      BY <1>8 DEF Composed
    <2> QED BY <1>10, <2>1, <2>2, Zenon
  <1>9. CASE n[1] \in {"num", "bool", "nil"}
    <2>1. Token(n[1], n[2]) \in Tokens /\ Token(n[1], n[2]).t # "rparen"
      BY <1>9, PartsAre, TokensAre, ZenonT(30)
    <2>2. Composed(f, n) = <<Token(n[1], n[2])>>
      BY <1>9 DEF Composed
    <2> QED BY <1>10, <2>1, <2>2, Zenon
  <1> QED BY <1>4, <1>5, <1>6, <1>7, <1>8, <1>9, PartsAre, ZenonT(30)

\* What is written for a tree is a text.
LEMMA TextsAreTexts ==
  \A n \in Node : IsText(texts[n])
  <1> DEFINE N == nodesUpTo
             P == {k \in Nat : k <= MaxHeight => \A n \in N[k] : IsText(texts[n])}
  <1>1. ASSUME NEW k \in Nat, \A j \in 0 .. k - 1 : j \in P
        PROVE  k \in P
    <2> SUFFICES ASSUME k <= MaxHeight, NEW n \in N[k] PROVE IsText(texts[n])
      OBVIOUS
    <2>1. k # 0
      BY NodesAre
    <2>2. k - 1 \in Nat /\ k - 1 < MaxHeight /\ (k - 1) + 1 = k /\ k - 1 \in 0 .. k - 1 /\ k - 1 <= MaxHeight
          /\ k \in 0 .. MaxHeight /\ MaxHeight \in k .. MaxHeight
      BY <2>1, LanguageAssumption
    <2>3. n \in NodesOver(N[k - 1])
      BY <2>2, NodesAre
    <2>4. \A m \in N[k - 1] : IsText(texts[m])
      BY <1>1, <2>2
    <2>5. n \in Node
      BY <2>2, NodesGrow DEF Node
    <2>6. texts[n] = Composed(texts, n)
      BY <2>5, TextsAre
    <2> QED BY <2>3, <2>4, <2>6, ComposedIsText
  <1>2. MaxHeight \in P
    <2> HIDE DEF P
    <2> QED BY <1>1, StrongInduction, LanguageAssumption
  <1> QED BY <1>2, LanguageAssumption DEF Node

-------------------------------------------------------------------------------
(* The calls of the parser end.                                              *)

\* A call that does not throw reads a token or more.
Advances(toks, result, pos) ==
    \/ result = Throws
    \/ result = Parsed(result.node, result.pos) /\ result.pos \in pos + 1 .. Len(toks) + 1

\* The calls from later on; and two functions that agree on calls.
Later(toks, pos) == {call \in MethodCalls(toks) : call[2] > pos}
Agree(toks, f, g, calls) == \A call \in calls : f[call] = g[call] /\ Advances(toks, f[call], call[2])

\* What a call that advances returned: that it throws, or a later position.
LEMMA Advanced ==
  ASSUME NEW toks \in Seq(Tokens), NEW pos \in Nat, NEW r, Advances(toks, r, pos)
  PROVE  /\ Threw(r) => r = Throws
         /\ ~Threw(r) => r.pos \in pos + 1 .. Len(toks) + 1 /\ r = Parsed(r.node, r.pos)
  <1>1. CASE r = Throws
    BY <1>1 DEF Throws, Threw
  <1>2. CASE r # Throws
    BY <1>2 DEF Advances, Threw, Parsed
  <1> QED BY <1>1, <1>2

\* A result at a later position than one that was reached.
LEMMA AdvancesFurther ==
  ASSUME NEW toks \in Seq(Tokens), NEW pos \in Nat,
         NEW node, NEW q \in pos + 1 .. Len(toks) + 1
  PROVE  /\ Advances(toks, Parsed(node, q), pos) /\ ~Threw(Parsed(node, q))
         /\ Parsed(node, q).node = node /\ Parsed(node, q).pos = q
  <1>1. Parsed(node, q).node = node /\ Parsed(node, q).pos = q
    BY DEF Parsed
  <1> QED BY <1>1 DEF Advances, Threw

\* There is a token where its type is not that of the end.
LEMMA TypeIs ==
  ASSUME NEW toks \in Seq(Tokens), NEW pos \in Nat, pos >= 1, TypeAt(toks, pos) # "eof"
  PROVE  pos \in 1 .. Len(toks) /\ toks[pos] \in Tokens /\ TypeAt(toks, pos) = toks[pos].t
  <1>1. pos <= Len(toks)
    BY DEF TypeAt
  <1>2. pos \in 1 .. Len(toks)
    BY <1>1, SeqIs
  <1> QED BY <1>1, <1>2, SeqIs DEF TypeAt

\* How tightly operators bind.
LEMMA BindingPowers ==
  \A o : /\ bindsLeft(o) \in {-1, 2, 4, 6, 8, 10, 12}
         /\ bindsRight(o) = bindsLeft(o) + 1
         /\ bindsLeft(o) >= 0 => bindsRight(o) \in 0 .. 13
         /\ bindsLeft(o) >= 0 <=> o \in BinaryOps
  BY DEF bindsLeft, bindsRight, BinaryOps

\* The expressions that a method reads from later on.
LEMMA LaterExpressions ==
  ASSUME NEW toks \in Seq(Tokens), NEW pos \in 1 .. Len(toks) + 1, NEW f, NEW g,
         Agree(toks, f, g, Later(toks, pos)),
         NEW q \in pos + 1 .. Len(toks) + 1
  PROVE  /\ \A bp \in 0 .. 13 : /\ parseExpression(toks, f, q, bp) = parseExpression(toks, g, q, bp)
                                /\ Advances(toks, parseExpression(toks, f, q, bp), q)
         /\ \A m \in {"unary", "args"} : /\ Called(f, m, q) = Called(g, m, q)
                                         /\ Advances(toks, Called(f, m, q), q)
  <1>1. Len(toks) \in Nat
    BY SeqIs
  <1>2. /\ \A bp \in 0 .. 13 : <<"expression", q, bp, Len(toks)>> \in Later(toks, pos)
        /\ \A m \in {"unary", "args"} : <<m, q, 0, 0>> \in Later(toks, pos)
    <2>1. q \in 1 .. Len(toks) + 1 /\ q > pos
      BY <1>1
    <2>2. 0 \in 0 .. 13 /\ 0 \in 0 .. Len(toks) /\ Len(toks) \in 0 .. Len(toks)
      BY <1>1
    <2>3. \A m \in {"expression", "unary", "primary", "args"} : \A b \in 0 .. 13 : \A k \in 0 .. Len(toks) :
             <<m, q, b, k>> \in MethodCalls(toks) /\ <<m, q, b, k>>[2] = q
      <3> DEFINE M == {"expression", "unary", "primary", "args"}
                 B == 0 .. 13
                 K == 0 .. Len(toks)
                 Q == 1 .. Len(toks) + 1
      <3>1. MethodCalls(toks) = M \X Q \X B \X K
        BY DEF MethodCalls
      <3> HIDE DEF M, B, K, Q
      <3>2. \A m \in M : \A b \in B : \A k \in K : <<m, q, b, k>> \in M \X Q \X B \X K /\ <<m, q, b, k>>[2] = q
        BY <2>1 DEF Q
      <3> QED BY <3>1, <3>2 DEF M, B, K
    <2> QED BY <2>1, <2>2, <2>3 DEF Later
  <1>3. \A call \in Later(toks, pos) : f[call] = g[call] /\ Advances(toks, f[call], call[2])
    BY DEF Agree
  <1>4. /\ \A bp \in 0 .. 13 : <<"expression", q, bp, Len(toks)>>[2] = q
        /\ \A m \in {"unary", "args"} : <<m, q, 0, 0>>[2] = q
    OBVIOUS
  <1> QED BY <1>2, <1>3, <1>4, Zenon DEF parseExpression, Called

\* A round of an expression.
LEMMA ExtendAgrees ==
  ASSUME NEW toks \in Seq(Tokens), NEW pos \in 1 .. Len(toks) + 1, NEW f, NEW g,
         Agree(toks, f, g, Later(toks, pos)),
         NEW lhs, Advances(toks, lhs, pos), NEW bp \in 0 .. 13
  PROVE  /\ extend(toks, f, lhs, bp) = extend(toks, g, lhs, bp)
         /\ Advances(toks, extend(toks, f, lhs, bp), pos)
  <1> DEFINE q == lhs.pos
             E(h, x, b) == parseExpression(toks, h, x, b)
             qmark == TypeAt(toks, q) = "qmark" /\ bp <= 1
             op == TypeAt(toks, q) = "op" /\ bindsLeft(toks[q].v) >= 0 /\ bindsLeft(toks[q].v) >= bp
  <1>0. Len(toks) \in Nat
    BY SeqIs
  <1>1. Advances(toks, Throws, pos)
    BY DEF Advances
  <1>2. CASE Threw(lhs)
    BY <1>1, <1>2 DEF extend
  <1>3. ASSUME ~Threw(lhs) PROVE q \in pos + 1 .. Len(toks) + 1
    BY <1>3, Advanced
  <1>4. ASSUME NEW x \in pos + 1 .. Len(toks) + 1, NEW b \in 0 .. 13
        PROVE  E(f, x, b) = E(g, x, b) /\ Advances(toks, E(f, x, b), x)
    BY LaterExpressions
  <1>5. CASE ~Threw(lhs) /\ qmark
    <2>1. q \in 1 .. Len(toks) /\ q + 1 \in pos + 1 .. Len(toks) + 1
      BY <1>0, <1>3, <1>5, TypeIs
    <2> DEFINE then == E(f, q + 1, 0)
               else == E(f, then.pos + 1, 1)
    <2>2. then = E(g, q + 1, 0) /\ Advances(toks, then, q + 1)
      BY <1>4, <2>1
    <2>3. /\ extend(toks, f, lhs, bp) =
               IF Threw(then) THEN Throws
               ELSE IF TypeAt(toks, then.pos) # "colon" THEN Throws
               ELSE IF Threw(else) THEN Throws
               ELSE Parsed(Cond(lhs.node, then.node, else.node), else.pos)
          /\ extend(toks, g, lhs, bp) =
               IF Threw(then) THEN Throws
               ELSE IF TypeAt(toks, then.pos) # "colon" THEN Throws
               ELSE IF Threw(E(g, then.pos + 1, 1)) THEN Throws
               ELSE Parsed(Cond(lhs.node, then.node, E(g, then.pos + 1, 1).node), E(g, then.pos + 1, 1).pos)
      BY <1>5, <2>2 DEF extend
    <2> HIDE DEF E, q, then, qmark, op
    <2>4. CASE Threw(then) \/ TypeAt(toks, then.pos) # "colon"
      BY <1>1, <2>3, <2>4
    <2>5. CASE ~Threw(then) /\ TypeAt(toks, then.pos) = "colon"
      <3>1. then.pos \in q + 2 .. Len(toks) + 1
        BY <2>1, <2>2, <2>5, Advanced
      <3>2. then.pos + 1 \in pos + 1 .. Len(toks) + 1
        BY <1>0, <2>1, <2>5, <3>1, TypeIs
      <3>3. else = E(g, then.pos + 1, 1) /\ Advances(toks, else, then.pos + 1)
        BY <1>4, <3>2
      <3> HIDE DEF else
      <3>4. CASE Threw(else)
        BY <1>1, <2>3, <2>5, <3>3, <3>4
      <3>5. CASE ~Threw(else)
        <4>1. else.pos \in pos + 1 .. Len(toks) + 1
          BY <1>0, <3>2, <3>3, <3>5, Advanced
        <4>2. Advances(toks, Parsed(Cond(lhs.node, then.node, else.node), else.pos), pos)
          BY <4>1, AdvancesFurther
        <4> QED BY <2>3, <2>5, <3>3, <3>5, <4>2
      <3> QED BY <3>4, <3>5
    <2> QED BY <2>4, <2>5
  <1>6. CASE ~Threw(lhs) /\ ~qmark /\ op
    <2>1. q \in 1 .. Len(toks) /\ q + 1 \in pos + 1 .. Len(toks) + 1
      BY <1>0, <1>3, <1>6, TypeIs
    <2> DEFINE b == bindsRight(toks[q].v)
               rhs == E(f, q + 1, b)
    <2>2. b \in 0 .. 13
      BY <1>6, BindingPowers
    <2>3. rhs = E(g, q + 1, b) /\ Advances(toks, rhs, q + 1)
      BY <1>4, <2>1, <2>2
    <2>4. \A h : E(h, q + 1, b) = rhs =>
             extend(toks, h, lhs, bp) = IF Threw(rhs) THEN Throws
                                        ELSE Parsed(Bin(toks[q].v, lhs.node, rhs.node), rhs.pos)
      BY <1>6 DEF extend
    <2> HIDE DEF E, q, rhs, qmark, op
    <2>5. CASE Threw(rhs)
      BY <1>1, <2>3, <2>4, <2>5 DEF rhs
    <2>6. CASE ~Threw(rhs)
      <3>1. rhs.pos \in pos + 1 .. Len(toks) + 1
        BY <1>0, <2>1, <2>3, <2>6, Advanced
      <3>2. Advances(toks, Parsed(Bin(toks[q].v, lhs.node, rhs.node), rhs.pos), pos)
        BY <3>1, AdvancesFurther
      <3> QED BY <2>3, <2>4, <2>6, <3>2 DEF rhs
    <2> QED BY <2>5, <2>6
  <1>7. CASE ~Threw(lhs) /\ ~qmark /\ ~op
    BY <1>7 DEF extend
  <1> QED BY <1>2, <1>5, <1>6, <1>7

\* The other methods agree too: parseUnary, if parsePrimary does at the same position;
LEMMA UnaryAgrees ==
  ASSUME NEW toks \in Seq(Tokens), NEW pos \in 1 .. Len(toks) + 1, NEW f, NEW g,
         Agree(toks, f, g, Later(toks, pos)),
         Called(f, "primary", pos) = Called(g, "primary", pos),
         Advances(toks, Called(f, "primary", pos), pos)
  PROVE  /\ parseUnary(toks, f, pos) = parseUnary(toks, g, pos)
         /\ Advances(toks, parseUnary(toks, f, pos), pos)
  <1>0. Len(toks) \in Nat
    BY SeqIs
  <1>1. CASE IsOp(toks, pos, UnaryOps)
    <2>1. pos \in 1 .. Len(toks) /\ pos + 1 \in pos + 1 .. Len(toks) + 1
      <3>1. TypeAt(toks, pos) # "eof"
        BY <1>1 DEF IsOp
      <3>2. pos \in Nat /\ pos >= 1
        BY <1>0
      <3>3. pos \in 1 .. Len(toks)
        BY <3>1, <3>2, TypeIs
      <3> QED BY <1>0, <3>3
    <2> DEFINE arg == Called(f, "unary", pos + 1)
    <2>2. arg = Called(g, "unary", pos + 1) /\ Advances(toks, arg, pos + 1)
      BY <2>1, LaterExpressions
    <2>3. \A h : Called(h, "unary", pos + 1) = arg =>
             parseUnary(toks, h, pos) = IF Threw(arg) THEN Throws
                                        ELSE Parsed(Unary(toks[pos].v, arg.node), arg.pos)
      BY <1>1 DEF parseUnary
    <2>4. Advances(toks, IF Threw(arg) THEN Throws
                         ELSE Parsed(Unary(toks[pos].v, arg.node), arg.pos), pos)
      <3> HIDE DEF arg
      <3>1. CASE Threw(arg)
        BY <3>1 DEF Advances
      <3>2. CASE ~Threw(arg)
        <4>1. arg.pos \in pos + 1 .. Len(toks) + 1
          <5>1. pos + 1 \in Nat
            BY <1>0
          <5>2. arg.pos \in (pos + 1) + 1 .. Len(toks) + 1
            BY <2>2, <3>2, <5>1, Advanced
          <5> QED BY <1>0, <5>2
        <4>2. Advances(toks, Parsed(Unary(toks[pos].v, arg.node), arg.pos), pos)
          BY <1>0, <4>1, AdvancesFurther
        <4> QED BY <3>2, <4>2
      <3> QED BY <3>1, <3>2
    <2>5. parseUnary(toks, f, pos) = parseUnary(toks, g, pos)
      BY <2>2, <2>3
    <2> QED BY <2>3, <2>4, <2>5
  <1>2. CASE ~IsOp(toks, pos, UnaryOps)
    BY <1>2 DEF parseUnary
  <1> QED BY <1>1, <1>2

\* parsePrimary, of a literal, a reference, a call or what is in parentheses;
LEMMA PrimaryAgrees ==
  ASSUME NEW toks \in Seq(Tokens), NEW pos \in 1 .. Len(toks) + 1, NEW f, NEW g,
         Agree(toks, f, g, Later(toks, pos))
  PROVE  /\ parsePrimary(toks, f, pos) = parsePrimary(toks, g, pos)
         /\ Advances(toks, parsePrimary(toks, f, pos), pos)
  <1> DEFINE type == TypeAt(toks, pos)
             E(h, x) == parseExpression(toks, h, x, 0)
  <1>0. Len(toks) \in Nat /\ Advances(toks, Throws, pos)
    BY SeqIs DEF Advances
  <1>1. ASSUME NEW x \in pos + 1 .. Len(toks) + 1
        PROVE  /\ E(f, x) = E(g, x) /\ Advances(toks, E(f, x), x)
               /\ Called(f, "args", x) = Called(g, "args", x) /\ Advances(toks, Called(f, "args", x), x)
    <2>1. E(f, x) = E(g, x) /\ Advances(toks, E(f, x), x)
      BY <1>0, LaterExpressions
    <2>2. Called(f, "args", x) = Called(g, "args", x) /\ Advances(toks, Called(f, "args", x), x)
      BY LaterExpressions
    <2> QED BY <2>1, <2>2
  <1>2. CASE type \in {"num", "bool", "nil"}
    <2>1. pos + 1 \in pos + 1 .. Len(toks) + 1
      BY <1>0, <1>2, TypeIs
    <2>2. \A h : parsePrimary(toks, h, pos) = Parsed(<<toks[pos].t, toks[pos].v, <<>>>>, pos + 1)
      BY <1>2 DEF parsePrimary
    <2> QED BY <2>1, <2>2, AdvancesFurther
  <1>3. CASE type = "lparen"
    <2>1. pos + 1 \in pos + 1 .. Len(toks) + 1
      BY <1>0, <1>3, TypeIs
    <2> DEFINE inner == E(f, pos + 1)
               result == IF Threw(inner) THEN Throws
                         ELSE IF TypeAt(toks, inner.pos) # "rparen" THEN Throws
                         ELSE Parsed(inner.node, inner.pos + 1)
    <2>2. inner = E(g, pos + 1) /\ Advances(toks, inner, pos + 1)
      BY <1>1, <2>1
    <2>3. \A h : E(h, pos + 1) = inner => parsePrimary(toks, h, pos) = result
      BY <1>3 DEF parsePrimary
    <2> HIDE DEF inner, type
    <2>4. CASE Threw(inner) \/ TypeAt(toks, inner.pos) # "rparen"
      <3>1. Advances(toks, result, pos)
        BY <1>0, <2>4
      <3> QED BY <2>2, <2>3, <3>1 DEF inner
    <2>5. CASE ~Threw(inner) /\ TypeAt(toks, inner.pos) = "rparen"
      <3>1. inner.pos \in pos + 2 .. Len(toks) + 1
        BY <1>0, <2>2, <2>5, Advanced
      <3>2. inner.pos + 1 \in pos + 1 .. Len(toks) + 1
        BY <1>0, <2>5, <3>1, TypeIs
      <3>3. Advances(toks, result, pos)
        BY <2>5, <3>2, AdvancesFurther
      <3> QED BY <2>2, <2>3, <3>3 DEF inner
    <2> QED BY <2>4, <2>5
  <1>4. CASE type = "ident" /\ TypeAt(toks, pos + 1) # "lparen"
    <2>1. pos + 1 \in pos + 1 .. Len(toks) + 1
      BY <1>0, <1>4, TypeIs
    <2>2. \A h : parsePrimary(toks, h, pos) = Parsed(Ref(toks[pos].v), pos + 1)
      BY <1>4 DEF parsePrimary
    <2> QED BY <2>1, <2>2, AdvancesFurther
  <1>5. CASE type = "ident" /\ TypeAt(toks, pos + 1) = "lparen"
    <2>1. pos + 1 \in 1 .. Len(toks) /\ pos + 2 \in pos + 1 .. Len(toks) + 1
      BY <1>0, <1>5, TypeIs
    <2> DEFINE args(h) == IF TypeAt(toks, pos + 2) = "rparen" THEN Parsed(<<>>, pos + 2)
                          ELSE Called(h, "args", pos + 2)
               a == args(f)
               result == IF Threw(a) THEN Throws
                         ELSE IF TypeAt(toks, a.pos) # "rparen" THEN Throws
                         ELSE Parsed(Call(toks[pos].v, a.node), a.pos + 1)
    <2>2. a = args(g) /\ Advances(toks, a, pos + 1)
      <3>1. CASE TypeAt(toks, pos + 2) = "rparen"
        <4>1. pos + 2 \in (pos + 1) + 1 .. Len(toks) + 1
          BY <2>1
        <4>2. Advances(toks, Parsed(<<>>, pos + 2), pos + 1)
          BY <4>1, AdvancesFurther
        <4> QED BY <3>1, <4>2
      <3>2. CASE TypeAt(toks, pos + 2) # "rparen"
        <4>1. a = args(g) /\ Advances(toks, a, pos + 2)
          BY <1>1, <2>1, <3>2
        <4> HIDE DEF a
        <4>2. Advances(toks, a, pos + 1)
          <5>1. CASE Threw(a)
            <6>1. a = Throws
              BY <1>0, <2>1, <4>1, <5>1, Advanced
            <6> QED BY <6>1 DEF Advances
          <5>2. CASE ~Threw(a)
            <6>1. a.pos \in (pos + 2) + 1 .. Len(toks) + 1 /\ a = Parsed(a.node, a.pos)
              BY <1>0, <2>1, <4>1, <5>2, Advanced
            <6>2. a.pos \in (pos + 1) + 1 .. Len(toks) + 1
              BY <1>0, <6>1
            <6> QED BY <6>1, <6>2 DEF Advances
          <5> QED BY <5>1, <5>2
        <4> QED BY <4>1, <4>2
      <3> QED BY <3>1, <3>2
    <2>3. \A h : args(h) = a => parsePrimary(toks, h, pos) = result
      BY <1>5 DEF parsePrimary
    <2> HIDE DEF a, type, args
    <2>4. CASE Threw(a) \/ TypeAt(toks, a.pos) # "rparen"
      <3>1. Advances(toks, result, pos)
        BY <1>0, <2>4
      <3> QED BY <2>2, <2>3, <3>1 DEF a
    <2>5. CASE ~Threw(a) /\ TypeAt(toks, a.pos) = "rparen"
      <3>1. a.pos \in pos + 2 .. Len(toks) + 1
        BY <1>0, <2>2, <2>5, Advanced
      <3>2. a.pos + 1 \in pos + 1 .. Len(toks) + 1
        BY <1>0, <2>5, <3>1, TypeIs
      <3>3. Advances(toks, result, pos)
        BY <2>5, <3>2, AdvancesFurther
      <3> QED BY <2>2, <2>3, <3>3 DEF a
    <2> QED BY <2>4, <2>5
  <1>6. CASE type \notin {"num", "bool", "nil", "lparen", "ident"}
    <2>1. \A h : parsePrimary(toks, h, pos) = Throws
      BY <1>6 DEF parsePrimary
    <2> QED BY <1>0, <2>1
  <1> QED BY <1>2, <1>3, <1>4, <1>5, <1>6

\* and parseArgs, if the first argument does, which is an expression at that position.
LEMMA ArgsAgree ==
  ASSUME NEW toks \in Seq(Tokens), NEW pos \in 1 .. Len(toks) + 1, NEW f, NEW g,
         Agree(toks, f, g, Later(toks, pos)),
         parseExpression(toks, f, pos, 0) = parseExpression(toks, g, pos, 0),
         Advances(toks, parseExpression(toks, f, pos, 0), pos)
  PROVE  /\ parseArgs(toks, f, pos) = parseArgs(toks, g, pos)
         /\ Advances(toks, parseArgs(toks, f, pos), pos)
  <1> DEFINE arg == parseExpression(toks, f, pos, 0)
             rest(h) == Called(h, "args", arg.pos + 1)
             result(h) == IF Threw(arg) THEN Throws
                          ELSE IF TypeAt(toks, arg.pos) # "comma" THEN Parsed(<<arg.node>>, arg.pos)
                          ELSE IF Threw(rest(h)) THEN Throws
                          ELSE Parsed(<<arg.node>> \o rest(h).node, rest(h).pos)
  <1>0. Len(toks) \in Nat /\ Advances(toks, Throws, pos)
    BY SeqIs DEF Advances
  <1>1. \A h : parseExpression(toks, h, pos, 0) = arg => parseArgs(toks, h, pos) = result(h)
    BY DEF parseArgs
  <1>2. Advances(toks, arg, pos) /\ parseExpression(toks, g, pos, 0) = arg
        /\ parseExpression(toks, f, pos, 0) = arg
    OBVIOUS
  <1> HIDE DEF arg
  <1>3. CASE Threw(arg)
    BY <1>0, <1>1, <1>2, <1>3
  <1>4. CASE ~Threw(arg) /\ TypeAt(toks, arg.pos) # "comma"
    <2>1. arg.pos \in pos + 1 .. Len(toks) + 1
      BY <1>2, <1>4, Advanced
    <2>2. Advances(toks, Parsed(<<arg.node>>, arg.pos), pos)
      BY <2>1, AdvancesFurther
    <2> QED BY <1>1, <1>2, <1>4, <2>2
  <1>5. CASE ~Threw(arg) /\ TypeAt(toks, arg.pos) = "comma"
    <2>1. arg.pos \in pos + 1 .. Len(toks) + 1
      BY <1>2, <1>5, Advanced
    <2>2. arg.pos + 1 \in pos + 1 .. Len(toks) + 1
      BY <1>0, <1>5, <2>1, TypeIs
    <2>3. rest(f) = rest(g) /\ Advances(toks, rest(f), arg.pos + 1)
      BY <2>2, LaterExpressions
    <2> DEFINE r == rest(f)
    <2>4. result(f) = result(g) /\ result(f) = IF Threw(r) THEN Throws
                                               ELSE Parsed(<<arg.node>> \o r.node, r.pos)
      BY <1>5, <2>3
    <2>5. Advances(toks, r, arg.pos + 1)
      BY <2>3
    <2> HIDE DEF rest, result, r
    <2>6. Advances(toks, result(f), pos)
      <3>1. CASE Threw(r)
        BY <1>0, <2>4, <3>1
      <3>2. CASE ~Threw(r)
        <4>1. r.pos \in pos + 1 .. Len(toks) + 1
          BY <1>0, <2>2, <2>5, <3>2, Advanced
        <4> QED BY <2>4, <3>2, <4>1, AdvancesFurther
      <3> QED BY <3>1, <3>2
    <2> QED BY <1>1, <1>2, <2>4, <2>6
  <1> QED BY <1>3, <1>4, <1>5

\* A call calls only what has a lower rank: what is later on, or a method or round that
\* comes before it at the same position.
Round(toks, call) == CASE call[1] = "primary" -> 0
                       [] call[1] = "unary" -> 1
                       [] call[1] = "expression" -> 2 + call[4]
                       [] OTHER -> Len(toks) + 3
Rank(toks, call) == (Len(toks) + 1 - call[2]) * (Len(toks) + 4) + Round(toks, call)
Below(toks, call) == {other \in MethodCalls(toks) : Rank(toks, other) < Rank(toks, call)}

\* A factor that is greater by one makes a product that is greater by the other factor.
LEMMA ProductGrows ==
  ASSUME NEW a \in Nat, NEW b \in Nat, NEW m \in Nat, a < b
  PROVE  a * m \in Nat /\ b * m \in Nat /\ a * m + m <= b * m
  <1>1. PICK k \in Nat : b = (a + 1) + k
    <2>1. b - (a + 1) \in Nat /\ b = (a + 1) + (b - (a + 1))
      OBVIOUS
    <2> QED BY <2>1
  <1>2. b * m = (a + 1) * m + k * m
    BY <1>1
  <1>3. (a + 1) * m = a * m + m
    OBVIOUS
  <1>4. k * m \in Nat /\ a * m \in Nat /\ k * m >= 0
    OBVIOUS
  <1> QED BY <1>2, <1>3, <1>4

\* The parts of a call.
LEMMA CallIs ==
  ASSUME NEW toks \in Seq(Tokens), NEW call \in MethodCalls(toks)
  PROVE  /\ call = <<call[1], call[2], call[3], call[4]>>
         /\ call[1] \in {"expression", "unary", "primary", "args"}
         /\ call[2] \in 1 .. Len(toks) + 1 /\ call[3] \in 0 .. 13 /\ call[4] \in 0 .. Len(toks)
         /\ Len(toks) \in Nat
         /\ Round(toks, call) \in 0 .. Len(toks) + 3
         /\ Rank(toks, call) \in Nat /\ Rank(toks, call) < (Len(toks) + 1) * (Len(toks) + 4)
  <1> DEFINE l == Len(toks)
             M == {"expression", "unary", "primary", "args"}
             Q == 1 .. l + 1
             B == 0 .. 13
             K == 0 .. l
  <1>1. l \in Nat
    BY SeqIs
  <1>2. call \in M \X Q \X B \X K
    BY DEF MethodCalls
  <1>3. call = <<call[1], call[2], call[3], call[4]>> /\ call[1] \in M /\ call[2] \in Q /\ call[3] \in B
        /\ call[4] \in K
    <2> HIDE DEF M, Q, B, K
    <2> QED BY <1>2
  <1>4. Round(toks, call) \in 0 .. l + 3
    BY <1>1, <1>3 DEF Round
  <1> DEFINE a == l + 1 - call[2]
             m == l + 4
             r == Round(toks, call)
  <1>5. a \in Nat /\ m \in Nat /\ a < l + 1 /\ l + 1 \in Nat /\ r \in Nat /\ r < m
    BY <1>1, <1>3, <1>4
  <1>6. Rank(toks, call) = a * m + r
    BY DEF Rank
  <1> HIDE DEF a, m, r
  <1>7. a * m \in Nat /\ a * m + m <= (l + 1) * m /\ (l + 1) * m \in Nat
    BY <1>5, ProductGrows
  <1>8. Rank(toks, call) \in Nat /\ Rank(toks, call) < (l + 1) * m
    BY <1>5, <1>6, <1>7
  <1> QED BY <1>1, <1>3, <1>4, <1>8 DEF m

\* A call further on, or a lower method or round at the same position, is below.
LEMMA RanksFall ==
  ASSUME NEW toks \in Seq(Tokens), NEW call \in MethodCalls(toks), NEW other \in MethodCalls(toks),
         other[2] > call[2] \/ (other[2] = call[2] /\ Round(toks, other) < Round(toks, call))
  PROVE  other \in Below(toks, call)
  <1> DEFINE l == Len(toks)
             m == l + 4
             a == l + 1 - call[2]
             b == l + 1 - other[2]
             r == Round(toks, call)
             s == Round(toks, other)
  <1>1. /\ l \in Nat /\ call[2] \in 1 .. l + 1 /\ other[2] \in 1 .. l + 1
        /\ r \in 0 .. l + 3 /\ s \in 0 .. l + 3
    BY CallIs
  <1>2. a \in Nat /\ b \in Nat /\ m \in Nat /\ r \in Nat /\ s \in Nat /\ s < m
        /\ (b < a \/ (b = a /\ s < r))
    BY <1>1, SMTT(30)
  <1>3. Rank(toks, call) = a * m + r /\ Rank(toks, other) = b * m + s
    BY DEF Rank
  <1> HIDE DEF a, b, m, r, s
  <1>4. CASE b < a
    <2>1. b * m \in Nat /\ a * m \in Nat /\ b * m + m <= a * m
      BY <1>2, <1>4, ProductGrows
    <2> QED BY <1>2, <1>3, <2>1 DEF Below
  <1>5. CASE b = a /\ s < r
    <2>1. b * m = a * m /\ a * m \in Nat
      BY <1>2, <1>5
    <2> QED BY <1>2, <1>3, <1>5, <2>1 DEF Below
  <1> QED BY <1>2, <1>4, <1>5

\* What a call returns depends on what it calls, and if that advances, so does the call.
LEMMA MethodAgrees ==
  ASSUME NEW toks \in Seq(Tokens), NEW call \in MethodCalls(toks), NEW f, NEW g,
         Agree(toks, f, g, Below(toks, call))
  PROVE  /\ Method(toks, f, call) = Method(toks, g, call)
         /\ Advances(toks, Method(toks, f, call), call[2])
  <1> DEFINE pos == call[2]
             l == Len(toks)
  <1>1. /\ call = <<call[1], call[2], call[3], call[4]>>
        /\ call[1] \in {"expression", "unary", "primary", "args"}
        /\ pos \in 1 .. l + 1 /\ call[3] \in 0 .. 13 /\ call[4] \in 0 .. l /\ l \in Nat
    BY CallIs
  <1>2. Agree(toks, f, g, Later(toks, pos))
    <2>1. Later(toks, pos) \subseteq Below(toks, call)
      BY RanksFall DEF Later
    <2> QED BY <2>1 DEF Agree
  <1>3. ASSUME NEW other \in MethodCalls(toks), other[2] = pos, Round(toks, other) < Round(toks, call)
        PROVE  f[other] = g[other] /\ Advances(toks, f[other], pos)
    <2>1. other \in Below(toks, call)
      BY <1>3, RanksFall
    <2> QED BY <1>3, <2>1 DEF Agree
  <1>4. \A m \in {"expression", "unary", "primary", "args"} : \A b \in 0 .. 13 : \A k \in 0 .. l :
           /\ <<m, pos, b, k>> \in MethodCalls(toks)
           /\ <<m, pos, b, k>>[1] = m /\ <<m, pos, b, k>>[2] = pos /\ <<m, pos, b, k>>[4] = k
    <2> DEFINE M == {"expression", "unary", "primary", "args"}
               B == 0 .. 13
               K == 0 .. l
               Q == 1 .. l + 1
    <2>1. MethodCalls(toks) = M \X Q \X B \X K
      BY DEF MethodCalls
    <2>2. pos \in Q
      BY <1>1
    <2> HIDE DEF M, B, K, Q, pos
    <2>3. \A m \in M : \A b \in B : \A k \in K :
             /\ <<m, pos, b, k>> \in M \X Q \X B \X K
             /\ <<m, pos, b, k>>[1] = m /\ <<m, pos, b, k>>[2] = pos /\ <<m, pos, b, k>>[4] = k
      BY <2>2
    <2> QED BY <2>1, <2>3 DEF M, B, K
  <1>5. CASE call[1] = "args"
    <2> DEFINE other == <<"expression", pos, 0, l>>
    <2>1. /\ other \in MethodCalls(toks) /\ other[1] = "expression" /\ other[2] = pos /\ other[4] = l
      BY <1>1, <1>4
    <2> HIDE DEF other
    <2>2. Round(toks, other) < Round(toks, call)
      BY <1>1, <1>5, <2>1 DEF Round
    <2>3. f[other] = g[other] /\ Advances(toks, f[other], pos)
      BY <1>3, <2>1, <2>2
    <2>4. /\ parseExpression(toks, f, pos, 0) = parseExpression(toks, g, pos, 0)
          /\ Advances(toks, parseExpression(toks, f, pos, 0), pos)
      BY <2>3 DEF other, parseExpression
    <2>5. /\ parseArgs(toks, f, pos) = parseArgs(toks, g, pos)
          /\ Advances(toks, parseArgs(toks, f, pos), pos)
      <3> HIDE DEF pos
      <3> QED BY <1>1, <1>2, <2>4, ArgsAgree
    <2> QED BY <1>5, <2>5 DEF Method
  <1>6. CASE call[1] = "primary"
    <2>1. /\ parsePrimary(toks, f, pos) = parsePrimary(toks, g, pos)
          /\ Advances(toks, parsePrimary(toks, f, pos), pos)
      BY <1>1, <1>2, PrimaryAgrees
    <2> QED BY <1>6, <2>1 DEF Method
  <1>7. CASE call[1] = "unary"
    <2> DEFINE other == <<"primary", pos, 0, 0>>
    <2>1. /\ other \in MethodCalls(toks) /\ other[1] = "primary" /\ other[2] = pos
      BY <1>1, <1>4
    <2> HIDE DEF other
    <2>2. Round(toks, other) < Round(toks, call)
      BY <1>1, <1>7, <2>1 DEF Round
    <2>3. f[other] = g[other] /\ Advances(toks, f[other], pos)
      BY <1>3, <2>1, <2>2
    <2>4. Called(f, "primary", pos) = Called(g, "primary", pos) /\ Advances(toks, Called(f, "primary", pos), pos)
      BY <2>3 DEF other, Called
    <2>5. /\ parseUnary(toks, f, pos) = parseUnary(toks, g, pos)
          /\ Advances(toks, parseUnary(toks, f, pos), pos)
      <3> HIDE DEF pos
      <3> QED BY <1>1, <1>2, <2>4, UnaryAgrees
    <2> QED BY <1>7, <2>5 DEF Method
  <1>8. CASE call[1] = "expression" /\ call[4] = 0
    <2> DEFINE other == <<"unary", pos, 0, 0>>
    <2>1. /\ other \in MethodCalls(toks) /\ other[1] = "unary" /\ other[2] = pos
      BY <1>1, <1>4
    <2> HIDE DEF other
    <2>2. Round(toks, other) < Round(toks, call)
      BY <1>1, <1>8, <2>1 DEF Round
    <2>3. f[other] = g[other] /\ Advances(toks, f[other], pos)
      BY <1>3, <2>1, <2>2
    <2>4. Called(f, "unary", pos) = Called(g, "unary", pos) /\ Advances(toks, Called(f, "unary", pos), pos)
      BY <2>3 DEF other, Called
    <2> QED BY <1>8, <2>4 DEF Method
  <1>9. CASE call[1] = "expression" /\ call[4] # 0
    <2> DEFINE other == <<"expression", pos, call[3], call[4] - 1>>
    <2>1. /\ other \in MethodCalls(toks) /\ other[1] = "expression" /\ other[2] = pos
          /\ other[4] = call[4] - 1
      <3>1. call[4] - 1 \in 0 .. l
        BY <1>1, <1>9
      <3> QED BY <1>1, <1>4, <3>1
    <2> HIDE DEF other
    <2>2. Round(toks, other) < Round(toks, call)
      BY <1>1, <1>9, <2>1 DEF Round
    <2> DEFINE lhs == f[other]
    <2>3. lhs = g[other] /\ Advances(toks, lhs, pos)
      BY <1>3, <2>1, <2>2
    <2>4. /\ Method(toks, f, call) = extend(toks, f, f[other], call[3])
          /\ Method(toks, g, call) = extend(toks, g, g[other], call[3])
      BY <1>9 DEF Method, other
    <2> HIDE DEF lhs, pos
    <2>5. /\ extend(toks, f, lhs, call[3]) = extend(toks, g, lhs, call[3])
          /\ Advances(toks, extend(toks, f, lhs, call[3]), pos)
      BY <1>1, <1>2, <2>3, ExtendAgrees
    <2> QED BY <2>3, <2>4, <2>5 DEF lhs, pos
  <1> QED BY <1>1, <1>5, <1>6, <1>7, <1>8, <1>9

\* The parser returns what its methods do, and advances.
LEMMA ParserIs ==
  ASSUME NEW toks \in Seq(Tokens), NEW call \in MethodCalls(toks)
  PROVE  /\ Parser(toks)[call] = Method(toks, Parser(toks), call)
         /\ Advances(toks, Parser(toks)[call], call[2])
  <1> DEFINE D == MethodCalls(toks)
             C(n) == {c \in D : Rank(toks, c) < n}
             F(f, S) == [c \in S |-> Method(toks, f, c)]
             P == {n \in Nat : \E f : f = F(f, C(n)) /\ \A c \in C(n) : Advances(toks, f[c], c[2])}
             max == (Len(toks) + 1) * (Len(toks) + 4)
  <1>0. /\ \A c \in D : Rank(toks, c) \in Nat /\ Rank(toks, c) < max
        /\ max \in Nat
    <2>1. Len(toks) \in Nat
      BY SeqIs
    <2>2. max \in Nat
      BY <2>1
    <2> QED BY <2>2, CallIs
  <1>1. ASSUME NEW n \in Nat, \A j \in 0 .. n - 1 : j \in P
        PROVE  n \in P
    <2>1. CASE n = 0
      <3> DEFINE f == [c \in {} |-> c]
      <3>1. C(0) = {}
        BY <1>0
      <3>2. f = F(f, C(0))
        BY <3>1
      <3> QED BY <2>1, <3>1, <3>2
    <2>2. CASE n # 0
      <3>1. n - 1 \in 0 .. n - 1 /\ n - 1 \in Nat
        BY <2>2
      <3>2. n - 1 \in P
        BY <1>1, <3>1
      <3>3. PICK f : f = F(f, C(n - 1)) /\ \A c \in C(n - 1) : Advances(toks, f[c], c[2])
        BY <3>2
      <3> DEFINE g == F(f, C(n))
      <3>4. \A c \in C(n - 1) : f[c] = Method(toks, f, c)
        <4>1. \A c \in C(n - 1) : F(f, C(n - 1))[c] = Method(toks, f, c)
          OBVIOUS
        <4> HIDE DEF F, C
        <4> QED BY <3>3, <4>1
      <3>5. \A c \in C(n) : g[c] = Method(toks, f, c)
        OBVIOUS
      <3> HIDE DEF g
      <3>6. C(n - 1) \subseteq C(n)
        BY <1>0, <2>2
      <3>7. ASSUME NEW c \in C(n)
            PROVE  Method(toks, g, c) = Method(toks, f, c) /\ Advances(toks, g[c], c[2])
        <4>1. c \in D /\ Rank(toks, c) < n
          OBVIOUS
        <4>2. Below(toks, c) \subseteq C(n - 1)
          BY <1>0, <2>2, <4>1 DEF Below
        <4> HIDE DEF C
        <4>3. Agree(toks, f, g, Below(toks, c))
          BY <3>3, <3>4, <3>5, <3>6, <4>2 DEF Agree
        <4> HIDE DEF D
        <4>4. /\ Method(toks, f, c) = Method(toks, g, c)
              /\ Advances(toks, Method(toks, f, c), c[2])
          BY <4>1, <4>3, MethodAgrees DEF D
        <4> QED BY <3>5, <4>4
      <3> HIDE DEF C
      <3>8. F(g, C(n)) = F(f, C(n))
        BY <3>7
      <3>9. g = F(g, C(n))
        BY <3>8 DEF g
      <3> QED BY <3>7, <3>9
    <2> QED BY <2>1, <2>2
  <1>2. max \in P
    <2> HIDE DEF P, max
    <2> QED BY <1>0, <1>1, StrongInduction
  <1>3. C(max) = D
    BY <1>0
  <1> HIDE DEF max
  <1>4. PICK f : f = F(f, D) /\ \A c \in D : Advances(toks, f[c], c[2])
    BY <1>2, <1>3
  <1> DEFINE p == Parser(toks)
  <1>5. p = F(p, D)
    BY <1>4 DEF Parser
  <1>6. \A c \in D : p[c] = Method(toks, p, c)
    <2>1. \A c \in D : F(p, D)[c] = Method(toks, p, c)
      OBVIOUS
    <2> HIDE DEF F, D, p
    <2> QED BY <1>5, <2>1
  <1> HIDE DEF p, F, C, P
  <1> DEFINE Q == {n \in Nat : \A c \in D : Rank(toks, c) = n => Advances(toks, p[c], c[2])}
  <1>7. ASSUME NEW n \in Nat, \A j \in 0 .. n - 1 : j \in Q
        PROVE  n \in Q
    <2> SUFFICES ASSUME NEW c \in D, Rank(toks, c) = n PROVE Advances(toks, p[c], c[2])
      OBVIOUS
    <2>1. ASSUME NEW d \in Below(toks, c) PROVE Advances(toks, p[d], d[2])
      <3>1. d \in D /\ Rank(toks, d) < n /\ Rank(toks, d) \in 0 .. n - 1
        BY <1>0 DEF Below
      <3> QED BY <1>7, <3>1
    <2>2. Agree(toks, p, p, Below(toks, c))
      BY <2>1 DEF Agree
    <2>3. Advances(toks, Method(toks, p, c), c[2])
      BY <2>2, MethodAgrees
    <2> QED BY <1>6, <2>3
  <1>8. Nat \subseteq Q
    <2> HIDE DEF Q
    <2> QED BY <1>7, StrongInduction
  <1>9. Rank(toks, call) \in Q
    BY <1>0, <1>8
  <1> QED BY <1>6, <1>9 DEF p

-------------------------------------------------------------------------------
(* What is written is read.                                                  *)

\* The methods return what they are defined to.
LEMMA ParserDoes ==
  ASSUME NEW toks \in Seq(Tokens), NEW p, p = Parser(toks), NEW pos \in 1 .. Len(toks) + 1
  PROVE  /\ \A bp \in 0 .. 13 :
              /\ p[<<"expression", pos, bp, 0>>] = Called(p, "unary", pos)
              /\ \A n \in 1 .. Len(toks) :
                    p[<<"expression", pos, bp, n>>] = extend(toks, p, p[<<"expression", pos, bp, n - 1>>], bp)
              /\ \A n \in 0 .. Len(toks) : Advances(toks, p[<<"expression", pos, bp, n>>], pos)
         /\ Called(p, "unary", pos) = parseUnary(toks, p, pos)
         /\ Called(p, "primary", pos) = parsePrimary(toks, p, pos)
         /\ Called(p, "args", pos) = parseArgs(toks, p, pos)
         /\ \A m \in {"unary", "primary", "args"} : Advances(toks, Called(p, m, pos), pos)
  <1>1. Len(toks) \in Nat
    BY SeqIs
  <1>2. \A m \in {"expression", "unary", "primary", "args"} : \A b \in 0 .. 13 : \A k \in 0 .. Len(toks) :
           <<m, pos, b, k>> \in MethodCalls(toks)
    <2> DEFINE M == {"expression", "unary", "primary", "args"}
               B == 0 .. 13
               K == 0 .. Len(toks)
               Q == 1 .. Len(toks) + 1
    <2>1. MethodCalls(toks) = M \X Q \X B \X K
      BY DEF MethodCalls
    <2>2. pos \in Q
      OBVIOUS
    <2> HIDE DEF M, B, K, Q
    <2>3. \A m \in M : \A b \in B : \A k \in K : <<m, pos, b, k>> \in M \X Q \X B \X K
      BY <2>2
    <2> QED BY <2>1, <2>3 DEF M, B, K
  <1>3. ASSUME NEW m \in {"expression", "unary", "primary", "args"}, NEW b \in 0 .. 13, NEW k \in 0 .. Len(toks)
        PROVE  p[<<m, pos, b, k>>] = Method(toks, p, <<m, pos, b, k>>) /\ Advances(toks, p[<<m, pos, b, k>>], pos)
    <2> DEFINE call == <<m, pos, b, k>>
    <2>1. call \in MethodCalls(toks) /\ call[2] = pos
      BY <1>2
    <2> HIDE DEF call
    <2>2. p[call] = Method(toks, p, call) /\ Advances(toks, p[call], call[2])
      BY <2>1, ParserIs
    <2> QED BY <2>1, <2>2 DEF call
  <1>4. 0 \in 0 .. 13 /\ 0 \in 0 .. Len(toks)
    BY <1>1
  <1>5. ASSUME NEW bp \in 0 .. 13
        PROVE  /\ p[<<"expression", pos, bp, 0>>] = Called(p, "unary", pos)
               /\ \A n \in 1 .. Len(toks) :
                     p[<<"expression", pos, bp, n>>] = extend(toks, p, p[<<"expression", pos, bp, n - 1>>], bp)
               /\ \A n \in 0 .. Len(toks) : Advances(toks, p[<<"expression", pos, bp, n>>], pos)
    <2>1. p[<<"expression", pos, bp, 0>>] = Called(p, "unary", pos)
      BY <1>3, <1>4 DEF Method
    <2>2. ASSUME NEW n \in 1 .. Len(toks)
          PROVE  p[<<"expression", pos, bp, n>>] = extend(toks, p, p[<<"expression", pos, bp, n - 1>>], bp)
      <3>1. n \in 0 .. Len(toks) /\ n # 0
        BY <1>1
      <3>2. p[<<"expression", pos, bp, n>>] = Method(toks, p, <<"expression", pos, bp, n>>)
        BY <1>3, <3>1
      <3> QED BY <3>1, <3>2 DEF Method
    <2> QED BY <1>3, <2>1, <2>2
  <1>6. /\ Called(p, "unary", pos) = parseUnary(toks, p, pos)
        /\ Called(p, "primary", pos) = parsePrimary(toks, p, pos)
        /\ Called(p, "args", pos) = parseArgs(toks, p, pos)
        /\ \A m \in {"unary", "primary", "args"} : Advances(toks, Called(p, m, pos), pos)
    <2>1. /\ p[<<"unary", pos, 0, 0>>] = Method(toks, p, <<"unary", pos, 0, 0>>)
          /\ p[<<"primary", pos, 0, 0>>] = Method(toks, p, <<"primary", pos, 0, 0>>)
          /\ p[<<"args", pos, 0, 0>>] = Method(toks, p, <<"args", pos, 0, 0>>)
          /\ \A m \in {"unary", "primary", "args"} : Advances(toks, p[<<m, pos, 0, 0>>], pos)
      BY <1>3, <1>4
    <2> QED BY <2>1 DEF Called, Method
  <1> QED BY <1>5, <1>6

\* From pos on there is the expression of a tree, up to q: a number of rounds read it.
Reads(toks, pos, bp, node, q) ==
    /\ q \in pos + 1 .. Len(toks) + 1
    /\ \E n \in 0 .. Len(toks) : n < q - pos /\ Parser(toks)[<<"expression", pos, bp, n>>] = Parsed(node, q)

\* Nothing at q goes on with an expression that was read with minBp.
Stops(toks, q, bp) ==
    /\ TypeAt(toks, q) # "lparen"
    /\ ~(TypeAt(toks, q) = "qmark" /\ bp <= 1)
    /\ TypeAt(toks, q) = "op" => bindsLeft(toks[q].v) < 0 \/ bindsLeft(toks[q].v) < bp

\* What does not go on with an expression does not do so at a higher minBp.
LEMMA StopsFor ==
  ASSUME NEW toks, NEW q, NEW b \in Nat, NEW c \in Nat, b <= c, Stops(toks, q, b)
  PROVE  Stops(toks, q, c)
  <1>1. \A o : bindsLeft(o) \in Int
    BY BindingPowers
  <1> QED BY <1>1 DEF Stops

\* An expression ends where nothing goes on with it.
LEMMA EndsReading ==
  ASSUME NEW toks \in Seq(Tokens), NEW pos \in 1 .. Len(toks) + 1, NEW bp \in 0 .. 13,
         NEW node, NEW q, Reads(toks, pos, bp, node, q), Stops(toks, q, bp)
  PROVE  parseExpression(toks, Parser(toks), pos, bp) = Parsed(node, q)
  <1> DEFINE p == Parser(toks)
             e(n) == p[<<"expression", pos, bp, n>>]
             l == Len(toks)
  <1>1. l \in Nat /\ q \in pos + 1 .. l + 1
    BY SeqIs DEF Reads
  <1>2. PICK k \in 0 .. l : e(k) = Parsed(node, q)
    BY DEF Reads
  <1>3. \A n \in 1 .. l : e(n) = extend(toks, p, e(n - 1), bp)
    BY ParserDoes
  <1>4. extend(toks, p, Parsed(node, q), bp) = Parsed(node, q)
    <2>1. /\ ~Threw(Parsed(node, q)) /\ Parsed(node, q).pos = q
          /\ \A o : bindsLeft(o) \in Int
      BY <1>1, BindingPowers DEF Threw, Parsed
    <2> HIDE DEF p
    <2> QED BY <2>1 DEF extend, Stops
  <1> HIDE DEF e, p, l
  <1> DEFINE P == {d \in Nat : k + d <= l => e(k + d) = Parsed(node, q)}
  <1>5. ASSUME NEW d \in Nat, \A j \in 0 .. d - 1 : j \in P
        PROVE  d \in P
    <2> SUFFICES ASSUME k + d <= l PROVE e(k + d) = Parsed(node, q)
      OBVIOUS
    <2>1. CASE d = 0
      <3>1. k + d = k
        BY <1>1, <2>1
      <3> QED BY <1>2, <3>1
    <2>2. CASE d # 0
      <3>1. d - 1 \in 0 .. d - 1 /\ k + (d - 1) <= l /\ (k + d) - 1 = k + (d - 1) /\ k + d \in 1 .. l
        BY <1>1, <2>2
      <3>2. e(k + (d - 1)) = Parsed(node, q)
        BY <1>5, <3>1
      <3>3. e(k + d) = extend(toks, p, e((k + d) - 1), bp)
        BY <1>3, <3>1
      <3> QED BY <1>4, <3>1, <3>2, <3>3
    <2> QED BY <2>1, <2>2
  <1>6. e(l) = Parsed(node, q)
    <2>1. Nat \subseteq P
      <3> HIDE DEF P
      <3> QED BY <1>5, StrongInduction
    <2>2. l - k \in Nat /\ k + (l - k) = l
      BY <1>1
    <2>3. l - k \in P
      BY <2>1, <2>2
    <2> QED BY <1>1, <2>2, <2>3
  <1> QED BY <1>6 DEF e, p, l, parseExpression

\* It does so wherever it starts and ends.
EndsWhereNothingGoesOn(toks, node) ==
    \A pos \in 1 .. Len(toks) + 1 : \A bp \in 0 .. 13 : \A q :
       Reads(toks, pos, bp, node, q) /\ Stops(toks, q, bp)
       => parseExpression(toks, Parser(toks), pos, bp) = Parsed(node, q)

\* As every expression.
LEMMA ReadingEnds ==
  ASSUME NEW toks \in Seq(Tokens), NEW node
  PROVE  EndsWhereNothingGoesOn(toks, node)
  BY EndsReading DEF EndsWhereNothingGoesOn

\* What starts an expression, and the rounds that go on with one.
LEMMA ReadsUnary ==
  ASSUME NEW toks \in Seq(Tokens), NEW pos \in 1 .. Len(toks) + 1, NEW q \in pos + 1 .. Len(toks) + 1,
         NEW node, Called(Parser(toks), "unary", pos) = Parsed(node, q), NEW bp \in 0 .. 13
  PROVE  Reads(toks, pos, bp, node, q)
  <1>1. Parser(toks)[<<"expression", pos, bp, 0>>] = Parsed(node, q)
    BY ParserDoes
  <1>2. Len(toks) \in Nat
    BY SeqIs
  <1>3. 0 \in 0 .. Len(toks) /\ 0 < q - pos
    BY <1>2
  <1> QED BY <1>1, <1>3 DEF Reads

\* What parsePrimary reads, parseUnary reads too, where there is no operator.
LEMMA ReadsPrimary ==
  ASSUME NEW toks \in Seq(Tokens), NEW pos \in 1 .. Len(toks) + 1, NEW q \in pos + 1 .. Len(toks) + 1,
         NEW node, parsePrimary(toks, Parser(toks), pos) = Parsed(node, q), TypeAt(toks, pos) # "op"
  PROVE  /\ Called(Parser(toks), "primary", pos) = Parsed(node, q)
         /\ Called(Parser(toks), "unary", pos) = Parsed(node, q)
  <1>1. /\ Called(Parser(toks), "primary", pos) = parsePrimary(toks, Parser(toks), pos)
        /\ Called(Parser(toks), "unary", pos) = parseUnary(toks, Parser(toks), pos)
    BY ParserDoes
  <1>2. ~IsOp(toks, pos, UnaryOps)
    BY DEF IsOp
  <1> QED BY <1>1, <1>2 DEF parseUnary

\* One more round reads what extend makes of the rounds before.
LEMMA ReadsMore ==
  ASSUME NEW toks \in Seq(Tokens), NEW pos \in 1 .. Len(toks) + 1, NEW bp \in 0 .. 13,
         NEW node, NEW q, Reads(toks, pos, bp, node, q),
         NEW longer, NEW r \in q + 1 .. Len(toks) + 1,
         extend(toks, Parser(toks), Parsed(node, q), bp) = Parsed(longer, r)
  PROVE  Reads(toks, pos, bp, longer, r)
  <1> DEFINE e(n) == Parser(toks)[<<"expression", pos, bp, n>>]
             l == Len(toks)
  <1>1. l \in Nat /\ q \in pos + 1 .. l + 1
    BY SeqIs DEF Reads
  <1>2. PICK n \in 0 .. l : n < q - pos /\ e(n) = Parsed(node, q)
    BY DEF Reads
  <1>3. n + 1 \in 1 .. l /\ n + 1 \in 0 .. l /\ n + 1 < r - pos /\ (n + 1) - 1 = n /\ r \in pos + 1 .. l + 1
    BY <1>1, <1>2
  <1>4. e(n + 1) = extend(toks, Parser(toks), e((n + 1) - 1), bp)
    BY <1>3, ParserDoes
  <1>5. e(n + 1) = Parsed(longer, r)
    BY <1>2, <1>3, <1>4
  <1> QED BY <1>3, <1>5 DEF Reads

\* A binary operator that binds tightly enough and its right operand go on with what was read.
LEMMA ReadsBin ==
  ASSUME NEW toks \in Seq(Tokens), NEW pos \in 1 .. Len(toks) + 1, NEW bp \in 0 .. 13,
         NEW left, NEW q, Reads(toks, pos, bp, left, q),
         TypeAt(toks, q) = "op", bindsLeft(toks[q].v) >= 0, bindsLeft(toks[q].v) >= bp,
         NEW right, NEW r \in q + 2 .. Len(toks) + 1,
         parseExpression(toks, Parser(toks), q + 1, bindsRight(toks[q].v)) = Parsed(right, r)
  PROVE  Reads(toks, pos, bp, Bin(toks[q].v, left, right), r)
  <1>1. Len(toks) \in Nat /\ q \in pos + 1 .. Len(toks) + 1
    BY SeqIs DEF Reads
  <1>2. /\ ~Threw(Parsed(left, q)) /\ Parsed(left, q).pos = q /\ Parsed(left, q).node = left
        /\ ~Threw(Parsed(right, r)) /\ Parsed(right, r).pos = r /\ Parsed(right, r).node = right
        /\ r \in q + 1 .. Len(toks) + 1
    BY <1>1 DEF Threw, Parsed
  <1>3. extend(toks, Parser(toks), Parsed(left, q), bp) = Parsed(Bin(toks[q].v, left, right), r)
    BY <1>2 DEF extend
  <1> QED BY <1>2, <1>3, ReadsMore

\* And a conditional, whose branches are read with 0 and 1.
LEMMA ReadsCond ==
  ASSUME NEW toks \in Seq(Tokens), NEW pos \in 1 .. Len(toks) + 1, NEW bp \in 0 .. 1,
         NEW test, NEW q, Reads(toks, pos, bp, test, q), TypeAt(toks, q) = "qmark",
         NEW then, NEW r \in q + 2 .. Len(toks) + 1,
         parseExpression(toks, Parser(toks), q + 1, 0) = Parsed(then, r), TypeAt(toks, r) = "colon",
         NEW else, NEW s \in r + 2 .. Len(toks) + 1,
         parseExpression(toks, Parser(toks), r + 1, 1) = Parsed(else, s)
  PROVE  Reads(toks, pos, bp, Cond(test, then, else), s)
  <1>1. Len(toks) \in Nat /\ q \in pos + 1 .. Len(toks) + 1 /\ bp \in 0 .. 13
    BY SeqIs DEF Reads
  <1>2. /\ ~Threw(Parsed(test, q)) /\ Parsed(test, q).pos = q /\ Parsed(test, q).node = test
        /\ ~Threw(Parsed(then, r)) /\ Parsed(then, r).pos = r /\ Parsed(then, r).node = then
        /\ ~Threw(Parsed(else, s)) /\ Parsed(else, s).pos = s /\ Parsed(else, s).node = else
        /\ s \in q + 1 .. Len(toks) + 1
    BY <1>1 DEF Threw, Parsed
  <1>3. extend(toks, Parser(toks), Parsed(test, q), bp) = Parsed(Cond(test, then, else), s)
    BY <1>1, <1>2 DEF extend
  <1> QED BY <1>1, <1>2, <1>3, ReadsMore

\* The text is in toks from pos on.
Occurs(toks, text, pos) ==
    /\ pos + Len(text) <= Len(toks) + 1
    /\ \A i \in 1 .. Len(text) : toks[(pos - 1) + i] = text[i]

\* So are its parts.
LEMMA OccursParts ==
  ASSUME NEW toks \in Seq(Tokens), NEW a \in Seq(Tokens), NEW b \in Seq(Tokens),
         NEW pos \in 1 .. Len(toks) + 1, Occurs(toks, a \o b, pos)
  PROVE  /\ Len(a \o b) = Len(a) + Len(b)
         /\ pos + Len(a) \in 1 .. Len(toks) + 1
         /\ Occurs(toks, a, pos) /\ Occurs(toks, b, pos + Len(a))
  <1> DEFINE c == a \o b
             l == Len(a)
             m == Len(b)
  <1>1. /\ l \in Nat /\ m \in Nat /\ Len(c) = l + m
        /\ \A i \in 1 .. l : c[i] = a[i]
        /\ \A i \in 1 .. m : c[l + i] = b[i]
    OBVIOUS
  <1>2. Len(toks) \in Nat
    BY SeqIs
  <1>3. /\ pos + Len(c) <= Len(toks) + 1
        /\ \A i \in 1 .. Len(c) : toks[(pos - 1) + i] = c[i]
    BY DEF Occurs
  <1> HIDE DEF c, l, m
  <1>4. \A i \in 1 .. l : toks[(pos - 1) + i] = a[i]
    BY <1>1, <1>3
  <1>5. \A i \in 1 .. m : toks[((pos + l) - 1) + i] = b[i]
    <2> SUFFICES ASSUME NEW i \in 1 .. m PROVE toks[((pos + l) - 1) + i] = b[i]
      OBVIOUS
    <2>1. l + i \in 1 .. Len(c) /\ (pos - 1) + (l + i) = ((pos + l) - 1) + i
      BY <1>1, <1>2
    <2> QED BY <1>1, <1>3, <2>1
  <1>6. /\ pos + l \in 1 .. Len(toks) + 1 /\ pos + l <= Len(toks) + 1
        /\ (pos + l) + m <= Len(toks) + 1
    BY <1>1, <1>2, <1>3
  <1>7. Occurs(toks, a, pos) /\ Occurs(toks, b, pos + l)
    BY <1>4, <1>5, <1>6 DEF Occurs, l, m
  <1> QED BY <1>1, <1>6, <1>7 DEF c, l, m

\* And its first token.
LEMMA OccursOne ==
  ASSUME NEW toks \in Seq(Tokens), NEW x \in Tokens, NEW b \in Seq(Tokens),
         NEW pos \in 1 .. Len(toks) + 1, Occurs(toks, <<x>> \o b, pos)
  PROVE  /\ pos \in 1 .. Len(toks) /\ toks[pos] = x /\ TypeAt(toks, pos) = x.t
         /\ pos + 1 \in 1 .. Len(toks) + 1
         /\ Occurs(toks, b, pos + 1) /\ Len(<<x>> \o b) = 1 + Len(b)
  <1>1. <<x>> \in Seq(Tokens) /\ Len(<<x>>) = 1 /\ <<x>>[1] = x
    OBVIOUS
  <1>2. Len(toks) \in Nat
    BY SeqIs
  <1>3. /\ pos + 1 \in 1 .. Len(toks) + 1 /\ Occurs(toks, <<x>>, pos)
        /\ Occurs(toks, b, pos + 1) /\ Len(<<x>> \o b) = 1 + Len(b)
    BY <1>1, OccursParts, ZenonT(30)
  <1>4. toks[(pos - 1) + 1] = x
    BY <1>1, <1>3 DEF Occurs
  <1>5. pos \in 1 .. Len(toks) /\ toks[pos] = x
    BY <1>2, <1>3, <1>4
  <1> QED BY <1>3, <1>5 DEF TypeAt

\* What ends a tree: nothing that goes on with its last operand.
LevelAfter(level) == IF level <= 1 THEN 1 ELSE level + 1

\* The levels of trees: those of their operators, as the parser has them.
LEMMA Levels ==
  /\ \A n : Level(n) \in 1 .. 15
  /\ \A n : n[1] = "bin" /\ n[2] \in BinaryOps => Level(n) = bindsLeft(n[2]) /\ Level(n) \in 2 .. 12
  /\ \A n : n[1] = "unary" => Level(n) = 14
  /\ \A n : n[1] = "cond" => Level(n) = 1
  /\ \A n : n[1] \notin {"unary", "bin", "cond"} => Level(n) = 15
  <1>1. \A n : n[1] = "bin" => Level(n) \in {2, 4, 6, 8, 10, 12}
    BY DEF Level
  <1>2. \A n : n[1] = "bin" /\ n[2] \in BinaryOps => Level(n) = bindsLeft(n[2])
    BY DEF Level, bindsLeft, BinaryOps
  <1>3. /\ \A n : n[1] = "unary" => Level(n) = 14
        /\ \A n : n[1] = "cond" => Level(n) = 1
        /\ \A n : n[1] \notin {"unary", "bin", "cond"} => Level(n) = 15
    BY DEF Level
  <1>4. \A n : Level(n) \in 1 .. 15
    BY <1>1, <1>3
  <1> QED BY <1>1, <1>2, <1>3, <1>4

\* The methods read the tree from pos on, up to q.
IsRead(toks, node, pos, q) ==
    /\ q \in pos + 1 .. Len(toks) + 1
    /\ \A bp \in 0 .. 13 : bp <= Level(node) => Reads(toks, pos, bp, node, q)
    /\ Level(node) >= 14 => Called(Parser(toks), "unary", pos) = Parsed(node, q)

\* They do wherever it is written, and something follows that ends it.
Readable(toks, node) ==
    \A pos \in 1 .. Len(toks) + 1 :
       /\ Occurs(toks, texts[node], pos)
       /\ Stops(toks, pos + Len(texts[node]), LevelAfter(Level(node)))
       => IsRead(toks, node, pos, pos + Len(texts[node]))

\* An expression starts with what is not an operator or with a unary one.
LEMMA UnaryIsRead ==
  ASSUME NEW toks \in Seq(Tokens), NEW pos \in 1 .. Len(toks) + 1, NEW q \in pos + 1 .. Len(toks) + 1,
         NEW node, Called(Parser(toks), "unary", pos) = Parsed(node, q)
  PROVE  IsRead(toks, node, pos, q)
  BY ReadsUnary DEF IsRead

\* What is in parentheses is read as the tree that is written in them, and what is not as it is.
LEMMA PlacedIsRead ==
  ASSUME NEW toks \in Seq(Tokens), NEW node, IsText(texts[node]), Readable(toks, node),
         NEW level \in 0 .. 15, NEW pos \in 1 .. Len(toks) + 1,
         Occurs(toks, Placed(texts, node, level), pos),
         NEW q, q = pos + Len(Placed(texts, node, level)), Stops(toks, q, LevelAfter(level))
  PROVE  /\ q \in pos + 1 .. Len(toks) + 1
         /\ \A bp \in 0 .. 13 : bp <= level => Reads(toks, pos, bp, node, q)
         /\ level >= 14 => Called(Parser(toks), "unary", pos) = Parsed(node, q)
  <1> DEFINE t == texts[node]
             l == Mark("lparen")
             r == Mark("rparen")
  <1>0. /\ Len(toks) \in Nat /\ t \in Seq(Tokens) /\ Len(t) \in Nat /\ Len(t) >= 1
        /\ l \in Tokens /\ r \in Tokens /\ l.t = "lparen" /\ r.t = "rparen"
        /\ Level(node) \in 1 .. 15
    BY SeqIs, TokensAre, Levels DEF IsText
  <1>1. CASE Level(node) < level
    <2>1. Placed(texts, node, level) = <<l>> \o t \o <<r>>
      BY <1>1 DEF Placed
    <2> HIDE DEF t, l, r
    <2>2. /\ <<l>> \o t \o <<r>> = <<l>> \o (t \o <<r>>) /\ t \o <<r>> \in Seq(Tokens)
          /\ <<r>> \o <<>> = <<r>> /\ <<>> \in Seq(Tokens) /\ <<r>> \in Seq(Tokens)
      BY <1>0
    <2>3. Occurs(toks, <<l>> \o (t \o <<r>>), pos)
      BY <2>1, <2>2
    <2> DEFINE b == t \o <<r>>
    <2>14. b \in Seq(Tokens) /\ l \in Tokens /\ r \in Tokens
      BY <1>0, <2>2
    <2>15. Occurs(toks, <<l>> \o b, pos)
      BY <2>3
    <2> HIDE DEF b
    <2>4. /\ TypeAt(toks, pos) = l.t /\ pos + 1 \in 1 .. Len(toks) + 1
          /\ Occurs(toks, b, pos + 1) /\ Len(<<l>> \o b) = 1 + Len(b)
      BY <2>14, <2>15, OccursOne
    <2> DEFINE s == (pos + 1) + Len(t)
    <2>13. TypeAt(toks, pos) = "lparen"
      BY <1>0, <2>4
    <2>5. /\ s \in 1 .. Len(toks) + 1 /\ Occurs(toks, t, pos + 1) /\ Occurs(toks, <<r>>, s)
          /\ Len(b) = Len(t) + Len(<<r>>)
      BY <1>0, <2>2, <2>4, OccursParts, ZenonT(30) DEF b
    <2>6. s \in 1 .. Len(toks) /\ TypeAt(toks, s) = "rparen"
      <3> HIDE DEF s
      <3>1. Occurs(toks, <<r>> \o <<>>, s)
        BY <2>2, <2>5, Zenon
      <3> DEFINE e == <<>>
      <3>2. e \in Seq(Tokens) /\ Occurs(toks, <<r>> \o e, s) /\ s \in 1 .. Len(toks) + 1
        BY <2>2, <2>5, <3>1
      <3> HIDE DEF e
      <3>3. s \in 1 .. Len(toks) /\ TypeAt(toks, s) = r.t
        BY <2>14, <3>2, OccursOne
      <3> QED BY <1>0, <3>3
    <2>7. q = s + 1 /\ q \in pos + 1 .. Len(toks) + 1 /\ s \in 1 .. Len(toks) + 1
      <3>1. Len(<<r>>) = 1
        OBVIOUS
      <3>2. q = pos + (1 + (Len(t) + 1))
        BY <2>1, <2>2, <2>4, <2>5, <3>1 DEF b
      <3> QED BY <1>0, <2>6, <3>2
    <2>8. Stops(toks, s, LevelAfter(Level(node))) /\ Stops(toks, s, 0)
      BY <2>6 DEF Stops
    <2>9. IsRead(toks, node, pos + 1, s)
      BY <2>4, <2>5, <2>8 DEF Readable, t
    <2>10. parseExpression(toks, Parser(toks), pos + 1, 0) = Parsed(node, s)
      <3>1. 0 \in 0 .. 13 /\ 0 <= Level(node)
        BY Levels
      <3>2. Reads(toks, pos + 1, 0, node, s)
        BY <2>9, <3>1, Zenon DEF IsRead
      <3> QED BY <2>4, <2>8, <3>1, <3>2, EndsReading
    <2>11. parsePrimary(toks, Parser(toks), pos) = Parsed(node, q)
      <3>1. ~Threw(Parsed(node, s)) /\ Parsed(node, s).node = node /\ Parsed(node, s).pos = s
        BY <2>6 DEF Threw, Parsed
      <3> HIDE DEF s
      <3> QED BY <2>13, <2>6, <2>7, <2>10, <3>1 DEF parsePrimary
    <2>12. Called(Parser(toks), "unary", pos) = Parsed(node, q)
      BY <2>13, <2>7, <2>11, ReadsPrimary
    <2> QED BY <2>7, <2>12, ReadsUnary
  <1>2. CASE ~(Level(node) < level)
    <2>1. Placed(texts, node, level) = t
      BY <1>2 DEF Placed
    <2>2. LevelAfter(level) \in Nat /\ LevelAfter(Level(node)) \in Nat /\ LevelAfter(level) <= LevelAfter(Level(node))
          /\ level <= Level(node)
      <3>1. ASSUME NEW other \in 1 .. 15, ~(other < level)
            PROVE  LevelAfter(level) \in Nat /\ LevelAfter(other) \in Nat /\ LevelAfter(level) <= LevelAfter(other) /\ level <= other
        BY <3>1 DEF LevelAfter
      <3> QED BY <1>2, <3>1, Levels, Zenon
    <2>3. Stops(toks, q, LevelAfter(Level(node)))
      BY <2>2, StopsFor
    <2>4. IsRead(toks, node, pos, q)
      BY <2>1, <2>3 DEF Readable
    <2>5. /\ \A bp \in 0 .. 13 : bp <= level => bp <= Level(node)
          /\ level >= 14 => Level(node) >= 14
      <3>1. ASSUME NEW other \in 1 .. 15, level <= other
            PROVE  /\ \A bp \in 0 .. 13 : bp <= level => bp <= other
                   /\ level >= 14 => other >= 14
        BY <3>1
      <3> QED BY <2>2, <3>1, Levels, Zenon
    <2> QED BY <2>4, <2>5, Zenon DEF IsRead
  <1> QED BY <1>1, <1>2

\* A unary operator and what follows it.
LEMMA UnaryReadable ==
  ASSUME NEW toks \in Seq(Tokens), NEW op \in UnaryOps, NEW m, IsText(texts[m]), Readable(toks, m),
         texts[Unary(op, m)] = <<Op(op)>> \o Placed(texts, m, 14)
  PROVE  Readable(toks, Unary(op, m))
  <1> DEFINE node == Unary(op, m)
             t == Placed(texts, m, 14)
             x == Op(op)
  <1>0. /\ Len(toks) \in Nat /\ t \in Seq(Tokens) /\ x \in Tokens /\ x.t = "op" /\ x.v = op
        /\ Level(node) = 14 /\ LevelAfter(14) = 15 /\ Len(t) \in Nat
    <2>1. t \in Seq(Tokens)
      BY PlacedIsText DEF IsText
    <2>2. node[1] = "unary"
      BY DEF Unary
    <2>3. Level(node) = 14 /\ LevelAfter(14) = 15
      BY <2>2, Levels DEF LevelAfter
    <2>4. Len(toks) \in Nat /\ Len(t) \in Nat
      BY <2>1, SeqIs, Zenon
    <2>5. x \in Tokens /\ x.t = "op" /\ x.v = op
      BY TokensAre
    <2> QED BY <2>1, <2>3, <2>4, <2>5
  <1>1. texts[node] = <<x>> \o t
    OBVIOUS
  <1> HIDE DEF node, t, x
  <1> SUFFICES ASSUME NEW pos \in 1 .. Len(toks) + 1, Occurs(toks, <<x>> \o t, pos),
                      NEW q, q = pos + Len(<<x>> \o t), Stops(toks, q, 15)
               PROVE  IsRead(toks, node, pos, q)
    BY <1>0, <1>1 DEF Readable, node
  <1>2. /\ pos \in 1 .. Len(toks) /\ toks[pos] = x /\ TypeAt(toks, pos) = "op"
        /\ pos + 1 \in 1 .. Len(toks) + 1
        /\ Occurs(toks, t, pos + 1) /\ Len(<<x>> \o t) = 1 + Len(t)
    BY <1>0, OccursOne
  <1>3. q = (pos + 1) + Len(t)
    BY <1>0, <1>2
  <1>4. /\ q \in (pos + 1) + 1 .. Len(toks) + 1
        /\ Called(Parser(toks), "unary", pos + 1) = Parsed(m, q)
    <2>1. 14 \in 0 .. 15 /\ 14 >= 14
      OBVIOUS
    <2>2. Stops(toks, q, LevelAfter(14))
      BY <1>0
    <2> QED BY <1>2, <1>3, <2>1, <2>2, PlacedIsRead, ZenonT(30) DEF t
  <1>5. Called(Parser(toks), "unary", pos) = parseUnary(toks, Parser(toks), pos)
    BY ParserDoes
  <1>6. parseUnary(toks, Parser(toks), pos) = Parsed(node, q)
    <2>1. IsOp(toks, pos, UnaryOps) /\ toks[pos].v = op
      BY <1>0, <1>2 DEF IsOp
    <2>2. ~Threw(Parsed(m, q)) /\ Parsed(m, q).node = m /\ Parsed(m, q).pos = q
      BY <1>0, <1>4 DEF Threw, Parsed
    <2> QED BY <1>4, <2>1, <2>2 DEF parseUnary, node
  <1>7. q \in pos + 1 .. Len(toks) + 1
    BY <1>0, <1>4
  <1> QED BY <1>5, <1>6, <1>7, UnaryIsRead

\* A token between two texts.
LEMMA OccursBetween ==
  ASSUME NEW toks \in Seq(Tokens), NEW a \in Seq(Tokens), NEW x \in Tokens, NEW b \in Seq(Tokens),
         NEW pos \in 1 .. Len(toks) + 1, Occurs(toks, a \o <<x>> \o b, pos),
         NEW q, q = pos + Len(a)
  PROVE  /\ Occurs(toks, a, pos)
         /\ q \in 1 .. Len(toks) /\ toks[q] = x /\ TypeAt(toks, q) = x.t
         /\ q + 1 \in 1 .. Len(toks) + 1 /\ Occurs(toks, b, q + 1)
         /\ pos + Len(a \o <<x>> \o b) = (q + 1) + Len(b)
  <1> DEFINE c == <<x>> \o b
  <1>1. c \in Seq(Tokens) /\ a \o <<x>> \o b = a \o c
    OBVIOUS
  <1>2. Occurs(toks, c, q) /\ q \in 1 .. Len(toks) + 1
    <2>1. Occurs(toks, a \o c, pos)
      BY <1>1
    <2> HIDE DEF c
    <2> QED BY <1>1, <2>1, OccursParts
  <1>3. Occurs(toks, a, pos) /\ Len(a \o c) = Len(a) + Len(c)
    <2>1. Occurs(toks, a \o c, pos)
      BY <1>1
    <2> HIDE DEF c
    <2> QED BY <1>1, <2>1, OccursParts
  <1>4. /\ q \in 1 .. Len(toks) /\ toks[q] = x /\ TypeAt(toks, q) = x.t
        /\ q + 1 \in 1 .. Len(toks) + 1 /\ Occurs(toks, b, q + 1) /\ Len(c) = 1 + Len(b)
    BY <1>2, OccursOne
  <1>5. Len(a) \in Nat /\ Len(b) \in Nat /\ pos \in Int
    BY SeqIs
  <1>6. pos + Len(a \o c) = (q + 1) + Len(b)
    <2> HIDE DEF c
    <2> QED BY <1>3, <1>4, <1>5
  <1> QED BY <1>1, <1>3, <1>4, <1>6

\* A binary operator between its operands: the left one may be of its own level.
LEMMA BinReadable ==
  ASSUME NEW toks \in Seq(Tokens), NEW op \in BinaryOps,
         NEW left, IsText(texts[left]), Readable(toks, left),
         NEW right, IsText(texts[right]), Readable(toks, right),
         NEW node, node = Bin(op, left, right),
         texts[node] = Placed(texts, left, Level(node)) \o <<Op(op)>> \o Placed(texts, right, Level(node) + 1)
  PROVE  Readable(toks, node)
  <1>0. EndsWhereNothingGoesOn(toks, right)
    BY ReadingEnds
  <1> DEFINE L == Level(node)
             a == Placed(texts, left, L)
             b == Placed(texts, right, L + 1)
             x == Op(op)
  <1>1. L \in 2 .. 12 /\ L = bindsLeft(op)
    <2>1. node[1] = "bin" /\ node[2] = op
      BY DEF Bin
    <2> QED BY <2>1, Levels
  <1>2. a \in Seq(Tokens) /\ b \in Seq(Tokens) /\ Len(a) \in Nat /\ Len(b) \in Nat
    <2>1. a \in Seq(Tokens) /\ b \in Seq(Tokens)
      BY PlacedIsText DEF IsText
    <2> QED BY <2>1, SeqIs, Zenon
  <1>3. x \in Tokens /\ x.t = "op" /\ x.v = op
    BY TokensAre
  <1> HIDE DEF L, a, b, x
  <1> SUFFICES ASSUME NEW pos \in 1 .. Len(toks) + 1, Occurs(toks, a \o <<x>> \o b, pos),
                      NEW r, r = pos + Len(a \o <<x>> \o b), Stops(toks, r, LevelAfter(L))
               PROVE  IsRead(toks, node, pos, r)
    BY Zenon DEF Readable, L, a, b, x
  <1> DEFINE q == pos + Len(a)
  <1>4. /\ Occurs(toks, a, pos)
        /\ q \in 1 .. Len(toks) /\ toks[q] = x /\ TypeAt(toks, q) = x.t
        /\ q + 1 \in 1 .. Len(toks) + 1 /\ Occurs(toks, b, q + 1)
        /\ r = (q + 1) + Len(b)
    BY <1>2, <1>3, OccursBetween
  <1>5. Len(toks) \in Nat
    BY SeqIs
  <1>6. LevelAfter(L) = L + 1 /\ L \in 0 .. 15 /\ L + 1 \in 0 .. 15 /\ L + 1 \in 0 .. 13 /\ LevelAfter(L + 1) = L + 2
    <2>1. ASSUME NEW l \in 2 .. 12
          PROVE  LevelAfter(l) = l + 1 /\ l \in 0 .. 15 /\ l + 1 \in 0 .. 15 /\ l + 1 \in 0 .. 13 /\ LevelAfter(l + 1) = l + 2
      BY DEF LevelAfter
    <2> QED BY <1>1, <2>1
  <1>7. TypeAt(toks, q) = "op" /\ toks[q].v = op
    BY <1>3, <1>4
  <1> HIDE DEF q
  <1>8. Stops(toks, q, LevelAfter(L))
    BY <1>1, <1>6, <1>7 DEF Stops
  <1>9. \A bp \in 0 .. 13 : bp <= L => Reads(toks, pos, bp, left, q)
    BY <1>4, <1>6, <1>8, PlacedIsRead, Zenon DEF a, q
  <1>10. /\ r \in (q + 1) + 1 .. Len(toks) + 1
         /\ Reads(toks, q + 1, L + 1, right, r)
    <2>1. Stops(toks, r, LevelAfter(L + 1))
      <3>1. L + 1 \in Nat /\ L + 2 \in Nat /\ L + 1 <= L + 2
        BY <1>1, SMTT(30)
      <3> QED BY <1>6, <3>1, StopsFor
    <2>2. /\ r \in (q + 1) + 1 .. Len(toks) + 1
          /\ \A bp \in 0 .. 13 : bp <= L + 1 => Reads(toks, q + 1, bp, right, r)
      BY <1>4, <1>6, <2>1, PlacedIsRead, Zenon DEF b
    <2>3. L + 1 <= L + 1
      BY <1>1
    <2> QED BY <1>6, <2>2, <2>3
  <1>11. parseExpression(toks, Parser(toks), q + 1, bindsRight(toks[q].v)) = Parsed(right, r)
    <2>1. bindsRight(toks[q].v) = L + 1
      BY <1>1, <1>7, BindingPowers
    <2>2. Stops(toks, r, L + 1)
      BY <1>6
    <2>3. PICK k \in 0 .. 13 : k = L + 1
      BY <1>6
    <2>4. Reads(toks, q + 1, k, right, r) /\ Stops(toks, r, k) /\ q + 1 \in 1 .. Len(toks) + 1
      BY <1>4, <1>10, <2>2, <2>3
    <2>5. parseExpression(toks, Parser(toks), q + 1, k) = Parsed(right, r)
      BY <1>0, <2>4 DEF EndsWhereNothingGoesOn
    <2> QED BY <2>1, <2>3, <2>5
  <1>12. ASSUME NEW bp \in 0 .. 13, bp <= L
         PROVE  Reads(toks, pos, bp, node, r)
    <2>1. r \in q + 2 .. Len(toks) + 1
      BY <1>4, <1>5, <1>10
    <2>2. bindsLeft(toks[q].v) >= 0 /\ bindsLeft(toks[q].v) >= bp
      BY <1>1, <1>7, <1>12
    <2>3. Reads(toks, pos, bp, left, q)
      BY <1>9, <1>12
    <2>4. Reads(toks, pos, bp, Bin(toks[q].v, left, right), r)
      BY <1>7, <1>11, <2>1, <2>2, <2>3, ReadsBin
    <2> QED BY <1>7, <2>4
  <1>13. r \in pos + 1 .. Len(toks) + 1
    BY <1>2, <1>4, <1>5, <1>10 DEF q
  <1>14. ~(L >= 14)
    BY <1>1
  <1> QED BY <1>12, <1>13, <1>14 DEF IsRead, L

\* The order in which sequences are put together does not matter.
Associate(f, g, h) == (f \o g) \o h = f \o (g \o h)
Regroup(a, b, c, d, e) == a \o b \o c \o d \o e = a \o b \o (c \o d \o e)

\* Of three
LEMMA ThreeAssociate ==
  ASSUME NEW S, NEW f \in Seq(S), NEW g \in Seq(S), NEW h \in Seq(S)
  PROVE  Associate(f, g, h)
  BY ConcatAssociative DEF Associate

\* or of five.
LEMMA FiveAssociate ==
  ASSUME NEW S, NEW a \in Seq(S), NEW b \in Seq(S), NEW c \in Seq(S), NEW d \in Seq(S), NEW e \in Seq(S)
  PROVE  Regroup(a, b, c, d, e)
  <1> DEFINE u == a \o b
             v == u \o c
             w == d \o e
  <1>1. u \in Seq(S)
    OBVIOUS
  <1>2. w \in Seq(S)
    OBVIOUS
  <1>3. v \in Seq(S)
    <2> HIDE DEF u
    <2> QED BY <1>1
  <1> HIDE DEF u, v, w
  <1>4. Associate(u, c, w)
    BY <1>1, <1>2, ThreeAssociate
  <1>5. Associate(c, d, e)
    BY ThreeAssociate
  <1>6. Associate(v, d, e)
    BY <1>3, ThreeAssociate
  <1> QED BY <1>4, <1>5, <1>6, Zenon DEF u, v, w, Associate, Regroup

\* A conditional: what it is of may be no conditional, what follows the colon may be one.
LEMMA CondReadable ==
  ASSUME NEW toks \in Seq(Tokens),
         NEW test, IsText(texts[test]), Readable(toks, test),
         NEW then, IsText(texts[then]), Readable(toks, then),
         NEW else, IsText(texts[else]), Readable(toks, else),
         NEW node, node = Cond(test, then, else),
         texts[node] = Placed(texts, test, 2) \o <<Mark("qmark")>> \o Placed(texts, then, 0)
                         \o <<Mark("colon")>> \o Placed(texts, else, 1)
  PROVE  Readable(toks, node)
  <1>0. EndsWhereNothingGoesOn(toks, then) /\ EndsWhereNothingGoesOn(toks, else)
    BY ReadingEnds
  <1> DEFINE a == Placed(texts, test, 2)
             b == Placed(texts, then, 0)
             c == Placed(texts, else, 1)
             x == Mark("qmark")
             y == Mark("colon")
             d == b \o <<y>> \o c
  <1>1. Level(node) = 1 /\ LevelAfter(1) = 1 /\ LevelAfter(0) = 1 /\ LevelAfter(2) = 3
    <2>1. node[1] = "cond"
      BY DEF Cond
    <2> QED BY <2>1, Levels DEF LevelAfter
  <1>2. /\ a \in Seq(Tokens) /\ b \in Seq(Tokens) /\ c \in Seq(Tokens)
        /\ Len(a) \in Nat /\ Len(b) \in Nat /\ Len(c) \in Nat
    <2>1. a \in Seq(Tokens) /\ b \in Seq(Tokens) /\ c \in Seq(Tokens)
      BY PlacedIsText DEF IsText
    <2> QED BY <2>1, SeqIs, Zenon
  <1>3. x \in Tokens /\ x.t = "qmark" /\ y \in Tokens /\ y.t = "colon"
    BY TokensAre
  <1>4. texts[node] = a \o <<x>> \o b \o <<y>> \o c
    OBVIOUS
  <1> HIDE DEF a, b, c, x, y
  <1>5. d \in Seq(Tokens)
    BY <1>2, <1>3
  <1>18. a \o <<x>> \o b \o <<y>> \o c = a \o <<x>> \o d
    <2> DEFINE u == <<x>>
               v == <<y>>
    <2>1. u \in Seq(Tokens) /\ v \in Seq(Tokens)
      BY <1>3
    <2> HIDE DEF u, v, d
    <2>2. Regroup(a, u, b, v, c)
      BY <1>2, <2>1, FiveAssociate
    <2> QED BY <2>2, Zenon DEF Regroup, u, v, d
  <1> HIDE DEF d
  <1> SUFFICES ASSUME NEW pos \in 1 .. Len(toks) + 1, Occurs(toks, a \o <<x>> \o d, pos),
                      NEW s, s = pos + Len(a \o <<x>> \o d), Stops(toks, s, 1)
               PROVE  IsRead(toks, node, pos, s)
    BY <1>1, <1>4, <1>18, Zenon DEF Readable
  <1> DEFINE q == pos + Len(a)
             r == (q + 1) + Len(b)
  <1>6. /\ Occurs(toks, a, pos)
        /\ q \in 1 .. Len(toks) /\ TypeAt(toks, q) = x.t
        /\ q + 1 \in 1 .. Len(toks) + 1 /\ Occurs(toks, d, q + 1)
        /\ s = (q + 1) + Len(d)
    <2>1. x \in Tokens
      BY <1>3
    <2> QED BY <1>2, <1>5, <2>1, OccursBetween
  <1> HIDE DEF q
  <1>7. /\ Occurs(toks, b, q + 1)
        /\ r \in 1 .. Len(toks) /\ TypeAt(toks, r) = y.t
        /\ r + 1 \in 1 .. Len(toks) + 1 /\ Occurs(toks, c, r + 1)
        /\ s = (r + 1) + Len(c)
    <2>1. Occurs(toks, b \o <<y>> \o c, q + 1) /\ s = (q + 1) + Len(b \o <<y>> \o c)
      BY <1>6 DEF d
    <2>2. y \in Tokens /\ q + 1 \in 1 .. Len(toks) + 1
      BY <1>3, <1>6
    <2> QED BY <1>2, <2>1, <2>2, OccursBetween, SMTT(30)
  <1>8. TypeAt(toks, q) = "qmark" /\ TypeAt(toks, r) = "colon"
    BY <1>3, <1>6, <1>7
  <1> HIDE DEF r
  <1>9. Stops(toks, q, LevelAfter(2)) /\ Stops(toks, r, LevelAfter(0)) /\ Stops(toks, r, 0) /\ Stops(toks, s, LevelAfter(1))
    BY <1>1, <1>8 DEF Stops
  <1>10. 0 \in 0 .. 15 /\ 1 \in 0 .. 15 /\ 2 \in 0 .. 15 /\ 0 \in 0 .. 13 /\ 1 \in 0 .. 13 /\ 0 <= 0 /\ 1 <= 1
    OBVIOUS
  <1>11. \A bp \in 0 .. 13 : bp <= 2 => Reads(toks, pos, bp, test, q)
    BY <1>6, <1>9, <1>10, PlacedIsRead, Zenon DEF a, q
  <1>12. /\ r \in (q + 1) + 1 .. Len(toks) + 1
         /\ Reads(toks, q + 1, 0, then, r)
    BY <1>6, <1>7, <1>9, <1>10, PlacedIsRead, Zenon DEF b, r
  <1>13. /\ s \in (r + 1) + 1 .. Len(toks) + 1
         /\ Reads(toks, r + 1, 1, else, s)
    BY <1>7, <1>9, <1>10, PlacedIsRead, Zenon DEF c
  <1>14. /\ parseExpression(toks, Parser(toks), q + 1, 0) = Parsed(then, r)
         /\ parseExpression(toks, Parser(toks), r + 1, 1) = Parsed(else, s)
    <2>1. parseExpression(toks, Parser(toks), q + 1, 0) = Parsed(then, r)
      BY <1>0, <1>6, <1>9, <1>10, <1>12, Zenon DEF EndsWhereNothingGoesOn
    <2>2. parseExpression(toks, Parser(toks), r + 1, 1) = Parsed(else, s)
      BY <1>0, <1>7, <1>10, <1>13, Zenon DEF EndsWhereNothingGoesOn
    <2> QED BY <2>1, <2>2
  <1>15. Len(toks) \in Nat
    BY SeqIs
  <1>16. /\ r \in q + 2 .. Len(toks) + 1 /\ s \in r + 2 .. Len(toks) + 1 /\ s \in pos + 1 .. Len(toks) + 1
    <2>1. pos \in Int /\ q = pos + Len(a) /\ Len(a) \in Nat
      BY <1>2 DEF q
    <2>2. q \in 1 .. Len(toks) /\ r \in (q + 1) + 1 .. Len(toks) + 1 /\ s \in (r + 1) + 1 .. Len(toks) + 1
      BY <1>6, <1>12, <1>13
    <2> QED BY <1>15, <2>1, <2>2
  <1>17. ASSUME NEW bp \in 0 .. 13, bp <= 1
         PROVE  Reads(toks, pos, bp, node, s)
    <2>1. bp \in 0 .. 1 /\ bp <= 2
      BY <1>17
    <2>2. Reads(toks, pos, bp, test, q)
      BY <1>11, <2>1
    <2> QED BY <1>8, <1>14, <1>16, <2>1, <2>2, ReadsCond
  <1> QED BY <1>1, <1>16, <1>17 DEF IsRead

\* A token that is a tree by itself.
LEMMA OneReadable ==
  ASSUME NEW toks \in Seq(Tokens), NEW node, NEW x \in Tokens, texts[node] = <<x>>,
         \/ x.t \in {"num", "bool", "nil"} /\ node = <<x.t, x.v, <<>>>>
         \/ x.t = "ident" /\ node = Ref(x.v)
  PROVE  Readable(toks, node)
  <1> DEFINE e == <<>>
  <1>1. <<x>> = <<x>> \o e
    OBVIOUS
  <1>10. e \in Seq(Tokens)
    OBVIOUS
  <1>2. Len(toks) \in Nat
    BY SeqIs
  <1> HIDE DEF e
  <1>3. Len(<<x>> \o e) = 1
    <2>1. Len(<<x>>) = 1
      OBVIOUS
    <2> QED BY <1>1, <2>1
  <1> SUFFICES ASSUME NEW pos \in 1 .. Len(toks) + 1, Occurs(toks, <<x>> \o e, pos),
                      Stops(toks, pos + 1, LevelAfter(Level(node)))
               PROVE  IsRead(toks, node, pos, pos + 1)
    BY <1>1, <1>3 DEF Readable
  <1>4. /\ pos \in 1 .. Len(toks) /\ toks[pos] = x /\ TypeAt(toks, pos) = x.t
        /\ pos + 1 \in 1 .. Len(toks) + 1
    BY <1>10, OccursOne
  <1>5. TypeAt(toks, pos + 1) # "lparen"
    BY DEF Stops
  <1>6. parsePrimary(toks, Parser(toks), pos) = Parsed(node, pos + 1)
    <2>1. CASE x.t \in {"num", "bool", "nil"} /\ node = <<x.t, x.v, <<>>>>
      BY <1>4, <2>1, Zenon DEF parsePrimary
    <2>2. CASE x.t = "ident" /\ node = Ref(x.v)
      BY <1>4, <1>5, <2>2 DEF parsePrimary
    <2> QED BY <2>1, <2>2
  <1>7. TypeAt(toks, pos) # "op"
    BY <1>4
  <1>8. pos + 1 \in pos + 1 .. Len(toks) + 1
    BY <1>2, <1>4
  <1>9. Called(Parser(toks), "unary", pos) = Parsed(node, pos + 1)
    BY <1>6, <1>7, <1>8, ReadsPrimary
  <1> QED BY <1>8, <1>9, UnaryIsRead

\* The arguments of a call are read where they are written before a closing parenthesis.
ArgsReadable(toks, args) ==
    \A pos \in 1 .. Len(toks) + 1 : \A r \in Int :
       /\ Occurs(toks, Listed(texts, args), pos)
       /\ r = pos + Len(Listed(texts, args)) /\ TypeAt(toks, r) = "rparen"
       => /\ Called(Parser(toks), "args", pos) = Parsed(args, r)
          /\ r \in pos + 1 .. Len(toks) + 1
          /\ TypeAt(toks, pos) # "rparen"

\* A text does not start with a closing parenthesis where it occurs either.
LEMMA FirstOfText ==
  ASSUME NEW toks \in Seq(Tokens), NEW t, IsText(t), NEW pos \in 1 .. Len(toks) + 1, Occurs(toks, t, pos)
  PROVE  TypeAt(toks, pos) # "rparen"
  <1>1. t \in Seq(Tokens) /\ Len(t) \in Nat /\ Len(t) >= 1 /\ t[1].t # "rparen" /\ Len(toks) \in Nat
    BY SeqIs DEF IsText
  <1>2. /\ pos + Len(t) <= Len(toks) + 1
        /\ \A i \in 1 .. Len(t) : toks[(pos - 1) + i] = t[i]
    BY DEF Occurs
  <1>3. 1 \in 1 .. Len(t) /\ (pos - 1) + 1 = pos /\ pos <= Len(toks)
    BY <1>1, <1>2
  <1> QED BY <1>1, <1>2, <1>3 DEF TypeAt

\* An argument where it is written before a comma or a closing parenthesis.
LEMMA ArgIsRead ==
  ASSUME NEW toks \in Seq(Tokens), NEW node, IsText(texts[node]), Readable(toks, node),
         NEW pos \in 1 .. Len(toks) + 1, Occurs(toks, Placed(texts, node, 0), pos),
         NEW q, q = pos + Len(Placed(texts, node, 0)), TypeAt(toks, q) \in {"comma", "rparen"}
  PROVE  /\ q \in pos + 1 .. Len(toks) + 1
         /\ parseExpression(toks, Parser(toks), pos, 0) = Parsed(node, q)
         /\ TypeAt(toks, pos) # "rparen"
  <1>1. Stops(toks, q, 0) /\ Stops(toks, q, LevelAfter(0))
    BY DEF Stops
  <1>2. 0 \in 0 .. 15 /\ 0 \in 0 .. 13 /\ 0 <= 0
    OBVIOUS
  <1>3. q \in pos + 1 .. Len(toks) + 1 /\ Reads(toks, pos, 0, node, q)
    BY <1>1, <1>2, PlacedIsRead, Zenon
  <1>4. parseExpression(toks, Parser(toks), pos, 0) = Parsed(node, q)
    BY <1>1, <1>2, <1>3, EndsReading
  <1>5. IsText(Placed(texts, node, 0))
    BY PlacedIsText, Zenon
  <1> QED BY <1>3, <1>4, <1>5, FirstOfText

\* Arguments are read as long as each of them is, wherever it is written.
LEMMA ArgsAreReadable ==
  ASSUME NEW toks \in Seq(Tokens), NEW S, \A m \in S : IsText(texts[m]) /\ Readable(toks, m),
         NEW args \in Seq(S), Len(args) >= 1
  PROVE  ArgsReadable(toks, args)
  <1> DEFINE P == {k \in Nat : \A xs \in Seq(S) : Len(xs) = k /\ k >= 1 => ArgsReadable(toks, xs)}
             p == Parser(toks)
  <1>1. ASSUME NEW k \in Nat, \A j \in 0 .. k - 1 : j \in P
        PROVE  k \in P
    <2> SUFFICES ASSUME NEW xs \in Seq(S), Len(xs) = k, k >= 1,
                        NEW pos \in 1 .. Len(toks) + 1, NEW r \in Int,
                        Occurs(toks, Listed(texts, xs), pos),
                        r = pos + Len(Listed(texts, xs)), TypeAt(toks, r) = "rparen"
                 PROVE  /\ Called(p, "args", pos) = Parsed(xs, r)
                        /\ r \in pos + 1 .. Len(toks) + 1
                        /\ TypeAt(toks, pos) # "rparen"
      BY DEF ArgsReadable
    <2> DEFINE x == xs[1]
               rest == Tail(xs)
               t == Placed(texts, x, 0)
               u == Listed(texts, rest)
               c == Mark("comma")
    <2>1. /\ x \in S /\ rest \in Seq(S) /\ Len(rest) = Len(xs) - 1 /\ xs = <<x>> \o rest
      BY SeqOfFirst, Zenon
    <2>2. IsText(texts[x]) /\ Readable(toks, x)
      BY <2>1
    <2>3. t \in Seq(Tokens) /\ Len(t) \in Nat
      <3>1. t \in Seq(Tokens)
        BY <2>2, PlacedIsText DEF IsText
      <3> HIDE DEF t
      <3> QED BY <3>1, SeqIs, Zenon
    <2>4. \A m \in S : IsText(texts[m])
      OBVIOUS
    <2>5. Called(p, "args", pos) = parseArgs(toks, p, pos)
      BY ParserDoes
    <2>6. Len(toks) \in Nat
      BY SeqIs
    <2>7. CASE k = 1
      <3>1. Listed(texts, xs) = t
        BY <2>4, <2>7, ListedIs
      <3>2. Occurs(toks, t, pos) /\ r = pos + Len(t) /\ TypeAt(toks, r) \in {"comma", "rparen"}
        BY <3>1
      <3>3. /\ r \in pos + 1 .. Len(toks) + 1
            /\ parseExpression(toks, p, pos, 0) = Parsed(x, r)
            /\ TypeAt(toks, pos) # "rparen"
        BY <2>2, <3>2, ArgIsRead
      <3>4. ~Threw(Parsed(x, r)) /\ Parsed(x, r).pos = r /\ Parsed(x, r).node = x
        BY <2>6, <3>3 DEF Threw, Parsed
      <3>5. xs = <<x>>
        BY <2>7
      <3> HIDE DEF x, p
      <3>6. parseArgs(toks, p, pos) = Parsed(<<x>>, r)
        BY <3>3, <3>4 DEF parseArgs
      <3> QED BY <2>5, <3>3, <3>5, <3>6
    <2>8. CASE k # 1
      <3>1. Len(xs) > 1 /\ Len(rest) = k - 1 /\ k - 1 \in 0 .. k - 1 /\ k - 1 >= 1
        BY <2>1, <2>8
      <3>2. ArgsReadable(toks, rest)
        <4> HIDE DEF rest
        <4>1. k - 1 \in P
          BY <1>1, <3>1
        <4> QED BY <2>1, <3>1, <4>1
      <3>3. Listed(texts, xs) = t \o <<c>> \o u
        BY <2>4, <3>1, ListedIs
      <3>4. u \in Seq(Tokens) /\ c \in Tokens /\ c.t = "comma"
        BY <2>1, <2>4, ListedIs, TokensAre
      <3> DEFINE q == pos + Len(t)
      <3> HIDE DEF x, rest, t, u, c, p
      <3>5. /\ Occurs(toks, t, pos)
            /\ q \in 1 .. Len(toks) /\ TypeAt(toks, q) = c.t
            /\ q + 1 \in 1 .. Len(toks) + 1 /\ Occurs(toks, u, q + 1)
            /\ pos + Len(t \o <<c>> \o u) = (q + 1) + Len(u)
        <4>1. Occurs(toks, t \o <<c>> \o u, pos) /\ c \in Tokens /\ u \in Seq(Tokens)
          BY <3>3, <3>4
        <4> QED BY <2>3, <4>1, OccursBetween, SMTT(30)
      <3>6. r = (q + 1) + Len(u) /\ TypeAt(toks, q) = "comma"
        BY <3>3, <3>4, <3>5
      <3> HIDE DEF q
      <3>7. /\ q \in pos + 1 .. Len(toks) + 1
            /\ parseExpression(toks, p, pos, 0) = Parsed(x, q)
            /\ TypeAt(toks, pos) # "rparen"
        <4>1. q = pos + Len(Placed(texts, x, 0)) /\ Occurs(toks, Placed(texts, x, 0), pos)
          BY <3>5 DEF q, t
        <4> QED BY <2>2, <3>6, <4>1, ArgIsRead DEF p
      <3>8. /\ Called(p, "args", q + 1) = Parsed(rest, r)
            /\ r \in (q + 1) + 1 .. Len(toks) + 1
        BY <3>2, <3>5, <3>6, Zenon DEF ArgsReadable, p, u
      <3>9. /\ ~Threw(Parsed(x, q)) /\ Parsed(x, q).pos = q /\ Parsed(x, q).node = x
            /\ ~Threw(Parsed(rest, r)) /\ Parsed(rest, r).pos = r /\ Parsed(rest, r).node = rest
        BY <2>6, <3>5, <3>7, <3>8 DEF Threw, Parsed
      <3>10. parseArgs(toks, p, pos) = Parsed(<<x>> \o rest, r)
        BY <3>6, <3>7, <3>8, <3>9 DEF parseArgs
      <3>11. r \in pos + 1 .. Len(toks) + 1
        BY <2>6, <3>5, <3>7, <3>8
      <3> QED BY <2>1, <2>5, <3>7, <3>10, <3>11
    <2> QED BY <2>7, <2>8
  <1>2. Len(args) \in P
    <2>1. Nat \subseteq P
      <3> HIDE DEF P
      <3> QED BY <1>1, StrongInduction
    <2>2. Len(args) \in Nat
      BY SeqIs
    <2> QED BY <2>1, <2>2
  <1> QED BY <1>2

\* A call.
LEMMA CallReadable ==
  ASSUME NEW toks \in Seq(Tokens), NEW S, \A m \in S : IsText(texts[m]) /\ Readable(toks, m),
         NEW name \in STRING, NEW args \in Seq(S), NEW node, node = Call(name, args),
         texts[node] = <<Token("ident", name), Mark("lparen")>> \o Listed(texts, args) \o <<Mark("rparen")>>
  PROVE  Readable(toks, node)
  <1> DEFINE x == Token("ident", name)
             l == Mark("lparen")
             r == Mark("rparen")
             u == Listed(texts, args)
             e == <<>>
             d == u \o <<r>> \o e
             c == <<l>> \o d
             p == Parser(toks)
  <1>1. /\ x \in Tokens /\ l \in Tokens /\ r \in Tokens
        /\ x.t = "ident" /\ x.v = name /\ l.t = "lparen" /\ r.t = "rparen"
    BY TokensAre
  <1>2. \A m \in S : IsText(texts[m])
    OBVIOUS
  <1>3. u \in Seq(Tokens) /\ (Len(args) = 0 => u = <<>>)
    BY <1>2, ListedIs
  <1>4. texts[node] = <<x, l>> \o u \o <<r>>
    OBVIOUS
  <1>18. Len(toks) \in Nat /\ Len(args) \in Nat
    BY SeqIs
  <1>19. Len(args) = 0 => args = <<>>
    OBVIOUS
  <1> HIDE DEF x, l, r, u
  <1>5. d \in Seq(Tokens) /\ c \in Seq(Tokens) /\ e \in Seq(Tokens) /\ Len(e) = 0
    BY <1>1, <1>3
  <1>6. <<x, l>> \o u \o <<r>> = <<x>> \o c
    <2> DEFINE v == u \o <<r>>
    <2>1. v \in Seq(Tokens) /\ v \o e = v
      BY <1>1, <1>3
    <2>2. <<x, l>> \o u \o <<r>> = <<x, l>> \o v
      BY <1>1, <1>3
    <2>3. c = <<l>> \o v
      BY <2>1
    <2> HIDE DEF v, c
    <2>4. <<x, l>> \o v = <<x>> \o (<<l>> \o v)
      <3>1. v \in Seq(Tokens) /\ x \in Tokens /\ l \in Tokens
        BY <1>1, <2>1
      <3>2. <<x, l>> = <<x>> \o <<l>>
        <4> DEFINE y == <<x>> \o <<l>>
                   z == <<x, l>>
        <4>1. y \in Seq(Tokens) /\ Len(y) = 2 /\ y[1] = x /\ y[2] = l
          BY <3>1
        <4>2. z \in Seq(Tokens) /\ Len(z) = 2 /\ z[1] = x /\ z[2] = l
          BY <3>1
        <4> HIDE DEF y, z
        <4>3. \A i \in 1 .. Len(z) : z[i] = y[i]
          BY <4>1, <4>2
        <4>4. z = y
          BY <4>1, <4>2, <4>3, SeqSame
        <4> QED BY <4>4 DEF y, z
      <3>3. <<x>> \in Seq(Tokens) /\ <<l>> \in Seq(Tokens)
        BY <3>1
      <3>4. (<<x>> \o <<l>>) \o v = <<x>> \o (<<l>> \o v)
        <4>1. \A a \in Seq(Tokens) : \A b \in Seq(Tokens) : (a \o b) \o v = a \o (b \o v)
          BY <3>1, ConcatAssociative, SMTT(30)
        <4> QED BY <3>3, <4>1, Zenon
      <3> QED BY <3>2, <3>4, Zenon
    <2> QED BY <2>2, <2>3, <2>4
  <1> HIDE DEF e, d, c, p
  <1> SUFFICES ASSUME NEW pos \in 1 .. Len(toks) + 1, Occurs(toks, <<x>> \o c, pos),
                      NEW s, s = pos + Len(<<x>> \o c)
               PROVE  IsRead(toks, node, pos, s)
    BY <1>4, <1>6, Zenon DEF Readable
  <1>7. /\ pos \in 1 .. Len(toks) /\ toks[pos] = x /\ TypeAt(toks, pos) = x.t
        /\ pos + 1 \in 1 .. Len(toks) + 1
        /\ Occurs(toks, c, pos + 1) /\ Len(<<x>> \o c) = 1 + Len(c)
    <2>1. x \in Tokens /\ c \in Seq(Tokens)
      BY <1>1, <1>5
    <2> QED BY <2>1, OccursOne
  <1>8. /\ pos + 1 \in 1 .. Len(toks) /\ TypeAt(toks, pos + 1) = l.t
        /\ (pos + 1) + 1 \in 1 .. Len(toks) + 1
        /\ Occurs(toks, d, (pos + 1) + 1) /\ Len(c) = 1 + Len(d)
    <2>1. l \in Tokens /\ d \in Seq(Tokens) /\ pos + 1 \in 1 .. Len(toks) + 1 /\ Occurs(toks, <<l>> \o d, pos + 1)
      BY <1>1, <1>5, <1>7 DEF c
    <2> QED BY <2>1, OccursOne DEF c
  <1> DEFINE from == pos + 2
             q == from + Len(u)
  <1>9. (pos + 1) + 1 = from
    OBVIOUS
  <1>10. /\ Occurs(toks, u, from)
         /\ q \in 1 .. Len(toks) /\ TypeAt(toks, q) = r.t
         /\ from + Len(d) = (q + 1) + Len(e)
    <2>1. from \in 1 .. Len(toks) + 1 /\ Occurs(toks, u \o <<r>> \o e, from) /\ r \in Tokens /\ e \in Seq(Tokens)
      BY <1>1, <1>5, <1>8, <1>9 DEF d
    <2>2. u \in Seq(Tokens)
      BY <1>3
    <2> HIDE DEF from
    <2> QED BY <2>1, <2>2, OccursBetween, SMTT(30) DEF d
  <1>11. Len(c) \in Nat /\ Len(d) \in Nat /\ Len(u) \in Nat
    BY <1>3, <1>5, SeqIs, Zenon
  <1>12. s = q + 1
    <2>1. s = pos + (1 + (1 + Len(d)))
      BY <1>7, <1>8
    <2>2. from + Len(d) = q + 1
      <3>1. Len(e) = 0
        BY <1>5
      <3> HIDE DEF q, from
      <3> QED BY <1>10, <3>1
    <2> HIDE DEF q
    <2> QED BY <1>11, <2>1, <2>2
  <1>13. /\ TypeAt(toks, pos) = "ident" /\ toks[pos].v = name
         /\ TypeAt(toks, pos + 1) = "lparen" /\ TypeAt(toks, q) = "rparen"
    BY <1>1, <1>7, <1>8, <1>10
  <1>14. from \in 1 .. Len(toks) + 1 /\ q \in Int
    BY <1>8, <1>9, <1>10
  <1> DEFINE read == IF TypeAt(toks, pos + 2) = "rparen" THEN Parsed(<<>>, pos + 2)
                     ELSE Called(p, "args", pos + 2)
  <1>15. read = Parsed(args, q)
    <2>1. CASE Len(args) = 0
      <3>1. Len(u) = 0 /\ args = <<>>
        BY <1>3, <1>19, <2>1
      <3>2. q = from
        BY <1>14, <3>1
      <3> QED BY <1>13, <3>1, <3>2
    <2>2. CASE Len(args) # 0
      <3>1. Len(args) >= 1
        BY <1>18, <2>2
      <3>2. ArgsReadable(toks, args)
        BY <3>1, ArgsAreReadable
      <3> HIDE DEF q, from
      <3>3. Called(p, "args", from) = Parsed(args, q) /\ TypeAt(toks, from) # "rparen"
        BY <1>10, <1>13, <1>14, <3>2, Zenon DEF ArgsReadable, u, p, q
      <3> QED BY <3>3 DEF from
    <2> QED BY <2>1, <2>2
  <1>16. parsePrimary(toks, p, pos) = Parsed(node, q + 1)
    <2> HIDE DEF q, from
    <2>1. ~Threw(Parsed(args, q)) /\ Parsed(args, q).pos = q /\ Parsed(args, q).node = args
      BY <1>10 DEF Threw, Parsed
    <2>2. parsePrimary(toks, p, pos) =
             IF Threw(read) THEN Throws
             ELSE IF TypeAt(toks, read.pos) # "rparen" THEN Throws
             ELSE Parsed(Call(toks[pos].v, read.node), read.pos + 1)
      BY <1>13 DEF parsePrimary
    <2> HIDE DEF read
    <2> QED BY <1>13, <1>15, <2>1, <2>2
  <1>17. q + 1 \in pos + 1 .. Len(toks) + 1 /\ TypeAt(toks, pos) # "op"
    BY <1>10, <1>11, <1>13, <1>18
  <1> HIDE DEF q
  <1>20. Called(p, "unary", pos) = Parsed(node, s)
    BY <1>12, <1>16, <1>17, ReadsPrimary DEF p
  <1> QED BY <1>12, <1>17, <1>20, UnaryIsRead DEF p

\* What is written for a tree is read.
LEMMA TextsAreReadable ==
  ASSUME NEW toks \in Seq(Tokens)
  PROVE  \A n \in Node : Readable(toks, n)
  <1> DEFINE N == nodesUpTo
             P == {k \in Nat : k <= MaxHeight => \A n \in N[k] : Readable(toks, n)}
  <1>1. ASSUME NEW k \in Nat, \A j \in 0 .. k - 1 : j \in P
        PROVE  k \in P
    <2> SUFFICES ASSUME k <= MaxHeight, NEW n \in N[k] PROVE Readable(toks, n)
      OBVIOUS
    <2>1. k # 0
      BY NodesAre
    <2>2. k - 1 \in Nat /\ k - 1 < MaxHeight /\ (k - 1) + 1 = k /\ k - 1 \in 0 .. k - 1 /\ k - 1 <= MaxHeight
          /\ k \in 0 .. MaxHeight /\ MaxHeight \in k .. MaxHeight
          /\ k - 1 \in 0 .. MaxHeight /\ MaxHeight \in k - 1 .. MaxHeight
      BY <2>1, LanguageAssumption
    <2> DEFINE S == N[k - 1]
    <2>3. n \in NodesOver(S)
      BY <2>2, NodesAre
    <2>4. \A m \in S : Readable(toks, m)
      BY <1>1, <2>2
    <2>5. n \in Node /\ S \subseteq Node
      BY <2>2, NodesGrow DEF Node
    <2>6. \A m \in S : IsText(texts[m]) /\ Readable(toks, m)
      BY <2>4, <2>5, TextsAreTexts
    <2>7. texts[n] = Composed(texts, n)
      BY <2>5, TextsAre
    <2> HIDE DEF S, P, N
    <2>8. CASE n[1] = "unary"
      <3>1. n[2] \in UnaryOps /\ n[3][1] \in S /\ n = Unary(n[2], n[3][1])
        BY <2>3, <2>8, PartsAre
      <3>2. texts[n] = <<Op(n[2])>> \o Placed(texts, n[3][1], 14)
        BY <2>7, <2>8 DEF Composed
      <3> QED BY <2>6, <3>1, <3>2, UnaryReadable, Zenon
    <2>9. CASE n[1] = "bin"
      <3>1. n[2] \in BinaryOps /\ n[3][1] \in S /\ n[3][2] \in S /\ n = Bin(n[2], n[3][1], n[3][2])
        BY <2>3, <2>9, PartsAre
      <3>2. texts[n] = Placed(texts, n[3][1], Level(n)) \o <<Op(n[2])>> \o Placed(texts, n[3][2], Level(n) + 1)
        BY <2>7, <2>9 DEF Composed
      <3> QED BY <2>6, <3>1, <3>2, BinReadable, Zenon
    <2>10. CASE n[1] = "cond"
      <3>1. n[3][1] \in S /\ n[3][2] \in S /\ n[3][3] \in S /\ n = Cond(n[3][1], n[3][2], n[3][3])
        BY <2>3, <2>10, PartsAre
      <3>2. texts[n] = Placed(texts, n[3][1], 2) \o <<Mark("qmark")>> \o Placed(texts, n[3][2], 0)
                          \o <<Mark("colon")>> \o Placed(texts, n[3][3], 1)
        BY <2>7, <2>10 DEF Composed
      <3> QED BY <2>6, <3>1, <3>2, CondReadable, Zenon
    <2>11. CASE n[1] = "call"
      <3>1. n[2] \in STRING /\ n[3] \in Seq(S) /\ n = Call(n[2], n[3])
        BY <2>3, <2>11, PartsAre
      <3>2. texts[n] = <<Token("ident", n[2]), Mark("lparen")>> \o Listed(texts, n[3]) \o <<Mark("rparen")>>
        BY <2>7, <2>11 DEF Composed
      <3> QED BY <2>6, <3>1, <3>2, CallReadable, Zenon
    <2>12. CASE n[1] = "ref"
      <3>1. n[2] \in STRING /\ n = Ref(n[2])
        BY <2>3, <2>12, PartsAre
      <3> DEFINE x == Token("ident", n[2])
      <3>2. x \in Tokens /\ x.t = "ident" /\ n = Ref(x.v)
        <4>1. x.t = "ident" /\ x.v = n[2]
          BY DEF Token
        <4>2. x \in Tokens
          BY <3>1, TokensAre
        <4> HIDE DEF x
        <4> QED BY <3>1, <4>1, <4>2, Zenon
      <3>3. texts[n] = <<x>>
        BY <2>7, <2>12 DEF Composed
      <3> HIDE DEF x
      <3> QED BY <3>2, <3>3, OneReadable
    <2>13. CASE n[1] \in {"num", "bool", "nil"}
      <3>1. n = <<n[1], n[2], <<>>>>
        BY <2>3, <2>13, PartsAre, Zenon
      <3> DEFINE x == Token(n[1], n[2])
      <3>2. x \in Tokens /\ x.t = n[1] /\ x.v = n[2]
        <4>1. x.t = n[1] /\ x.v = n[2]
          BY DEF Token
        <4>2. CASE n[1] = "num"
          <5>1. n[2] \in Int
            BY <2>3, <4>2, PartsAre
          <5> QED BY <4>1, <4>2, <5>1, TokensAre
        <4>3. CASE n[1] = "bool"
          <5>1. n[2] \in BOOLEAN
            BY <2>3, <4>3, PartsAre, Zenon
          <5>2. Token("bool", n[2]) \in Tokens
            BY <5>1, TokensAre, Zenon
          <5> QED BY <4>1, <4>3, <5>2, Zenon
        <4>4. CASE n[1] = "nil"
          <5>1. n[2] = ""
            BY <2>3, <4>4, PartsAre
          <5> QED BY <4>1, <4>4, <5>1, TokensAre
        <4> QED BY <2>13, <4>2, <4>3, <4>4
      <3>3. texts[n] = <<x>>
        BY <2>7, <2>13 DEF Composed
      <3>4. x.t \in {"num", "bool", "nil"} /\ n = <<x.t, x.v, <<>>>>
        BY <2>13, <3>1, <3>2, Zenon
      <3> HIDE DEF x
      <3> QED BY <3>2, <3>3, <3>4, OneReadable
    <2> QED BY <2>3, <2>8, <2>9, <2>10, <2>11, <2>12, <2>13, PartsAre, ZenonT(30)
  <1>2. MaxHeight \in P
    <2> HIDE DEF P
    <2> QED BY <1>1, StrongInduction, LanguageAssumption
  <1> QED BY <1>2, LanguageAssumption DEF Node

\* Whatever tree is written, parsing what is written gives it back.
THEOREM TreesAreParsed ==
  \A node \in Node : WrittenIsParsed(node)
  <1> SUFFICES ASSUME NEW node \in Node PROVE Parse(Written(node)) = node
    BY DEF WrittenIsParsed
  <1> DEFINE toks == texts[node]
             q == Len(toks) + 1
  <1>1. toks \in Seq(Tokens) /\ Len(toks) \in Nat /\ Len(toks) >= 1
    BY TextsAreTexts, SeqIs DEF IsText
  <1>2. Readable(toks, node)
    BY <1>1, TextsAreReadable
  <1>3. texts[node] = toks
    OBVIOUS
  <1> HIDE DEF toks
  <1>4. Occurs(toks, toks, 1)
    <2>1. \A i \in 1 .. Len(toks) : (1 - 1) + i = i
      BY <1>1
    <2> QED BY <1>1, <2>1 DEF Occurs
  <1>5. TypeAt(toks, q) = "eof"
    BY <1>1 DEF TypeAt
  <1>6. Stops(toks, q, 0) /\ Stops(toks, q, LevelAfter(Level(node)))
    BY <1>5 DEF Stops
  <1>7. 1 + Len(toks) = q /\ 1 \in 1 .. Len(toks) + 1 /\ 0 \in 0 .. 13 /\ 0 <= Level(node)
    BY <1>1, Levels
  <1>8. Reads(toks, 1, 0, node, q)
    <2>1. IsRead(toks, node, 1, q)
      BY <1>2, <1>3, <1>4, <1>6, <1>7 DEF Readable
    <2> HIDE DEF q
    <2> QED BY <1>7, <2>1, Zenon DEF IsRead
  <1>9. parseExpression(toks, Parser(toks), 1, 0) = Parsed(node, q)
    BY <1>1, <1>6, <1>7, <1>8, EndsReading
  <1>10. ~Threw(Parsed(node, q)) /\ Parsed(node, q).pos = q /\ Parsed(node, q).node = node
    BY <1>1 DEF Threw, Parsed
  <1>11. Parse(toks) = node
    <2> HIDE DEF q
    <2> QED BY <1>9, <1>10 DEF Parse, q
  <1> QED BY <1>3, <1>11 DEF Written

-------------------------------------------------------------------------------
(* What is read is what is written.                                          *)

\* One sequence after another.
LEMMA ConcatIs ==
  ASSUME NEW S, NEW a \in Seq(S), NEW b \in Seq(S)
  PROVE  /\ a \o b \in Seq(S) /\ Len(a \o b) = Len(a) + Len(b)
         /\ \A i \in 1 .. Len(a) : (a \o b)[i] = a[i]
         /\ \A i \in 1 .. Len(b) : (a \o b)[Len(a) + i] = b[i]
         /\ a \o <<>> = a /\ <<>> \o a = a
  OBVIOUS

\* A token without parentheses.
Kept(x) == IF x.t \in {"lparen", "rparen"} THEN <<>> ELSE <<x>>

\* Leaving out parentheses goes token by token.
LEMMA WithoutParts ==
  ASSUME NEW a \in Seq(Tokens), NEW b \in Seq(Tokens)
  PROVE  /\ WithoutParentheses(a) \in Seq(Tokens)
         /\ WithoutParentheses(a \o b) = WithoutParentheses(a) \o WithoutParentheses(b)
  <1> DEFINE K(t) == [i \in DOMAIN t |-> Kept(t[i])]
             c == a \o b
  <1>1. \A t : WithoutParentheses(t) = FlattenSeq(K(t))
    BY DEF WithoutParentheses, Kept
  <1>2. ASSUME NEW x \in Tokens PROVE Kept(x) \in Seq(Tokens)
    BY DEF Kept
  <1>3. ASSUME NEW t \in Seq(Tokens)
        PROVE  /\ K(t) \in Seq(Seq(Tokens)) /\ Len(K(t)) = Len(t)
               /\ \A i \in 1 .. Len(t) : K(t)[i] = Kept(t[i])
    <2>1. Len(t) \in Nat /\ DOMAIN t = 1 .. Len(t) /\ \A i \in 1 .. Len(t) : t[i] \in Tokens
      BY SeqIs, Zenon
    <2>2. [i \in 1 .. Len(t) |-> Kept(t[i])] \in [1 .. Len(t) -> Seq(Tokens)]
      BY <1>2, <2>1
    <2>3. K(t) = [i \in 1 .. Len(t) |-> Kept(t[i])]
      BY <2>1
    <2>4. K(t) \in Seq(Seq(Tokens)) /\ Len(K(t)) = Len(t)
      BY <2>1, <2>2, <2>3, SeqMade, Zenon
    <2> QED BY <2>3, <2>4, Zenon
  <1>4. /\ c \in Seq(Tokens) /\ Len(c) = Len(a) + Len(b) /\ Len(a) \in Nat /\ Len(b) \in Nat
        /\ \A i \in 1 .. Len(a) : c[i] = a[i]
        /\ \A i \in 1 .. Len(b) : c[Len(a) + i] = b[i]
    OBVIOUS
  <1> HIDE DEF K, c
  <1>5. K(c) = K(a) \o K(b)
    <2> DEFINE x == K(a)
               y == K(b)
               z == x \o y
    <2>1. /\ x \in Seq(Seq(Tokens)) /\ Len(x) = Len(a) /\ \A i \in 1 .. Len(a) : x[i] = Kept(a[i])
          /\ y \in Seq(Seq(Tokens)) /\ Len(y) = Len(b) /\ \A i \in 1 .. Len(b) : y[i] = Kept(b[i])
      BY <1>3
    <2> HIDE DEF x, y
    <2>2. /\ z \in Seq(Seq(Tokens)) /\ Len(z) = Len(x) + Len(y)
          /\ \A i \in 1 .. Len(x) : z[i] = x[i]
          /\ \A i \in 1 .. Len(y) : z[Len(x) + i] = y[i]
      <3>1. x \in Seq(Seq(Tokens)) /\ y \in Seq(Seq(Tokens))
        BY <2>1
      <3> QED BY <3>1, ConcatIs
    <2> HIDE DEF z
    <2>3. /\ K(c) \in Seq(Seq(Tokens)) /\ Len(K(c)) = Len(c) /\ \A i \in 1 .. Len(c) : K(c)[i] = Kept(c[i])
      BY <1>3, <1>4
    <2>4. \A i \in 1 .. Len(c) : K(c)[i] = z[i]
      <3> SUFFICES ASSUME NEW i \in 1 .. Len(c) PROVE K(c)[i] = z[i]
        OBVIOUS
      <3>1. CASE i <= Len(a)
        <4>1. i \in 1 .. Len(a)
          BY <1>4, <3>1
        <4> QED BY <1>4, <2>1, <2>2, <2>3, <4>1
      <3>2. CASE ~(i <= Len(a))
        <4>1. PICK j \in 1 .. Len(b) : i = Len(a) + j
          <5>1. i - Len(a) \in 1 .. Len(b) /\ i = Len(a) + (i - Len(a))
            BY <1>4, <3>2
          <5> QED BY <5>1
        <4> QED BY <1>4, <2>1, <2>2, <2>3, <4>1
      <3> QED BY <3>1, <3>2
    <2>5. K(c) = z
      <3>1. Len(K(c)) = Len(z)
        BY <1>4, <2>1, <2>2, <2>3
      <3> QED BY <2>2, <2>3, <2>4, <3>1, SeqSame
    <2> QED BY <2>5 DEF x, y, z
  <1>6. FlattenSeq(K(a)) \in Seq(Tokens) /\ FlattenSeq(K(a) \o K(b)) = FlattenSeq(K(a)) \o FlattenSeq(K(b))
    BY <1>3, FlattenOfParts
  <1> QED BY <1>1, <1>5, <1>6 DEF c

\* One token without parentheses.
LEMMA WithoutOne ==
  ASSUME NEW x \in Tokens
  PROVE  WithoutParentheses(<<x>>) = Kept(x) /\ WithoutParentheses(<<>>) = <<>>
  <1> DEFINE s == <<x>>
             y == Kept(x)
  <1>1. DOMAIN s = {1} /\ s[1] = x
    OBVIOUS
  <1>2. WithoutParentheses(s) = FlattenSeq([i \in DOMAIN s |-> Kept(s[i])])
    BY DEF WithoutParentheses, Kept
  <1>3. [i \in DOMAIN s |-> Kept(s[i])] = [i \in {1} |-> y]
    BY <1>1
  <1>4. [i \in {1} |-> y] = <<y>>
    OBVIOUS
  <1>5. y \in Seq(Tokens)
    BY DEF Kept
  <1>6. FlattenSeq(<<y>>) = y /\ FlattenSeq(<<>>) = <<>>
    BY <1>5, FlattenOfOne
  <1>7. WithoutParentheses(<<>>) = FlattenSeq(<<>>)
    BY DEF WithoutParentheses
  <1> QED BY <1>2, <1>3, <1>4, <1>6, <1>7

\* The tokens from one position on, up to another, without the parentheses.
Between(toks, from, to) == WithoutParentheses(SubSeq(toks, from, to - 1))

\* What is between two positions is what is up to one between them and what is from it on.
LEMMA BetweenParts ==
  ASSUME NEW toks \in Seq(Tokens), NEW a \in 1 .. Len(toks) + 1, NEW b \in a .. Len(toks) + 1,
         NEW c \in b .. Len(toks) + 1
  PROVE  /\ Between(toks, a, b) \in Seq(Tokens) /\ Between(toks, b, c) \in Seq(Tokens)
         /\ Between(toks, a, c) = Between(toks, a, b) \o Between(toks, b, c)
  <1>1. Len(toks) \in Nat
    BY SeqIs
  <1>2. ASSUME NEW x \in 1 .. Len(toks) + 1, NEW y \in x .. Len(toks) + 1
        PROVE  SubSeq(toks, x, y - 1) \in Seq(Tokens)
    <2>1. x \in Int /\ y - 1 \in Int /\ \A i \in x .. y - 1 : toks[i] \in Tokens
      <3>1. \A i \in x .. y - 1 : i \in 1 .. Len(toks)
        BY <1>1
      <3> QED BY <1>1, <3>1, SeqIs
    <2> QED BY <2>1, SubSeqProperties, Zenon
  <1> DEFINE s == SubSeq(toks, a, b - 1)
             t == SubSeq(toks, b, c - 1)
  <1>3. SubSeq(toks, a, c - 1) = s \o t
    <2>1. b - 1 \in a - 1 .. Len(toks) /\ c - 1 \in b - 1 .. Len(toks) /\ (b - 1) + 1 = b
      BY <1>1
    <2> QED BY <2>1, ConcatAdjacentSubSeq
  <1>4. s \in Seq(Tokens) /\ t \in Seq(Tokens)
    <2>1. b \in 1 .. Len(toks) + 1
      BY <1>1
    <2> QED BY <1>2, <2>1
  <1> HIDE DEF s, t
  <1>5. /\ WithoutParentheses(s) \in Seq(Tokens) /\ WithoutParentheses(t) \in Seq(Tokens)
        /\ WithoutParentheses(s \o t) = WithoutParentheses(s) \o WithoutParentheses(t)
    BY <1>4, WithoutParts, Zenon
  <1> QED BY <1>3, <1>5 DEF Between, s, t

\* Its first token, and what follows it; the whole of it.
LEMMA BetweenFirst ==
  ASSUME NEW toks \in Seq(Tokens), NEW a \in 1 .. Len(toks), NEW c \in a + 1 .. Len(toks) + 1
  PROVE  /\ Between(toks, a, a + 1) = Kept(toks[a])
         /\ Between(toks, a, c) = Kept(toks[a]) \o Between(toks, a + 1, c)
  <1>1. Len(toks) \in Nat /\ toks[a] \in Tokens
    BY SeqIs
  <1>2. Between(toks, a, a + 1) = Kept(toks[a])
    <2>1. SubSeq(toks, a, a) = <<toks[a]>> \o SubSeq(toks, a + 1, a)
      <3>1. a \in a .. Len(toks)
        OBVIOUS
      <3> QED BY <3>1, SubSeqRecursiveFirst
    <2>2. SubSeq(toks, a + 1, a) = <<>>
      <3>1. a \in Int /\ a + 1 \in Int /\ a < a + 1
        OBVIOUS
      <3> QED BY <3>1, SubSeqEmpty
    <2>3. SubSeq(toks, a, a) = <<toks[a]>>
      <3>1. <<toks[a]>> \o <<>> = <<toks[a]>>
        OBVIOUS
      <3> QED BY <2>1, <2>2, <3>1, Zenon
    <2>4. (a + 1) - 1 = a
      OBVIOUS
    <2>5. WithoutParentheses(<<toks[a]>>) = Kept(toks[a])
      BY <1>1, WithoutOne
    <2> QED BY <2>3, <2>4, <2>5 DEF Between
  <1>3. Between(toks, a, c) = Between(toks, a, a + 1) \o Between(toks, a + 1, c)
    <2>1. a \in 1 .. Len(toks) + 1 /\ a + 1 \in a .. Len(toks) + 1
      BY <1>1
    <2> QED BY <2>1, BetweenParts
  <1> QED BY <1>2, <1>3

\* What is between the first position and the last is everything.
LEMMA BetweenAll ==
  ASSUME NEW toks \in Seq(Tokens)
  PROVE  Between(toks, 1, Len(toks) + 1) = WithoutParentheses(toks)
  <1>1. (Len(toks) + 1) - 1 = Len(toks)
    BY SeqIs
  <1>2. SubSeq(toks, 1, Len(toks)) = toks
    BY SubSeqFull
  <1> QED BY <1>1, <1>2 DEF Between

\* A token is what its type says.
LEMMA TokenIs ==
  ASSUME NEW x \in Tokens
  PROVE  /\ x = Token(x.t, x.v)
         /\ x.t = "num" => x.v \in Int
         /\ x.t = "bool" => x.v \in BOOLEAN
         /\ x.t = "nil" => x.v = ""
         /\ x.t = "ident" => x.v \in STRING
         /\ x.t \in {"qmark", "colon", "comma"} => x = Mark(x.t)
         /\ x.t = "op" => x = Op(x.v)
         /\ x.t \notin {"lparen", "rparen"} => Kept(x) = <<x>>
         /\ x.t \in {"lparen", "rparen"} => Kept(x) = <<>>
  <1>1. /\ x = [t |-> x.t, v |-> x.v]
        /\ x.t = "num" => x.v \in Int
        /\ x.t = "nil" => x.v = ""
        /\ x.t = "ident" => x.v \in STRING
        /\ x.t \in {"qmark", "colon", "comma"} => x.v = ""
    BY DEF Tokens
  <1>2. x.t = "bool" => x.v \in BOOLEAN
    BY Zenon DEF Tokens
  <1> QED BY <1>1, <1>2 DEF Token, Mark, Op, Kept

\* The trees over trees.
LEMMA NodesMade ==
  ASSUME NEW S
  PROVE  /\ \A op \in UnaryOps : \A m \in S : Unary(op, m) \in NodesOver(S)
         /\ \A op \in BinaryOps : \A l \in S : \A r \in S : Bin(op, l, r) \in NodesOver(S)
         /\ \A a \in S : \A b \in S : \A c \in S : Cond(a, b, c) \in NodesOver(S)
         /\ \A name \in STRING : \A args \in Seq(S) : Call(name, args) \in NodesOver(S)
         /\ \A name \in STRING : Ref(name) \in NodesOver(S)
         /\ \A x \in Tokens : x.t \in {"num", "bool", "nil"} => <<x.t, x.v, <<>>>> \in NodesOver(S)
  <1>1. /\ \A m \in S : <<m>> \in [1 .. 1 -> S]
        /\ \A l \in S : \A r \in S : <<l, r>> \in [1 .. 2 -> S]
        /\ \A a \in S : \A b \in S : \A c \in S : <<a, b, c>> \in [1 .. 3 -> S]
    OBVIOUS
  <1>2. ASSUME NEW x, NEW y, NEW z, NEW n, n = <<x, y, z>>
        PROVE  n[1] = x /\ n[2] = y /\ n[3] = z /\ n = <<n[1], n[2], n[3]>>
    BY <1>2
  <1>3. ASSUME NEW op \in UnaryOps, NEW m \in S PROVE Unary(op, m) \in NodesOver(S)
    <2> DEFINE n == Unary(op, m)
    <2>1. n[1] = "unary" /\ n[2] = op /\ n[3] = <<m>> /\ n = <<n[1], n[2], n[3]>>
      BY <1>2 DEF Unary
    <2> HIDE DEF n
    <2>2. IsOver(S, n)
      BY <1>1, <2>1, Zenon DEF IsOver
    <2> QED BY <2>2, NodeIsOver DEF n
  <1>4. ASSUME NEW op \in BinaryOps, NEW l \in S, NEW r \in S PROVE Bin(op, l, r) \in NodesOver(S)
    <2> DEFINE n == Bin(op, l, r)
    <2>1. n[1] = "bin" /\ n[2] = op /\ n[3] = <<l, r>> /\ n = <<n[1], n[2], n[3]>>
      BY <1>2 DEF Bin
    <2> HIDE DEF n
    <2>2. IsOver(S, n)
      BY <1>1, <2>1, Zenon DEF IsOver
    <2> QED BY <2>2, NodeIsOver DEF n
  <1>5. ASSUME NEW a \in S, NEW b \in S, NEW c \in S PROVE Cond(a, b, c) \in NodesOver(S)
    <2> DEFINE n == Cond(a, b, c)
    <2>1. n[1] = "cond" /\ n[2] = "" /\ n[3] = <<a, b, c>> /\ n = <<n[1], n[2], n[3]>>
      BY <1>2 DEF Cond
    <2> HIDE DEF n
    <2>2. n[3] \in [1 .. 3 -> S]
      <3> DEFINE t == <<a, b, c>>
      <3>1. t \in [1 .. 3 -> S]
        OBVIOUS
      <3>2. n[3] = t
        BY <2>1
      <3> HIDE DEF t
      <3> QED BY <3>1, <3>2
    <2>3. IsOver(S, n)
      BY <2>1, <2>2, Zenon DEF IsOver
    <2> QED BY <2>3, NodeIsOver DEF n
  <1>6. ASSUME NEW name \in STRING, NEW args \in Seq(S) PROVE Call(name, args) \in NodesOver(S)
    <2> DEFINE n == Call(name, args)
    <2>1. n[1] = "call" /\ n[2] = name /\ n[3] = args /\ n = <<n[1], n[2], n[3]>>
      BY <1>2 DEF Call
    <2> HIDE DEF n
    <2>2. IsOver(S, n)
      BY <2>1, Zenon DEF IsOver
    <2> QED BY <2>2, NodeIsOver DEF n
  <1>7. ASSUME NEW name \in STRING PROVE Ref(name) \in NodesOver(S)
    <2> DEFINE n == Ref(name)
    <2>1. n[1] = "ref" /\ n[2] = name /\ n[3] = <<>> /\ n = <<n[1], n[2], n[3]>>
      BY <1>2 DEF Ref
    <2> HIDE DEF n
    <2>2. IsOver(S, n)
      BY <2>1, Zenon DEF IsOver
    <2> QED BY <2>2, NodeIsOver DEF n
  <1>8. ASSUME NEW x \in Tokens, x.t \in {"num", "bool", "nil"} PROVE <<x.t, x.v, <<>>>> \in NodesOver(S)
    <2> DEFINE n == <<x.t, x.v, <<>>>>
    <2>1. n[1] = x.t /\ n[2] = x.v /\ n[3] = <<>> /\ n = <<n[1], n[2], n[3]>>
      BY <1>2
    <2>2. /\ x.t = "num" => x.v \in Int
          /\ x.t = "bool" => x.v \in BOOLEAN
          /\ x.t = "nil" => x.v = ""
      BY TokenIs
    <2> HIDE DEF n
    <2>3. IsOver(S, n)
      <3>1. CASE x.t = "num"
        BY <2>1, <2>2, <3>1, Zenon DEF IsOver
      <3>2. CASE x.t = "bool"
        BY <2>1, <2>2, <3>2, Zenon DEF IsOver
      <3>3. CASE x.t = "nil"
        BY <2>1, <2>2, <3>3, Zenon DEF IsOver
      <3> QED BY <1>8, <3>1, <3>2, <3>3
    <2> QED BY <2>3, NodeIsOver DEF n
  <1> QED BY <1>3, <1>4, <1>5, <1>6, <1>7, <1>8

\* A tree over trees that are lower.
LEMMA NodeMade ==
  ASSUME NEW h \in Nat, h < MaxHeight, NEW n \in NodesOver(nodesUpTo[h])
  PROVE  n \in nodesUpTo[h + 1] /\ n \in Node /\ texts[n] = Composed(texts, n) /\ IsText(texts[n])
  <1>1. n \in nodesUpTo[h + 1]
    BY NodesAre
  <1>2. h + 1 \in 0 .. MaxHeight /\ MaxHeight \in h + 1 .. MaxHeight
    BY LanguageAssumption
  <1>3. n \in Node
    BY <1>1, <1>2, NodesGrow DEF Node
  <1> QED BY <1>1, <1>3, TextsAre, TextsAreTexts

\* What is written, without parentheses.
LEMMA WithoutBetween ==
  ASSUME NEW a \in Seq(Tokens), NEW x \in Tokens, x.t \notin {"lparen", "rparen"}, NEW b \in Seq(Tokens)
  PROVE  /\ WithoutParentheses(<<x>> \o b) = <<x>> \o WithoutParentheses(b)
         /\ WithoutParentheses(a \o <<x>> \o b) = WithoutParentheses(a) \o <<x>> \o WithoutParentheses(b)
         /\ a \o <<x>> \o b \in Seq(Tokens)
  <1>1. <<x>> \in Seq(Tokens) /\ <<x>> \o b \in Seq(Tokens) /\ a \o <<x>> \in Seq(Tokens) /\ a \o <<x>> \o b \in Seq(Tokens)
    OBVIOUS
  <1>2. WithoutParentheses(<<x>>) = <<x>>
    BY WithoutOne DEF Kept
  <1> DEFINE s == <<x>>
  <1>6. s \in Seq(Tokens)
    BY <1>1
  <1> HIDE DEF s
  <1>3. WithoutParentheses(s \o b) = WithoutParentheses(s) \o WithoutParentheses(b)
    BY <1>6, WithoutParts, Zenon
  <1>4. WithoutParentheses(a \o s) = WithoutParentheses(a) \o WithoutParentheses(s)
    BY <1>6, WithoutParts, Zenon
  <1> DEFINE c == a \o <<x>>
  <1>5. WithoutParentheses(c \o b) = WithoutParentheses(c) \o WithoutParentheses(b)
    <2>1. c \in Seq(Tokens)
      BY <1>1
    <2> HIDE DEF c
    <2> QED BY <2>1, WithoutParts, Zenon
  <1> QED BY <1>1, <1>2, <1>3, <1>4, <1>5, Zenon DEF s

\* The parentheses around a part do not count.
LEMMA WithoutPlaced ==
  ASSUME NEW n, IsText(texts[n]), NEW level
  PROVE  WithoutParentheses(Placed(texts, n, level)) = WithoutParentheses(texts[n])
  <1> DEFINE t == texts[n]
             l == Mark("lparen")
             r == Mark("rparen")
  <1>1. t \in Seq(Tokens) /\ l \in Tokens /\ r \in Tokens /\ Kept(l) = <<>> /\ Kept(r) = <<>>
    BY TokensAre DEF IsText, Kept
  <1>2. Placed(texts, n, level) = IF Level(n) < level THEN <<l>> \o t \o <<r>> ELSE t
    BY DEF Placed
  <1> HIDE DEF t, l, r
  <1>3. <<l>> \in Seq(Tokens) /\ <<r>> \in Seq(Tokens) /\ <<l>> \o t \in Seq(Tokens)
    BY <1>1
  <1>4. /\ WithoutParentheses(<<l>>) = <<>> /\ WithoutParentheses(<<r>>) = <<>>
        /\ WithoutParentheses(t) \in Seq(Tokens)
    BY <1>1, WithoutOne, WithoutParts
  <1>5. WithoutParentheses(<<l>> \o t) = WithoutParentheses(t)
    <2>1. WithoutParentheses(<<l>> \o t) = <<>> \o WithoutParentheses(t)
      BY <1>1, <1>3, <1>4, WithoutParts, ZenonT(30)
    <2> QED BY <1>4, <2>1, ConcatIs
  <1>6. WithoutParentheses(<<l>> \o t \o <<r>>) = WithoutParentheses(t)
    <2> DEFINE c == <<l>> \o t
    <2>1. WithoutParentheses(c) = WithoutParentheses(t) /\ c \in Seq(Tokens)
      BY <1>3, <1>5
    <2> HIDE DEF c
    <2>2. WithoutParentheses(c \o <<r>>) = WithoutParentheses(t) \o <<>>
      BY <1>3, <1>4, <2>1, WithoutParts, Zenon
    <2>3. WithoutParentheses(c \o <<r>>) = WithoutParentheses(t)
      BY <1>4, <2>2, ConcatIs
    <2> QED BY <2>3 DEF c
  <1> QED BY <1>2, <1>6 DEF t

\* Listing one argument more writes it, a comma and the others.
LEMMA WithoutListed ==
  ASSUME NEW S, \A m \in S : IsText(texts[m]), NEW m \in S, NEW rest \in Seq(S)
  PROVE  /\ <<m>> \in Seq(S) /\ Len(<<m>>) = 1
         /\ <<m>> \o rest \in Seq(S) /\ Len(<<m>> \o rest) = 1 + Len(rest)
         /\ WithoutParentheses(Listed(texts, <<m>>)) = WithoutParentheses(texts[m])
         /\ Len(rest) >= 1 =>
              WithoutParentheses(Listed(texts, <<m>> \o rest)) =
                 WithoutParentheses(texts[m]) \o <<Mark("comma")>> \o WithoutParentheses(Listed(texts, rest))
  <1> DEFINE one == <<m>>
             all == <<m>> \o rest
             p == Placed(texts, m, 0)
             c == Mark("comma")
  <1>1. /\ one \in Seq(S) /\ Len(one) = 1 /\ one[1] = m
        /\ all \in Seq(S) /\ Len(all) = 1 + Len(rest) /\ all[1] = m /\ Tail(all) = rest
        /\ Len(rest) \in Nat
    OBVIOUS
  <1>2. p \in Seq(Tokens) /\ WithoutParentheses(p) = WithoutParentheses(texts[m])
    BY PlacedIsText, WithoutPlaced DEF IsText
  <1>3. c \in Tokens /\ c.t \notin {"lparen", "rparen"}
    BY TokensAre
  <1> HIDE DEF one, all, c
  <1>4. Listed(texts, one) = p
    BY <1>1, ListedIs
  <1>5. Listed(texts, rest) \in Seq(Tokens)
    BY ListedIs
  <1>6. ASSUME Len(rest) >= 1
        PROVE  Listed(texts, all) = p \o <<c>> \o Listed(texts, rest)
    <2>1. Len(all) > 1
      BY <1>1, <1>6
    <2> HIDE DEF p
    <2> QED BY <1>1, <2>1, ListedIs DEF c, p
  <1> HIDE DEF p
  <1>7. WithoutParentheses(p \o <<c>> \o Listed(texts, rest)) =
           WithoutParentheses(p) \o <<c>> \o WithoutParentheses(Listed(texts, rest))
    BY <1>2, <1>3, <1>5, WithoutBetween
  <1> QED BY <1>1, <1>2, <1>4, <1>6, <1>7 DEF one, all, c

\* The order in which sequences are put together.
LEMMA Regrouped ==
  ASSUME NEW A \in Seq(Tokens), NEW x \in Tokens, NEW B \in Seq(Tokens)
  PROVE  A \o <<x>> \o B \in Seq(Tokens) /\ A \o (<<x>> \o B) = A \o <<x>> \o B
  <1> DEFINE s == <<x>>
  <1>1. s \in Seq(Tokens)
    OBVIOUS
  <1> HIDE DEF s
  <1>2. A \o (s \o B) = A \o s \o B
    <2>1. \A a \in Seq(Tokens) : \A b \in Seq(Tokens) : \A c \in Seq(Tokens) : (a \o b) \o c = a \o (b \o c)
      BY ConcatAssociative, SMTT(30)
    <2> QED BY <1>1, <2>1, Zenon
  <1>3. A \o s \in Seq(Tokens)
    BY <1>1, ConcatIs
  <1> DEFINE t == A \o s
  <1>4. t \o B \in Seq(Tokens)
    <2> HIDE DEF t
    <2> QED BY <1>3, ConcatIs DEF t
  <1> QED BY <1>2, <1>4 DEF s

\* What is between parentheses.
LEMMA BetweenParentheses ==
  ASSUME NEW toks \in Seq(Tokens), NEW a \in 1 .. Len(toks), NEW b \in a + 1 .. Len(toks),
         TypeAt(toks, a) = "lparen", TypeAt(toks, b) = "rparen"
  PROVE  Between(toks, a, b + 1) = Between(toks, a + 1, b)
  <1>1. Len(toks) \in Nat /\ toks[a] \in Tokens /\ toks[b] \in Tokens /\ b \in 1 .. Len(toks)
    BY SeqIs
  <1>2. toks[a].t = "lparen" /\ toks[b].t = "rparen"
    BY <1>1 DEF TypeAt
  <1>3. Kept(toks[a]) = <<>> /\ Kept(toks[b]) = <<>>
    BY <1>2 DEF Kept
  <1>4. a + 1 \in 1 .. Len(toks) + 1 /\ b \in a + 1 .. Len(toks) + 1 /\ b + 1 \in b .. Len(toks) + 1
        /\ b + 1 \in a + 1 .. Len(toks) + 1 /\ b + 1 \in b + 1 .. Len(toks) + 1
    BY <1>1
  <1>5. /\ Between(toks, a + 1, b) \in Seq(Tokens) /\ Between(toks, b, b + 1) \in Seq(Tokens)
        /\ Between(toks, a + 1, b + 1) = Between(toks, a + 1, b) \o Between(toks, b, b + 1)
    BY <1>4, BetweenParts
  <1>6. Between(toks, b, b + 1) = <<>>
    BY <1>1, <1>3, <1>4, BetweenFirst
  <1>7. Between(toks, a, b + 1) = <<>> \o Between(toks, a + 1, b + 1)
    BY <1>3, <1>4, BetweenFirst
  <1>8. Between(toks, a + 1, b + 1) = Between(toks, a + 1, b)
    BY <1>5, <1>6, ConcatIs
  <1> QED BY <1>5, <1>7, <1>8, ConcatIs

\* A result of the parser from pos on: the tree that is written there, and no higher than
\* its text is long.
Fits(toks, r, pos) ==
    \/ Threw(r)
    \/ /\ r.pos \in pos + 1 .. Len(toks) + 1
       /\ r.node \in nodesUpTo[r.pos - pos]
       /\ WithoutParentheses(texts[r.node]) = Between(toks, pos, r.pos)

\* The same of arguments.
ArgsFit(toks, r, pos) ==
    \/ Threw(r)
    \/ /\ r.pos \in pos + 1 .. Len(toks) + 1
       /\ r.node \in Seq(nodesUpTo[r.pos - pos]) /\ Len(r.node) >= 1
       /\ WithoutParentheses(Listed(texts, r.node)) = Between(toks, pos, r.pos)

FitsFrom(toks, p, pos) ==
    /\ \A bp \in 0 .. 13 : Fits(toks, parseExpression(toks, p, pos, bp), pos)
    /\ Fits(toks, Called(p, "unary", pos), pos)
    /\ ArgsFit(toks, Called(p, "args", pos), pos)

\* A tree over trees that are lower than the text is long.
LEMMA TreeFits ==
  ASSUME NEW toks \in Seq(Tokens), Len(toks) <= MaxHeight,
         NEW pos \in 1 .. Len(toks), NEW q \in pos + 1 .. Len(toks) + 1,
         NEW h \in Nat, h + 1 = q - pos, NEW n \in NodesOver(nodesUpTo[h]),
         WithoutParentheses(Composed(texts, n)) = Between(toks, pos, q)
  PROVE  Fits(toks, Parsed(n, q), pos)
  <1>1. Len(toks) \in Nat
    BY SeqIs
  <1>2. h < MaxHeight
    BY <1>1, LanguageAssumption
  <1>3. n \in nodesUpTo[q - pos] /\ texts[n] = Composed(texts, n)
    BY <1>2, NodeMade
  <1>4. Parsed(n, q).pos = q /\ Parsed(n, q).node = n
    BY DEF Parsed
  <1> QED BY <1>3, <1>4 DEF Fits

\* The parts of a tree may be higher.
LEMMA PartFits ==
  ASSUME NEW d \in Nat, NEW h \in Nat, d <= h, h < MaxHeight
  PROVE  nodesUpTo[d] \subseteq nodesUpTo[h] /\ \A m \in nodesUpTo[h] : IsText(texts[m])
  <1>1. d \in 0 .. MaxHeight /\ h \in d .. MaxHeight /\ h \in 0 .. MaxHeight /\ MaxHeight \in h .. MaxHeight
    BY LanguageAssumption
  <1>2. nodesUpTo[d] \subseteq nodesUpTo[h]
    BY <1>1, NodesGrow
  <1>3. nodesUpTo[h] \subseteq Node
    BY <1>1, NodesGrow DEF Node
  <1> QED BY <1>2, <1>3, TextsAreTexts

\* What is written for a call.
LEMMA WithoutCall ==
  ASSUME NEW x \in Tokens, x.t = "ident", NEW u \in Seq(Tokens)
  PROVE  WithoutParentheses(<<x, Mark("lparen")>> \o u \o <<Mark("rparen")>>) = <<x>> \o WithoutParentheses(u)
  <1> DEFINE l == Mark("lparen")
             r == Mark("rparen")
             s == <<x>>
             m == <<l>>
             n == <<r>>
             o == <<x, l>>
  <1>1. l \in Tokens /\ r \in Tokens /\ Kept(l) = <<>> /\ Kept(r) = <<>> /\ Kept(x) = <<x>>
    BY TokensAre DEF Kept
  <1>2. WithoutParentheses(s) = s /\ WithoutParentheses(m) = <<>> /\ WithoutParentheses(n) = <<>>
    BY <1>1, WithoutOne
  <1> HIDE DEF l, r
  <1>3. s \in Seq(Tokens) /\ m \in Seq(Tokens) /\ n \in Seq(Tokens) /\ o \in Seq(Tokens) /\ o = s \o m
    <2>1. s \in Seq(Tokens) /\ m \in Seq(Tokens) /\ n \in Seq(Tokens) /\ o \in Seq(Tokens)
      BY <1>1
    <2> DEFINE z == s \o m
    <2>2. z \in Seq(Tokens) /\ Len(z) = 2 /\ z[1] = x /\ z[2] = l
      BY <1>1
    <2>3. o \in Seq(Tokens) /\ Len(o) = 2 /\ o[1] = x /\ o[2] = l
      BY <1>1
    <2> HIDE DEF o, z
    <2>4. \A i \in 1 .. Len(o) : o[i] = z[i]
      BY <2>2, <2>3
    <2>5. o = z
      BY <2>2, <2>3, <2>4, SeqSame
    <2> QED BY <2>1, <2>5 DEF z
  <1>4. WithoutParentheses(u) \in Seq(Tokens)
    BY WithoutParts
  <1> HIDE DEF s, m, n, o
  <1>5. WithoutParentheses(o) = s
    <2>1. WithoutParentheses(s \o m) = WithoutParentheses(s) \o WithoutParentheses(m)
      BY <1>3, WithoutParts, Zenon
    <2>2. s \o <<>> = s
      BY <1>3, ConcatIs
    <2> QED BY <1>2, <1>3, <2>1, <2>2, Zenon
  <1> DEFINE v == o \o u
  <1>6. v \in Seq(Tokens)
    BY <1>3
  <1>7. WithoutParentheses(v) = s \o WithoutParentheses(u)
    <2>1. WithoutParentheses(o \o u) = WithoutParentheses(o) \o WithoutParentheses(u)
      BY <1>3, WithoutParts, Zenon
    <2> QED BY <1>5, <2>1, Zenon
  <1> HIDE DEF v
  <1>8. WithoutParentheses(v \o n) = WithoutParentheses(v) \o <<>>
    BY <1>2, <1>3, <1>6, WithoutParts, Zenon
  <1>9. WithoutParentheses(v \o n) = WithoutParentheses(v)
    <2>1. WithoutParentheses(v) \in Seq(Tokens)
      BY <1>6, WithoutParts
    <2> QED BY <1>8, <2>1, ConcatIs
  <1> QED BY <1>7, <1>9 DEF v, s, n, o, l, r

\* What parsePrimary reads fits, if what its calls read does.
LEMMA PrimaryFits ==
  ASSUME NEW toks \in Seq(Tokens), Len(toks) <= MaxHeight, NEW p, NEW pos \in 1 .. Len(toks) + 1,
         \A q \in pos + 1 .. Len(toks) + 1 : FitsFrom(toks, p, q)
  PROVE  Fits(toks, parsePrimary(toks, p, pos), pos)
  <1> DEFINE x == toks[pos]
             type == TypeAt(toks, pos)
  <1>0. Len(toks) \in Nat
    BY SeqIs
  <1>1. ASSUME type \notin {"num", "bool", "nil", "lparen", "ident"}
        PROVE  Fits(toks, parsePrimary(toks, p, pos), pos)
    BY <1>1 DEF parsePrimary, Fits, Threw, Throws
  <1>2. ASSUME type \in {"num", "bool", "nil", "lparen", "ident"}
        PROVE  /\ pos \in 1 .. Len(toks) /\ x \in Tokens /\ x.t = type
               /\ pos + 1 \in pos + 1 .. Len(toks) + 1
    BY <1>0, <1>2, TypeIs
  <1>3. CASE type \in {"num", "bool", "nil"}
    <2> DEFINE n == <<x.t, x.v, <<>>>>
               q == pos + 1
    <2>1. parsePrimary(toks, p, pos) = Parsed(n, q)
      BY <1>2, <1>3, Zenon DEF parsePrimary
    <2>2. n \in NodesOver(nodesUpTo[0])
      BY <1>2, <1>3, NodesMade, Zenon
    <2>3. Composed(texts, n) = <<x>>
      <3>1. n[1] = x.t /\ n[2] = x.v /\ x = Token(x.t, x.v)
        BY <1>2, <1>3, TokenIs
      <3> HIDE DEF n
      <3> QED BY <1>2, <1>3, <3>1 DEF Composed
    <2>4. WithoutParentheses(<<x>>) = Between(toks, pos, q)
      <3>1. WithoutParentheses(<<x>>) = Kept(x)
        BY <1>2, <1>3, WithoutOne
      <3>2. Between(toks, pos, q) = Kept(x)
        BY <1>2, <1>3, BetweenFirst
      <3> QED BY <3>1, <3>2
    <2>5. 0 + 1 = q - pos /\ 0 \in Nat
      BY <1>2, <1>3
    <2> HIDE DEF n, q, x
    <2>6. Fits(toks, Parsed(n, q), pos)
      BY <1>2, <1>3, <2>2, <2>3, <2>4, <2>5, TreeFits DEF q
    <2> QED BY <2>1, <2>6
  <1>4. CASE type = "ident" /\ TypeAt(toks, pos + 1) # "lparen"
    <2> DEFINE n == Ref(x.v)
               q == pos + 1
    <2>1. parsePrimary(toks, p, pos) = Parsed(n, q)
      BY <1>4 DEF parsePrimary
    <2>2. n \in NodesOver(nodesUpTo[0])
      <3>1. x.v \in STRING
        BY <1>2, <1>4, TokenIs
      <3> QED BY <3>1, NodesMade, Zenon
    <2>3. Composed(texts, n) = <<x>>
      <3>1. n[1] = "ref" /\ n[2] = x.v
        BY DEF Ref
      <3>2. x = Token("ident", x.v)
        BY <1>2, <1>4, TokenIs
      <3> HIDE DEF n
      <3> QED BY <3>1, <3>2 DEF Composed
    <2>4. WithoutParentheses(<<x>>) = Between(toks, pos, q)
      <3>1. WithoutParentheses(<<x>>) = Kept(x)
        BY <1>2, <1>4, WithoutOne
      <3>2. Between(toks, pos, q) = Kept(x)
        BY <1>2, <1>4, BetweenFirst
      <3> QED BY <3>1, <3>2
    <2>5. 0 + 1 = q - pos /\ 0 \in Nat
      BY <1>2, <1>4
    <2> HIDE DEF n, q, x
    <2>6. Fits(toks, Parsed(n, q), pos)
      BY <1>2, <1>4, <2>2, <2>3, <2>4, <2>5, TreeFits DEF q
    <2> QED BY <2>1, <2>6
  <1>5. CASE type = "lparen"
    <2> DEFINE inner == parseExpression(toks, p, pos + 1, 0)
               q == inner.pos
               n == inner.node
    <2>1. parsePrimary(toks, p, pos) =
             IF Threw(inner) THEN Throws
             ELSE IF TypeAt(toks, q) # "rparen" THEN Throws
             ELSE Parsed(n, q + 1)
      BY <1>5 DEF parsePrimary
    <2>2. Fits(toks, inner, pos + 1)
      <3>1. 0 \in 0 .. 13
        OBVIOUS
      <3> QED BY <1>2, <1>5, <3>1 DEF FitsFrom
    <2> HIDE DEF inner
    <2>3. CASE Threw(inner) \/ TypeAt(toks, q) # "rparen"
      BY <2>1, <2>3 DEF Fits, Threw, Throws
    <2>4. CASE ~Threw(inner) /\ TypeAt(toks, q) = "rparen"
      <3>1. /\ q \in (pos + 1) + 1 .. Len(toks) + 1
            /\ n \in nodesUpTo[q - (pos + 1)]
            /\ WithoutParentheses(texts[n]) = Between(toks, pos + 1, q)
        BY <2>2, <2>4 DEF Fits
      <3> HIDE DEF q, n, x
      <3>2. q \in 1 .. Len(toks)
        <4>1. q \in Nat /\ q >= 1
          BY <1>0, <3>1
        <4> QED BY <2>4, <4>1, TypeIs
      <3>3. Between(toks, pos, q + 1) = Between(toks, pos + 1, q)
        <4>1. q \in pos + 1 .. Len(toks)
          BY <1>0, <3>1, <3>2
        <4> QED BY <1>2, <1>5, <2>4, <4>1, BetweenParentheses
      <3>4. n \in nodesUpTo[(q + 1) - pos]
        <4> DEFINE d == q - (pos + 1)
                   h == (q + 1) - pos
        <4>1. d \in 0 .. MaxHeight /\ h \in d .. MaxHeight
          BY <1>0, <3>1, <3>2, LanguageAssumption
        <4>2. n \in nodesUpTo[d]
          BY <3>1
        <4> HIDE DEF d, h
        <4> QED BY <4>1, <4>2, NodesGrow DEF h
      <3>5. q + 1 \in pos + 1 .. Len(toks) + 1
        BY <1>0, <3>1, <3>2
      <3>6. Fits(toks, Parsed(n, q + 1), pos)
        <4>1. Parsed(n, q + 1).pos = q + 1 /\ Parsed(n, q + 1).node = n
          BY DEF Parsed
        <4> QED BY <3>1, <3>3, <3>4, <3>5, <4>1 DEF Fits
      <3> QED BY <2>1, <2>4, <3>6
    <2> QED BY <2>3, <2>4
  <1>6. CASE type = "ident" /\ TypeAt(toks, pos + 1) = "lparen"
    <2> DEFINE args == IF TypeAt(toks, pos + 2) = "rparen" THEN Parsed(<<>>, pos + 2)
                       ELSE Called(p, "args", pos + 2)
               q == args.pos
               n == Call(x.v, args.node)
    <2>1. parsePrimary(toks, p, pos) =
             IF Threw(args) THEN Throws
             ELSE IF TypeAt(toks, q) # "rparen" THEN Throws
             ELSE Parsed(n, q + 1)
      BY <1>6 DEF parsePrimary
    <2>2. CASE Threw(args) \/ TypeAt(toks, q) # "rparen"
      BY <2>1, <2>2 DEF Fits, Threw, Throws
    <2>3. CASE ~Threw(args) /\ TypeAt(toks, q) = "rparen"
      <3>1. /\ pos + 1 \in 1 .. Len(toks) /\ pos + 2 \in pos + 1 .. Len(toks) + 1
            /\ (pos + 1) + 1 = pos + 2
        <4>1. pos + 1 \in Nat /\ pos + 1 >= 1 /\ TypeAt(toks, pos + 1) # "eof"
          BY <1>0, <1>6
        <4>2. pos + 1 \in 1 .. Len(toks)
          BY <4>1, TypeIs
        <4> QED BY <1>0, <4>2
      <3>2. /\ q \in pos + 2 .. Len(toks)
            /\ args.node \in Seq(nodesUpTo[q - (pos + 2)])
            /\ Listed(texts, args.node) \in Seq(Tokens)
            /\ WithoutParentheses(Listed(texts, args.node)) = Between(toks, pos + 2, q)
        <4>1. CASE TypeAt(toks, pos + 2) = "rparen"
          <5>1. q = pos + 2 /\ args.node = <<>>
            BY <4>1 DEF Parsed
          <5>2. pos + 2 \in 1 .. Len(toks)
            <6>1. pos + 2 \in Nat /\ pos + 2 >= 1 /\ TypeAt(toks, pos + 2) # "eof"
              BY <1>0, <4>1
            <6> QED BY <6>1, TypeIs
          <5>3. Listed(texts, <<>>) = <<>>
            BY ListedNone
          <5>4. WithoutParentheses(<<>>) = <<>>
            BY <1>2, <1>6, WithoutOne
          <5>5. Between(toks, pos + 2, pos + 2) = <<>>
            <6>1. SubSeq(toks, pos + 2, (pos + 2) - 1) = <<>>
              <7>1. pos + 2 \in Int /\ (pos + 2) - 1 \in Int /\ (pos + 2) - 1 < pos + 2
                OBVIOUS
              <7> QED BY <7>1, SubSeqEmpty
            <6> QED BY <5>4, <6>1 DEF Between
          <5>6. \A S : <<>> \in Seq(S)
            OBVIOUS
          <5>7. q \in pos + 2 .. Len(toks)
            BY <1>0, <5>1, <5>2
          <5> HIDE DEF q, args
          <5> QED BY <5>1, <5>3, <5>4, <5>5, <5>6, <5>7
        <4>2. CASE TypeAt(toks, pos + 2) # "rparen"
          <5>1. args = Called(p, "args", pos + 2)
            BY <4>2
          <5>2. ArgsFit(toks, args, pos + 2)
            BY <3>1, <5>1 DEF FitsFrom
          <5> HIDE DEF args
          <5>3. /\ q \in (pos + 2) + 1 .. Len(toks) + 1
                /\ args.node \in Seq(nodesUpTo[q - (pos + 2)])
                /\ WithoutParentheses(Listed(texts, args.node)) = Between(toks, pos + 2, q)
            BY <2>3, <5>2 DEF ArgsFit
          <5> HIDE DEF q
          <5>4. q \in 1 .. Len(toks)
            <6>1. q \in Nat /\ q >= 1
              BY <1>0, <5>3
            <6> QED BY <2>3, <6>1, TypeIs
          <5>5. q \in pos + 2 .. Len(toks)
            BY <1>0, <5>3, <5>4
          <5>6. Listed(texts, args.node) \in Seq(Tokens)
            <6> DEFINE d == q - (pos + 2)
            <6>1. d \in Nat /\ d <= d /\ d < MaxHeight
              BY <1>0, <5>3, <5>4, LanguageAssumption
            <6>2. args.node \in Seq(nodesUpTo[d])
              BY <5>3
            <6> HIDE DEF d
            <6>3. \A m \in nodesUpTo[d] : IsText(texts[m])
              BY <6>1, PartFits
            <6> QED BY <6>2, <6>3, ListedIs
          <5> QED BY <5>3, <5>5, <5>6
        <4> QED BY <4>1, <4>2
      <3> HIDE DEF args, q
      <3> DEFINE h == q - pos
                 u == Listed(texts, args.node)
      <3>3. h \in Nat /\ h + 1 = (q + 1) - pos /\ h < MaxHeight
        BY <1>0, <3>2, LanguageAssumption
      <3>4. args.node \in Seq(nodesUpTo[h])
        <4> DEFINE d == q - (pos + 2)
        <4>1. d \in Nat /\ d <= h
          BY <1>0, <3>2
        <4>2. args.node \in Seq(nodesUpTo[d])
          BY <3>2
        <4> HIDE DEF d, h
        <4>3. nodesUpTo[d] \subseteq nodesUpTo[h]
          BY <3>3, <4>1, PartFits
        <4> QED BY <4>2, <4>3
      <3>5. n \in NodesOver(nodesUpTo[h])
        <4>1. x.v \in STRING
          BY <1>2, <1>6, TokenIs
        <4> HIDE DEF h, x
        <4> QED BY <3>4, <4>1, NodesMade, Zenon
      <3>6. Composed(texts, n) = <<x, Mark("lparen")>> \o u \o <<Mark("rparen")>>
        <4>1. n[1] = "call" /\ n[2] = x.v /\ n[3] = args.node
          BY DEF Call
        <4>2. x = Token("ident", x.v)
          BY <1>2, <1>6, TokenIs
        <4> HIDE DEF n, x
        <4> QED BY <4>1, <4>2 DEF Composed
      <3>7. WithoutParentheses(Composed(texts, n)) = <<x>> \o WithoutParentheses(u)
        <4>1. x \in Tokens /\ x.t = "ident" /\ u \in Seq(Tokens)
          BY <1>2, <1>6, <3>2
        <4> HIDE DEF u, x
        <4> QED BY <3>6, <4>1, WithoutCall
      <3>8. Between(toks, pos, q + 1) = <<x>> \o Between(toks, pos + 2, q)
        <4>1. Between(toks, pos + 1, q + 1) = Between(toks, pos + 2, q)
          <5>1. q \in (pos + 1) + 1 .. Len(toks)
            BY <3>1, <3>2
          <5> QED BY <1>6, <2>3, <3>1, <5>1, BetweenParentheses
        <4>2. Kept(x) = <<x>>
          BY <1>2, <1>6 DEF Kept
        <4>3. q + 1 \in pos + 1 .. Len(toks) + 1
          BY <1>0, <3>2
        <4>4. Between(toks, pos, q + 1) = Kept(x) \o Between(toks, pos + 1, q + 1)
          BY <1>2, <1>6, <4>3, BetweenFirst
        <4> QED BY <4>1, <4>2, <4>4
      <3>9. WithoutParentheses(Composed(texts, n)) = Between(toks, pos, q + 1)
        BY <3>2, <3>7, <3>8
      <3>10. Fits(toks, Parsed(n, q + 1), pos)
        <4>1. q + 1 \in pos + 1 .. Len(toks) + 1 /\ pos \in 1 .. Len(toks)
          BY <1>0, <1>2, <1>6, <3>2
        <4> HIDE DEF n, h, x
        <4> QED BY <3>3, <3>5, <3>9, <4>1, TreeFits
      <3> QED BY <2>1, <2>3, <3>10 DEF args, q
    <2> QED BY <2>2, <2>3
  <1> QED BY <1>1, <1>3, <1>4, <1>5, <1>6

\* So does what parseUnary reads.
LEMMA UnaryFits ==
  ASSUME NEW toks \in Seq(Tokens), Len(toks) <= MaxHeight, NEW p, NEW pos \in 1 .. Len(toks) + 1,
         \A q \in pos + 1 .. Len(toks) + 1 : FitsFrom(toks, p, q),
         Fits(toks, Called(p, "primary", pos), pos)
  PROVE  Fits(toks, parseUnary(toks, p, pos), pos)
  <1>0. Len(toks) \in Nat
    BY SeqIs
  <1>1. CASE IsOp(toks, pos, UnaryOps)
    <2> DEFINE arg == Called(p, "unary", pos + 1)
               x == toks[pos]
               q == arg.pos
               m == arg.node
               n == Unary(x.v, m)
               h == q - (pos + 1)
    <2>1. pos \in 1 .. Len(toks) /\ x \in Tokens /\ x.t = "op" /\ x.v \in UnaryOps
      <3>1. TypeAt(toks, pos) # "eof"
        BY <1>1 DEF IsOp
      <3>2. pos \in Nat /\ pos >= 1
        BY <1>0
      <3>3. pos \in 1 .. Len(toks) /\ x \in Tokens /\ TypeAt(toks, pos) = x.t
        BY <3>1, <3>2, TypeIs
      <3> QED BY <1>1, <3>3 DEF IsOp
    <2>2. parseUnary(toks, p, pos) = IF Threw(arg) THEN Throws ELSE Parsed(n, q)
      BY <1>1 DEF parseUnary
    <2>3. Fits(toks, arg, pos + 1)
      <3>1. pos + 1 \in pos + 1 .. Len(toks) + 1
        BY <1>0, <2>1
      <3> QED BY <3>1 DEF FitsFrom
    <2> HIDE DEF arg
    <2>4. CASE Threw(arg)
      BY <2>2, <2>4 DEF Fits, Threw, Throws
    <2>5. CASE ~Threw(arg)
      <3>1. /\ q \in (pos + 1) + 1 .. Len(toks) + 1
            /\ m \in nodesUpTo[h]
            /\ WithoutParentheses(texts[m]) = Between(toks, pos + 1, q)
        BY <2>3, <2>5 DEF Fits
      <3>2. h \in Nat /\ h + 1 = q - pos /\ h < MaxHeight /\ h <= h /\ q \in pos + 1 .. Len(toks) + 1
        BY <1>0, <3>1, LanguageAssumption
      <3> HIDE DEF q, m, n, h, x
      <3>3. n \in NodesOver(nodesUpTo[h])
        BY <2>1, <3>1, NodesMade, Zenon DEF n
      <3>4. IsText(texts[m])
        BY <3>1, <3>2, PartFits
      <3>5. Composed(texts, n) = <<x>> \o Placed(texts, m, 14)
        <4>1. n[1] = "unary" /\ n[2] = x.v /\ n[3][1] = m
          BY DEF n, Unary
        <4>2. x = Op(x.v)
          BY <2>1, TokenIs
        <4> QED BY <4>1, <4>2 DEF Composed
      <3>6. WithoutParentheses(Composed(texts, n)) = <<x>> \o WithoutParentheses(texts[m])
        <4> DEFINE t == Placed(texts, m, 14)
        <4>1. t \in Seq(Tokens) /\ WithoutParentheses(t) = WithoutParentheses(texts[m])
          BY <3>4, PlacedIsText, WithoutPlaced DEF IsText
        <4>2. Composed(texts, n) = <<x>> \o t
          BY <3>5
        <4>3. x.t \notin {"lparen", "rparen"} /\ x \in Tokens
          BY <2>1
        <4> HIDE DEF t
        <4>4. WithoutParentheses(<<x>> \o t) = <<x>> \o WithoutParentheses(t)
          BY <4>1, <4>3, WithoutBetween
        <4> QED BY <4>1, <4>2, <4>4
      <3>7. Between(toks, pos, q) = <<x>> \o Between(toks, pos + 1, q)
        <4>1. Kept(x) = <<x>>
          BY <2>1 DEF Kept
        <4> QED BY <2>1, <3>2, <4>1, BetweenFirst DEF x
      <3>8. Fits(toks, Parsed(n, q), pos)
        <4>1. WithoutParentheses(Composed(texts, n)) = Between(toks, pos, q)
          BY <3>1, <3>6, <3>7
        <4> QED BY <2>1, <3>2, <3>3, <4>1, TreeFits
      <3> QED BY <2>2, <2>5, <3>8 DEF n, q
    <2> QED BY <2>4, <2>5
  <1>2. CASE ~IsOp(toks, pos, UnaryOps)
    BY <1>2 DEF parseUnary
  <1> QED BY <1>1, <1>2

\* A round of an expression.
LEMMA RoundFits ==
  ASSUME NEW toks \in Seq(Tokens), Len(toks) <= MaxHeight, NEW p, NEW pos \in 1 .. Len(toks) + 1,
         \A q \in pos + 1 .. Len(toks) + 1 : FitsFrom(toks, p, q),
         NEW lhs, Fits(toks, lhs, pos), NEW bp \in 0 .. 13
  PROVE  Fits(toks, extend(toks, p, lhs, bp), pos)
  <1> DEFINE q == lhs.pos
             left == lhs.node
             x == toks[q]
             qmark == TypeAt(toks, q) = "qmark" /\ bp <= 1
             op == TypeAt(toks, q) = "op" /\ bindsLeft(x.v) >= 0 /\ bindsLeft(x.v) >= bp
  <1>0. Len(toks) \in Nat
    BY SeqIs
  <1>1. Fits(toks, Throws, pos)
    BY DEF Fits, Threw, Throws
  <1>2. CASE Threw(lhs)
    BY <1>1, <1>2 DEF extend
  <1>3. ASSUME ~Threw(lhs)
        PROVE  /\ q \in pos + 1 .. Len(toks) + 1
               /\ left \in nodesUpTo[q - pos]
               /\ WithoutParentheses(texts[left]) = Between(toks, pos, q)
    BY <1>3 DEF Fits
  <1>4. ASSUME ~Threw(lhs), TypeAt(toks, q) # "eof"
        PROVE  /\ q \in pos + 1 .. Len(toks) /\ q \in 1 .. Len(toks) /\ pos \in 1 .. Len(toks)
               /\ x \in Tokens /\ TypeAt(toks, q) = x.t
               /\ q + 1 \in pos + 1 .. Len(toks) + 1
    <2>1. q \in pos + 1 .. Len(toks) + 1
      BY <1>3, <1>4
    <2> HIDE DEF q
    <2>2. q \in Nat /\ q >= 1
      BY <1>0, <2>1
    <2>3. q \in 1 .. Len(toks) /\ x \in Tokens /\ TypeAt(toks, q) = x.t
      BY <1>4, <2>2, TypeIs
    <2> HIDE DEF x
    <2> QED BY <1>0, <2>1, <2>3
  <1>5. CASE ~Threw(lhs) /\ qmark
    <2> DEFINE then == parseExpression(toks, p, q + 1, 0)
               r == then.pos
               else == parseExpression(toks, p, r + 1, 1)
               s == else.pos
               n == Cond(left, then.node, else.node)
    <2>1. extend(toks, p, lhs, bp) =
               IF Threw(then) THEN Throws
               ELSE IF TypeAt(toks, r) # "colon" THEN Throws
               ELSE IF Threw(else) THEN Throws
               ELSE Parsed(n, s)
      BY <1>5 DEF extend
    <2>2. /\ q \in pos + 1 .. Len(toks) /\ q \in 1 .. Len(toks) /\ pos \in 1 .. Len(toks)
          /\ x \in Tokens /\ x.t = "qmark"
          /\ q + 1 \in pos + 1 .. Len(toks) + 1
      BY <1>4, <1>5
    <2>3. Fits(toks, then, q + 1)
      <3>1. 0 \in 0 .. 13
        OBVIOUS
      <3> QED BY <2>2, <3>1 DEF FitsFrom
    <2>4. CASE Threw(then) \/ TypeAt(toks, r) # "colon" \/ Threw(else)
      <3> HIDE DEF then, else
      <3> QED BY <1>1, <2>1, <2>4
    <2>5. CASE ~Threw(then) /\ TypeAt(toks, r) = "colon" /\ ~Threw(else)
      <3> DEFINE a == then.node
                 b == else.node
                 y == toks[r]
      <3>1. /\ r \in (q + 1) + 1 .. Len(toks) + 1
            /\ a \in nodesUpTo[r - (q + 1)]
            /\ WithoutParentheses(texts[a]) = Between(toks, q + 1, r)
        <4> HIDE DEF then
        <4> QED BY <2>3, <2>5 DEF Fits
      <3>2. /\ r \in 1 .. Len(toks) /\ y \in Tokens /\ y.t = "colon"
            /\ r + 1 \in pos + 1 .. Len(toks) + 1
        <4> HIDE DEF then, q, r
        <4>1. r \in Nat /\ r >= 1
          BY <1>0, <2>2, <3>1
        <4>2. r \in 1 .. Len(toks) /\ y \in Tokens /\ TypeAt(toks, r) = y.t
          BY <2>5, <4>1, TypeIs
        <4>3. r + 1 \in pos + 1 .. Len(toks) + 1
          BY <1>0, <2>2, <3>1, <4>2
        <4> QED BY <2>5, <4>2, <4>3
      <3>3. Fits(toks, else, r + 1)
        <4>1. 1 \in 0 .. 13
          OBVIOUS
        <4> HIDE DEF then, q, r
        <4> QED BY <3>2, <4>1 DEF FitsFrom
      <3>4. /\ s \in (r + 1) + 1 .. Len(toks) + 1
            /\ b \in nodesUpTo[s - (r + 1)]
            /\ WithoutParentheses(texts[b]) = Between(toks, r + 1, s)
        <4> HIDE DEF else
        <4> QED BY <2>5, <3>3 DEF Fits
      <3>5. left \in nodesUpTo[q - pos] /\ WithoutParentheses(texts[left]) = Between(toks, pos, q)
        BY <1>3, <1>5
      <3>6. n = Cond(left, a, b)
        OBVIOUS
      <3> HIDE DEF then, else, a, b, q, r, s, left, x, y, n
      <3>7. Fits(toks, Parsed(n, s), pos)
        <4> DEFINE h == s - (pos + 1)
                   i == q - pos
                   j == r - (q + 1)
                   k == s - (r + 1)
        <4>1. /\ h \in Nat /\ h + 1 = s - pos /\ h < MaxHeight
              /\ i \in Nat /\ j \in Nat /\ k \in Nat /\ i <= h /\ j <= h /\ k <= h
              /\ s \in pos + 1 .. Len(toks) + 1
          <5>1. r \in q + 2 .. Len(toks) /\ s \in r + 2 .. Len(toks) + 1
            BY <1>0, <2>2, <3>1, <3>2, <3>4
          <5> QED BY <1>0, <2>2, <5>1, LanguageAssumption
        <4>2. left \in nodesUpTo[i] /\ a \in nodesUpTo[j] /\ b \in nodesUpTo[k]
          BY <3>1, <3>4, <3>5
        <4> HIDE DEF h, i, j, k
        <4>3. /\ left \in nodesUpTo[h] /\ a \in nodesUpTo[h] /\ b \in nodesUpTo[h]
              /\ IsText(texts[left]) /\ IsText(texts[a]) /\ IsText(texts[b])
          BY <4>1, <4>2, PartFits
        <4>4. n \in NodesOver(nodesUpTo[h])
          BY <3>6, <4>3, NodesMade, Zenon
        <4> DEFINE t == Placed(texts, left, 2)
                   u == Placed(texts, a, 0)
                   v == Placed(texts, b, 1)
        <4>5. Composed(texts, n) = t \o <<x>> \o u \o <<y>> \o v
          <5>1. n[1] = "cond" /\ n[3][1] = left /\ n[3][2] = a /\ n[3][3] = b
            BY <3>6 DEF Cond
          <5>2. x = Mark("qmark") /\ y = Mark("colon")
            BY <2>2, <3>2, TokenIs
          <5> QED BY <5>1, <5>2 DEF Composed
        <4>6. /\ t \in Seq(Tokens) /\ WithoutParentheses(t) = Between(toks, pos, q)
              /\ u \in Seq(Tokens) /\ WithoutParentheses(u) = Between(toks, q + 1, r)
              /\ v \in Seq(Tokens) /\ WithoutParentheses(v) = Between(toks, r + 1, s)
          BY <3>1, <3>4, <3>5, <4>3, PlacedIsText, WithoutPlaced DEF IsText
        <4> HIDE DEF t, u, v
        <4>7. /\ x \in Tokens /\ x.t \notin {"lparen", "rparen"} /\ Kept(x) = <<x>>
              /\ y \in Tokens /\ y.t \notin {"lparen", "rparen"} /\ Kept(y) = <<y>>
          BY <2>2, <3>2 DEF Kept
        <4>8. WithoutParentheses(t \o <<x>> \o u \o <<y>> \o v) =
                 WithoutParentheses(t) \o <<x>> \o WithoutParentheses(u) \o <<y>> \o WithoutParentheses(v)
          <5> DEFINE w == t \o <<x>> \o u
          <5>1. w \in Seq(Tokens) /\ WithoutParentheses(w) = WithoutParentheses(t) \o <<x>> \o WithoutParentheses(u)
            BY <4>6, <4>7, WithoutBetween
          <5> HIDE DEF w
          <5>2. WithoutParentheses(w \o <<y>> \o v) = WithoutParentheses(w) \o <<y>> \o WithoutParentheses(v)
            BY <4>6, <4>7, <5>1, WithoutBetween
          <5> QED BY <5>1, <5>2, Zenon DEF w
        <4>9. Between(toks, pos, s) =
                 Between(toks, pos, q) \o <<x>> \o Between(toks, q + 1, r) \o <<y>> \o Between(toks, r + 1, s)
          <5>1. /\ Between(toks, pos, s) = Between(toks, pos, r) \o Between(toks, r, s)
                /\ Between(toks, pos, r) = Between(toks, pos, q) \o Between(toks, q, r)
                /\ Between(toks, pos, q) \in Seq(Tokens) /\ Between(toks, pos, r) \in Seq(Tokens)
                /\ Between(toks, q + 1, r) \in Seq(Tokens) /\ Between(toks, r + 1, s) \in Seq(Tokens)
            <6>1. /\ pos \in 1 .. Len(toks) + 1
                  /\ r \in pos .. Len(toks) + 1 /\ s \in r .. Len(toks) + 1
                  /\ q \in pos .. Len(toks) + 1 /\ r \in q .. Len(toks) + 1
                  /\ q + 1 \in 1 .. Len(toks) + 1 /\ r \in q + 1 .. Len(toks) + 1 /\ r \in r .. Len(toks) + 1
                  /\ r + 1 \in 1 .. Len(toks) + 1 /\ s \in r + 1 .. Len(toks) + 1 /\ s \in s .. Len(toks) + 1
              BY <1>0, <2>2, <3>1, <3>2, <3>4
            <6> QED BY <6>1, BetweenParts
          <5>2. Between(toks, q, r) = <<x>> \o Between(toks, q + 1, r)
            <6>1. r \in q + 1 .. Len(toks) + 1
              BY <1>0, <2>2, <3>1
            <6> QED BY <2>2, <4>7, <6>1, BetweenFirst DEF x
          <5>3. Between(toks, r, s) = <<y>> \o Between(toks, r + 1, s)
            <6>1. s \in r + 1 .. Len(toks) + 1
              BY <1>0, <3>2, <3>4
            <6> QED BY <3>2, <4>7, <6>1, BetweenFirst DEF y
          <5> DEFINE A == Between(toks, pos, q)
                     B == Between(toks, q + 1, r)
                     C == Between(toks, r + 1, s)
          <5>4. A \in Seq(Tokens) /\ B \in Seq(Tokens) /\ C \in Seq(Tokens)
            BY <5>1
          <5>5. Between(toks, pos, s) = (A \o (<<x>> \o B)) \o (<<y>> \o C)
            BY <5>1, <5>2, <5>3
          <5> HIDE DEF A, B, C
          <5>6. (A \o (<<x>> \o B)) \o (<<y>> \o C) = A \o <<x>> \o B \o <<y>> \o C
            <6> DEFINE D == A \o <<x>> \o B
            <6>1. x \in Tokens /\ y \in Tokens
              BY <4>7
            <6>2. D \in Seq(Tokens) /\ A \o (<<x>> \o B) = D
              BY <5>4, <6>1, Regrouped
            <6> HIDE DEF D
            <6>3. D \o (<<y>> \o C) = D \o <<y>> \o C
              BY <5>4, <6>1, <6>2, Regrouped
            <6> QED BY <6>2, <6>3 DEF D
          <5> QED BY <5>5, <5>6 DEF A, B, C
        <4>10. WithoutParentheses(Composed(texts, n)) = Between(toks, pos, s)
          BY <4>5, <4>6, <4>8, <4>9
        <4> QED BY <2>2, <4>1, <4>4, <4>10, TreeFits
      <3> QED BY <2>1, <2>5, <3>7
    <2> QED BY <2>4, <2>5
  <1>6. CASE ~Threw(lhs) /\ ~qmark /\ op
    <2> DEFINE b == bindsRight(x.v)
               rhs == parseExpression(toks, p, q + 1, b)
               r == rhs.pos
               right == rhs.node
               n == Bin(x.v, left, right)
    <2>1. extend(toks, p, lhs, bp) = IF Threw(rhs) THEN Throws ELSE Parsed(n, r)
      BY <1>6 DEF extend
    <2>2. /\ q \in pos + 1 .. Len(toks) /\ q \in 1 .. Len(toks) /\ pos \in 1 .. Len(toks)
          /\ x \in Tokens /\ x.t = "op" /\ x.v \in BinaryOps
          /\ q + 1 \in pos + 1 .. Len(toks) + 1
      <3>1. x.v \in BinaryOps
        BY <1>6, BindingPowers
      <3> QED BY <1>4, <1>6, <3>1
    <2>3. Fits(toks, rhs, q + 1)
      <3>1. b \in 0 .. 13
        BY <1>6, BindingPowers
      <3> HIDE DEF b, q
      <3> QED BY <2>2, <3>1 DEF FitsFrom
    <2>4. CASE Threw(rhs)
      <3> HIDE DEF rhs
      <3> QED BY <1>1, <2>1, <2>4
    <2>5. CASE ~Threw(rhs)
      <3>1. /\ r \in (q + 1) + 1 .. Len(toks) + 1
            /\ right \in nodesUpTo[r - (q + 1)]
            /\ WithoutParentheses(texts[right]) = Between(toks, q + 1, r)
        <4> HIDE DEF rhs
        <4> QED BY <2>3, <2>5 DEF Fits
      <3>2. left \in nodesUpTo[q - pos] /\ WithoutParentheses(texts[left]) = Between(toks, pos, q)
        BY <1>3, <1>6
      <3>3. n = Bin(x.v, left, right)
        OBVIOUS
      <3> HIDE DEF rhs, q, r, left, right, x, n, b
      <3>4. Fits(toks, Parsed(n, r), pos)
        <4> DEFINE h == r - (pos + 1)
                   i == q - pos
                   j == r - (q + 1)
        <4>1. /\ h \in Nat /\ h + 1 = r - pos /\ h < MaxHeight
              /\ i \in Nat /\ j \in Nat /\ i <= h /\ j <= h
              /\ r \in pos + 1 .. Len(toks) + 1
          <5>1. r \in q + 2 .. Len(toks) + 1
            BY <1>0, <2>2, <3>1
          <5> QED BY <1>0, <2>2, <5>1, LanguageAssumption
        <4>2. left \in nodesUpTo[i] /\ right \in nodesUpTo[j]
          BY <3>1, <3>2
        <4> HIDE DEF h, i, j
        <4>3. /\ left \in nodesUpTo[h] /\ right \in nodesUpTo[h]
              /\ IsText(texts[left]) /\ IsText(texts[right])
          BY <4>1, <4>2, PartFits
        <4>4. n \in NodesOver(nodesUpTo[h])
          BY <2>2, <3>3, <4>3, NodesMade, Zenon
        <4> DEFINE t == Placed(texts, left, Level(n))
                   u == Placed(texts, right, Level(n) + 1)
        <4>5. Composed(texts, n) = t \o <<x>> \o u
          <5>1. n[1] = "bin" /\ n[2] = x.v /\ n[3][1] = left /\ n[3][2] = right
            BY <3>3 DEF Bin
          <5>2. x = Op(x.v)
            BY <2>2, TokenIs
          <5> QED BY <5>1, <5>2 DEF Composed
        <4>6. /\ t \in Seq(Tokens) /\ WithoutParentheses(t) = Between(toks, pos, q)
              /\ u \in Seq(Tokens) /\ WithoutParentheses(u) = Between(toks, q + 1, r)
          BY <3>1, <3>2, <4>3, PlacedIsText, WithoutPlaced DEF IsText
        <4> HIDE DEF t, u
        <4>7. x \in Tokens /\ x.t \notin {"lparen", "rparen"} /\ Kept(x) = <<x>>
          BY <2>2 DEF Kept
        <4>8. WithoutParentheses(t \o <<x>> \o u) = WithoutParentheses(t) \o <<x>> \o WithoutParentheses(u)
          BY <4>6, <4>7, WithoutBetween
        <4>9. Between(toks, pos, r) = Between(toks, pos, q) \o <<x>> \o Between(toks, q + 1, r)
          <5>1. /\ Between(toks, pos, r) = Between(toks, pos, q) \o Between(toks, q, r)
                /\ Between(toks, pos, q) \in Seq(Tokens) /\ Between(toks, q + 1, r) \in Seq(Tokens)
            <6>1. /\ pos \in 1 .. Len(toks) + 1
                  /\ q \in pos .. Len(toks) + 1 /\ r \in q .. Len(toks) + 1
                  /\ q + 1 \in 1 .. Len(toks) + 1 /\ r \in q + 1 .. Len(toks) + 1 /\ r \in r .. Len(toks) + 1
              BY <1>0, <2>2, <3>1
            <6> QED BY <6>1, BetweenParts
          <5>2. Between(toks, q, r) = <<x>> \o Between(toks, q + 1, r)
            <6>1. r \in q + 1 .. Len(toks) + 1
              BY <1>0, <2>2, <3>1
            <6> QED BY <2>2, <4>7, <6>1, BetweenFirst DEF x
          <5> DEFINE A == Between(toks, pos, q)
                     B == Between(toks, q + 1, r)
          <5>3. A \in Seq(Tokens) /\ B \in Seq(Tokens) /\ Between(toks, pos, r) = A \o (<<x>> \o B)
            BY <5>1, <5>2
          <5> HIDE DEF A, B
          <5>4. A \o (<<x>> \o B) = A \o <<x>> \o B
            BY <4>7, <5>3, Regrouped
          <5> QED BY <5>3, <5>4 DEF A, B
        <4>10. WithoutParentheses(Composed(texts, n)) = Between(toks, pos, r)
          BY <4>5, <4>6, <4>8, <4>9
        <4> QED BY <2>2, <4>1, <4>4, <4>10, TreeFits
      <3> QED BY <2>1, <2>5, <3>4
    <2> QED BY <2>4, <2>5
  <1>7. CASE ~Threw(lhs) /\ ~qmark /\ ~op
    BY <1>7 DEF extend
  <1> QED BY <1>2, <1>5, <1>6, <1>7

\* All the rounds of one.
LEMMA ExpressionFits ==
  ASSUME NEW toks \in Seq(Tokens), Len(toks) <= MaxHeight, NEW pos \in 1 .. Len(toks) + 1,
         \A q \in pos + 1 .. Len(toks) + 1 : FitsFrom(toks, Parser(toks), q),
         NEW bp \in 0 .. 13
  PROVE  /\ Fits(toks, parseExpression(toks, Parser(toks), pos, bp), pos)
         /\ Fits(toks, Called(Parser(toks), "unary", pos), pos)
  <1> DEFINE p == Parser(toks)
             e(n) == p[<<"expression", pos, bp, n>>]
             l == Len(toks)
  <1>1. l \in Nat
    BY SeqIs
  <1>2. /\ e(0) = Called(p, "unary", pos)
        /\ \A n \in 1 .. l : e(n) = extend(toks, p, e(n - 1), bp)
        /\ Called(p, "unary", pos) = parseUnary(toks, p, pos)
        /\ Called(p, "primary", pos) = parsePrimary(toks, p, pos)
    BY ParserDoes
  <1>3. Fits(toks, Called(p, "primary", pos), pos)
    BY <1>2, PrimaryFits
  <1>4. Fits(toks, Called(p, "unary", pos), pos)
    BY <1>2, <1>3, UnaryFits
  <1> HIDE DEF e, l, p
  <1> DEFINE P == {n \in Nat : n <= l => Fits(toks, e(n), pos)}
  <1>5. ASSUME NEW n \in Nat, \A j \in 0 .. n - 1 : j \in P
        PROVE  n \in P
    <2> SUFFICES ASSUME n <= l PROVE Fits(toks, e(n), pos)
      OBVIOUS
    <2>1. CASE n = 0
      BY <1>2, <1>4, <2>1
    <2>2. CASE n # 0
      <3>1. n - 1 \in 0 .. n - 1 /\ n - 1 <= l /\ n \in 1 .. l
        BY <1>1, <2>2
      <3>2. Fits(toks, e(n - 1), pos)
        BY <1>5, <3>1
      <3>3. Fits(toks, extend(toks, p, e(n - 1), bp), pos)
        BY <3>2, RoundFits DEF p
      <3> QED BY <1>2, <3>1, <3>3
    <2> QED BY <2>1, <2>2
  <1>6. Fits(toks, e(l), pos)
    <2>1. Nat \subseteq P
      <3> HIDE DEF P
      <3> QED BY <1>5, StrongInduction
    <2> QED BY <1>1, <2>1
  <1> QED BY <1>4, <1>6 DEF e, l, p, parseExpression

\* And so do arguments, whose first is an expression at the same position.
LEMMA ArgumentsFit ==
  ASSUME NEW toks \in Seq(Tokens), Len(toks) <= MaxHeight, NEW p, NEW pos \in 1 .. Len(toks) + 1,
         \A q \in pos + 1 .. Len(toks) + 1 : FitsFrom(toks, p, q),
         Fits(toks, parseExpression(toks, p, pos, 0), pos)
  PROVE  ArgsFit(toks, parseArgs(toks, p, pos), pos)
  <1> DEFINE arg == parseExpression(toks, p, pos, 0)
             m == arg.node
             q == arg.pos
             x == toks[q]
             rest == Called(p, "args", q + 1)
             ms == rest.node
             r == rest.pos
  <1>0. Len(toks) \in Nat
    BY SeqIs
  <1>1. parseArgs(toks, p, pos) =
           IF Threw(arg) THEN Throws
           ELSE IF TypeAt(toks, q) # "comma" THEN Parsed(<<m>>, q)
           ELSE IF Threw(rest) THEN Throws
           ELSE Parsed(<<m>> \o ms, r)
    BY DEF parseArgs
  <1>2. ArgsFit(toks, Throws, pos)
    BY DEF ArgsFit, Threw, Throws
  <1> HIDE DEF arg, rest
  <1>3. CASE Threw(arg)
    BY <1>1, <1>2, <1>3
  <1>4. CASE ~Threw(arg)
    <2>1. /\ q \in pos + 1 .. Len(toks) + 1
          /\ m \in nodesUpTo[q - pos]
          /\ WithoutParentheses(texts[m]) = Between(toks, pos, q)
      BY <1>4 DEF Fits, arg
    <2>2. CASE TypeAt(toks, q) # "comma"
      <3> DEFINE d == q - pos
      <3>1. /\ d \in 0 .. MaxHeight /\ MaxHeight \in d .. MaxHeight
        BY <1>0, <2>1, LanguageAssumption
      <3>2. m \in nodesUpTo[d]
        BY <2>1
      <3> HIDE DEF d, m, q
      <3>3. \A n \in nodesUpTo[d] : IsText(texts[n])
        BY <3>1, NodesGrow, TextsAreTexts DEF Node
      <3>4. <<>> \in Seq(nodesUpTo[d])
        OBVIOUS
      <3>5. /\ <<m>> \in Seq(nodesUpTo[d]) /\ Len(<<m>>) = 1
            /\ WithoutParentheses(Listed(texts, <<m>>)) = WithoutParentheses(texts[m])
        BY <3>2, <3>3, <3>4, WithoutListed
      <3>6. Parsed(<<m>>, q).node = <<m>> /\ Parsed(<<m>>, q).pos = q
        BY DEF Parsed
      <3>7. ArgsFit(toks, Parsed(<<m>>, q), pos)
        <4> DEFINE one == <<m>>
                   res == Parsed(one, q)
        <4>1. /\ one \in Seq(nodesUpTo[q - pos]) /\ Len(one) >= 1
              /\ WithoutParentheses(Listed(texts, one)) = Between(toks, pos, q)
          BY <2>1, <3>5 DEF d
        <4>2. res.node = one /\ res.pos = q
          BY <3>6
        <4> HIDE DEF one, res
        <4>3. ArgsFit(toks, res, pos)
          BY <2>1, <4>1, <4>2 DEF ArgsFit
        <4> QED BY <4>3 DEF res, one
      <3> QED BY <1>1, <1>4, <2>2, <3>7 DEF m, q
    <2>3. CASE TypeAt(toks, q) = "comma" /\ Threw(rest)
      BY <1>1, <1>2, <1>4, <2>3
    <2>4. CASE TypeAt(toks, q) = "comma" /\ ~Threw(rest)
      <3>1. q \in 1 .. Len(toks) /\ x \in Tokens /\ x.t = "comma"
        <4> HIDE DEF q
        <4>1. q \in Nat /\ q >= 1
          BY <1>0, <2>1
        <4> QED BY <2>4, <4>1, TypeIs
      <3>2. q + 1 \in pos + 1 .. Len(toks) + 1
        BY <1>0, <2>1, <3>1
      <3>3. ArgsFit(toks, rest, q + 1)
        <4> HIDE DEF q
        <4> QED BY <3>2 DEF FitsFrom, rest
      <3>4. /\ r \in (q + 1) + 1 .. Len(toks) + 1
            /\ ms \in Seq(nodesUpTo[r - (q + 1)]) /\ Len(ms) >= 1
            /\ WithoutParentheses(Listed(texts, ms)) = Between(toks, q + 1, r)
        BY <2>4, <3>3 DEF ArgsFit
      <3> HIDE DEF m, q, x, ms, r
      <3> DEFINE i == q - pos
                 j == r - (q + 1)
                 h == r - pos
      <3>5. /\ i \in 0 .. MaxHeight /\ j \in 0 .. MaxHeight /\ h \in i .. MaxHeight /\ h \in j .. MaxHeight
            /\ h \in 0 .. MaxHeight /\ MaxHeight \in h .. MaxHeight
            /\ r \in pos + 1 .. Len(toks) + 1
        <4>1. r \in q + 2 .. Len(toks) + 1
          BY <1>0, <3>1, <3>4
        <4> QED BY <1>0, <2>1, <3>1, <4>1, LanguageAssumption
      <3>6. m \in nodesUpTo[i] /\ ms \in Seq(nodesUpTo[j])
        BY <2>1, <3>4
      <3> HIDE DEF i, j, h
      <3>7. m \in nodesUpTo[h] /\ ms \in Seq(nodesUpTo[h])
        <4>1. nodesUpTo[i] \subseteq nodesUpTo[h] /\ nodesUpTo[j] \subseteq nodesUpTo[h]
          BY <3>5, NodesGrow
        <4> QED BY <3>6, <4>1
      <3>8. \A n \in nodesUpTo[h] : IsText(texts[n])
        BY <3>5, NodesGrow, TextsAreTexts DEF Node
      <3> DEFINE all == <<m>> \o ms
      <3>9. /\ all \in Seq(nodesUpTo[h]) /\ Len(all) = 1 + Len(ms)
            /\ WithoutParentheses(Listed(texts, all)) =
                  WithoutParentheses(texts[m]) \o <<Mark("comma")>> \o WithoutParentheses(Listed(texts, ms))
        BY <3>4, <3>7, <3>8, WithoutListed, ZenonT(30)
      <3>10. Between(toks, pos, r) = Between(toks, pos, q) \o <<Mark("comma")>> \o Between(toks, q + 1, r)
        <4>1. pos \in 1 .. Len(toks) /\ x = Mark("comma") /\ Kept(x) = <<x>>
          <5>1. x = Mark("comma")
            BY <3>1, TokenIs
          <5>2. Kept(x) = <<x>>
            BY <3>1 DEF Kept
          <5> QED BY <1>0, <2>1, <3>1, <5>1, <5>2
        <4>2. /\ Between(toks, pos, r) = Between(toks, pos, q) \o Between(toks, q, r)
              /\ Between(toks, pos, q) \in Seq(Tokens) /\ Between(toks, q + 1, r) \in Seq(Tokens)
          <5>1. /\ q \in pos .. Len(toks) + 1 /\ r \in q .. Len(toks) + 1
                /\ q + 1 \in 1 .. Len(toks) + 1 /\ r \in q + 1 .. Len(toks) + 1 /\ r \in r .. Len(toks) + 1
            BY <1>0, <2>1, <3>1, <3>4
          <5> QED BY <5>1, BetweenParts
        <4>3. Between(toks, q, r) = <<x>> \o Between(toks, q + 1, r)
          <5>1. r \in q + 1 .. Len(toks) + 1
            BY <1>0, <2>1, <3>4
          <5> QED BY <3>1, <4>1, <5>1, BetweenFirst DEF x
        <4> DEFINE A == Between(toks, pos, q)
                   B == Between(toks, q + 1, r)
        <4>4. A \in Seq(Tokens) /\ B \in Seq(Tokens) /\ Between(toks, pos, r) = A \o (<<x>> \o B) /\ x \in Tokens
          BY <3>1, <4>2, <4>3
        <4> HIDE DEF A, B
        <4>5. A \o (<<x>> \o B) = A \o <<x>> \o B
          BY <4>4, Regrouped
        <4> QED BY <4>1, <4>4, <4>5 DEF A, B
      <3>11. Len(all) >= 1
        <4>1. Len(ms) \in Nat
          BY <3>7, SeqIs
        <4> HIDE DEF all
        <4> QED BY <3>9, <4>1
      <3> HIDE DEF all
      <3>12. ArgsFit(toks, Parsed(all, r), pos)
        <4>1. /\ all \in Seq(nodesUpTo[r - pos])
              /\ WithoutParentheses(Listed(texts, all)) = Between(toks, pos, r)
          BY <2>1, <3>4, <3>9, <3>10 DEF h
        <4>2. Parsed(all, r).node = all /\ Parsed(all, r).pos = r
          BY DEF Parsed
        <4> QED BY <3>5, <3>11, <4>1, <4>2 DEF ArgsFit
      <3> QED BY <1>1, <1>4, <2>4, <3>12 DEF all, m, ms, r, q
    <2> QED BY <2>2, <2>3, <2>4
  <1> QED BY <1>3, <1>4

\* Whatever the parser reads from some position on is written there.
LEMMA AllFits ==
  ASSUME NEW toks \in Seq(Tokens), Len(toks) <= MaxHeight
  PROVE  \A pos \in 1 .. Len(toks) + 1 : FitsFrom(toks, Parser(toks), pos)
  <1> DEFINE l == Len(toks)
             p == Parser(toks)
             P == {n \in Nat : n <= l => FitsFrom(toks, p, (l + 1) - n)}
  <1>0. l \in Nat
    BY SeqIs
  <1>1. ASSUME NEW n \in Nat, \A j \in 0 .. n - 1 : j \in P
        PROVE  n \in P
    <2> SUFFICES ASSUME n <= l PROVE FitsFrom(toks, p, (l + 1) - n)
      OBVIOUS
    <2> DEFINE pos == (l + 1) - n
    <2>1. pos \in 1 .. l + 1
      BY <1>0
    <2>2. ASSUME NEW q \in pos + 1 .. l + 1 PROVE FitsFrom(toks, p, q)
      <3> DEFINE j == (l + 1) - q
      <3>1. j \in 0 .. n - 1 /\ j <= l /\ q = (l + 1) - j
        BY <1>0
      <3> HIDE DEF j
      <3>2. j \in P
        BY <1>1, <3>1
      <3> QED BY <3>1, <3>2
    <2> HIDE DEF pos
    <2>3. 0 \in 0 .. 13
      OBVIOUS
    <2>4. /\ \A bp \in 0 .. 13 : Fits(toks, parseExpression(toks, p, pos, bp), pos)
          /\ Fits(toks, Called(p, "unary", pos), pos)
      BY <2>1, <2>2, <2>3, ExpressionFits
    <2>5. Called(p, "args", pos) = parseArgs(toks, p, pos)
      BY <2>1, ParserDoes
    <2>6. ArgsFit(toks, parseArgs(toks, p, pos), pos)
      BY <2>1, <2>2, <2>3, <2>4, ArgumentsFit
    <2>7. FitsFrom(toks, p, pos)
      BY <2>4, <2>5, <2>6 DEF FitsFrom
    <2> QED BY <2>7 DEF pos
  <1>2. Nat \subseteq P
    <2> HIDE DEF P
    <2> QED BY <1>1, StrongInduction
  <1>3. ASSUME NEW pos \in 1 .. l + 1 PROVE FitsFrom(toks, p, pos)
    <2> DEFINE n == (l + 1) - pos
    <2>1. n \in Nat /\ n <= l /\ pos = (l + 1) - n
      BY <1>0
    <2> HIDE DEF n
    <2>2. n \in P
      BY <1>2, <2>1
    <2> QED BY <2>1, <2>2
  <1> QED BY <1>3

\* What is accepted is, but for parentheses, what is written for the tree it is parsed to.
THEOREM TextsAreFormulas ==
  ASSUME NEW toks \in Seq(Tokens), Len(toks) <= MaxHeight
  PROVE  ParsedIsWritten(toks)
  <1> DEFINE result == parseExpression(toks, Parser(toks), 1, 0)
             q == Len(toks) + 1
  <1>1. Len(toks) \in Nat /\ 1 \in 1 .. Len(toks) + 1 /\ 0 \in 0 .. 13
    BY SeqIs
  <1>2. Fits(toks, result, 1)
    BY <1>1, AllFits DEF FitsFrom
  <1>3. Parse(toks) = IF ~Threw(result) /\ result.pos = q THEN result.node ELSE Throws.node
    BY DEF Parse
  <1> HIDE DEF result
  <1>4. CASE ~(~Threw(result) /\ result.pos = q)
    BY <1>3, <1>4 DEF ParsedIsWritten
  <1>5. CASE ~Threw(result) /\ result.pos = q
    <2>1. WithoutParentheses(texts[result.node]) = Between(toks, 1, q)
      BY <1>2, <1>5 DEF Fits
    <2>2. Between(toks, 1, q) = WithoutParentheses(toks)
      BY BetweenAll
    <2>3. Parse(toks) = result.node
      BY <1>3, <1>5
    <2> QED BY <2>1, <2>2, <2>3 DEF ParsedIsWritten, Written
  <1> QED BY <1>4, <1>5

-------------------------------------------------------------------------------
(* Formulas are sound.                                                       *)

\* Formulas are ordered and read as they are meant (FormulasAreSound of MCCalcRun), for any
\* lists and trees, and for texts of any tokens up to any length.
THEOREM FormulasHold == MCSpec => []FormulasAreSound
  <1> DEFINE I == /\ part = "order" => sample \in Lists
                  /\ part = "tree" => sample \in Trees
                  /\ part = "text" => sample \in Texts
  <1>1. MCInit => I
    BY DEF MCInit
  <1>2. I /\ [MCNext]_allVars => I'
    BY DEF MCNext, allVars
  <1>3. I => FormulasAreSound
    <2>1. ASSUME NEW fs \in Lists PROVE SortIsSound(fs)
      <3>1. Sortable(fs)
        BY SampleAssumption DEF Sortable
      <3> QED BY <3>1, SortSorts
    <2>2. ASSUME NEW node \in Trees PROVE WrittenIsParsed(node)
      BY SampleAssumption, TreesAreParsed
    <2>3. ASSUME NEW toks \in Texts PROVE ParsedIsWritten(toks)
      <3>1. MaxHeight \in Nat
        BY LanguageAssumption
      <3>2. PICK n \in 0 .. TextLength : toks \in [1 .. n -> LanguageTokens]
        BY DEF Texts
      <3>3. n \in Nat /\ n <= MaxHeight /\ LanguageTokens \subseteq Tokens
        BY <3>1, <3>2, SampleAssumption
      <3>4. toks \in [1 .. n -> Tokens]
        BY <3>2, <3>3
      <3>5. toks \in Seq(Tokens) /\ Len(toks) = n
        BY <3>3, <3>4, SeqMade
      <3> QED BY <3>3, <3>5, TextsAreFormulas
    <2> QED BY <2>1, <2>2, <2>3, RunsSort, Zenon DEF FormulasAreSound
  <1> QED BY <1>1, <1>2, <1>3, PTL DEF MCSpec
===============================================================================
