------------------------ MODULE DocumentIngestion_proofs ------------------------
(* Proofs of the safety properties of DocumentIngestion, for any number of    *)
(* documents, uploads, runs, attempts and crashes.                            *)
EXTENDS DocumentIngestion, TLAPS

\* A run has a document from the moment it is dispatched, and nothing happens to
\* a run before.
UnusedRunsAreIdle ==
    \A x \in Runs :
        /\ dispatch[x] = "unused" <=> target[x] = None
        /\ target[x] = None =>
              job[x] = "none" /\ \A n \in Attempts : call[x][n] = "none"

\* Documents are those that were dispatched, and the latest run of one is a run
\* on it.
LatestRunsMatch ==
    \A d \in Docs :
        /\ status[d] = "ABSENT" <=> latest[d] = None
        /\ status[d] = "ABSENT" => d \notin overlapped /\ RunsOf(d) = {}
        /\ latest[d] # None => target[latest[d]] = d

\* Only the latest run of a document that is not overlapped is still at work.
OnlyLatestAtWork ==
    \A d \in Docs : d \notin overlapped =>
        \A x \in RunsOf(d) : x = latest[d] \/ (~Engaged(x) /\ ~Dispatching(x))

IInv == /\ TypeOK
        /\ UnusedRunsAreIdle
        /\ LatestRunsMatch
        /\ OnlyLatestAtWork
        /\ PendingIsBeingDispatched
        /\ ClaimedResultIsStored
        /\ ResultsAreOfLatestRun

-------------------------------------------------------------------------------
(* Every step preserves IInv, one conjunct at a time.                        *)

\* Types.
LEMMA TypeOKStep ==
  ASSUME IInv, [Next]_vars
  PROVE  TypeOK'
  <1> USE IngestionAssumption DEF IInv
  <1>0. CASE UNCHANGED vars
    BY <1>0 DEF TypeOK, DocStatus, DispatchState, Outcome, Dispatching, vars,
       apiVars, aiVars
  <1>1. ASSUME NEW u \in Uploads, NEW d \in Docs, UploadFind(u, d) PROVE TypeOK'
    BY <1>1 DEF TypeOK, DocStatus, DispatchState, Outcome, Dispatching,
       UploadFind, apiVars, aiVars
  <1>2. ASSUME NEW u \in Uploads, NEW x \in Runs, UploadCreate(u, x)
       PROVE  TypeOK'
    BY <1>2 DEF TypeOK, DocStatus, DispatchState, Outcome, Dispatching,
       UploadCreate, StartRun, apiVars, aiVars
  <1>3. ASSUME NEW u \in Uploads, UploadDuplicate(u) PROVE TypeOK'
    BY <1>3 DEF TypeOK, DocStatus, DispatchState, Outcome, Dispatching,
       UploadDuplicate, apiVars, aiVars
  <1>4. ASSUME NEW d \in Docs, SoftDelete(d) PROVE TypeOK'
    BY <1>4 DEF TypeOK, DocStatus, DispatchState, Outcome, Dispatching,
       SoftDelete, apiVars, aiVars
  <1>5. ASSUME NEW d \in Docs, NEW x \in Runs, Reprocess(d, x) PROVE TypeOK'
    BY <1>5 DEF TypeOK, DocStatus, DispatchState, Outcome, Dispatching,
       Reprocess, StartRun, ClearedBatches, ResetStatus, Quiet, apiVars, aiVars
  <1>6. ASSUME NEW x \in Runs, PostAccepted(x) PROVE TypeOK'
    BY <1>6 DEF TypeOK, DocStatus, DispatchState, Outcome, Dispatching,
       PostAccepted, apiVars, aiVars
  <1>7. ASSUME NEW x \in Runs, DispatchThrows(x) PROVE TypeOK'
    BY <1>7 DEF TypeOK, DocStatus, DispatchState, Outcome, Dispatching,
       DispatchThrows, apiVars, aiVars
  <1>8. ASSUME NEW x \in Runs, WriteClassified(x) PROVE TypeOK'
    BY <1>8 DEF TypeOK, DocStatus, DispatchState, Outcome, Dispatching,
       WriteClassified, WriteDispatched, apiVars, aiVars
  <1>9. ASSUME NEW x \in Runs, WriteRejected(x) PROVE TypeOK'
    BY <1>9 DEF TypeOK, DocStatus, DispatchState, Outcome, Dispatching,
       WriteRejected, WriteDispatched, apiVars, aiVars
  <1>10. ASSUME NEW x \in Runs, NEW n \in Attempts, HandleCallback(x, n) PROVE TypeOK'
    <2>1. call' \in [Runs -> [Attempts -> {"none", "sent", "committed", "lost"}]]
      BY <1>10 DEF TypeOK, HandleCallback
    <2>2. status' \in [Docs -> DocStatus \cup {"ABSENT"}]
      BY <1>10 DEF TypeOK, DocStatus, Outcome, HandleCallback
    <2>3. batches' \in [Docs -> SUBSET (Runs \X Attempts)]
      BY <1>10 DEF TypeOK, HandleCallback
    <2> QED BY <1>10, <2>1, <2>2, <2>3 DEF TypeOK, HandleCallback
  <1>11. ASSUME NEW x \in Runs, AcceptExtraction(x) PROVE TypeOK'
    BY <1>11 DEF TypeOK, DocStatus, DispatchState, Outcome, Dispatching,
       AcceptExtraction, apiVars, aiVars
  <1>12. ASSUME NEW x \in Runs, NEW o \in Outcome, FinishExtraction(x, o)
       PROVE  TypeOK'
    BY <1>12 DEF TypeOK, DocStatus, DispatchState, Outcome, Dispatching,
       FinishExtraction, apiVars, aiVars
  <1>13. ASSUME NEW x \in Runs, NEW n \in Attempts, ReplyArrives(x, n)
       PROVE  TypeOK'
    BY <1>13 DEF TypeOK, DocStatus, DispatchState, Outcome, Dispatching,
       ReplyArrives, Awaits, apiVars, aiVars
  <1>14. ASSUME NEW x \in Runs, NEW n \in Attempts, Retry(x, n) PROVE TypeOK'
    BY <1>14 DEF TypeOK, DocStatus, DispatchState, Outcome, Dispatching, Retry,
       Awaits, apiVars, aiVars
  <1>15. ASSUME NEW x \in Runs, GiveUp(x) PROVE TypeOK'
    BY <1>15 DEF TypeOK, DocStatus, DispatchState, Outcome, Dispatching, GiveUp,
       Awaits, apiVars, aiVars
  <1>16. ASSUME NEW x \in Runs, NEW n \in Attempts, CallbackRefused(x, n)
       PROVE  TypeOK'
    BY <1>16 DEF TypeOK, DocStatus, DispatchState, Outcome, Dispatching,
       CallbackRefused, Awaits, apiVars, aiVars
  <1>17. ASSUME NEW x \in Runs, NEW n \in Attempts, AttemptLost(x, n)
       PROVE  TypeOK'
    BY <1>17 DEF TypeOK, DocStatus, DispatchState, Outcome, Dispatching,
       AttemptLost, apiVars, aiVars
  <1>18. ASSUME ApiStops PROVE TypeOK'
    BY <1>18 DEF TypeOK, DocStatus, DispatchState, Outcome, Dispatching,
       ApiStops, apiVars, aiVars
  <1>19. ASSUME AiEngineStops PROVE TypeOK'
    BY <1>19 DEF TypeOK, DocStatus, DispatchState, Outcome, Dispatching,
       AiEngineStops, apiVars, aiVars
  <1> QED BY <1>0, <1>1, <1>2, <1>3, <1>4, <1>5, <1>6, <1>7, <1>8, <1>9,
         <1>10, <1>11, <1>12, <1>13, <1>14, <1>15, <1>16, <1>17, <1>18, <1>19
         DEF Next, Users, Api, AiEngine, vars, apiVars, aiVars

\* A callback, an answer or a crash only ever concerns a run that was dispatched.
LEMMA UnusedRunsAreIdleStep ==
  ASSUME IInv, [Next]_vars
  PROVE  UnusedRunsAreIdle'
  <1> USE IngestionAssumption DEF IInv
  <1>0. CASE UNCHANGED <<dispatch, target, job, call>>
    BY <1>0 DEF TypeOK, UnusedRunsAreIdle, Dispatching
  <1>1. ASSUME NEW u \in Uploads, NEW x \in Runs, UploadCreate(u, x)
       PROVE  UnusedRunsAreIdle'
    BY <1>1 DEF TypeOK, UnusedRunsAreIdle, Dispatching, UploadCreate, StartRun,
       apiVars, aiVars
  <1>2. ASSUME NEW d \in Docs, NEW x \in Runs, Reprocess(d, x)
       PROVE  UnusedRunsAreIdle'
    BY <1>2 DEF TypeOK, UnusedRunsAreIdle, Dispatching, Reprocess, StartRun,
       ClearedBatches, ResetStatus, Quiet, apiVars, aiVars
  <1>3. ASSUME NEW x \in Runs, PostAccepted(x) PROVE UnusedRunsAreIdle'
    BY <1>3 DEF TypeOK, UnusedRunsAreIdle, Dispatching, PostAccepted, apiVars,
       aiVars
  <1>4. ASSUME NEW x \in Runs, DispatchThrows(x) PROVE UnusedRunsAreIdle'
    BY <1>4 DEF TypeOK, UnusedRunsAreIdle, Dispatching, DispatchThrows, apiVars,
       aiVars
  <1>5. ASSUME NEW x \in Runs, WriteClassified(x) PROVE UnusedRunsAreIdle'
    BY <1>5 DEF TypeOK, UnusedRunsAreIdle, Dispatching, WriteClassified,
       WriteDispatched, apiVars, aiVars
  <1>6. ASSUME NEW x \in Runs, WriteRejected(x) PROVE UnusedRunsAreIdle'
    BY <1>6 DEF TypeOK, UnusedRunsAreIdle, Dispatching, WriteRejected,
       WriteDispatched, apiVars, aiVars
  <1>7. ASSUME NEW x \in Runs, NEW n \in Attempts, HandleCallback(x, n)
       PROVE  UnusedRunsAreIdle'
    BY <1>7 DEF TypeOK, UnusedRunsAreIdle, Dispatching, HandleCallback, apiVars,
       aiVars
  <1>8. ASSUME NEW x \in Runs, AcceptExtraction(x) PROVE UnusedRunsAreIdle'
    BY <1>8 DEF TypeOK, UnusedRunsAreIdle, Dispatching, AcceptExtraction,
       apiVars, aiVars
  <1>9. ASSUME NEW x \in Runs, NEW o \in Outcome, FinishExtraction(x, o)
       PROVE  UnusedRunsAreIdle'
    BY <1>9 DEF TypeOK, UnusedRunsAreIdle, Dispatching, FinishExtraction,
       apiVars, aiVars
  <1>10. ASSUME NEW x \in Runs, NEW n \in Attempts, ReplyArrives(x, n)
       PROVE  UnusedRunsAreIdle'
    BY <1>10 DEF TypeOK, UnusedRunsAreIdle, Dispatching, ReplyArrives, Awaits,
       apiVars, aiVars
  <1>11. ASSUME NEW x \in Runs, NEW n \in Attempts, Retry(x, n)
       PROVE  UnusedRunsAreIdle'
    BY <1>11 DEF TypeOK, UnusedRunsAreIdle, Dispatching, Retry, Awaits, apiVars,
       aiVars
  <1>12. ASSUME NEW x \in Runs, GiveUp(x) PROVE UnusedRunsAreIdle'
    BY <1>12 DEF TypeOK, UnusedRunsAreIdle, Dispatching, GiveUp, Awaits,
       apiVars, aiVars
  <1>13. ASSUME NEW x \in Runs, NEW n \in Attempts, CallbackRefused(x, n)
       PROVE  UnusedRunsAreIdle'
    BY <1>13 DEF TypeOK, UnusedRunsAreIdle, Dispatching, CallbackRefused,
       Awaits, apiVars, aiVars
  <1>14. ASSUME NEW x \in Runs, NEW n \in Attempts, AttemptLost(x, n)
       PROVE  UnusedRunsAreIdle'
    BY <1>14 DEF TypeOK, UnusedRunsAreIdle, Dispatching, AttemptLost, apiVars,
       aiVars
  <1>15. ASSUME ApiStops PROVE UnusedRunsAreIdle'
    BY <1>15 DEF TypeOK, UnusedRunsAreIdle, Dispatching, ApiStops, apiVars,
       aiVars
  <1>16. ASSUME AiEngineStops PROVE UnusedRunsAreIdle'
    BY <1>16 DEF TypeOK, UnusedRunsAreIdle, Dispatching, AiEngineStops, apiVars,
       aiVars
  <1> QED BY <1>0, <1>1, <1>2, <1>3, <1>4, <1>5, <1>6, <1>7, <1>8, <1>9,
         <1>10, <1>11, <1>12, <1>13, <1>14, <1>15, <1>16 DEF Next, Users, Api,
         AiEngine, vars, apiVars, aiVars, UploadFind, UploadDuplicate,
         SoftDelete

\* A run gets its document when it becomes the document's latest; rows of `document`
\* are never deleted.
LEMMA LatestRunsMatchStep ==
  ASSUME IInv, [Next]_vars
  PROVE  LatestRunsMatch'
  <1> USE IngestionAssumption DEF IInv
  <1>0. CASE UNCHANGED <<status, latest, overlapped, target>>
    BY <1>0 DEF TypeOK, UnusedRunsAreIdle, LatestRunsMatch, RunsOf, DocStatus,
       Outcome
  <1>1. ASSUME NEW u \in Uploads, NEW x \in Runs, UploadCreate(u, x)
       PROVE  LatestRunsMatch'
    BY <1>1 DEF TypeOK, UnusedRunsAreIdle, LatestRunsMatch, RunsOf, DocStatus,
       Outcome, UploadCreate, StartRun, apiVars, aiVars
  <1>2. ASSUME NEW d \in Docs, SoftDelete(d) PROVE LatestRunsMatch'
    BY <1>2 DEF TypeOK, UnusedRunsAreIdle, LatestRunsMatch, RunsOf, DocStatus,
       Outcome, SoftDelete, apiVars, aiVars
  <1>3. ASSUME NEW d \in Docs, NEW x \in Runs, Reprocess(d, x)
       PROVE  LatestRunsMatch'
    BY <1>3 DEF TypeOK, UnusedRunsAreIdle, LatestRunsMatch, RunsOf, DocStatus,
       Outcome, Reprocess, StartRun, ClearedBatches, ResetStatus, Quiet,
       apiVars, aiVars
  <1>4. ASSUME NEW x \in Runs, WriteClassified(x) PROVE LatestRunsMatch'
    BY <1>4 DEF TypeOK, UnusedRunsAreIdle, LatestRunsMatch, RunsOf, DocStatus,
       Outcome, WriteClassified, WriteDispatched, apiVars, aiVars
  <1>5. ASSUME NEW x \in Runs, WriteRejected(x) PROVE LatestRunsMatch'
    BY <1>5 DEF TypeOK, UnusedRunsAreIdle, LatestRunsMatch, RunsOf, DocStatus,
       Outcome, WriteRejected, WriteDispatched, apiVars, aiVars
  <1>6. ASSUME NEW x \in Runs, NEW n \in Attempts, HandleCallback(x, n)
       PROVE  LatestRunsMatch'
    BY <1>6 DEF TypeOK, UnusedRunsAreIdle, LatestRunsMatch, RunsOf, DocStatus,
       Outcome, HandleCallback, apiVars, aiVars
  <1> QED BY <1>0, <1>1, <1>2, <1>3, <1>4, <1>5, <1>6 DEF Next, Users, Api,
         AiEngine, vars, apiVars, aiVars, UploadFind, UploadDuplicate,
         PostAccepted, DispatchThrows, AcceptExtraction, FinishExtraction,
         ReplyArrives, Retry, GiveUp, CallbackRefused, AttemptLost, ApiStops,
         AiEngineStops

\* Work on a run only leads to more work on the same run; another run on the document
\* starts after it, or marks the document as overlapped.
LEMMA OnlyLatestAtWorkStep ==
  ASSUME IInv, [Next]_vars
  PROVE  OnlyLatestAtWork'
  <1> USE IngestionAssumption DEF IInv
  <1>0. CASE UNCHANGED <<overlapped, target, latest, job, call, dispatch>>
    BY <1>0 DEF TypeOK, UnusedRunsAreIdle, LatestRunsMatch, OnlyLatestAtWork,
       RunsOf, Engaged, Dispatching, Attempts
  <1>1. ASSUME NEW u \in Uploads, NEW x \in Runs, UploadCreate(u, x)
       PROVE  OnlyLatestAtWork'
    BY <1>1 DEF TypeOK, UnusedRunsAreIdle, LatestRunsMatch, OnlyLatestAtWork,
       RunsOf, Engaged, Dispatching, Attempts, UploadCreate, StartRun, apiVars,
       aiVars
  <1>2. ASSUME NEW d \in Docs, NEW x \in Runs, Reprocess(d, x)
       PROVE  OnlyLatestAtWork'
    BY <1>2 DEF TypeOK, UnusedRunsAreIdle, LatestRunsMatch, OnlyLatestAtWork,
       RunsOf, Engaged, Dispatching, Attempts, Reprocess, StartRun,
       ClearedBatches, ResetStatus, Quiet, apiVars, aiVars
  <1>3. ASSUME NEW x \in Runs, PostAccepted(x) PROVE OnlyLatestAtWork'
    BY <1>3 DEF TypeOK, UnusedRunsAreIdle, LatestRunsMatch, OnlyLatestAtWork,
       RunsOf, Engaged, Dispatching, Attempts, PostAccepted, apiVars, aiVars
  <1>4. ASSUME NEW x \in Runs, DispatchThrows(x) PROVE OnlyLatestAtWork'
    BY <1>4 DEF TypeOK, UnusedRunsAreIdle, LatestRunsMatch, OnlyLatestAtWork,
       RunsOf, Engaged, Dispatching, Attempts, DispatchThrows, apiVars, aiVars
  <1>5. ASSUME NEW x \in Runs, WriteClassified(x) PROVE OnlyLatestAtWork'
    BY <1>5 DEF TypeOK, UnusedRunsAreIdle, LatestRunsMatch, OnlyLatestAtWork,
       RunsOf, Engaged, Dispatching, Attempts, WriteClassified, WriteDispatched,
       apiVars, aiVars
  <1>6. ASSUME NEW x \in Runs, WriteRejected(x) PROVE OnlyLatestAtWork'
    BY <1>6 DEF TypeOK, UnusedRunsAreIdle, LatestRunsMatch, OnlyLatestAtWork,
       RunsOf, Engaged, Dispatching, Attempts, WriteRejected, WriteDispatched,
       apiVars, aiVars
  <1>7. ASSUME NEW x \in Runs, NEW n \in Attempts, HandleCallback(x, n)
       PROVE  OnlyLatestAtWork'
    BY <1>7 DEF TypeOK, UnusedRunsAreIdle, LatestRunsMatch, OnlyLatestAtWork,
       RunsOf, Engaged, Dispatching, Attempts, HandleCallback, apiVars, aiVars
  <1>8. ASSUME NEW x \in Runs, AcceptExtraction(x) PROVE OnlyLatestAtWork'
    BY <1>8 DEF TypeOK, UnusedRunsAreIdle, LatestRunsMatch, OnlyLatestAtWork,
       RunsOf, Engaged, Dispatching, Attempts, AcceptExtraction, apiVars, aiVars
  <1>9. ASSUME NEW x \in Runs, NEW o \in Outcome, FinishExtraction(x, o)
       PROVE  OnlyLatestAtWork'
    BY <1>9 DEF TypeOK, UnusedRunsAreIdle, LatestRunsMatch, OnlyLatestAtWork,
       RunsOf, Engaged, Dispatching, Attempts, FinishExtraction, apiVars, aiVars
  <1>10. ASSUME NEW x \in Runs, NEW n \in Attempts, ReplyArrives(x, n)
       PROVE  OnlyLatestAtWork'
    BY <1>10 DEF TypeOK, UnusedRunsAreIdle, LatestRunsMatch, OnlyLatestAtWork,
       RunsOf, Engaged, Dispatching, Attempts, ReplyArrives, Awaits, apiVars,
       aiVars
  <1>11. ASSUME NEW x \in Runs, NEW n \in Attempts, Retry(x, n)
       PROVE  OnlyLatestAtWork'
    BY <1>11 DEF TypeOK, UnusedRunsAreIdle, LatestRunsMatch, OnlyLatestAtWork,
       RunsOf, Engaged, Dispatching, Attempts, Retry, Awaits, apiVars, aiVars
  <1>12. ASSUME NEW x \in Runs, GiveUp(x) PROVE OnlyLatestAtWork'
    BY <1>12 DEF TypeOK, UnusedRunsAreIdle, LatestRunsMatch, OnlyLatestAtWork,
       RunsOf, Engaged, Dispatching, Attempts, GiveUp, Awaits, apiVars, aiVars
  <1>13. ASSUME NEW x \in Runs, NEW n \in Attempts, CallbackRefused(x, n)
       PROVE  OnlyLatestAtWork'
    BY <1>13 DEF TypeOK, UnusedRunsAreIdle, LatestRunsMatch, OnlyLatestAtWork,
       RunsOf, Engaged, Dispatching, Attempts, CallbackRefused, Awaits, apiVars,
       aiVars
  <1>14. ASSUME NEW x \in Runs, NEW n \in Attempts, AttemptLost(x, n)
       PROVE  OnlyLatestAtWork'
    BY <1>14 DEF TypeOK, UnusedRunsAreIdle, LatestRunsMatch, OnlyLatestAtWork,
       RunsOf, Engaged, Dispatching, Attempts, AttemptLost, apiVars, aiVars
  <1>15. ASSUME ApiStops PROVE OnlyLatestAtWork'
    BY <1>15 DEF TypeOK, UnusedRunsAreIdle, LatestRunsMatch, OnlyLatestAtWork,
       RunsOf, Engaged, Dispatching, Attempts, ApiStops, apiVars, aiVars
  <1>16. ASSUME AiEngineStops PROVE OnlyLatestAtWork'
    BY <1>16 DEF TypeOK, UnusedRunsAreIdle, LatestRunsMatch, OnlyLatestAtWork,
       RunsOf, Engaged, Dispatching, Attempts, AiEngineStops, apiVars, aiVars
  <1> QED BY <1>0, <1>1, <1>2, <1>3, <1>4, <1>5, <1>6, <1>7, <1>8, <1>9,
         <1>10, <1>11, <1>12, <1>13, <1>14, <1>15, <1>16 DEF Next, Users, Api,
         AiEngine, vars, apiVars, aiVars, UploadFind, UploadDuplicate,
         SoftDelete

\* A dispatch that ends has written a status, unless it was lost.
LEMMA PendingIsBeingDispatchedStep ==
  ASSUME IInv, [Next]_vars
  PROVE  PendingIsBeingDispatched'
  <1> USE IngestionAssumption DEF IInv
  <1>0. CASE UNCHANGED <<status, latest, dispatch>>
    BY <1>0 DEF TypeOK, UnusedRunsAreIdle, LatestRunsMatch,
       PendingIsBeingDispatched, Dispatching, DispatchState, Outcome
  <1>1. ASSUME NEW u \in Uploads, NEW x \in Runs, UploadCreate(u, x)
       PROVE  PendingIsBeingDispatched'
    BY <1>1 DEF TypeOK, UnusedRunsAreIdle, LatestRunsMatch,
       PendingIsBeingDispatched, Dispatching, DispatchState, Outcome,
       UploadCreate, StartRun, apiVars, aiVars
  <1>2. ASSUME NEW d \in Docs, SoftDelete(d) PROVE PendingIsBeingDispatched'
    BY <1>2 DEF TypeOK, UnusedRunsAreIdle, LatestRunsMatch,
       PendingIsBeingDispatched, Dispatching, DispatchState, Outcome,
       SoftDelete, apiVars, aiVars
  <1>3. ASSUME NEW d \in Docs, NEW x \in Runs, Reprocess(d, x)
       PROVE  PendingIsBeingDispatched'
    BY <1>3 DEF TypeOK, UnusedRunsAreIdle, LatestRunsMatch,
       PendingIsBeingDispatched, Dispatching, DispatchState, Outcome, Reprocess,
       StartRun, ClearedBatches, ResetStatus, Quiet, apiVars, aiVars
  <1>4. ASSUME NEW x \in Runs, PostAccepted(x) PROVE PendingIsBeingDispatched'
    BY <1>4 DEF TypeOK, UnusedRunsAreIdle, LatestRunsMatch,
       PendingIsBeingDispatched, Dispatching, DispatchState, Outcome,
       PostAccepted, apiVars, aiVars
  <1>5. ASSUME NEW x \in Runs, DispatchThrows(x) PROVE PendingIsBeingDispatched'
    BY <1>5 DEF TypeOK, UnusedRunsAreIdle, LatestRunsMatch,
       PendingIsBeingDispatched, Dispatching, DispatchState, Outcome,
       DispatchThrows, apiVars, aiVars
  <1>6. ASSUME NEW x \in Runs, WriteClassified(x)
       PROVE  PendingIsBeingDispatched'
    BY <1>6 DEF TypeOK, UnusedRunsAreIdle, LatestRunsMatch,
       PendingIsBeingDispatched, Dispatching, DispatchState, Outcome,
       WriteClassified, WriteDispatched, apiVars, aiVars
  <1>7. ASSUME NEW x \in Runs, WriteRejected(x) PROVE PendingIsBeingDispatched'
    BY <1>7 DEF TypeOK, UnusedRunsAreIdle, LatestRunsMatch,
       PendingIsBeingDispatched, Dispatching, DispatchState, Outcome,
       WriteRejected, WriteDispatched, apiVars, aiVars
  <1>8. ASSUME NEW x \in Runs, NEW n \in Attempts, HandleCallback(x, n)
       PROVE  PendingIsBeingDispatched'
    BY <1>8 DEF TypeOK, UnusedRunsAreIdle, LatestRunsMatch,
       PendingIsBeingDispatched, Dispatching, DispatchState, Outcome,
       HandleCallback, apiVars, aiVars
  <1>9. ASSUME ApiStops PROVE PendingIsBeingDispatched'
    BY <1>9 DEF TypeOK, UnusedRunsAreIdle, LatestRunsMatch,
       PendingIsBeingDispatched, Dispatching, DispatchState, Outcome, ApiStops,
       apiVars, aiVars
  <1> QED BY <1>0, <1>1, <1>2, <1>3, <1>4, <1>5, <1>6, <1>7, <1>8, <1>9 DEF
         Next, Users, Api, AiEngine, vars, apiVars, aiVars, UploadFind,
         UploadDuplicate, AcceptExtraction, FinishExtraction, ReplyArrives,
         Retry, GiveUp, CallbackRefused, AttemptLost, AiEngineStops

\* Rows are only deleted in the transaction that resets the status.
LEMMA ClaimedResultIsStoredStep ==
  ASSUME IInv, [Next]_vars
  PROVE  ClaimedResultIsStored'
  <1> USE IngestionAssumption DEF IInv
  <1>0. CASE UNCHANGED <<status, batches>>
    BY <1>0 DEF TypeOK, UnusedRunsAreIdle, LatestRunsMatch,
       ClaimedResultIsStored, Outcome
  <1>1. ASSUME NEW u \in Uploads, NEW x \in Runs, UploadCreate(u, x)
       PROVE  ClaimedResultIsStored'
    BY <1>1 DEF TypeOK, UnusedRunsAreIdle, LatestRunsMatch,
       ClaimedResultIsStored, Outcome, UploadCreate, StartRun, apiVars, aiVars
  <1>2. ASSUME NEW d \in Docs, SoftDelete(d) PROVE ClaimedResultIsStored'
    BY <1>2 DEF TypeOK, UnusedRunsAreIdle, LatestRunsMatch,
       ClaimedResultIsStored, Outcome, SoftDelete, apiVars, aiVars
  <1>3. ASSUME NEW d \in Docs, NEW x \in Runs, Reprocess(d, x)
       PROVE  ClaimedResultIsStored'
    BY <1>3 DEF TypeOK, UnusedRunsAreIdle, LatestRunsMatch,
       ClaimedResultIsStored, Outcome, Reprocess, StartRun, ClearedBatches,
       ResetStatus, Quiet, apiVars, aiVars
  <1>4. ASSUME NEW x \in Runs, WriteClassified(x) PROVE ClaimedResultIsStored'
    BY <1>4 DEF TypeOK, UnusedRunsAreIdle, LatestRunsMatch,
       ClaimedResultIsStored, Outcome, WriteClassified, WriteDispatched,
       apiVars, aiVars
  <1>5. ASSUME NEW x \in Runs, WriteRejected(x) PROVE ClaimedResultIsStored'
    BY <1>5 DEF TypeOK, UnusedRunsAreIdle, LatestRunsMatch,
       ClaimedResultIsStored, Outcome, WriteRejected, WriteDispatched, apiVars,
       aiVars
  <1>6. ASSUME NEW x \in Runs, NEW n \in Attempts, HandleCallback(x, n)
       PROVE  ClaimedResultIsStored'
    <2>1. CASE result[x] = "FAILED"
      BY <1>6, <2>1 DEF TypeOK, ClaimedResultIsStored, HandleCallback
    <2>2. CASE result[x] # "FAILED"
      <3>1. batches' = [batches EXCEPT ![target[x]] = @ \cup {<<x, n>>}]
        BY <1>6, <2>2 DEF HandleCallback
      <3>2. \A d \in Docs : d # target[x] => status'[d] = status[d] /\ batches'[d] = batches[d]
        BY <1>6, <2>2, <3>1 DEF TypeOK, HandleCallback
      <3>3. target[x] \in Docs => <<x, n>> \in batches'[target[x]]
        BY <3>1 DEF TypeOK
      <3> QED BY <3>2, <3>3 DEF ClaimedResultIsStored
    <2> QED BY <2>1, <2>2
  <1> QED BY <1>0, <1>1, <1>2, <1>3, <1>4, <1>5, <1>6 DEF Next, Users, Api,
         AiEngine, vars, apiVars, aiVars, UploadFind, UploadDuplicate,
         PostAccepted, DispatchThrows, AcceptExtraction, FinishExtraction,
         ReplyArrives, Retry, GiveUp, CallbackRefused, AttemptLost, ApiStops,
         AiEngineStops

\* A callback that commits is one of a run at work, so of the latest run of a
\* document that is not overlapped; a reprocess deletes the rows of the runs before.
LEMMA ResultsAreOfLatestRunStep ==
  ASSUME IInv, [Next]_vars
  PROVE  ResultsAreOfLatestRun'
  <1> USE IngestionAssumption DEF IInv
  <1>0. CASE UNCHANGED <<batches, latest, overlapped>>
    BY <1>0 DEF TypeOK, UnusedRunsAreIdle, LatestRunsMatch, OnlyLatestAtWork,
       ResultsAreOfLatestRun, RunsOf, Engaged, Outcome
  <1>1. ASSUME NEW u \in Uploads, NEW x \in Runs, UploadCreate(u, x)
       PROVE  ResultsAreOfLatestRun'
    BY <1>1 DEF TypeOK, UnusedRunsAreIdle, LatestRunsMatch, OnlyLatestAtWork,
       ResultsAreOfLatestRun, RunsOf, Engaged, Outcome, UploadCreate, StartRun,
       apiVars, aiVars
  <1>2. ASSUME NEW d \in Docs, NEW x \in Runs, Reprocess(d, x)
       PROVE  ResultsAreOfLatestRun'
    BY <1>2 DEF TypeOK, UnusedRunsAreIdle, LatestRunsMatch, OnlyLatestAtWork,
       ResultsAreOfLatestRun, RunsOf, Engaged, Outcome, Reprocess, StartRun,
       ClearedBatches, ResetStatus, Quiet, apiVars, aiVars
  <1>3. ASSUME NEW x \in Runs, NEW n \in Attempts, HandleCallback(x, n)
       PROVE  ResultsAreOfLatestRun'
    <2> SUFFICES ASSUME NEW d \in Docs, d \notin overlapped, NEW b \in batches'[d]
                 PROVE  b[1] = latest[d]
      BY <1>3 DEF HandleCallback, ResultsAreOfLatestRun
    <2>1. CASE b \in batches[d]
      BY <2>1 DEF ResultsAreOfLatestRun
    <2>2. CASE b \notin batches[d]
      <3>1. d = target[x] /\ b = <<x, n>>
        BY <1>3, <2>2 DEF TypeOK, HandleCallback
      <3>2. Engaged(x)
        BY <1>3 DEF HandleCallback, Engaged
      <3>3. x = latest[d]
        BY <3>1, <3>2 DEF OnlyLatestAtWork, RunsOf
      <3> QED BY <3>1, <3>3
    <2> QED BY <2>1, <2>2
  <1> QED BY <1>0, <1>1, <1>2, <1>3 DEF Next, Users, Api, AiEngine, vars,
         apiVars, aiVars, UploadFind, UploadDuplicate, SoftDelete,
         PostAccepted, DispatchThrows, WriteClassified, WriteRejected,
         AcceptExtraction, FinishExtraction, ReplyArrives, Retry, GiveUp,
         CallbackRefused, AttemptLost, ApiStops, AiEngineStops,
         WriteDispatched

-------------------------------------------------------------------------------
LEMMA InitIInv == Init => IInv
  BY IngestionAssumption DEF Init, IInv, TypeOK, UnusedRunsAreIdle, LatestRunsMatch,
     OnlyLatestAtWork, PendingIsBeingDispatched, ClaimedResultIsStored,
     ResultsAreOfLatestRun, DocStatus, DispatchState, Outcome, RunsOf, Engaged,
     Dispatching

LEMMA Invariance == Spec => []IInv
  <1>1. IInv /\ [Next]_vars => IInv'
    BY TypeOKStep, UnusedRunsAreIdleStep, LatestRunsMatchStep, OnlyLatestAtWorkStep,
       PendingIsBeingDispatchedStep, ClaimedResultIsStoredStep, ResultsAreOfLatestRunStep
    DEF IInv
  <1> QED BY InitIInv, <1>1, PTL DEF Spec

\* Whatever is uploaded, reprocessed, delivered, lost and stopped, every variable
\* keeps its type: in particular `document.status` only takes the values of
\* DocStatus.
THEOREM TypeCorrect == Spec => []TypeOK
  <1>1. IInv => TypeOK
    BY DEF IInv
  <1> QED BY Invariance, <1>1, PTL

\* A PENDING document is one whose latest dispatchExtraction has still to write
\* a status, or was lost with its process.
THEOREM PendingDispatched == Spec => []PendingIsBeingDispatched
  <1>1. IInv => PendingIsBeingDispatched
    BY DEF IInv
  <1> QED BY Invariance, <1>1, PTL

\* An EXTRACTED or REVIEW_NEEDED document has a result stored since its last
\* reprocess.
THEOREM ClaimedStored == Spec => []ClaimedResultIsStored
  <1>1. IInv => ClaimedResultIsStored
    BY DEF IInv
  <1> QED BY Invariance, <1>1, PTL

\* The rows of a document that was never reprocessed while an earlier run was at
\* work all come from its latest run.
THEOREM StoredResultsAreLatest == Spec => []ResultsAreOfLatestRun
  <1>1. IInv => ResultsAreOfLatestRun
    BY DEF IInv
  <1> QED BY Invariance, <1>1, PTL

\* An upload that ends never dispatches a document that already had a run, thanks
\* to the unique (tenant, sha256): only a reprocess does.
THEOREM UploadsDispatchOnce == Spec => ConcurrentUploadsDispatchOnce
  <1> DEFINE Kept == \A u \in Uploads, d \in Docs :
                (upload[u] = d /\ upload'[u] = None /\ latest[d] # None)
                   => latest'[d] = latest[d]
  <1>1. IInv /\ [Next]_vars => Kept
    <2> SUFFICES ASSUME IInv, [Next]_vars,
                        NEW u \in Uploads, NEW d \in Docs,
                        upload[u] = d, upload'[u] = None, latest[d] # None
                 PROVE  latest'[d] = latest[d]
      OBVIOUS
    <2>1. ASSUME NEW v \in Uploads, NEW x \in Runs, UploadCreate(v, x)
          PROVE  latest'[d] = latest[d]
      BY <2>1 DEF IInv, TypeOK, LatestRunsMatch, UploadCreate, StartRun
    <2>2. ASSUME NEW e \in Docs, NEW x \in Runs, Reprocess(e, x)
          PROVE  latest'[d] = latest[d]
      BY <2>2, IngestionAssumption DEF Reprocess
    <2> QED BY <2>1, <2>2
         DEF Next, Users, Api, AiEngine, vars, apiVars, aiVars, UploadFind,
             UploadDuplicate, SoftDelete, PostAccepted, DispatchThrows,
             WriteClassified, WriteRejected, WriteDispatched, HandleCallback,
             AcceptExtraction, FinishExtraction, ReplyArrives, Retry, GiveUp,
             CallbackRefused, AttemptLost, ApiStops, AiEngineStops
  <1> QED BY Invariance, <1>1, PTL DEF Spec, ConcurrentUploadsDispatchOnce
===============================================================================
