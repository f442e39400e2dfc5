------------------------ MODULE ExtractionReview_proofs ------------------------
(* Proofs of the safety properties of ExtractionReview, for any number of     *)
(* fields, values, callbacks, requests and attempts.                          *)
EXTENDS ExtractionReview, TLAPS

\* The value of an APPROVED row that makes a metric event is recorded.
ApprovedIsRecorded ==
    \A f \in Fields :
        (row[f].status = "APPROVED" /\ Promotable(f, row[f])) => row[f].value \in approvedAs[f]

\* So is that of a row a request holds; and the request is only about to create an
\* event of such a row.
HeldWasApproved ==
    \A r \in Requests :
        req[r].op \in {"promote", "create"} =>
            /\ \A f \in DOMAIN req[r].held :
                  Promotable(f, req[r].held[f]) => req[r].held[f].value \in approvedAs[f]
            /\ req[r].op = "create" =>
                  /\ req[r].field \in DOMAIN req[r].held
                  /\ Promotable(req[r].field, req[r].held[req[r].field])

\* r is going to promote f.
Owns(r, f) == \/ req[r].op = "bulk" /\ f \in req[r].ids
              \/ /\ req[r].op \in {"promote", "create"}
                 /\ f \in DOMAIN req[r].held
                 /\ Promotable(f, req[r].held[f])

\* ApprovedIsPromoted, with requests that hold an older row of f not counted.
ApprovedIsOwned ==
    \A f \in Fields :
        (row[f].status = "APPROVED" /\ Promotable(f, row[f]))
           => events[f] # <<>> \/ f \in dropped \/ \E r \in Requests : Owns(r, f)

\* A job that is not over has an attempt left.
AttemptsLeft ==
    \A c \in Callbacks : job[c].state \in {"none", "adding", "queued", "running"} => job[c].left # 0

\* What is proved, and all that it takes.
IInv == /\ TypeOK
        /\ AttemptsLeft
        /\ ApprovedIsRecorded
        /\ HeldWasApproved
        /\ EventsComeFromApproval
        /\ ApprovedIsOwned
        /\ MismatchIsFlagged

-------------------------------------------------------------------------------
(* Requests.                                                                 *)

\* What the record of a request holds, by its op.
LEMMA RequestParts ==
  ASSUME TypeOK, NEW r \in Requests
  PROVE  /\ req[r].op \in {"update", "reject", "approve", "create"} => req[r].field \in Fields
         /\ req[r].op = "update" => req[r].value \in FieldValues /\ req[r].unit \in Units
         /\ req[r].op = "bulk" => req[r].ids \in SUBSET Fields
         /\ req[r].op \in {"promote", "create"} =>
               /\ DOMAIN req[r].held \in SUBSET Fields
               /\ req[r].held \in [DOMAIN req[r].held -> Row]
  <1>1. req[r] \in Request \cup {Idle}
    BY DEF TypeOK
  <1>2. CASE req[r] \in [op : {"promote"}, held : UNION {[fs -> Row] : fs \in SUBSET Fields}]
    <2>1. PICK fs \in SUBSET Fields : req[r].held \in [fs -> Row]
      BY <1>2
    <2> QED BY <1>2, <2>1
  <1>3. CASE req[r] \in [op : {"create"}, held : UNION {[fs -> Row] : fs \in SUBSET Fields},
                         field : Fields]
    <2>1. PICK fs \in SUBSET Fields : req[r].held \in [fs -> Row]
      BY <1>3
    <2> QED BY <1>3, <2>1
  <1> QED BY <1>1, <1>2, <1>3 DEF Request, Idle

\* A request with something to promote is well-formed.
LEMMA ToPromote ==
  ASSUME NEW fs \in SUBSET Fields, NEW held \in [fs -> Row]
  PROVE  /\ [op |-> "promote", held |-> held] \in Request
         /\ \A f \in Fields : [op |-> "create", held |-> held, field |-> f] \in Request
  <1>1. held \in UNION {[gs -> Row] : gs \in SUBSET Fields}
    OBVIOUS
  <1> QED BY <1>1 DEF Request

\* It remains so when it is over with one field.
LEMMA PromotedIsRequest ==
  ASSUME TypeOK, NEW r \in Requests, NEW f, req[r].op \in {"promote", "create"}, Promoted(r, f)
  PROVE  req' \in [Requests -> Request \cup {Idle}]
  <1> DEFINE rest == DOMAIN req[r].held \ {f}
             left == [g \in rest |-> req[r].held[g]]
  <1>1. rest \in SUBSET Fields /\ left \in [rest -> Row]
    BY RequestParts
  <1>2. [op |-> "promote", held |-> left] \in Request
    BY <1>1, ToPromote
  <1> QED BY <1>2 DEF TypeOK, Promoted

-------------------------------------------------------------------------------
(* Every step preserves IInv, one conjunct at a time.                        *)

\* Types.
LEMMA TypeOKStep ==
  ASSUME IInv, [Next]_vars
  PROVE  TypeOK'
  <1> USE ReviewAssumption DEF IInv
  <1>0. CASE UNCHANGED vars
    BY <1>0 DEF TypeOK, Row, Request, Job, Exists, Unborn, Deleted, NewRows,
       Units, FieldValues, vars
  <1>1. ASSUME NEW c \in Callbacks, NEW fs \in SUBSET Fields, NEW new \in [fs -> NewRows(c)], Callback(c, new)
       PROVE  TypeOK'
    <2>1. \A f \in DOMAIN new : new[f] \in Row
      BY DEF NewRows, Row
    <2>2. row' \in [Fields -> Row \cup {Unborn, Deleted}]
      BY <1>1, <2>1 DEF TypeOK, Callback
    <2>3. job' \in [Callbacks -> Job]
      <3> DEFINE j == [job[c] EXCEPT !.state = "adding"]
      <3>1. job[c] \in Job /\ job' = [job EXCEPT ![c] = j]
        BY <1>1 DEF TypeOK, Callback
      <3>2. j \in Job
        BY <3>1 DEF Job
      <3> HIDE DEF j
      <3> QED BY <3>1, <3>2 DEF TypeOK
    <2> QED BY <1>1, <2>2, <2>3 DEF TypeOK, Callback
  <1>2. ASSUME NEW c \in Callbacks, Enqueue(c) PROVE TypeOK'
    BY <1>2 DEF TypeOK, Job, Enqueue
  <1>3. ASSUME NEW c \in Callbacks, EnqueueFails(c) PROVE TypeOK'
    BY <1>3 DEF TypeOK, Job, EnqueueFails
  <1>4. ASSUME Reprocess PROVE TypeOK'
    BY <1>4 DEF TypeOK, Reprocess
  <1>5. ASSUME NEW c \in Callbacks, JobStart(c) PROVE TypeOK'
    <2> DEFINE bad == {f \in Fields : Exists(f) /\ row[f].unit = "bad"}
    <2>1. [job[c] EXCEPT !.state = "running", !.todo = bad] \in Job
      BY DEF TypeOK, Job
    <2>2. job' = [job EXCEPT ![c] = [job[c] EXCEPT !.state = "running", !.todo = bad]]
      BY <1>5 DEF TypeOK, JobStart
    <2> QED BY <1>5, <2>1, <2>2 DEF TypeOK, JobStart
  <1>6. ASSUME NEW c \in Callbacks, NEW f \in Fields, JobFlag(c, f)
       PROVE  TypeOK'
    <2>1. [row[f] EXCEPT !.status = "NEEDS_REVIEW"] \in Row
      BY <1>6 DEF TypeOK, JobFlag, Exists, Row
    <2>2. job' \in [Callbacks -> Job]
      BY <1>6 DEF TypeOK, Job, JobFlag
    <2> QED BY <1>6, <2>1, <2>2 DEF TypeOK, JobFlag
  <1>7. ASSUME NEW c \in Callbacks, JobThrows(c) PROVE TypeOK'
    <2>1. job[c].left \in 0 .. JobAttempts
      BY DEF TypeOK, Job
    <2>2. job[c].left # 0
      BY <1>7 DEF JobThrows, AttemptsLeft
    <2>3. [state |-> IF job[c].left > 1 THEN "queued" ELSE "dead",
           left |-> job[c].left - 1, todo |-> {}] \in Job
      BY <2>1, <2>2 DEF Job
    <2> QED BY <1>7, <2>3 DEF TypeOK, JobThrows
  <1>8. ASSUME NEW c \in Callbacks, JobDone(c) PROVE TypeOK'
    BY <1>8 DEF TypeOK, Job, JobDone
  <1>9. ASSUME NEW r \in Requests, NEW f \in Fields, NEW v \in FieldValues, NEW u \in Units, BeginUpdate(r, f, v, u)
       PROVE  TypeOK'
    BY <1>9 DEF TypeOK, Request, Exists, Row, Units, BeginUpdate, Begin, Idle
  <1>10. ASSUME NEW r \in Requests, NEW f \in Fields, BeginReject(r, f)
       PROVE  TypeOK'
    BY <1>10 DEF TypeOK, Request, BeginReject, Begin, Idle
  <1>11. ASSUME NEW r \in Requests, NEW f \in Fields, BeginApprove(r, f)
       PROVE  TypeOK'
    BY <1>11 DEF TypeOK, Request, Exists, BeginApprove, Begin, Idle
  <1>12. ASSUME NEW r \in Requests, WriteUpdate(r) PROVE TypeOK'
    <2> DEFINE f == req[r].field
    <2>1. f \in Fields /\ row[f] \in Row /\ req[r].value \in FieldValues /\ req[r].unit \in Units
      BY <1>12, RequestParts DEF TypeOK, WriteUpdate, Exists
    <2>2. Updated(row[f], req[r].value, req[r].unit) \in Row
      BY <2>1 DEF Updated, Row
    <2> QED BY <1>12, <2>2 DEF TypeOK, WriteUpdate
  <1>13. ASSUME NEW r \in Requests, WriteReject(r) PROVE TypeOK'
    <2>1. req[r].field \in Fields /\ row[req[r].field] \in Row
      BY <1>13, RequestParts DEF TypeOK, WriteReject, Exists
    <2>2. [row[req[r].field] EXCEPT !.status = "REJECTED"] \in Row
      BY <2>1 DEF Row
    <2> QED BY <1>13, <2>2 DEF TypeOK, WriteReject
  <1>14. ASSUME NEW r \in Requests, WriteApprove(r) PROVE TypeOK'
    <2> DEFINE f == req[r].field
    <2>1. f \in Fields /\ row[f] \in Row
      BY <1>14, RequestParts DEF TypeOK, WriteApprove, Exists
    <2>2. [row[f] EXCEPT !.status = "APPROVED"] \in Row /\ row[f].value \in FieldValues
      BY <2>1 DEF Row
    <2>3. row' \in [Fields -> Row \cup {Unborn, Deleted}] /\ row'[f] \in Row
      BY <1>14, <2>1, <2>2 DEF TypeOK, WriteApprove, Approve
    <2>4. approvedAs' \in [Fields -> SUBSET FieldValues]
      BY <1>14, <2>2 DEF TypeOK, WriteApprove, Approve
    <2>5. [op |-> "promote", held |-> [g \in {f} |-> row'[f]]] \in Request
      BY <2>1, <2>3, ToPromote
    <2> QED BY <1>14, <2>3, <2>4, <2>5 DEF TypeOK, WriteApprove
  <1>15. ASSUME NEW r \in Requests, NEW ids \in SUBSET Fields, BulkApprove(r, ids)
       PROVE  TypeOK'
    <2> DEFINE fs == {f \in ids : Exists(f) /\ row[f].status # "APPROVED"}
    <2>1. \A f \in fs : [row[f] EXCEPT !.status = "APPROVED"] \in Row
      BY DEF TypeOK, Exists, Row
    <2>2. row' \in [Fields -> Row \cup {Unborn, Deleted}]
      BY <1>15, <2>1 DEF TypeOK, BulkApprove, Approve
    <2>3. \A f \in fs : row[f].value \in FieldValues
      BY DEF TypeOK, Exists, Row
    <2>4. approvedAs' \in [Fields -> SUBSET FieldValues]
      BY <1>15, <2>3 DEF TypeOK, BulkApprove, Approve
    <2>5. [op |-> "bulk", ids |-> ids] \in Request
      BY DEF Request
    <2> QED BY <1>15, <2>2, <2>4, <2>5 DEF TypeOK, BulkApprove
  <1>16. ASSUME NEW r \in Requests, BulkFind(r) PROVE TypeOK'
    <2> DEFINE found == {f \in req[r].ids : Exists(f) /\ row[f].status = "APPROVED"}
    <2>1. found \in SUBSET Fields
      BY <1>16, RequestParts DEF BulkFind
    <2>2. [f \in found |-> row[f]] \in [found -> Row]
      BY <2>1 DEF TypeOK, Exists
    <2>3. [op |-> "promote", held |-> [f \in found |-> row[f]]] \in Request
      BY <2>1, <2>2, ToPromote
    <2> QED BY <1>16, <2>3 DEF TypeOK, BulkFind
  <1>17. ASSUME NEW r \in Requests, NEW f \in Fields, PromoteSkip(r, f)
       PROVE  TypeOK'
    <2>1. req' \in [Requests -> Request \cup {Idle}]
      BY <1>17, PromotedIsRequest DEF PromoteSkip
    <2> QED BY <1>17, <2>1 DEF TypeOK, PromoteSkip
  <1>18. ASSUME NEW r \in Requests, NEW f \in Fields, PromoteCheck(r, f)
       PROVE  TypeOK'
    <2>1. DOMAIN req[r].held \in SUBSET Fields /\ req[r].held \in [DOMAIN req[r].held -> Row]
      BY <1>18, RequestParts DEF PromoteCheck
    <2>2. [op |-> "create", held |-> req[r].held, field |-> f] \in Request
      BY <2>1, ToPromote
    <2> QED BY <1>18, <2>2 DEF TypeOK, PromoteCheck
  <1>19. ASSUME NEW r \in Requests, PromoteCreate(r) PROVE TypeOK'
    <2>1. req' \in [Requests -> Request \cup {Idle}]
      BY <1>19, PromotedIsRequest DEF PromoteCreate
    <2>2. req[r].field \in Fields /\ req[r].field \in DOMAIN req[r].held
      BY <1>19, RequestParts DEF PromoteCreate, HeldWasApproved
    <2>3. req[r].held[req[r].field].value \in FieldValues
      BY <1>19, <2>2, RequestParts DEF PromoteCreate, Row
    <2>4. Append(events[req[r].field], req[r].held[req[r].field].value) \in Seq(FieldValues)
      BY <2>2, <2>3 DEF TypeOK
    <2> QED BY <1>19, <2>1, <2>4 DEF TypeOK, PromoteCreate
  <1>20. ASSUME NEW r \in Requests, NEW f \in Fields, PromoteThrows(r, f)
       PROVE  TypeOK'
    <2>1. req' \in [Requests -> Request \cup {Idle}]
      BY <1>20, PromotedIsRequest DEF PromoteThrows
    <2> QED BY <1>20, <2>1 DEF TypeOK, PromoteThrows
  <1>21. ASSUME NEW r \in Requests, Respond(r) PROVE TypeOK'
    BY <1>21 DEF TypeOK, Request, Respond, Idle
  <1>22. ASSUME NEW r \in Requests, Abandon(r) PROVE TypeOK'
    BY <1>22 DEF TypeOK, Request, Abandon, Idle, OwnedBy
  <1> QED
    <2>1. CASE Files
      BY <2>1, <1>1, <1>2, <1>3, <1>4 DEF Files
    <2>2. ASSUME NEW c \in Callbacks, Validation(c) PROVE TypeOK'
      BY <2>2, <1>5, <1>6, <1>7, <1>8 DEF Validation
    <2>3. ASSUME NEW r \in Requests, Review(r) PROVE TypeOK'
      BY <2>3, <1>9, <1>10, <1>11, <1>12, <1>13, <1>14, <1>15, <1>16, <1>17,
         <1>18, <1>19, <1>20, <1>21, <1>22 DEF Review
    <2> QED BY <1>0, <2>1, <2>2, <2>3 DEF Next, vars

\* The last attempt that throws ends the job.
LEMMA AttemptsLeftStep ==
  ASSUME IInv, [Next]_vars
  PROVE  AttemptsLeft'
  <1> USE ReviewAssumption DEF IInv
  <1>0. CASE UNCHANGED <<job>>
    BY <1>0 DEF TypeOK, Job, AttemptsLeft
  <1>1. ASSUME NEW c \in Callbacks, NEW fs \in SUBSET Fields, NEW new \in [fs -> NewRows(c)], Callback(c, new)
       PROVE  AttemptsLeft'
    BY <1>1 DEF TypeOK, Job, AttemptsLeft, Callback
  <1>2. ASSUME NEW c \in Callbacks, Enqueue(c) PROVE AttemptsLeft'
    BY <1>2 DEF TypeOK, Job, AttemptsLeft, Enqueue
  <1>3. ASSUME NEW c \in Callbacks, EnqueueFails(c) PROVE AttemptsLeft'
    BY <1>3 DEF TypeOK, Job, AttemptsLeft, EnqueueFails
  <1>4. ASSUME NEW c \in Callbacks, JobStart(c) PROVE AttemptsLeft'
    BY <1>4 DEF TypeOK, Job, AttemptsLeft, JobStart
  <1>5. ASSUME NEW c \in Callbacks, NEW f \in Fields, JobFlag(c, f)
       PROVE  AttemptsLeft'
    BY <1>5 DEF TypeOK, Job, AttemptsLeft, JobFlag
  <1>6. ASSUME NEW c \in Callbacks, JobThrows(c) PROVE AttemptsLeft'
    BY <1>6 DEF TypeOK, Job, AttemptsLeft, JobThrows
  <1>7. ASSUME NEW c \in Callbacks, JobDone(c) PROVE AttemptsLeft'
    BY <1>7 DEF TypeOK, Job, AttemptsLeft, JobDone
  <1> QED
    <2>1. CASE Files
      BY <2>1, <1>0, <1>1, <1>2, <1>3 DEF Files, Reprocess
    <2>2. ASSUME NEW c \in Callbacks, Validation(c) PROVE AttemptsLeft'
      BY <2>2, <1>4, <1>5, <1>6, <1>7 DEF Validation
    <2>3. ASSUME NEW r \in Requests, Review(r) PROVE AttemptsLeft'
      BY <2>3, <1>0 DEF Review, BeginUpdate, BeginReject, BeginApprove,
         WriteUpdate, WriteReject, WriteApprove, BulkApprove, BulkFind,
         PromoteSkip, PromoteCheck, PromoteCreate, PromoteThrows, Respond,
         Abandon, Approve, Begin, Promoted
    <2> QED BY <1>0, <2>1, <2>2, <2>3 DEF Next, vars

\* What a request holds for promotion it read from a row that was APPROVED.
LEMMA HeldWasApprovedStep ==
  ASSUME IInv, [Next]_vars
  PROVE  HeldWasApproved'
  <1> USE ReviewAssumption DEF IInv
  <1>0. CASE UNCHANGED <<req, approvedAs>>
    BY <1>0 DEF TypeOK, ApprovedIsRecorded, HeldWasApproved, Promotable, Exists
  <1>1. ASSUME NEW r \in Requests, NEW f \in Fields, NEW v \in FieldValues, NEW u \in Units, BeginUpdate(r, f, v, u)
       PROVE  HeldWasApproved'
    BY <1>1 DEF TypeOK, ApprovedIsRecorded, HeldWasApproved, Promotable, Exists,
       BeginUpdate, Begin, Idle
  <1>2. ASSUME NEW r \in Requests, NEW f \in Fields, BeginReject(r, f)
       PROVE  HeldWasApproved'
    BY <1>2 DEF TypeOK, ApprovedIsRecorded, HeldWasApproved, Promotable, Exists,
       BeginReject, Begin, Idle
  <1>3. ASSUME NEW r \in Requests, NEW f \in Fields, BeginApprove(r, f)
       PROVE  HeldWasApproved'
    BY <1>3 DEF TypeOK, ApprovedIsRecorded, HeldWasApproved, Promotable, Exists,
       BeginApprove, Begin, Idle
  <1>4. ASSUME NEW r \in Requests, WriteUpdate(r) PROVE HeldWasApproved'
    BY <1>4 DEF TypeOK, ApprovedIsRecorded, HeldWasApproved, Promotable, Exists,
       WriteUpdate, Updated, Idle
  <1>5. ASSUME NEW r \in Requests, WriteReject(r) PROVE HeldWasApproved'
    BY <1>5 DEF TypeOK, ApprovedIsRecorded, HeldWasApproved, Promotable, Exists,
       WriteReject, Idle
  <1>6. ASSUME NEW r \in Requests, WriteApprove(r) PROVE HeldWasApproved'
    <2> DEFINE f == req[r].field
    <2>1. f \in Fields /\ row[f] \in Row
      BY <1>6, RequestParts DEF TypeOK, WriteApprove, Exists
    <2>2. row'[f] = [row[f] EXCEPT !.status = "APPROVED"]
      BY <1>6, <2>1 DEF WriteApprove, Approve
    <2>3. row'[f].value = row[f].value /\ row'[f].unit = row[f].unit
      BY <2>1, <2>2 DEF Row
    <2>4. Promotable(f, row'[f]) => row'[f].value \in approvedAs'[f]
      BY <1>6, <2>1, <2>3 DEF WriteApprove, Approve, Promotable
    <2>5. \A g \in Fields : approvedAs[g] \subseteq approvedAs'[g]
      BY <1>6 DEF WriteApprove, Approve
    <2>6. req' = [req EXCEPT ![r] = [op |-> "promote", held |-> [g \in {f} |-> row'[f]]]]
      BY <1>6 DEF WriteApprove
    <2>7. \A q \in Requests : q # r => req'[q] = req[q]
      BY <2>6 DEF TypeOK
    <2> SUFFICES ASSUME NEW q \in Requests, req'[q].op \in {"promote", "create"}
                 PROVE  /\ \A g \in DOMAIN req'[q].held :
                              Promotable(g, req'[q].held[g]) =>
                                 req'[q].held[g].value \in approvedAs'[g]
                        /\ req'[q].op = "create" =>
                              /\ req'[q].field \in DOMAIN req'[q].held
                              /\ Promotable(req'[q].field, req'[q].held[req'[q].field])
      BY DEF HeldWasApproved, Promotable
    <2>8. CASE q = r
      BY <2>4, <2>6, <2>8 DEF TypeOK
    <2>9. CASE q # r
      BY <2>5, <2>7, <2>9, RequestParts DEF HeldWasApproved
    <2> QED BY <2>8, <2>9
  <1>7. ASSUME NEW r \in Requests, NEW ids \in SUBSET Fields, BulkApprove(r, ids)
       PROVE  HeldWasApproved'
    BY <1>7 DEF TypeOK, ApprovedIsRecorded, HeldWasApproved, Promotable, Exists,
       BulkApprove, Approve, Idle
  <1>8. ASSUME NEW r \in Requests, BulkFind(r) PROVE HeldWasApproved'
    BY <1>8 DEF TypeOK, ApprovedIsRecorded, HeldWasApproved, Promotable, Exists,
       BulkFind
  <1>9. ASSUME NEW r \in Requests, NEW f \in Fields, PromoteSkip(r, f)
       PROVE  HeldWasApproved'
    BY <1>9 DEF TypeOK, ApprovedIsRecorded, HeldWasApproved, Promotable, Exists,
       PromoteSkip, Promoted, NothingToCreate
  <1>10. ASSUME NEW r \in Requests, NEW f \in Fields, PromoteCheck(r, f)
       PROVE  HeldWasApproved'
    BY <1>10 DEF TypeOK, ApprovedIsRecorded, HeldWasApproved, Promotable,
       Exists, PromoteCheck, NothingToCreate
  <1>11. ASSUME NEW r \in Requests, PromoteCreate(r) PROVE HeldWasApproved'
    BY <1>11 DEF TypeOK, ApprovedIsRecorded, HeldWasApproved, Promotable,
       Exists, PromoteCreate, Promoted
  <1>12. ASSUME NEW r \in Requests, NEW f \in Fields, PromoteThrows(r, f)
       PROVE  HeldWasApproved'
    BY <1>12 DEF TypeOK, ApprovedIsRecorded, HeldWasApproved, Promotable,
       Exists, PromoteThrows, Promoted
  <1>13. ASSUME NEW r \in Requests, Respond(r) PROVE HeldWasApproved'
    BY <1>13 DEF TypeOK, ApprovedIsRecorded, HeldWasApproved, Promotable,
       Exists, Respond, Idle
  <1>14. ASSUME NEW r \in Requests, Abandon(r) PROVE HeldWasApproved'
    BY <1>14 DEF TypeOK, ApprovedIsRecorded, HeldWasApproved, Promotable,
       Exists, Abandon, Idle, OwnedBy
  <1> QED
    <2>1. CASE Files
      BY <2>1, <1>0 DEF Files, Callback, Enqueue, EnqueueFails, Reprocess
    <2>2. ASSUME NEW c \in Callbacks, Validation(c) PROVE HeldWasApproved'
      BY <2>2, <1>0 DEF Validation, JobStart, JobFlag, JobThrows, JobDone
    <2>3. ASSUME NEW r \in Requests, Review(r) PROVE HeldWasApproved'
      BY <2>3, <1>1, <1>2, <1>3, <1>4, <1>5, <1>6, <1>7, <1>8, <1>9, <1>10,
         <1>11, <1>12, <1>13, <1>14 DEF Review
    <2> QED BY <1>0, <2>1, <2>2, <2>3 DEF Next, vars

\* Only Approve makes a row APPROVED, and records its value.
LEMMA ApprovedIsRecordedStep ==
  ASSUME IInv, [Next]_vars
  PROVE  ApprovedIsRecorded'
  <1> USE ReviewAssumption DEF IInv
  <1>0. CASE UNCHANGED <<row, approvedAs>>
    BY <1>0 DEF TypeOK, ApprovedIsRecorded, Promotable, Unborn, Deleted,
       NewRows, Row
  <1>1. ASSUME NEW c \in Callbacks, NEW fs \in SUBSET Fields, NEW new \in [fs -> NewRows(c)], Callback(c, new)
       PROVE  ApprovedIsRecorded'
    BY <1>1 DEF TypeOK, ApprovedIsRecorded, Promotable, Unborn, Deleted,
       NewRows, Row, Callback
  <1>2. ASSUME Reprocess PROVE ApprovedIsRecorded'
    BY <1>2 DEF TypeOK, ApprovedIsRecorded, Promotable, Unborn, Deleted,
       NewRows, Row, Reprocess
  <1>3. ASSUME NEW c \in Callbacks, NEW f \in Fields, JobFlag(c, f)
       PROVE  ApprovedIsRecorded'
    BY <1>3 DEF TypeOK, ApprovedIsRecorded, Promotable, Unborn, Deleted,
       NewRows, Row, JobFlag
  <1>4. ASSUME NEW r \in Requests, WriteUpdate(r) PROVE ApprovedIsRecorded'
    BY <1>4 DEF TypeOK, ApprovedIsRecorded, Promotable, Unborn, Deleted,
       NewRows, Row, WriteUpdate, Updated, Idle
  <1>5. ASSUME NEW r \in Requests, WriteReject(r) PROVE ApprovedIsRecorded'
    BY <1>5 DEF TypeOK, ApprovedIsRecorded, Promotable, Unborn, Deleted,
       NewRows, Row, WriteReject, Idle
  <1>6. ASSUME NEW r \in Requests, WriteApprove(r) PROVE ApprovedIsRecorded'
    BY <1>6 DEF TypeOK, ApprovedIsRecorded, Promotable, Unborn, Deleted,
       NewRows, Row, WriteApprove, Approve
  <1>7. ASSUME NEW r \in Requests, NEW ids \in SUBSET Fields, BulkApprove(r, ids)
       PROVE  ApprovedIsRecorded'
    BY <1>7 DEF TypeOK, ApprovedIsRecorded, Promotable, Unborn, Deleted,
       NewRows, Row, BulkApprove, Approve, Idle
  <1> QED
    <2>1. CASE Files
      BY <2>1, <1>0, <1>1, <1>2 DEF Files, Enqueue, EnqueueFails
    <2>2. ASSUME NEW c \in Callbacks, Validation(c) PROVE ApprovedIsRecorded'
      BY <2>2, <1>0, <1>3 DEF Validation, JobStart, JobThrows, JobDone
    <2>3. ASSUME NEW r \in Requests, Review(r) PROVE ApprovedIsRecorded'
      BY <2>3, <1>0, <1>4, <1>5, <1>6, <1>7 DEF Review, BeginUpdate,
         BeginReject, BeginApprove, BulkFind, PromoteSkip, PromoteCheck,
         PromoteCreate, PromoteThrows, Respond, Abandon, Begin, Promoted
    <2> QED BY <1>0, <2>1, <2>2, <2>3 DEF Next, vars

\* Only PromoteCreate adds an event, of a value the request holds.
LEMMA EventsComeFromApprovalStep ==
  ASSUME IInv, [Next]_vars
  PROVE  EventsComeFromApproval'
  <1> USE ReviewAssumption DEF IInv
  <1>0. CASE UNCHANGED <<events, approvedAs>>
    BY <1>0 DEF TypeOK, HeldWasApproved, EventsComeFromApproval
  <1>1. ASSUME NEW r \in Requests, WriteApprove(r) PROVE EventsComeFromApproval'
    BY <1>1 DEF TypeOK, HeldWasApproved, EventsComeFromApproval, WriteApprove,
       Approve
  <1>2. ASSUME NEW r \in Requests, NEW ids \in SUBSET Fields, BulkApprove(r, ids)
       PROVE  EventsComeFromApproval'
    BY <1>2 DEF TypeOK, HeldWasApproved, EventsComeFromApproval, BulkApprove,
       Approve, Idle
  <1>3. ASSUME NEW r \in Requests, PromoteCreate(r)
       PROVE  EventsComeFromApproval'
    <2> DEFINE f == req[r].field
               v == req[r].held[f].value
    <2>1. f \in Fields /\ v \in approvedAs[f]
      BY <1>3, RequestParts DEF PromoteCreate, HeldWasApproved
    <2>2. v \in FieldValues /\ events[f] \in Seq(FieldValues)
      BY <2>1 DEF TypeOK
    <2>3. DOMAIN Append(events[f], v) = 1 .. Len(events[f]) + 1
      BY <2>2
    <2>4. \A i \in DOMAIN Append(events[f], v) : Append(events[f], v)[i] \in approvedAs[f]
      BY <2>1, <2>2, <2>3 DEF EventsComeFromApproval
    <2> QED BY <1>3, <2>4 DEF TypeOK, EventsComeFromApproval, PromoteCreate
  <1> QED
    <2>1. CASE Files
      BY <2>1, <1>0 DEF Files, Callback, Enqueue, EnqueueFails, Reprocess
    <2>2. ASSUME NEW c \in Callbacks, Validation(c) PROVE EventsComeFromApproval'
      BY <2>2, <1>0 DEF Validation, JobStart, JobFlag, JobThrows, JobDone
    <2>3. ASSUME NEW r \in Requests, Review(r) PROVE EventsComeFromApproval'
      BY <2>3, <1>0, <1>1, <1>2, <1>3 DEF Review, BeginUpdate, BeginReject,
         BeginApprove, WriteUpdate, WriteReject, BulkFind, PromoteSkip,
         PromoteCheck, PromoteThrows, Respond, Abandon, Begin, Promoted
    <2> QED BY <1>0, <2>1, <2>2, <2>3 DEF Next, vars

\* A request that makes a row APPROVED owns its promotion until the event is there
\* or the promotion is given up.
LEMMA ApprovedIsOwnedStep ==
  ASSUME IInv, [Next]_vars
  PROVE  ApprovedIsOwned'
  <1> USE ReviewAssumption DEF IInv
  <1>0. CASE UNCHANGED <<row, events, req, dropped>>
    BY <1>0 DEF TypeOK, ApprovedIsOwned, HeldWasApproved, Owns, Promotable,
       Unborn, Deleted, NewRows, Row, Exists
  <1>1. ASSUME NEW c \in Callbacks, NEW fs \in SUBSET Fields, NEW new \in [fs -> NewRows(c)], Callback(c, new)
       PROVE  ApprovedIsOwned'
    BY <1>1 DEF TypeOK, ApprovedIsOwned, HeldWasApproved, Owns, Promotable,
       Unborn, Deleted, NewRows, Row, Exists, Callback
  <1>2. ASSUME Reprocess PROVE ApprovedIsOwned'
    BY <1>2 DEF TypeOK, ApprovedIsOwned, HeldWasApproved, Owns, Promotable,
       Unborn, Deleted, NewRows, Row, Exists, Reprocess
  <1>3. ASSUME NEW c \in Callbacks, NEW f \in Fields, JobFlag(c, f)
       PROVE  ApprovedIsOwned'
    BY <1>3 DEF TypeOK, ApprovedIsOwned, HeldWasApproved, Owns, Promotable,
       Unborn, Deleted, NewRows, Row, Exists, JobFlag
  <1>4. ASSUME NEW r \in Requests, NEW f \in Fields, NEW v \in FieldValues, NEW u \in Units, BeginUpdate(r, f, v, u)
       PROVE  ApprovedIsOwned'
    <2>1. UNCHANGED <<row, events, dropped>>
      BY <1>4 DEF BeginUpdate, Begin
    <2>2. \A f2 \in Fields, q \in Requests : Owns(q, f2) => Owns(q, f2)'
      BY <1>4 DEF BeginUpdate, Begin, Owns, TypeOK, Idle, Promotable
    <2> QED BY <2>1, <2>2 DEF ApprovedIsOwned, Promotable
  <1>5. ASSUME NEW r \in Requests, NEW f \in Fields, BeginReject(r, f)
       PROVE  ApprovedIsOwned'
    BY <1>5, SMTT(30) DEF TypeOK, ApprovedIsOwned, HeldWasApproved, Owns, Promotable,
       Unborn, Deleted, NewRows, Row, Exists, BeginReject, Begin, Idle
  <1>6. ASSUME NEW r \in Requests, NEW f \in Fields, BeginApprove(r, f)
       PROVE  ApprovedIsOwned'
    BY <1>6 DEF TypeOK, ApprovedIsOwned, HeldWasApproved, Owns, Promotable,
       Unborn, Deleted, NewRows, Row, Exists, BeginApprove, Begin, Idle
  <1>7. ASSUME NEW r \in Requests, WriteUpdate(r) PROVE ApprovedIsOwned'
    BY <1>7 DEF TypeOK, ApprovedIsOwned, HeldWasApproved, Owns, Promotable,
       Unborn, Deleted, NewRows, Row, Exists, WriteUpdate, Updated, Idle
  <1>8. ASSUME NEW r \in Requests, WriteReject(r) PROVE ApprovedIsOwned'
    BY <1>8 DEF TypeOK, ApprovedIsOwned, HeldWasApproved, Owns, Promotable,
       Unborn, Deleted, NewRows, Row, Exists, WriteReject, Idle
  <1>9. ASSUME NEW r \in Requests, WriteApprove(r) PROVE ApprovedIsOwned'
    <2>1. PICK f \in Fields : f = req[r].field
      BY <1>9, RequestParts DEF WriteApprove
    <2>2. req' = [req EXCEPT ![r] = [op |-> "promote", held |-> [g \in {f} |-> row'[f]]]]
      BY <1>9, <2>1 DEF WriteApprove
    <2>3. Promotable(f, row'[f]) => Owns(r, f)'
      BY <2>2 DEF Owns, TypeOK, Promotable
    <2>4. \A g \in Fields : g # f => row'[g] = row[g]
      BY <1>9, <2>1 DEF WriteApprove, Approve
    <2>5. \A g \in Fields, q \in Requests : Owns(q, g) => q # r
      BY <1>9 DEF WriteApprove, Owns
    <2>6. \A g \in Fields, q \in Requests : Owns(q, g) => Owns(q, g)'
      BY <2>2, <2>5 DEF Owns, TypeOK, Promotable
    <2>7. events' = events /\ dropped' = dropped \ {f}
      BY <1>9, <2>1 DEF WriteApprove
    <2> QED BY <2>3, <2>4, <2>6, <2>7 DEF ApprovedIsOwned, Promotable
  <1>10. ASSUME NEW r \in Requests, NEW ids \in SUBSET Fields, BulkApprove(r, ids)
       PROVE  ApprovedIsOwned'
    <2> DEFINE fs == {f \in ids : Exists(f) /\ row[f].status # "APPROVED"}
    <2>1. \A f \in Fields : f \notin fs => row'[f] = row[f]
      BY <1>10 DEF BulkApprove, Approve
    <2>2. \A f \in fs : Owns(r, f)'
      BY <1>10 DEF BulkApprove, Owns, TypeOK
    <2>3. \A f \in Fields, q \in Requests : Owns(q, f) => Owns(q, f)'
      BY <1>10 DEF BulkApprove, Owns, TypeOK, Idle, Promotable
    <2> QED BY <1>10, <2>1, <2>2, <2>3 DEF ApprovedIsOwned, BulkApprove, Promotable
  <1>11. ASSUME NEW r \in Requests, BulkFind(r) PROVE ApprovedIsOwned'
    BY <1>11, SMTT(30) DEF TypeOK, ApprovedIsOwned, HeldWasApproved, Owns, Promotable,
       Unborn, Deleted, NewRows, Row, Exists, BulkFind
  <1>12. ASSUME NEW r \in Requests, NEW f \in Fields, PromoteSkip(r, f)
       PROVE  ApprovedIsOwned'
    <2>1. UNCHANGED <<row, events, dropped>>
      BY <1>12 DEF PromoteSkip
    <2>2. \A g \in Fields, q \in Requests : Owns(q, g) /\ (q # r \/ g # f) => Owns(q, g)'
      BY <1>12 DEF PromoteSkip, Promoted, Owns, TypeOK, Promotable
    <2>3. Owns(r, f) => events[f] # <<>>
      BY <1>12 DEF PromoteSkip, NothingToCreate, Owns
    <2> QED BY <2>1, <2>2, <2>3 DEF ApprovedIsOwned, Promotable
  <1>13. ASSUME NEW r \in Requests, NEW f \in Fields, PromoteCheck(r, f)
       PROVE  ApprovedIsOwned'
    BY <1>13 DEF TypeOK, ApprovedIsOwned, HeldWasApproved, Owns, Promotable,
       Unborn, Deleted, NewRows, Row, Exists, PromoteCheck, NothingToCreate
  <1>14. ASSUME NEW r \in Requests, PromoteCreate(r) PROVE ApprovedIsOwned'
    <2> DEFINE f == req[r].field
    <2>1. f \in Fields /\ req[r].held[f].value \in FieldValues /\ events[f] \in Seq(FieldValues)
      BY <1>14, RequestParts DEF PromoteCreate, HeldWasApproved, TypeOK
    <2>2. events'[f] # <<>>
      <3>1. events'[f] = Append(events[f], req[r].held[f].value)
        BY <1>14, <2>1 DEF PromoteCreate, TypeOK
      <3>2. Len(Append(events[f], req[r].held[f].value)) = Len(events[f]) + 1
        BY <2>1
      <3>3. Len(events[f]) \in Nat /\ Len(<<>>) = 0
        BY <2>1
      <3> QED BY <3>1, <3>2, <3>3
    <2>3. \A g \in Fields : g # f => events'[g] = events[g]
      BY <1>14 DEF PromoteCreate, TypeOK
    <2>4. \A g \in Fields, q \in Requests : g # f /\ Owns(q, g) => Owns(q, g)'
      BY <1>14 DEF PromoteCreate, Promoted, Owns, TypeOK, Promotable
    <2> QED BY <1>14, <2>2, <2>3, <2>4 DEF ApprovedIsOwned, PromoteCreate, Promotable
  <1>15. ASSUME NEW r \in Requests, NEW f \in Fields, PromoteThrows(r, f)
       PROVE  ApprovedIsOwned'
    BY <1>15 DEF TypeOK, ApprovedIsOwned, HeldWasApproved, Owns, Promotable,
       Unborn, Deleted, NewRows, Row, Exists, PromoteThrows, Promoted
  <1>16. ASSUME NEW r \in Requests, Respond(r) PROVE ApprovedIsOwned'
    BY <1>16 DEF TypeOK, ApprovedIsOwned, HeldWasApproved, Owns, Promotable,
       Unborn, Deleted, NewRows, Row, Exists, Respond, Idle
  <1>17. ASSUME NEW r \in Requests, Abandon(r) PROVE ApprovedIsOwned'
    BY <1>17 DEF TypeOK, ApprovedIsOwned, HeldWasApproved, Owns, Promotable,
       Unborn, Deleted, NewRows, Row, Exists, Abandon, Idle, OwnedBy
  <1> QED
    <2>1. CASE Files
      BY <2>1, <1>0, <1>1, <1>2 DEF Files, Enqueue, EnqueueFails
    <2>2. ASSUME NEW c \in Callbacks, Validation(c) PROVE ApprovedIsOwned'
      BY <2>2, <1>0, <1>3 DEF Validation, JobStart, JobThrows, JobDone
    <2>3. ASSUME NEW r \in Requests, Review(r) PROVE ApprovedIsOwned'
      BY <2>3, <1>4, <1>5, <1>6, <1>7, <1>8, <1>9, <1>10, <1>11, <1>12, <1>13,
         <1>14, <1>15, <1>16, <1>17 DEF Review
    <2> QED BY <1>0, <2>1, <2>2, <2>3 DEF Next, vars

\* A job leaves its last attempt with an empty todo list, or dies.
LEMMA MismatchIsFlaggedStep ==
  ASSUME IInv, [Next]_vars
  PROVE  MismatchIsFlagged'
  <1> USE ReviewAssumption DEF IInv
  <1>0. CASE UNCHANGED <<row, job>>
    BY <1>0 DEF TypeOK, MismatchIsFlagged, Job, Unborn, Deleted, NewRows, Row,
       Exists
  <1>1. ASSUME NEW c \in Callbacks, NEW fs \in SUBSET Fields, NEW new \in [fs -> NewRows(c)], Callback(c, new)
       PROVE  MismatchIsFlagged'
    BY <1>1 DEF TypeOK, MismatchIsFlagged, Job, Unborn, Deleted, NewRows, Row,
       Exists, Callback
  <1>2. ASSUME NEW c \in Callbacks, Enqueue(c) PROVE MismatchIsFlagged'
    BY <1>2 DEF TypeOK, MismatchIsFlagged, Job, Unborn, Deleted, NewRows, Row,
       Exists, Enqueue
  <1>3. ASSUME NEW c \in Callbacks, EnqueueFails(c) PROVE MismatchIsFlagged'
    BY <1>3 DEF TypeOK, MismatchIsFlagged, Job, Unborn, Deleted, NewRows, Row,
       Exists, EnqueueFails
  <1>4. ASSUME Reprocess PROVE MismatchIsFlagged'
    BY <1>4 DEF TypeOK, MismatchIsFlagged, Job, Unborn, Deleted, NewRows, Row,
       Exists, Reprocess
  <1>5. ASSUME NEW c \in Callbacks, JobStart(c) PROVE MismatchIsFlagged'
    BY <1>5 DEF TypeOK, MismatchIsFlagged, Job, Unborn, Deleted, NewRows, Row,
       Exists, JobStart
  <1>6. ASSUME NEW c \in Callbacks, NEW f \in Fields, JobFlag(c, f)
       PROVE  MismatchIsFlagged'
    BY <1>6 DEF TypeOK, MismatchIsFlagged, Job, Unborn, Deleted, NewRows, Row,
       Exists, JobFlag
  <1>7. ASSUME NEW c \in Callbacks, JobThrows(c) PROVE MismatchIsFlagged'
    BY <1>7 DEF TypeOK, MismatchIsFlagged, Job, Unborn, Deleted, NewRows, Row,
       Exists, JobThrows
  <1>8. ASSUME NEW c \in Callbacks, JobDone(c) PROVE MismatchIsFlagged'
    BY <1>8 DEF TypeOK, MismatchIsFlagged, Job, Unborn, Deleted, NewRows, Row,
       Exists, JobDone
  <1>9. ASSUME NEW r \in Requests, WriteUpdate(r) PROVE MismatchIsFlagged'
    BY <1>9 DEF TypeOK, MismatchIsFlagged, Job, Unborn, Deleted, NewRows, Row,
       Exists, WriteUpdate, Updated, Idle
  <1>10. ASSUME NEW r \in Requests, WriteReject(r) PROVE MismatchIsFlagged'
    BY <1>10 DEF TypeOK, MismatchIsFlagged, Job, Unborn, Deleted, NewRows, Row,
       Exists, WriteReject, Idle
  <1>11. ASSUME NEW r \in Requests, WriteApprove(r) PROVE MismatchIsFlagged'
    BY <1>11 DEF TypeOK, MismatchIsFlagged, Job, Unborn, Deleted, NewRows, Row,
       Exists, WriteApprove, Approve
  <1>12. ASSUME NEW r \in Requests, NEW ids \in SUBSET Fields, BulkApprove(r, ids)
       PROVE  MismatchIsFlagged'
    BY <1>12 DEF TypeOK, MismatchIsFlagged, Job, Unborn, Deleted, NewRows, Row,
       Exists, BulkApprove, Approve, Idle
  <1> QED
    <2>1. CASE Files
      BY <2>1, <1>1, <1>2, <1>3, <1>4 DEF Files
    <2>2. ASSUME NEW c \in Callbacks, Validation(c) PROVE MismatchIsFlagged'
      BY <2>2, <1>5, <1>6, <1>7, <1>8 DEF Validation
    <2>3. ASSUME NEW r \in Requests, Review(r) PROVE MismatchIsFlagged'
      BY <2>3, <1>0, <1>9, <1>10, <1>11, <1>12 DEF Review, BeginUpdate,
         BeginReject, BeginApprove, BulkFind, PromoteSkip, PromoteCheck,
         PromoteCreate, PromoteThrows, Respond, Abandon, Begin, Promoted
    <2> QED BY <1>0, <2>1, <2>2, <2>3 DEF Next, vars

-------------------------------------------------------------------------------
\* No row and no request is there at the start.
LEMMA InitIInv == Init => IInv
  <1> SUFFICES ASSUME Init PROVE IInv
    OBVIOUS
  <1>1. TypeOK
    BY ReviewAssumption DEF Init, TypeOK, Job, Unborn
  <1>2. AttemptsLeft
    BY ReviewAssumption DEF Init, AttemptsLeft
  <1>3. ApprovedIsRecorded /\ ApprovedIsOwned /\ MismatchIsFlagged
    BY DEF Init, ApprovedIsRecorded, ApprovedIsOwned, MismatchIsFlagged, Unborn
  <1>4. HeldWasApproved /\ EventsComeFromApproval
    BY DEF Init, HeldWasApproved, EventsComeFromApproval, Idle
  <1> QED BY <1>1, <1>2, <1>3, <1>4 DEF IInv

LEMMA Invariance == Spec => []IInv
  <1>1. IInv /\ [Next]_vars => IInv'
    BY TypeOKStep, AttemptsLeftStep, ApprovedIsRecordedStep, HeldWasApprovedStep,
       EventsComeFromApprovalStep, ApprovedIsOwnedStep, MismatchIsFlaggedStep
    DEF IInv
  <1> QED BY InitIInv, <1>1, PTL DEF Spec

\* Rows, requests, jobs and events keep their types; no job has more attempts than
\* it was given.
THEOREM TypeCorrect == Spec => []TypeOK
  <1>1. IInv => TypeOK
    BY DEF IInv
  <1> QED BY Invariance, <1>1, PTL

\* No metric event holds a value its field did not have while it was APPROVED.
THEOREM EventsApproved == Spec => []EventsComeFromApproval
  <1>1. IInv => EventsComeFromApproval
    BY DEF IInv
  <1> QED BY Invariance, <1>1, PTL

\* An approval is not forgotten between its write and its metric event, unless a
\* call throws or the API stops.
THEOREM ApprovalsPromoted == Spec => []ApprovedIsPromoted
  <1>1. ASSUME IInv PROVE ApprovedIsPromoted
    <2>1. \A r \in Requests, f \in Fields : Owns(r, f) => f \in OwnedBy(r)
      BY DEF Owns, OwnedBy
    <2> QED BY <1>1, <2>1 DEF IInv, ApprovedIsOwned, ApprovedIsPromoted
  <1> QED BY Invariance, <1>1, PTL

\* A DRAFT field with a unit that is not allowed still has its validation ahead,
\* or had a validation job that died.
THEOREM MismatchesFlagged == Spec => []MismatchIsFlagged
  <1>1. IInv => MismatchIsFlagged
    BY DEF IInv
  <1> QED BY Invariance, <1>1, PTL

-------------------------------------------------------------------------------
(* When an extraction is promoted twice.                                     *)

\* Request r is about to create the metric event of f.
Creates(r, f) == req[r].op = "create" /\ req[r].field = f

\* No two requests are about to create the event of one field.
OneCreatesAtATime ==
    \A r, s \in Requests, f \in Fields : Creates(r, f) /\ Creates(s, f) => r = s

\* A field about to get an event has none.
CreatesTheFirst ==
    \A f \in Fields : /\ Len(events[f]) <= 1
                      /\ \A r \in Requests : Creates(r, f) => events[f] = <<>>

\* A step keeps it, if no two requests are about to create the event of one field.
LEMMA CreatesTheFirstStep ==
  ASSUME TypeOK, OneCreatesAtATime, CreatesTheFirst, [Next]_vars
  PROVE  CreatesTheFirst'
  <1>0. ASSUME UNCHANGED events,
               \A r \in Requests, f \in Fields :
                  Creates(r, f)' => Creates(r, f) \/ events[f] = <<>>
        PROVE  CreatesTheFirst'
    BY <1>0 DEF CreatesTheFirst
  <1>1. ASSUME UNCHANGED <<events, req>> PROVE CreatesTheFirst'
    BY <1>0, <1>1 DEF Creates
  <1>2. ASSUME NEW r \in Requests, UNCHANGED events,
               NEW q, req' = [req EXCEPT ![r] = q],
               \A f \in Fields : (q.op = "create" /\ q.field = f) => events[f] = <<>>
        PROVE  CreatesTheFirst'
    <2>1. \A s \in Requests : req'[s] = IF s = r THEN q ELSE req[s]
      BY <1>2 DEF TypeOK
    <2> QED BY <1>0, <1>2, <2>1 DEF Creates
  <1>3. ASSUME NEW r \in Requests, NEW f, Promoted(r, f), UNCHANGED events
        PROVE  CreatesTheFirst'
    <2> DEFINE rest == DOMAIN req[r].held \ {f}
               q == [op |-> "promote", held |-> [g \in rest |-> req[r].held[g]]]
    <2>1. req' = [req EXCEPT ![r] = q] /\ q.op = "promote"
      BY <1>3 DEF Promoted
    <2> HIDE DEF q
    <2> QED BY <1>2, <1>3, <2>1
  <1>4. CASE UNCHANGED vars
    BY <1>1, <1>4 DEF vars
  <1>5. CASE Files
    BY <1>1, <1>5 DEF Files, Callback, Enqueue, EnqueueFails, Reprocess
  <1>6. ASSUME NEW c \in Callbacks, Validation(c) PROVE CreatesTheFirst'
    BY <1>1, <1>6 DEF Validation, JobStart, JobFlag, JobThrows, JobDone
  <1>7. ASSUME NEW r \in Requests, Review(r) PROVE CreatesTheFirst'
    <2>1. ASSUME NEW f \in Fields, NEW v, NEW u, BeginUpdate(r, f, v, u) PROVE CreatesTheFirst'
      <3> DEFINE q == [op |-> "update", field |-> f, value |-> v, unit |-> u]
      <3>1. req' = [req EXCEPT ![r] = q] /\ q.op = "update" /\ UNCHANGED events
        BY <2>1 DEF BeginUpdate, Begin
      <3> HIDE DEF q
      <3> QED BY <1>2, <3>1
    <2>2. ASSUME NEW f \in Fields, BeginReject(r, f) \/ BeginApprove(r, f) PROVE CreatesTheFirst'
      <3>1. PICK q \in {[op |-> "reject", field |-> f],
                        [op |-> "approve", field |-> f, before |-> row[f]]} :
              req' = [req EXCEPT ![r] = q] /\ UNCHANGED events
        BY <2>2 DEF BeginReject, BeginApprove, Begin
      <3>2. q.op # "create"
        BY <3>1
      <3> QED BY <1>2, <3>1, <3>2
    <2>3. ASSUME NEW f \in Fields, PromoteSkip(r, f) \/ PromoteThrows(r, f) PROVE CreatesTheFirst'
      BY <1>3, <2>3 DEF PromoteSkip, PromoteThrows
    <2>4. ASSUME NEW f \in Fields, PromoteCheck(r, f) PROVE CreatesTheFirst'
      <3> DEFINE q == [op |-> "create", held |-> req[r].held, field |-> f]
      <3>1. req' = [req EXCEPT ![r] = q] /\ q.field = f /\ events[f] = <<>> /\ UNCHANGED events
        BY <2>4 DEF PromoteCheck, NothingToCreate
      <3> HIDE DEF q
      <3> QED BY <1>2, <3>1
    <2>5. ASSUME NEW ids, BulkApprove(r, ids) PROVE CreatesTheFirst'
      <3> DEFINE q == [op |-> "bulk", ids |-> ids]
      <3>1. req' = [req EXCEPT ![r] = q] /\ q.op = "bulk" /\ UNCHANGED events
        BY <2>5 DEF BulkApprove
      <3> HIDE DEF q
      <3> QED BY <1>2, <3>1
    <2>6. CASE WriteUpdate(r) \/ WriteReject(r) \/ Respond(r) \/ Abandon(r)
      BY <1>2, <2>6 DEF WriteUpdate, WriteReject, Respond, Abandon, Idle
    <2>7. CASE WriteApprove(r) \/ BulkFind(r)
      <3>1. PICK held : /\ req' = [req EXCEPT ![r] = [op |-> "promote", held |-> held]]
                        /\ UNCHANGED events
        <4>1. CASE WriteApprove(r)
          BY <4>1, Zenon DEF WriteApprove
        <4>2. CASE BulkFind(r)
          BY <4>2, Zenon DEF BulkFind
        <4> QED BY <2>7, <4>1, <4>2
      <3> DEFINE q == [op |-> "promote", held |-> held]
      <3>2. req' = [req EXCEPT ![r] = q] /\ q.op = "promote" /\ UNCHANGED events
        BY <3>1
      <3> HIDE DEF q
      <3> QED BY <1>2, <3>2
    <2>8. CASE PromoteCreate(r)
      <3> DEFINE f == req[r].field
      <3>1. /\ Creates(r, f) /\ f \in Fields /\ events[f] = <<>>
            /\ events' = [events EXCEPT ![f] = Append(@, req[r].held[f].value)]
            /\ Promoted(r, f)
        BY <2>8, RequestParts DEF PromoteCreate, Creates, CreatesTheFirst
      <3>2. Len(events'[f]) = 1
        BY <3>1 DEF TypeOK
      <3>3. \A g \in Fields \ {f} : events'[g] = events[g]
        BY <3>1 DEF TypeOK
      <3>4. ASSUME NEW s \in Requests, NEW g \in Fields, Creates(s, g)'
            PROVE  s # r /\ Creates(s, g) /\ g # f
        <4> DEFINE rest == DOMAIN req[r].held \ {f}
                   q == [op |-> "promote", held |-> [h \in rest |-> req[r].held[h]]]
        <4>1. req' = [req EXCEPT ![r] = q] /\ q.op = "promote"
          BY <3>1 DEF Promoted
        <4> HIDE DEF q
        <4>2. s # r /\ Creates(s, g)
          BY <3>4, <4>1 DEF Creates, TypeOK
        <4> QED BY <3>1, <4>2 DEF OneCreatesAtATime
      <3>5. ASSUME NEW g \in Fields
            PROVE  Len(events'[g]) <= 1 /\ \A s \in Requests : Creates(s, g)' => events'[g] = <<>>
        <4>1. CASE g = f
          <5>1. \A s \in Requests : ~Creates(s, g)'
            BY <3>4, <4>1
          <5>2. Len(events'[g]) = 1
            BY <3>2, <4>1
          <5> QED BY <5>1, <5>2
        <4>2. CASE g # f
          BY <3>3, <3>4, <4>2 DEF CreatesTheFirst
        <4> QED BY <4>1, <4>2
      <3> QED BY <3>5 DEF CreatesTheFirst
    <2> QED BY <1>7, <2>1, <2>2, <2>3, <2>4, <2>5, <2>6, <2>7, <2>8 DEF Review
  <1> QED BY <1>4, <1>5, <1>6, <1>7 DEF Next

\* promoteToMetricEvent makes two metric events of one extraction only when two requests
\* are between its findFirst and its create for that field at the same time: without such
\* a pair -- with one request at a time, in particular -- there is never a second one,
\* whatever bulk approvals, repeated approvals, rejections and failures come between.
THEOREM OnePromotionAtATime == Spec /\ []OneCreatesAtATime => []NeverTwoEventsPerExtraction
  <1>1. Init => CreatesTheFirst
    <2> SUFFICES ASSUME Init PROVE CreatesTheFirst
      OBVIOUS
    <2>1. \A r \in Requests : req[r].op = "idle"
      BY DEF Init, Idle
    <2>2. \A f \in Fields : events[f] = <<>>
      BY DEF Init
    <2>3. Len(<<>>) = 0
      OBVIOUS
    <2>4. \A r \in Requests, f \in Fields : ~Creates(r, f)
      BY <2>1 DEF Creates
    <2>5. \A f \in Fields : Len(events[f]) <= 1
      <3> TAKE f \in Fields
      <3>1. Len(events[f]) = 0
        BY <2>2, <2>3
      <3> QED BY <3>1
    <2> QED BY <2>4, <2>5 DEF CreatesTheFirst
  <1>2. IInv => TypeOK
    BY DEF IInv
  <1>3. TypeOK /\ OneCreatesAtATime /\ CreatesTheFirst /\ [Next]_vars => CreatesTheFirst'
    BY CreatesTheFirstStep
  <1>4. CreatesTheFirst => NeverTwoEventsPerExtraction
    BY DEF CreatesTheFirst, NeverTwoEventsPerExtraction
  <1> QED BY Invariance, <1>1, <1>2, <1>3, <1>4, PTL DEF Spec

\* With one request at a time no extraction is promoted to two metric events.
COROLLARY SerialReviewsPromoteOnce ==
  ASSUME \A r, s \in Requests : r = s
  PROVE  Spec => []NeverTwoEventsPerExtraction
  <1>1. OneCreatesAtATime
    BY DEF OneCreatesAtATime
  <1> QED BY <1>1, OnePromotionAtATime, PTL
===============================================================================
