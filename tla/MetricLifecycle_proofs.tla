------------------------ MODULE MetricLifecycle_proofs ------------------------
(***************************************************************************)
(* Theorems about MetricLifecycle, for any sets of events, users, values    *)
(* and concurrent requests, and about the reviews of MCUndisturbed.         *)
(***************************************************************************)
EXTENDS MCUndisturbed, TLAPS

USE NoActorAssumption

-------------------------------------------------------------------------------
(* Types.                                                                    *)

LEMMA IdleIsNoRequest ==
  Idle \notin Request /\ Idle.op \notin {"update", "submit", "approve", "reject", "lock"}
  BY DEF Idle, Request

LEMMA NoRowIsNoRow == NoRow \notin Row /\ NoRow.status = "ABSENT"
  BY DEF NoRow, Row

\* The target of a request in flight, and what an update makes of its row.
LEMMA InFlightIsRequest ==
  ASSUME TypeOK, NEW r \in Requests, req[r] # Idle
  PROVE  /\ req[r] \in Request
         /\ req[r].event \in Events /\ req[r].actor \in Actors /\ req[r].value \in Values
  BY DEF TypeOK, Request

\* Rows and requests stay records of their type.  A request only ever updates a
\* row that exists, because rows are never deleted.
TargetsExist == \A r \in Requests : req[r] # Idle => event[req[r].event] # NoRow

TypeInv == TypeOK /\ TargetsExist

LEMMA InsertKeepsTypes ==
  ASSUME TypeInv, NEW es \in SUBSET Events, NEW a \in Actors, NEW found \in Row,
         InsertRows(es, a, found)
  PROVE  TypeInv'
  <1>1. TypeOK'
    BY DEF TypeInv, TypeOK, InsertRows
  <1>2. TargetsExist'
    BY InFlightIsRequest, NoRowIsNoRow DEF TypeInv, TypeOK, TargetsExist, InsertRows, Request
  <1> QED BY <1>1, <1>2 DEF TypeInv

LEMMA RowsToInsert ==
  ASSUME NEW a \in Actors, NEW v \in Values
  PROVE  DraftRow(a, v) \in Row /\ CalculatedRow(a, v) \in Row
  BY DEF DraftRow, CalculatedRow, Row

LEMMA FindOneKeepsTypes ==
  ASSUME TypeInv, NEW r \in Requests, NEW e \in Events, NEW a \in Actors, NEW v \in Values,
         NEW op \in {"update", "submit", "approve", "reject", "lock"},
         FindOne(r, op, e, a, v)
  PROVE  TypeInv'
  <1> DEFINE new == [op |-> op, event |-> e, actor |-> a, value |-> v]
  <1>1. new \in Request
    BY DEF Request
  <1>2. TypeOK'
    BY <1>1 DEF TypeInv, TypeOK, FindOne
  <1>3. TargetsExist'
    BY <1>1 DEF TypeInv, TypeOK, TargetsExist, FindOne
  <1> QED BY <1>2, <1>3 DEF TypeInv

LEMMA UpdateKeepsTypes ==
  ASSUME TypeInv, NEW r \in Requests, NEW op \in {"update", "submit", "approve", "reject", "lock"},
         NEW found, event[req[r].event] \in Row => found \in Row,
         UpdateById(r, op, found), submitters' \in [Events -> SUBSET Actors]
  PROVE  TypeInv'
  <1>1. req[r] # Idle
    BY IdleIsNoRequest DEF UpdateById
  <1>2. event[req[r].event] \in Row /\ req[r].event \in Events
    BY <1>1, InFlightIsRequest DEF TypeInv, TypeOK, TargetsExist
  <1>3. found \in Row
    BY <1>2
  <1>4. TypeOK'
    BY <1>2, <1>3 DEF TypeInv, TypeOK, UpdateById
  <1>5. TargetsExist'
    BY <1>2, <1>3, NoRowIsNoRow DEF TypeInv, TypeOK, TargetsExist, UpdateById
  <1> QED BY <1>4, <1>5 DEF TypeInv

LEMMA TypeStep == TypeInv /\ [Next]_vars => TypeInv'
  <1> SUFFICES ASSUME TypeInv, [Next]_vars PROVE TypeInv'
    OBVIOUS
  <1>1. CASE Insert
    <2> PICK a \in Actors, v \in Values :
          \/ \E e \in Events : \/ Create(e, a, v) \/ Promote(e, a, v) \/ EmitCalculated(e, a, v)
          \/ \E es \in (SUBSET Events) \ {{}} : BulkImport(es, a, v)
      BY <1>1 DEF Insert
    <2>1. CASE \E e \in Events : Create(e, a, v) \/ Promote(e, a, v) \/ EmitCalculated(e, a, v)
      BY <2>1, RowsToInsert, InsertKeepsTypes DEF Create, Promote, EmitCalculated
    <2>2. CASE \E es \in (SUBSET Events) \ {{}} : BulkImport(es, a, v)
      BY <2>2, RowsToInsert, InsertKeepsTypes DEF BulkImport
    <2> QED BY <2>1, <2>2
  <1>2. ASSUME NEW r \in Requests, Begin(r) PROVE TypeInv'
    <2> PICK e \in Events, a \in Actors :
          \/ \E v \in Values : BeginUpdate(r, e, a, v)
          \/ BeginSubmit(r, e, a) \/ BeginApprove(r, e, a)
          \/ BeginReject(r, e, a) \/ BeginLock(r, e, a)
      BY <1>2 DEF Begin
    <2>1. event[e] # NoRow => event[e].value \in Values
      BY DEF TypeInv, TypeOK, Row
    <2>2. FindOne(r, "update", e, a, event[e].value) => event[e] # NoRow
      BY DEF FindOne
    <2>3. ASSUME NEW v \in Values, BeginUpdate(r, e, a, v) PROVE TypeInv'
      BY <2>3, FindOneKeepsTypes DEF BeginUpdate
    <2>4. CASE BeginSubmit(r, e, a)
      BY <2>1, <2>4, FindOneKeepsTypes DEF BeginSubmit, FindOne
    <2>5. CASE BeginApprove(r, e, a)
      BY <2>1, <2>5, FindOneKeepsTypes DEF BeginApprove, FindOne
    <2>6. CASE BeginReject(r, e, a)
      BY <2>1, <2>6, FindOneKeepsTypes DEF BeginReject, FindOne
    <2>7. CASE BeginLock(r, e, a)
      BY <2>1, <2>7, FindOneKeepsTypes DEF BeginLock, FindOne
    <2> QED BY <2>3, <2>4, <2>5, <2>6, <2>7
  <1>3. ASSUME NEW r \in Requests, End(r) PROVE TypeInv'
    <2>1. req[r] # Idle
      BY <1>3, IdleIsNoRequest DEF End, WriteUpdate, WriteSubmit, WriteApprove, WriteReject,
         WriteLock, UpdateById, Abandon
    <2>2. /\ req[r].event \in Events /\ req[r].actor \in Actors /\ req[r].value \in Values
          /\ submitters \in [Events -> SUBSET Actors]
      BY <2>1, InFlightIsRequest DEF TypeInv, TypeOK
    <2>3. CASE WriteUpdate(r)
      BY <2>2, <2>3, UpdateKeepsTypes DEF WriteUpdate, Row
    <2>4. CASE WriteSubmit(r)
      BY <2>2, <2>4, UpdateKeepsTypes DEF WriteSubmit, Row
    <2>5. CASE WriteApprove(r)
      BY <2>2, <2>5, UpdateKeepsTypes DEF WriteApprove, Row
    <2>6. CASE WriteReject(r)
      BY <2>2, <2>6, UpdateKeepsTypes DEF WriteReject, Row
    <2>7. CASE WriteLock(r)
      BY <2>2, <2>7, UpdateKeepsTypes DEF WriteLock, Row
    <2>8. CASE Abandon(r)
      BY <2>8 DEF Abandon, TypeInv, TypeOK, TargetsExist
    <2> QED BY <1>3, <2>3, <2>4, <2>5, <2>6, <2>7, <2>8 DEF End
  <1>4. CASE UNCHANGED vars
    BY <1>4 DEF vars, TypeInv, TypeOK, TargetsExist
  <1> QED BY <1>1, <1>2, <1>3, <1>4 DEF Next

\* Rows, requests and the submission history keep their types, and a request in
\* flight always has a row to update.
THEOREM TypeCorrect == Spec => [](TypeOK /\ TargetsExist)
  <1>1. Init => TypeInv
    BY DEF Init, TypeInv, TypeOK, TargetsExist
  <1>2. TypeInv => TypeOK /\ TargetsExist
    BY DEF TypeInv
  <1> QED BY <1>1, <1>2, TypeStep, PTL DEF Spec

-------------------------------------------------------------------------------
(* Assurance is backed by two people.                                        *)

\* The inductive strengthening of AssuranceIsBacked: an approval or a lock in
\* flight rests, like an assured row, on a submission by somebody else.  The
\* history only grows, so neither a racing submit (which may replace
\* submitted_by) nor a racing second approval (approved_by) takes that away.
BackingInv ==
    /\ \A e \in Events : event[e] # NoRow =>
         /\ event[e].submittedBy \in submitters[e]
         /\ event[e].approvedBy # NoActor => BackedByTwo(e)
         /\ Assured(e) => event[e].calculated \/ event[e].approvedBy # NoActor
    /\ \A r \in Requests :
         /\ req[r].op = "approve" => \E s \in submitters[req[r].event] : s # req[r].actor
         /\ req[r].op = "lock" => LET found == event[req[r].event]
                                  IN  found.calculated \/ found.approvedBy # NoActor

LEMMA BackingStep == TypeInv /\ BackingInv /\ [Next]_vars => BackingInv'
  <1> SUFFICES ASSUME TypeInv, BackingInv, [Next]_vars PROVE BackingInv'
    OBVIOUS
  <1> USE DEF TypeInv, TypeOK, TargetsExist
  <1>1. CASE Insert
    <2>1. PICK a \in Actors, es \in SUBSET Events, found \in Row :
            /\ InsertRows(es, a, found)
            /\ found.submittedBy = a /\ found.approvedBy = NoActor
            /\ found.status \in {"APPROVED", "LOCKED"} => found.calculated
      <3> PICK a \in Actors, v \in Values :
            \/ \E e \in Events : \/ Create(e, a, v) \/ Promote(e, a, v) \/ EmitCalculated(e, a, v)
            \/ \E es \in (SUBSET Events) \ {{}} : BulkImport(es, a, v)
        BY <1>1 DEF Insert
      <3>1. \/ \E es \in SUBSET Events : InsertRows(es, a, DraftRow(a, v))
            \/ \E es \in SUBSET Events : InsertRows(es, a, CalculatedRow(a, v))
        BY DEF Create, Promote, EmitCalculated, BulkImport
      <3> QED BY <3>1, RowsToInsert DEF DraftRow, CalculatedRow
    <2>2. ASSUME NEW e \in Events, event'[e] # NoRow
          PROVE  /\ event'[e].submittedBy \in submitters'[e]
                 /\ event'[e].approvedBy # NoActor => BackedByTwo(e)'
                 /\ Assured(e)' => event'[e].calculated \/ event'[e].approvedBy # NoActor
      BY <2>1, <2>2 DEF InsertRows, BackingInv, Assured, BackedByTwo
    <2>3. ASSUME NEW r \in Requests, req[r] # Idle
          PROVE  /\ req'[r] = req[r]
                 /\ event'[req[r].event] = event[req[r].event]
                 /\ submitters'[req[r].event] = submitters[req[r].event]
      BY <2>1, <2>3, InFlightIsRequest DEF InsertRows
    <2>4. ASSUME NEW r \in Requests, req[r] = Idle
          PROVE  req'[r].op = "idle"
      BY <2>1, <2>4 DEF InsertRows, Idle
    <2> QED BY <2>2, <2>3, <2>4 DEF BackingInv
  <1>2. ASSUME NEW r \in Requests, Begin(r) PROVE BackingInv'
    <2>1. PICK e \in Events, a \in Actors, v \in Values,
               op \in {"update", "submit", "approve", "reject", "lock"} :
            /\ FindOne(r, op, e, a, v)
            /\ op = "approve" => ApprovableBy(event[e], a)
            /\ op = "lock" => Lockable(event[e])
      <3>1. \A e \in Events : event[e] # NoRow => event[e].value \in Values
        BY DEF Row
      <3> QED BY <1>2, <3>1 DEF Begin, BeginUpdate, BeginSubmit, BeginApprove, BeginReject,
                 BeginLock, FindOne
    <2>2. /\ event' = event /\ submitters' = submitters /\ event[e] # NoRow
          /\ req' = [req EXCEPT ![r] = [op |-> op, event |-> e, actor |-> a, value |-> v]]
      BY <2>1 DEF FindOne
    <2>3. op = "approve" => \E s \in submitters[e] : s # a
      BY <2>1, <2>2 DEF ApprovableBy, BackingInv
    <2>4. op = "lock" => event[e].calculated \/ event[e].approvedBy # NoActor
      BY <2>1, <2>2 DEF Lockable, BackingInv, Assured
    <2> QED BY <2>2, <2>3, <2>4 DEF BackingInv, Assured, BackedByTwo
  <1>3. ASSUME NEW r \in Requests, End(r) PROVE BackingInv'
    <2> DEFINE e == req[r].event
               a == req[r].actor
    <2>1. req[r] # Idle
      BY <1>3, IdleIsNoRequest DEF End, WriteUpdate, WriteSubmit, WriteApprove, WriteReject,
         WriteLock, UpdateById, Abandon
    <2>2. e \in Events /\ a \in Actors /\ event[e] \in Row /\ event[e] # NoRow
      BY <2>1, InFlightIsRequest
    <2>3. CASE WriteUpdate(r)
      BY <2>2, <2>3 DEF WriteUpdate, UpdateById, BackingInv, Assured, BackedByTwo, Row, Idle
    <2>4. CASE WriteSubmit(r)
      BY <2>2, <2>4 DEF WriteSubmit, UpdateById, BackingInv, Assured, BackedByTwo, Row, Idle
    <2>5. CASE WriteApprove(r)
      BY <2>2, <2>5 DEF WriteApprove, UpdateById, BackingInv, Assured, BackedByTwo, Row, Idle
    <2>6. CASE WriteReject(r)
      BY <2>2, <2>6 DEF WriteReject, UpdateById, BackingInv, Assured, BackedByTwo, Row, Idle
    <2>7. CASE WriteLock(r)
      BY <2>2, <2>7 DEF WriteLock, UpdateById, BackingInv, Assured, BackedByTwo, Row, Idle
    <2>8. CASE Abandon(r)
      BY <2>8 DEF Abandon, BackingInv, Assured, BackedByTwo, Idle
    <2> QED BY <1>3, <2>3, <2>4, <2>5, <2>6, <2>7, <2>8 DEF End
  <1>4. CASE UNCHANGED vars
    BY <1>4 DEF vars, BackingInv, Assured, BackedByTwo
  <1> QED BY <1>1, <1>2, <1>3, <1>4 DEF Next

\* Whatever the interleaving of submits, approvals, rejections and locks, a row
\* that feeds calculations and reports is a calculation result or was approved by
\* one user after another had submitted it.
THEOREM AssuranceBacked == Spec => []AssuranceIsBacked
  <1>1. Init => TypeInv /\ BackingInv
    BY DEF Init, TypeInv, TypeOK, TargetsExist, BackingInv, Idle
  <1>2. TypeInv /\ BackingInv => AssuranceIsBacked
    BY NoRowIsNoRow DEF BackingInv, AssuranceIsBacked, Assured
  <1> QED BY <1>1, <1>2, TypeStep, BackingStep, PTL DEF Spec

-------------------------------------------------------------------------------
(* Settled rows.                                                             *)

LEMMA SettledStep ==
  ASSUME TypeInv, [Next]_vars, NEW e \in Events, Assured(e), InFlight(e) = {}
  PROVE  /\ event'[e] = event[e]
         /\ \A r \in InFlight(e)' : event[e].status = "APPROVED" /\ req'[r].op = "lock"
  <1> USE DEF TypeInv, TypeOK, InFlight
  <1>0. \A r \in Requests : req[r] # Idle => req[r].event # e
    OBVIOUS
  <1>1. CASE Insert
    <2>1. \E es \in SUBSET Events : \E a, found : InsertRows(es, a, found)
      BY <1>1 DEF Insert, Create, Promote, EmitCalculated, BulkImport
    <2> QED BY <1>0, <2>1, NoRowIsNoRow DEF InsertRows, Assured
  <1>2. ASSUME NEW r \in Requests, Begin(r)
        PROVE  /\ event'[e] = event[e]
               /\ \A s \in InFlight(e)' : event[e].status = "APPROVED" /\ req'[s].op = "lock"
    <2> PICK f \in Events, a \in Actors :
          \/ \E v \in Values : BeginUpdate(r, f, a, v)
          \/ BeginSubmit(r, f, a) \/ BeginApprove(r, f, a)
          \/ BeginReject(r, f, a) \/ BeginLock(r, f, a)
      BY <1>2 DEF Begin
    <2>1. CASE f = e
      <3>1. BeginLock(r, e, a)
        BY <2>1 DEF BeginUpdate, BeginSubmit, BeginApprove, BeginReject, Editable,
           Submittable, ApprovableBy, Rejectable, Assured
      <3> QED BY <1>0, <3>1 DEF BeginLock, Lockable, FindOne
    <2>2. CASE f # e
      BY <1>0, <2>2 DEF BeginUpdate, BeginSubmit, BeginApprove, BeginReject, BeginLock, FindOne
    <2> QED BY <2>1, <2>2
  <1>3. ASSUME NEW r \in Requests, End(r)
        PROVE  /\ event'[e] = event[e]
               /\ \A s \in InFlight(e)' : event[e].status = "APPROVED" /\ req'[s].op = "lock"
    <2>1. req[r] # Idle
      BY <1>3, IdleIsNoRequest DEF End, WriteUpdate, WriteSubmit, WriteApprove, WriteReject,
         WriteLock, UpdateById, Abandon
    <2>2. req' = [req EXCEPT ![r] = Idle]
      BY <1>3 DEF End, WriteUpdate, WriteSubmit, WriteApprove, WriteReject, WriteLock,
         UpdateById, Abandon
    <2>3. event'[e] = event[e]
      BY <1>0, <1>3, <2>1 DEF End, WriteUpdate, WriteSubmit, WriteApprove, WriteReject, WriteLock,
         UpdateById, Abandon
    <2> QED BY <1>0, <2>2, <2>3
  <1>4. CASE UNCHANGED vars
    BY <1>0, <1>4 DEF vars
  <1> QED BY <1>1, <1>2, <1>3, <1>4 DEF Next

\* An approved or locked row that no request is working on can only be locked,
\* and a locked one is final.
THEOREM SettledStays == Spec => SettledRowsStay
  <1>1. TypeInv /\ [Next]_vars =>
          [\A e \in Events :
             Assured(e) /\ InFlight(e) = {} =>
                /\ event'[e] = event[e]
                /\ \A r \in InFlight(e)' :
                      event[e].status = "APPROVED" /\ req'[r].op = "lock"]_vars
    BY SettledStep
  <1>2. Init => TypeInv
    BY DEF Init, TypeInv, TypeOK, TargetsExist
  <1> QED BY <1>1, <1>2, TypeStep, PTL DEF Spec, SettledRowsStay

-------------------------------------------------------------------------------
(* Requests that do not overlap implement the atomic workflow.               *)

NoOverlap == \A r, s \in Requests :
               req[r] # Idle /\ req[s] # Idle /\ req[r].event = req[s].event => r = s

\* The guard a request passed still holds of the row it is about to update.
GuardHolds(r) == LET found == event[req[r].event] IN
    /\ req[r].op = "update"  => Editable(found)
    /\ req[r].op = "submit"  => Submittable(found)
    /\ req[r].op = "approve" => ApprovableBy(found, req[r].actor)
    /\ req[r].op = "reject"  => Rejectable(found)
    /\ req[r].op = "lock"    => Lockable(found)

GuardsHold == \A r \in Requests : GuardHolds(r)

LEMMA GuardStep ==
  TypeInv /\ GuardsHold /\ NoOverlap /\ NoOverlap' /\ [Next]_vars => GuardsHold'
  <1> SUFFICES ASSUME TypeInv, GuardsHold, NoOverlap, NoOverlap', [Next]_vars,
                      NEW s \in Requests
               PROVE  GuardHolds(s)'
    BY DEF GuardsHold
  <1> USE DEF TypeInv, TypeOK, TargetsExist
  <1>1. ASSUME req'[s] = req[s], req[s] # Idle => event'[req[s].event] = event[req[s].event]
        PROVE  GuardHolds(s)'
    BY <1>1 DEF GuardsHold, GuardHolds, Idle
  <1>2. CASE Insert
    <2>1. \E es \in SUBSET Events : \E a, found : InsertRows(es, a, found)
      BY <1>2 DEF Insert, Create, Promote, EmitCalculated, BulkImport
    <2> QED BY <1>1, <2>1, InFlightIsRequest DEF InsertRows
  <1>3. ASSUME NEW r \in Requests, Begin(r) PROVE GuardHolds(s)'
    <2> PICK e \in Events, a \in Actors :
          \/ \E v \in Values : BeginUpdate(r, e, a, v)
          \/ BeginSubmit(r, e, a) \/ BeginApprove(r, e, a)
          \/ BeginReject(r, e, a) \/ BeginLock(r, e, a)
      BY <1>3 DEF Begin
    <2>1. CASE r = s
      BY <2>1 DEF BeginUpdate, BeginSubmit, BeginApprove, BeginReject, BeginLock, FindOne, GuardHolds
    <2>2. CASE r # s
      BY <1>1, <2>2 DEF BeginUpdate, BeginSubmit, BeginApprove, BeginReject, BeginLock, FindOne
    <2> QED BY <2>1, <2>2
  <1>4. ASSUME NEW r \in Requests, End(r) PROVE GuardHolds(s)'
    <2>1. /\ req[r] # Idle
          /\ req' = [req EXCEPT ![r] = Idle]
          /\ \A e \in Events : e # req[r].event => event'[e] = event[e]
      BY <1>4, IdleIsNoRequest DEF End, WriteUpdate, WriteSubmit, WriteApprove, WriteReject,
         WriteLock, UpdateById, Abandon
    <2>2. CASE r = s
      BY <2>1, <2>2 DEF GuardHolds, Idle
    <2>3. CASE r # s
      BY <1>1, <2>1, <2>3, InFlightIsRequest DEF NoOverlap
    <2> QED BY <2>2, <2>3
  <1>5. CASE UNCHANGED vars
    BY <1>1, <1>5 DEF vars
  <1> QED BY <1>2, <1>3, <1>4, <1>5 DEF Next

LEMMA WorkflowStep ==
  TypeInv /\ TypeInv' /\ GuardsHold /\ [Next]_vars => [Workflow!Next]_event
  <1> SUFFICES ASSUME TypeInv, TypeInv', GuardsHold, [Next]_vars
               PROVE  Workflow!Next \/ UNCHANGED event
    OBVIOUS
  <1> USE DEF TypeInv, TypeOK, TargetsExist
  <1>0. Workflow!Row = Row /\ Workflow!NoRow = NoRow
    BY DEF Workflow!Row, Row, Workflow!NoRow, NoRow
  <1>1. CASE Insert
    <2>1. PICK es \in SUBSET Events, a \in Actors, found \in Row :
            InsertRows(es, a, found) /\ Workflow!Fresh(found)
      <3> PICK a \in Actors, v \in Values :
            \/ \E e \in Events : \/ Create(e, a, v) \/ Promote(e, a, v) \/ EmitCalculated(e, a, v)
            \/ \E es \in (SUBSET Events) \ {{}} : BulkImport(es, a, v)
        BY <1>1 DEF Insert
      <3>1. Workflow!Fresh(DraftRow(a, v)) /\ Workflow!Fresh(CalculatedRow(a, v))
        BY <1>0, RowsToInsert DEF Workflow!Fresh, DraftRow, CalculatedRow
      <3>2. \/ \E es \in SUBSET Events : InsertRows(es, a, DraftRow(a, v))
            \/ \E es \in SUBSET Events : InsertRows(es, a, CalculatedRow(a, v))
        BY DEF Create, Promote, EmitCalculated, BulkImport
      <3> QED BY <3>1, <3>2, RowsToInsert
    <2>2. Workflow!Insert
      BY <1>0, <2>1 DEF Workflow!Insert, InsertRows
    <2> QED BY <2>2 DEF Workflow!Next
  <1>2. ASSUME NEW r \in Requests, Begin(r) PROVE UNCHANGED event
    BY <1>2 DEF Begin, BeginUpdate, BeginSubmit, BeginApprove, BeginReject, BeginLock, FindOne
  <1>3. ASSUME NEW r \in Requests, End(r) PROVE Workflow!Next \/ UNCHANGED event
    <2> DEFINE e == req[r].event
               a == req[r].actor
    <2>1. req[r] # Idle
      BY <1>3, IdleIsNoRequest DEF End, WriteUpdate, WriteSubmit, WriteApprove, WriteReject,
         WriteLock, UpdateById, Abandon
    <2>2. e \in Events /\ a \in Actors /\ req[r].value \in Values
      BY <2>1, InFlightIsRequest
    <2>3. GuardHolds(r)
      BY DEF GuardsHold
    <2>4. CASE WriteUpdate(r)
      <3>1. Workflow!Edit(e, req[r].value)
        BY <2>3, <2>4 DEF WriteUpdate, UpdateById, GuardHolds, Editable, Workflow!Edit, Workflow!Step
      <3> QED BY <2>2, <3>1 DEF Workflow!Next
    <2>5. CASE WriteSubmit(r)
      <3>1. Workflow!Submit(e, a)
        BY <2>3, <2>5 DEF WriteSubmit, UpdateById, GuardHolds, Submittable, Workflow!Submit, Workflow!Step
      <3> QED BY <2>2, <3>1 DEF Workflow!Next
    <2>6. CASE WriteApprove(r)
      <3>1. Workflow!Approve(e, a)
        BY <2>3, <2>6 DEF WriteApprove, UpdateById, GuardHolds, ApprovableBy, Workflow!Approve, Workflow!Step
      <3> QED BY <2>2, <3>1 DEF Workflow!Next
    <2>7. CASE WriteReject(r)
      <3>1. Workflow!SendBack(e)
        BY <2>3, <2>7 DEF WriteReject, UpdateById, GuardHolds, Rejectable, Workflow!SendBack, Workflow!Step
      <3> QED BY <2>2, <3>1 DEF Workflow!Next
    <2>8. CASE WriteLock(r)
      <3>1. Workflow!Lock(e)
        BY <2>3, <2>8 DEF WriteLock, UpdateById, GuardHolds, Lockable, Workflow!Lock, Workflow!Step
      <3> QED BY <2>2, <3>1 DEF Workflow!Next
    <2>9. CASE Abandon(r)
      BY <2>9 DEF Abandon
    <2> QED BY <1>3, <2>4, <2>5, <2>6, <2>7, <2>8, <2>9 DEF End
  <1>4. CASE UNCHANGED vars
    BY <1>4 DEF vars
  <1> QED BY <1>1, <1>2, <1>3, <1>4 DEF Next

\* As long as no two requests on the same row overlap, the read-check-update
\* handlers are the atomic state machine of MetricWorkflow.
THEOREM SerialRequestsImplementWorkflow == Spec /\ []NoOverlap => ImplementsWorkflow
  <1>1. Init => TypeInv /\ GuardsHold /\ Workflow!Init
    BY DEF Init, TypeInv, TypeOK, TargetsExist, GuardsHold, GuardHolds, Idle,
       Workflow!Init, Workflow!NoRow, NoRow
  <1> QED BY <1>1, TypeStep, GuardStep, WorkflowStep, PTL
          DEF Spec, ImplementsWorkflow, Workflow!Spec

-------------------------------------------------------------------------------
(* MCUndisturbed, whose reviews are those of ExtractionReview.               *)

\* With one request at a time no extraction is promoted to two metric events, whatever
\* callbacks, validation jobs and failures come between: promoteToMetricEvent finds the
\* event that an earlier approval made.
THEOREM UndisturbedPromotesOnce ==
  ASSUME \A r, s \in Requests : r = s
  PROVE  MCSpec => []NeverTwoEventsPerExtraction
  <1>1. MCInit => Review!Init
    BY DEF MCInit
  <1>2. [MCNext]_<<part, vars, reviewVars, ingestionVars, reportVars>> => [Review!Next]_Review!vars
    BY DEF MCNext, reviewVars, Review!vars
  <1>3. Review!Init /\ [][Review!Next]_Review!vars => []Review!NeverTwoEventsPerExtraction
    BY Assumptions, Review!SerialReviewsPromoteOnce DEF Review!Spec
  <1> QED BY <1>1, <1>2, <1>3, PTL DEF MCSpec, NeverTwoEventsPerExtraction
===============================================================================
