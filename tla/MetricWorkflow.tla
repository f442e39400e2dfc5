---------------------------- MODULE MetricWorkflow ----------------------------
(***************************************************************************)
(* What the metric review workflow promises its users: the state machine   *)
(* DRAFT -> SUBMITTED -> APPROVED -> LOCKED of a MetricEvent, every step of *)
(* which looks at the row and changes it at once.  Module MetricLifecycle   *)
(* is the handlers of MetricsService as they are written: they read a row,  *)
(* check it and update it in separate database calls.                       *)
(***************************************************************************)
CONSTANTS
    Events,     \* the identifiers metric events can have
    Actors,     \* users
    Values,     \* what a metric event can measure
    NoActor     \* an empty approved_by column

VARIABLE event  \* event[e]: the row of e, or NoRow while there is none

NoRow == [status |-> "ABSENT"]

Row == [status      : {"DRAFT", "SUBMITTED", "APPROVED", "LOCKED"},
        value       : Values,
        submittedBy : Actors,
        approvedBy  : Actors \cup {NoActor},
        calculated  : BOOLEAN]

\* A row as it is inserted: a draft, or the result of a calculation run.
Fresh(row) == /\ row \in Row
              /\ row.approvedBy = NoActor
              /\ row.status = IF row.calculated THEN "APPROVED" ELSE "DRAFT"

-------------------------------------------------------------------------------
Init == event = [e \in Events |-> NoRow]

Insert == /\ event' \in [Events -> Row \cup {NoRow}]
          /\ \A e \in Events : \/ event'[e] = event[e]
                               \/ event[e] = NoRow /\ Fresh(event'[e])

Step(e, from, row) == /\ event[e].status \in from
                      /\ event' = [event EXCEPT ![e] = row]

Edit(e, v) == Step(e, {"DRAFT", "SUBMITTED"}, [event[e] EXCEPT !.value = v])

Submit(e, a) ==
    Step(e, {"DRAFT"}, [event[e] EXCEPT !.status = "SUBMITTED", !.submittedBy = a])

Approve(e, a) ==
    /\ Step(e, {"SUBMITTED"}, [event[e] EXCEPT !.status = "APPROVED", !.approvedBy = a])
    /\ event[e].submittedBy # a

SendBack(e) == Step(e, {"SUBMITTED"}, [event[e] EXCEPT !.status = "DRAFT"])

Lock(e) == Step(e, {"APPROVED"}, [event[e] EXCEPT !.status = "LOCKED"])

Next == \/ Insert
        \/ \E e \in Events : \/ \E v \in Values : Edit(e, v)
                             \/ \E a \in Actors : Submit(e, a) \/ Approve(e, a)
                             \/ SendBack(e)
                             \/ Lock(e)

Spec == Init /\ [][Next]_event
===============================================================================
