--------------------------- MODULE AssuranceSnapshot ---------------------------
(***************************************************************************)
(* Assurance snapshots and exceptions (AssuranceService) over the metric    *)
(* events of MetricLifecycle.  A snapshot names the assured events of its   *)
(* scope and keeps a hash of their values; the events themselves stay in    *)
(* their table, where the requests of MetricLifecycle go on.  Auditors      *)
(* raise exceptions, which are answered and closed.                         *)
(***************************************************************************)
EXTENDS MetricLifecycle

CONSTANTS
    Snapshots,
    Exceptions,     \* ids of audit_exception rows
    Responders      \* requests of respondException served at the same time

VARIABLES
    snapshot,       \* snapshot[p]: the row p, or NoSnapshot
    exception,      \* exception[x]: the row x
    responding      \* responding[q]: respondException between its read and its update

assuranceVars == <<snapshot, exception, responding>>

NoSnapshot == [hash |-> "none"]

\* hash: the value of each member when the snapshot was made, which is all that
\* hashAnchor tells apart.  moving: the members with a request in flight then (history).
Snapshot == [hash : UNION {[es -> Values] : es \in SUBSET Events}, moving : SUBSET Events]

Statuses == {"OPEN", "IN_REVIEW", "RESPONDED", "CLOSED"}

Exception == [status : {"none"} \cup Statuses, closedAt : BOOLEAN]

NotResponding == [status |-> "none"]

\* status: what the response asks for; closedAt: that of the row it read.
Response == [exception : Exceptions, status : Statuses, closedAt : BOOLEAN]

AssuranceTypeOK ==
    /\ TypeOK
    /\ snapshot \in [Snapshots -> Snapshot \cup {NoSnapshot}]
    /\ exception \in [Exceptions -> Exception]
    /\ responding \in [Responders -> Response \cup {NotResponding}]

AssuranceInit ==
    /\ Init
    /\ snapshot = [p \in Snapshots |-> NoSnapshot]
    /\ exception = [x \in Exceptions |-> [status |-> "none", closedAt |-> FALSE]]
    /\ responding = [q \in Responders |-> NotResponding]

\* create; what it read is what it stores, also if the events have changed since.
CreateSnapshot(p) ==
    /\ snapshot[p] = NoSnapshot
    /\ LET members == {e \in Events : Assured(e)}
       IN snapshot' = [snapshot EXCEPT ![p] =
              [hash |-> [e \in members |-> event[e].value],
               moving |-> {e \in members : InFlight(e) # {}}]]
    /\ UNCHANGED <<event, req, submitters, exception, responding>>

\* createException; the snapshot is there.
CreateException(x) ==
    /\ \E p \in Snapshots : snapshot[p] # NoSnapshot
    /\ exception[x].status = "none"
    /\ exception' = [exception EXCEPT ![x].status = "OPEN"]
    /\ UNCHANGED <<event, req, submitters, snapshot, responding>>

\* respondException: a CLOSED exception may only be closed again.
BeginRespond(q, x, status) ==
    /\ responding[q] = NotResponding
    /\ exception[x].status # "none"
    /\ exception[x].status = "CLOSED" => status = "CLOSED"
    /\ responding' = [responding EXCEPT ![q] =
                         [exception |-> x, status |-> status, closedAt |-> exception[x].closedAt]]
    /\ UNCHANGED <<event, req, submitters, snapshot, exception>>

ClosedAt(q) == responding[q].status = "CLOSED" \/ responding[q].closedAt

WriteResponse(q) ==
    /\ responding[q] # NotResponding
    /\ exception' = [exception EXCEPT ![responding[q].exception] =
                        [status |-> responding[q].status, closedAt |-> ClosedAt(q)]]
    /\ responding' = [responding EXCEPT ![q] = NotResponding]
    /\ UNCHANGED <<event, req, submitters, snapshot>>

AbandonResponse(q) ==
    /\ responding[q] # NotResponding
    /\ responding' = [responding EXCEPT ![q] = NotResponding]
    /\ UNCHANGED <<event, req, submitters, snapshot, exception>>

Take == \E p \in Snapshots : CreateSnapshot(p)

Raise == \E x \in Exceptions : CreateException(x)

Respond == \E q \in Responders :
              \/ \E x \in Exceptions, status \in Statuses : BeginRespond(q, x, status)
              \/ WriteResponse(q)
              \/ AbandonResponse(q)

-------------------------------------------------------------------------------
(* Properties.                                                               *)

\* The hash of a snapshot can be recomputed at any later time from the events it names,
\* although nothing keeps them from changing but the guards of their handlers: unless a
\* request that had read an event before its approval was still under way then.
SnapshotCanBeVerified ==
    \A p \in Snapshots : snapshot[p] # NoSnapshot =>
        \A e \in DOMAIN snapshot[p].hash :
            e \in snapshot[p].moving \/ (Assured(e) /\ event[e].value = snapshot[p].hash[e])

\* closedAt is set on the closed exceptions and on no others, whatever responses
\* overlap: a late answer that reopens one also takes its closedAt back.
ClosedAtIsOfClosed ==
    \A x \in Exceptions : exception[x].closedAt <=> exception[x].status = "CLOSED"

RespondingTo(x) == {q \in Responders : responding[q] # NotResponding /\ responding[q].exception = x}

\* A closed exception with no response under way is over.
ClosedExceptionsStay ==
    [][\A x \in Exceptions : exception[x].status = "CLOSED" /\ RespondingTo(x) = {} =>
          /\ exception'[x].status = "CLOSED"
          /\ \A q \in RespondingTo(x)' : responding'[q].status = "CLOSED"]_<<vars, assuranceVars>>
===============================================================================
