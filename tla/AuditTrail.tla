------------------------------ MODULE AuditTrail ------------------------------
(***************************************************************************)
(* The audit log: AuditService.log inserts rows, the audit_log_hash_chain   *)
(* trigger links each to the latest row of its tenant, the nightly job      *)
(* anchors the rows of the day before, and streamAll exports them page by   *)
(* page.  Triggers refuse every update and delete, so that rows only come.  *)
(*                                                                         *)
(* Prisma gives a row its id and created_at before the INSERT reaches the   *)
(* database; the trigger sees the rows committed by then, and the row is    *)
(* seen by others once it is committed itself: an insert is three steps.    *)
(* A hash names the row it is of (digests do not collide), and the root of  *)
(* a Merkle tree the set of its leaves; see MerkleTree.                     *)
(***************************************************************************)
EXTENDS Integers, FiniteSets, Sequences

CONSTANTS
    Tenants,
    Writers,    \* calls of AuditService.log at the same time
    MaxRows,    \* how many row ids there are (a bound)
    MaxNow,     \* how far the clock goes (a bound)
    BatchSize   \* rows of a page (1000 in the code)

\* What the constants are assumed to be.
AuditAssumption == /\ MaxRows \in Nat
                   /\ MaxNow \in Nat
                   /\ BatchSize \in Nat \ {0}

VARIABLES
    now,        \* the clock
    row,        \* row[i]: the committed row with id i
    ins,        \* ins[w]: the insert that w is doing, or Idle
    anchoring,  \* the nightly job: the day it anchors and the tenants to go
    anchors,    \* the roots it logged
    export,     \* the export in progress, or the last one
    disorder    \* the tenants with inserts that overlapped or came out of order (history)

vars == <<now, row, ins, anchoring, anchors, export, disorder>>

Ids == 1 .. MaxRows

\* The hash before the first row of a tenant.
Genesis == 0

\* A day has two ticks: until 2AM, when the job runs, and after.
Time == 0 .. MaxNow
Day(t) == t \div 2
AfterTwo(t) == t % 2 = 1

Row == [tenant : Tenants, at : Time, prev : {Genesis} \cup Ids]

Idle == [state |-> "idle"]

\* sent: on its way to the database; chained: the trigger has run.
Insert == [state : {"sent", "chained"}, id : Ids, tenant : Tenants, at : Time,
           prev : {Genesis} \cup Ids]

\* there: the rows of the tenant when the export began (history).
Export == [state : {"open", "done"}, tenant : Tenants, out : Seq(Ids), there : SUBSET Ids]

TypeOK ==
    /\ now \in Time
    /\ DOMAIN row \subseteq Ids
    /\ \A i \in DOMAIN row : row[i] \in Row
    /\ ins \in [Writers -> Insert \cup {Idle}]
    /\ anchoring \in [day : Nat, todo : SUBSET Tenants]
    /\ anchors \subseteq [tenant : Tenants, day : Nat, rows : SUBSET Ids]
    /\ export \in Export \cup {Idle}
    /\ disorder \subseteq Tenants

Init ==
    /\ now = 0
    /\ row = [i \in {} |-> Idle]
    /\ ins = [w \in Writers |-> Idle]
    /\ anchoring = [day |-> 0, todo |-> {}]
    /\ anchors = {}
    /\ export = Idle
    /\ disorder = {}

RowsOf(t) == {i \in DOMAIN row : row[i].tenant = t}

-------------------------------------------------------------------------------
(* AuditService.log and the trigger.                                         *)

InFlight == {w \in Writers : ins[w] # Idle}

\* auditLog.create: cuid ids of different processes come in any order.
Log(w, t, i) ==
    /\ ins[w] = Idle
    /\ i \notin (DOMAIN row) \cup {ins[v].id : v \in InFlight}
    /\ ins' = [ins EXCEPT ![w] = [state |-> "sent", id |-> i, tenant |-> t, at |-> now,
                                  prev |-> Genesis]]
    /\ UNCHANGED <<now, row, anchoring, anchors, export, disorder>>

\* ORDER BY created_at DESC, id DESC
Before(i, j) == row[i].at < row[j].at \/ (row[i].at = row[j].at /\ i < j)

\* As if the service kept the hash of the row it inserted last.
LatestKnown(t) ==
    LET known == RowsOf(t) \cup {ins[w].id : w \in {v \in InFlight : ins[v].state = "chained" /\ ins[v].tenant = t}}
    IN IF known = {} THEN Genesis ELSE CHOOSE i \in known : \A j \in known : j <= i

\* The row whose hash the trigger reads.
Latest(t) == IF RowsOf(t) = {} THEN Genesis
             ELSE CHOOSE i \in RowsOf(t) : \A j \in RowsOf(t) \ {i} : Before(j, i)

\* The INSERT with its BEFORE trigger.
Chain(w) ==
    /\ ins[w] # Idle
    /\ ins[w].state = "sent"
    /\ ins' = [ins EXCEPT ![w].state = "chained", ![w].prev = Latest(ins[w].tenant)]
    /\ disorder' = disorder \cup
          (IF \E v \in InFlight : ins[v].state = "chained" /\ ins[v].tenant = ins[w].tenant
           THEN {ins[w].tenant} ELSE {})
    /\ UNCHANGED <<now, row, anchoring, anchors, export>>

Commit(w) ==
    /\ ins[w] # Idle
    /\ ins[w].state = "chained"
    /\ LET i == ins[w].id
           r == [tenant |-> ins[w].tenant, at |-> ins[w].at, prev |-> ins[w].prev]
       IN /\ row' = [j \in (DOMAIN row) \cup {i} |-> IF j = i THEN r ELSE row[j]]
          /\ disorder' = disorder \cup
                (IF \E j \in RowsOf(r.tenant) : r.at < row[j].at \/ (r.at = row[j].at /\ i < j)
                 THEN {r.tenant} ELSE {})
    /\ ins' = [ins EXCEPT ![w] = Idle]
    /\ UNCHANGED <<now, anchoring, anchors, export>>

\* The insert fails; log swallows the error.
Skip(w) ==
    /\ ins[w] # Idle
    /\ ins' = [ins EXCEPT ![w] = Idle]
    /\ UNCHANGED <<now, row, anchoring, anchors, export, disorder>>

-------------------------------------------------------------------------------
(* runDailyAnchor                                                            *)

\* The rows with created_at in [since, until), the day before.
Window(day) == {i \in DOMAIN row : Day(row[i].at) = day}

\* The cron fires, and the tenants with rows of yesterday are read.
AnchorBegin ==
    /\ AfterTwo(now)
    /\ now > 1
    /\ anchoring.todo = {}
    /\ anchoring.day < Day(now)
    /\ LET day == Day(now) - 1
       IN anchoring' = [day |-> day + 1, todo |-> {row[i].tenant : i \in Window(day)}]
    /\ UNCHANGED <<now, row, ins, anchors, export, disorder>>

\* The rows of one tenant are read, and their root is logged.
AnchorTenant(t) ==
    /\ t \in anchoring.todo
    /\ LET day == anchoring.day - 1
       IN anchors' = anchors \cup {[tenant |-> t, day |-> day, rows |-> Window(day) \cap RowsOf(t)]}
    /\ anchoring' = [anchoring EXCEPT !.todo = @ \ {t}]
    /\ UNCHANGED <<now, row, ins, export, disorder>>

\* Reading the rows of one tenant fails: the others are anchored all the same.
AnchorFails(t) ==
    /\ t \in anchoring.todo
    /\ anchoring' = [anchoring EXCEPT !.todo = @ \ {t}]
    /\ UNCHANGED <<now, row, ins, anchors, export, disorder>>

-------------------------------------------------------------------------------
(* streamAll                                                                 *)

ExportBegin(t) ==
    /\ export = Idle \/ export.state = "done"
    /\ export' = [state |-> "open", tenant |-> t, out |-> <<>>, there |-> RowsOf(t)]
    /\ UNCHANGED <<now, row, ins, anchoring, anchors, disorder>>

\* The ids of S in order: n of them are not above the n-th.
Ascending(S) == [n \in 1 .. Cardinality(S) |-> CHOOSE i \in S : Cardinality({j \in S : j <= i}) = n]

\* The rows with id > lastId, BatchSize of them at most.
Page(t, out) ==
    LET ids == Ascending({i \in RowsOf(t) : out # <<>> => i > out[Len(out)]})
    IN SubSeq(ids, 1, IF BatchSize < Len(ids) THEN BatchSize ELSE Len(ids))

ExportPage ==
    /\ export # Idle
    /\ export.state = "open"
    /\ LET page == Page(export.tenant, export.out)
       IN export' = [export EXCEPT !.out = @ \o page,
                                   !.state = IF Len(page) < BatchSize THEN "done" ELSE "open"]
    /\ UNCHANGED <<now, row, ins, anchoring, anchors, disorder>>

-------------------------------------------------------------------------------
\* An insert and the job take less than the hours of a tick.
Tick ==
    /\ now < MaxNow
    /\ \A w \in InFlight : ins[w].at = now
    /\ anchoring.todo = {}
    /\ now' = now + 1
    /\ UNCHANGED <<row, ins, anchoring, anchors, export, disorder>>

Next == \/ \E w \in Writers : \/ \E t \in Tenants, i \in Ids : Log(w, t, i)
                              \/ Chain(w)
                              \/ Commit(w)
                              \/ Skip(w)
        \/ AnchorBegin
        \/ \E t \in Tenants : AnchorTenant(t) \/ AnchorFails(t) \/ ExportBegin(t)
        \/ ExportPage
        \/ Tick

Spec == Init /\ [][Next]_vars

-------------------------------------------------------------------------------
(* Properties.                                                               *)

\* Each row is linked to the genesis hash or to a row of its tenant that is in the
\* table, and the links lead from every row to the genesis hash: whatever inserts
\* overlap or fail, a replay never meets a hash without a row, nor a loop.
LinksReachGenesis ==
    /\ \A i \in DOMAIN row : row[i].prev \in {Genesis} \cup RowsOf(row[i].tenant)
    /\ \A S \in (SUBSET (DOMAIN row)) \ {{}} : \E i \in S : row[i].prev \notin S

\* A tenant whose inserts did not overlap, and came in the order of (created_at, id),
\* has one chain: replayed in that order, each row is linked to the one before it.
OrderedInsertsMakeAChain ==
    \A t \in Tenants \ disorder : \A i \in RowsOf(t) :
        LET earlier == {j \in RowsOf(t) : Before(j, i)}
        IN row[i].prev = IF earlier = {} THEN Genesis
                         ELSE CHOOSE j \in earlier : \A k \in earlier \ {j} : Before(k, j)

\* The root logged for a tenant and a day is that of all its rows of the day, and stays
\* so: what the log says can be recomputed from the table at any later time.
AnchorsStayTrue ==
    \A a \in anchors : a.rows = Window(a.day) \cap RowsOf(a.tenant)

\* An export has each row that was there when it began, and no row twice, whatever is
\* inserted while it reads its pages.
ExportIsComplete ==
    export # Idle =>
        /\ \A m, n \in DOMAIN export.out : m < n => export.out[m] < export.out[n]
        /\ export.state = "done" => export.there \subseteq {export.out[k] : k \in DOMAIN export.out}

\* The log can be replayed, recomputed and exported: the four properties of it.
AuditIsSound == /\ LinksReachGenesis /\ OrderedInsertsMakeAChain
                /\ AnchorsStayTrue /\ ExportIsComplete
===============================================================================
