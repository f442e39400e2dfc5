---------------------------- MODULE SupplierPortal ----------------------------
(***************************************************************************)
(* A supplier and its questionnaires: the tenant invites the supplier by    *)
(* mail, the supplier answers through the link in it, and the tenant scores *)
(* the latest answer (SuppliersService).                                    *)
(*                                                                         *)
(* invite stores the invitation before it sends the mail; submitResponse    *)
(* checks the invitation before the transaction that stores the response;   *)
(* score reads the latest response before it writes the score.              *)
(***************************************************************************)
EXTENDS Naturals, FiniteSets

CONSTANTS
    Invites,        \* ids of supplier_invite rows
    MaxResponses,   \* how many supplier_response rows there are (a bound)
    Requests        \* requests served at the same time

\* What the constants are assumed to be.
SupplierAssumption == MaxResponses \in Nat

VARIABLES
    supplier,       \* its status
    invite,         \* invite[i]: the invitation i
    answers,        \* answers[n]: the invitation response n came through, in the order
                    \* of submittedAt
    score,          \* the response that the score of the year is of, 0 for none
    serving,        \* serving[r]: the handler that serves r, or Idle
    doubled         \* the invitations with two submissions at once (history)

vars == <<supplier, invite, answers, score, serving, doubled>>

Idle == [op |-> "idle"]

\* mailed: somebody has the link.
Invite == [state : {"none", "stored", "mailed"}, opened : BOOLEAN, responded : BOOLEAN]

\* alone: no other scoring was under way since this one read its response (history).
Serving == [op : {"invite", "submit"}, invite : Invites]
             \cup [op : {"score"}, latest : 1 .. MaxResponses, alone : BOOLEAN]

TypeOK ==
    /\ supplier \in {"none", "INVITED", "RESPONDED", "ARCHIVED"}
    /\ invite \in [Invites -> Invite]
    /\ DOMAIN answers \subseteq 1 .. MaxResponses
    /\ \A n \in DOMAIN answers : answers[n] \in Invites
    /\ score \in 0 .. MaxResponses
    /\ serving \in [Requests -> Serving \cup {Idle}]
    /\ doubled \subseteq Invites

Init ==
    /\ supplier = "none"
    /\ invite = [i \in Invites |-> [state |-> "none", opened |-> FALSE, responded |-> FALSE]]
    /\ answers = [n \in {} |-> 0]
    /\ score = 0
    /\ serving = [r \in Requests |-> Idle]
    /\ doubled = {}

Answer(r) == serving' = [serving EXCEPT ![r] = Idle]

Exists == supplier # "none"

Create ==
    /\ ~Exists
    /\ supplier' = "INVITED"
    /\ UNCHANGED <<invite, answers, score, serving, doubled>>

\* remove
Archive ==
    /\ Exists
    /\ supplier' = "ARCHIVED"
    /\ UNCHANGED <<invite, answers, score, serving, doubled>>

-------------------------------------------------------------------------------
(* invite: the row, then the mail.  The status of the supplier is not asked. *)

StoreInvite(r, i) ==
    /\ Exists
    /\ serving[r] = Idle
    /\ invite[i].state = "none"
    /\ invite' = [invite EXCEPT ![i].state = "stored"]
    /\ serving' = [serving EXCEPT ![r] = [op |-> "invite", invite |-> i]]
    /\ UNCHANGED <<supplier, answers, score, doubled>>

SendInvite(r) ==
    /\ serving[r].op = "invite"
    /\ invite' = [invite EXCEPT ![serving[r].invite].state = "mailed"]
    /\ Answer(r)
    /\ UNCHANGED <<supplier, answers, score, doubled>>

-------------------------------------------------------------------------------
(* The portal.                                                               *)

\* loadPortal; the link has not expired.
OpenPortal(i) ==
    /\ invite[i].state = "mailed"
    /\ invite' = [invite EXCEPT ![i].opened = TRUE]
    /\ UNCHANGED <<supplier, answers, score, serving, doubled>>

Submitting(i) == {r \in Requests : serving[r].op = "submit" /\ serving[r].invite = i}

BeginSubmitAgain(r, i) ==
    /\ serving[r] = Idle
    /\ invite[i].state = "mailed"
    /\ serving' = [serving EXCEPT ![r] = [op |-> "submit", invite |-> i]]
    /\ doubled' = doubled \cup (IF Submitting(i) = {} THEN {} ELSE {i})
    /\ UNCHANGED <<supplier, invite, answers, score>>

\* submitResponse, up to its transaction.
BeginSubmit(r, i) ==
    /\ serving[r] = Idle
    /\ invite[i].state = "mailed"
    /\ ~invite[i].responded
    /\ serving' = [serving EXCEPT ![r] = [op |-> "submit", invite |-> i]]
    /\ doubled' = doubled \cup (IF Submitting(i) = {} THEN {} ELSE {i})
    /\ UNCHANGED <<supplier, invite, answers, score>>

Added(i) == [n \in (DOMAIN answers) \cup {Cardinality(DOMAIN answers) + 1} |->
                IF n \in DOMAIN answers THEN answers[n] ELSE i]

\* The transaction of submitResponse.
WriteSubmit(r) ==
    LET i == serving[r].invite IN
    /\ serving[r].op = "submit"
    /\ Cardinality(DOMAIN answers) < MaxResponses
    /\ answers' = Added(i)
    /\ invite' = [invite EXCEPT ![i].responded = TRUE]
    /\ supplier' = "RESPONDED"
    /\ Answer(r)
    /\ UNCHANGED <<score, doubled>>

-------------------------------------------------------------------------------
(* score                                                                     *)

\* orderBy submittedAt desc, take 1
LatestResponse == {n \in DOMAIN answers : \A m \in DOMAIN answers : m <= n}

Scoring == {r \in Requests : serving[r].op = "score"}

BeginScore(r) ==
    /\ serving[r] = Idle
    /\ \E n \in LatestResponse :
         serving' = [q \in Requests |->
                        IF q = r THEN [op |-> "score", latest |-> n, alone |-> Scoring = {}]
                        ELSE IF q \in Scoring THEN [serving[q] EXCEPT !.alone = FALSE]
                        ELSE serving[q]]
    /\ UNCHANGED <<supplier, invite, answers, score, doubled>>

\* supplierScore.upsert
WriteScore(r) ==
    /\ serving[r].op = "score"
    /\ score' = serving[r].latest
    /\ Answer(r)
    /\ UNCHANGED <<supplier, invite, answers, doubled>>

\* A call of the database or the mail fails, or the API stops.
Abandon(r) ==
    /\ serving[r] # Idle
    /\ Answer(r)
    /\ UNCHANGED <<supplier, invite, answers, score, doubled>>

Next == \/ Create
        \/ Archive
        \/ \E i \in Invites : OpenPortal(i)
        \/ \E r \in Requests : \/ \E i \in Invites : StoreInvite(r, i) \/ BeginSubmit(r, i)
                               \/ SendInvite(r)
                               \/ WriteSubmit(r)
                               \/ BeginScore(r)
                               \/ WriteScore(r)
                               \/ Abandon(r)

Spec == Init /\ [][Next]_vars

-------------------------------------------------------------------------------
(* Properties.                                                               *)

ThroughInvite(i) == {n \in DOMAIN answers : answers[n] = i}

\* An invitation is answered once, and says so as soon as it is, unless two submissions
\* of it overlapped.
AnsweredOnce ==
    \A i \in Invites :
        /\ invite[i].responded <=> ThroughInvite(i) # {}
        /\ i \in doubled \/ Cardinality(ThroughInvite(i)) <= 1

Outstanding == {i \in Invites : invite[i].state # "none" /\ ~invite[i].responded}

\* An archived supplier whose invitations are all answered comes back only through an
\* invitation that is sent to it nevertheless: no handler under way revives it, and none
\* that would is let in.
ArchivedStays ==
    [][(supplier = "ARCHIVED" /\ Outstanding = {} /\ \A i \in Invites : Submitting(i) = {})
          => supplier' = "ARCHIVED" /\ \A i \in Invites : Submitting(i)' = {}]_vars

\* The score of the year is of no older response than it was before, unless scorings
\* overlapped.
ScoreMovesOn == [][(\A r \in Scoring : serving[r].alone) => score' >= score]_vars
===============================================================================
