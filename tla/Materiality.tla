------------------------------ MODULE Materiality ------------------------------
(***************************************************************************)
(* Materiality surveys and assessments: a survey is drafted, launched,      *)
(* answered by stakeholders who have a link, closed and assessed, and the   *)
(* board signs the assessment (MaterialityService).                         *)
(*                                                                         *)
(* Every handler but those that only insert a row reads the survey or the   *)
(* assessment, checks its status, and writes by id in a call of its own.    *)
(***************************************************************************)
EXTENDS Naturals, FiniteSets

CONSTANTS
    Surveys,
    Responses,      \* ids of survey_response rows
    Assessments,    \* ids of materiality_assessment_run rows
    Signers,
    Requests,       \* requests served at the same time
    NoSurvey, NoSigner

\* What the constants are assumed to be.
MaterialityAssumption == NoSurvey \notin Surveys /\ NoSigner \notin Signers

VARIABLES
    survey,         \* survey[s]: the status of survey s
    response,       \* response[i]: the survey that response i is of, or NoSurvey
    assessment,     \* assessment[a]: the row a, or NoAssessment
    pending,        \* pending[r]: the handler that serves r, or Idle
    late,           \* the responses that came when their survey was not ACTIVE (history)
    reopened        \* the surveys launched when they were not DRAFT (history)

vars == <<survey, response, assessment, pending, late, reopened>>

NoAssessment == [survey |-> NoSurvey]

\* counted: the responses whose scores went into matrixData.
Assessment == [survey : Surveys, counted : SUBSET Responses, signedBy : Signers \cup {NoSigner}]

Idle == [op |-> "idle"]

Pending == [op : {"launch", "submit", "close", "assess"}, survey : Surveys]
             \cup [op : {"create"}, survey : Surveys, counted : SUBSET Responses]
             \cup [op : {"sign"}, assessment : Assessments, signer : Signers]

TypeOK ==
    /\ survey \in [Surveys -> {"none", "DRAFT", "ACTIVE", "CLOSED"}]
    /\ response \in [Responses -> Surveys \cup {NoSurvey}]
    /\ assessment \in [Assessments -> Assessment \cup {NoAssessment}]
    /\ pending \in [Requests -> Pending \cup {Idle}]
    /\ late \subseteq Responses
    /\ reopened \subseteq Surveys

Init ==
    /\ survey = [s \in Surveys |-> "none"]
    /\ response = [i \in Responses |-> NoSurvey]
    /\ assessment = [a \in Assessments |-> NoAssessment]
    /\ pending = [r \in Requests |-> Idle]
    /\ late = {}
    /\ reopened = {}

ResponsesOf(s) == {i \in Responses : response[i] = s}

Begin(r, q) ==
    /\ pending[r] = Idle
    /\ pending' = [pending EXCEPT ![r] = q]
    /\ UNCHANGED <<survey, response, assessment, late, reopened>>

Serves(r, op) == pending[r].op = op
Answer(r) == pending' = [pending EXCEPT ![r] = Idle]

-------------------------------------------------------------------------------
(* Surveys.                                                                  *)

CreateSurvey(s) ==
    /\ survey[s] = "none"
    /\ survey' = [survey EXCEPT ![s] = "DRAFT"]
    /\ UNCHANGED <<response, assessment, pending, late, reopened>>

BeginLaunch(r, s) == survey[s] = "DRAFT" /\ Begin(r, [op |-> "launch", survey |-> s])

WriteLaunch(r) ==
    LET s == pending[r].survey IN
    /\ Serves(r, "launch")
    /\ survey' = [survey EXCEPT ![s] = "ACTIVE"]
    /\ reopened' = reopened \cup (IF survey[s] = "CLOSED" THEN {s} ELSE {})
    /\ Answer(r)
    /\ UNCHANGED <<response, assessment, late>>

\* closeSurvey, of a survey in any other status.
BeginClose(r, s) == survey[s] \in {"DRAFT", "ACTIVE"} /\ Begin(r, [op |-> "close", survey |-> s])

WriteClose(r) ==
    /\ Serves(r, "close")
    /\ survey' = [survey EXCEPT ![pending[r].survey] = "CLOSED"]
    /\ Answer(r)
    /\ UNCHANGED <<response, assessment, late, reopened>>

BeginSubmit(r, s) == survey[s] = "ACTIVE" /\ Begin(r, [op |-> "submit", survey |-> s])

\* submitResponse, surveyResponse.create.
WriteSubmit(r, i) ==
    LET s == pending[r].survey IN
    /\ Serves(r, "submit")
    /\ response[i] = NoSurvey
    /\ response' = [response EXCEPT ![i] = s]
    /\ late' = late \cup (IF survey[s] = "ACTIVE" THEN {} ELSE {i})
    /\ Answer(r)
    /\ UNCHANGED <<survey, assessment, reopened>>

-------------------------------------------------------------------------------
(* Assessments.                                                              *)

BeginAssess(r, s) == survey[s] = "CLOSED" /\ Begin(r, [op |-> "assess", survey |-> s])

\* The responses are included by a query of their own.
CountResponses(r) ==
    LET s == pending[r].survey IN
    /\ Serves(r, "assess")
    /\ pending' = [pending EXCEPT ![r] = [op |-> "create", survey |-> s, counted |-> ResponsesOf(s)]]
    /\ UNCHANGED <<survey, response, assessment, late, reopened>>

CreateRun(r, a) ==
    /\ Serves(r, "create")
    /\ assessment[a] = NoAssessment
    /\ assessment' = [assessment EXCEPT ![a] = [survey |-> pending[r].survey, counted |-> pending[r].counted,
                                                signedBy |-> NoSigner]]
    /\ Answer(r)
    /\ UNCHANGED <<survey, response, late, reopened>>

\* signAssessment; lockedAt is set with signedByUserId.
BeginSignAgain(r, a, x) ==
    /\ assessment[a] # NoAssessment
    /\ Begin(r, [op |-> "sign", assessment |-> a, signer |-> x])

BeginSign(r, a, x) ==
    /\ assessment[a] # NoAssessment
    /\ assessment[a].signedBy = NoSigner
    /\ Begin(r, [op |-> "sign", assessment |-> a, signer |-> x])

WriteSign(r) ==
    /\ Serves(r, "sign")
    /\ assessment' = [assessment EXCEPT ![pending[r].assessment].signedBy = pending[r].signer]
    /\ Answer(r)
    /\ UNCHANGED <<survey, response, late, reopened>>

\* A call of the database throws, or the API stops.
Abandon(r) ==
    /\ pending[r] # Idle
    /\ Answer(r)
    /\ UNCHANGED <<survey, response, assessment, late, reopened>>

Next == \/ \E s \in Surveys : CreateSurvey(s)
        \/ \E r \in Requests :
              \/ \E s \in Surveys : \/ BeginLaunch(r, s)
                                    \/ BeginClose(r, s)
                                    \/ BeginSubmit(r, s)
                                    \/ BeginAssess(r, s)
              \/ WriteLaunch(r)
              \/ WriteClose(r)
              \/ \E i \in Responses : WriteSubmit(r, i)
              \/ CountResponses(r)
              \/ \E a \in Assessments : CreateRun(r, a)
              \/ \E a \in Assessments, x \in Signers : BeginSign(r, a, x)
              \/ WriteSign(r)
              \/ Abandon(r)

Spec == Init /\ [][Next]_vars

-------------------------------------------------------------------------------
(* Properties.                                                               *)

\* An assessment has the scores of every response of its survey but those that were
\* let in while the survey was open and stored when it no longer was -- unless a launch
\* that overlapped the closing opened the survey again.
AssessmentCountsAll ==
    \A a \in Assessments : assessment[a] # NoAssessment =>
        LET s == assessment[a].survey
        IN s \in reopened \/ ResponsesOf(s) \subseteq assessment[a].counted \cup late

Launching(s) == \E r \in Requests : Serves(r, "launch") /\ pending[r].survey = s
Answering(s) == \E r \in Requests : Serves(r, "submit") /\ pending[r].survey = s

\* A survey that is closed, with no launch or response of it under way, is over: it is
\* not opened again, and no response comes any more.
ClosedSurveysStay ==
    [][\A s \in Surveys : survey[s] = "CLOSED" /\ ~Launching(s) =>
          /\ survey'[s] = "CLOSED" /\ ~Launching(s)'
          /\ ~Answering(s) => ResponsesOf(s)' = ResponsesOf(s) /\ ~Answering(s)']_vars

\* Who signed an assessment is not replaced by a signature that was begun after it.
SignaturesStay ==
    [][\A a \in Assessments :
          (/\ assessment[a] # NoAssessment
           /\ assessment[a].signedBy # NoSigner
           /\ \A r \in Requests : Serves(r, "sign") => pending[r].assessment # a)
          => /\ assessment'[a] = assessment[a]
             /\ \A r \in Requests : Serves(r, "sign")' => pending'[r].assessment # a]_vars
===============================================================================
