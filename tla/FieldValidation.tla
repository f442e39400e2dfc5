---------------------------- MODULE FieldValidation ----------------------------
(***************************************************************************)
(* The validation of extracted fields: validate of app/agents/              *)
(* validation_agent.py in the AI engine, and the calls of the language model *)
(* that it makes through app/llm/router.py.                                 *)
(*                                                                         *)
(* Each field is examined for outliers and ranges, waits for one of the       *)
(* slots of a semaphore, and asks a model for its opinion, which may take      *)
(* retries and a second model.  The coroutines of the fields run side by side. *)
(***************************************************************************)
EXTENDS Integers, FiniteSets, FiniteSetsExt

CONSTANTS Fields,        \* the fields of one request
          Slots,         \* the calls at once: 6
          MaxAttempts    \* max_retries of the task: the attempts with one model

VARIABLES field,         \* per field: its facts, its stage, and the opinion on it
          free,          \* the slots that are free
          request,       \* what the caller has: running, answered or failed
          modelCalls     \* model_calls

vars == <<field, free, request, modelCalls>>

ValidationAssumption == /\ IsFiniteSet(Fields)
                        /\ Slots \in Nat \ {0}
                        /\ MaxAttempts \in Nat \ {0}

Models == {"primary", "fallback"}
Opinions == {"none", "plausible", "implausible", "garbled"}
Stages == {"new", "waiting", "calling", "backoff", "done", "thrown"}

\* known: the metric of the field is in the dictionary.  suspect: its value is far from
\* those of earlier periods, or outside the range of its metric.  flagged: needs_review as
\* the caller sent it; review is needs_review of the copy that the answer will hold.
Field == [known : BOOLEAN, suspect : BOOLEAN, flagged : BOOLEAN, stage : Stages, model : Models,
          attempt : 1 .. MaxAttempts, calls : 0 .. 2 * MaxAttempts, opinion : Opinions,
          review : BOOLEAN]

TypeOK == /\ field \in [Fields -> Field]
          /\ free \in 0 .. Slots
          /\ request \in {"running", "answered", "failed"}
          /\ modelCalls \in 0 .. Cardinality(Fields)

\* f.model_copy(deep=True)
Fresh(known, suspect, flagged) ==
    [known |-> known, suspect |-> suspect, flagged |-> flagged, stage |-> "new",
     model |-> "primary", attempt |-> 1, calls |-> 0, opinion |-> "none", review |-> flagged]

Init == /\ field \in [Fields -> {Fresh(k, s, g) : k \in BOOLEAN, s \in BOOLEAN, g \in BOOLEAN}]
        /\ free = Slots
        /\ request = "running"
        /\ modelCalls = 0

Update(f, r) == field' = [field EXCEPT ![f] = r]

-------------------------------------------------------------------------------

\* validate_one up to the semaphore.
FlaggedAfresh(r) == r.suspect
Flagged(r) == r.review \/ r.suspect
Examine(f) ==
    /\ field[f].stage = "new"
    /\ Update(f, IF field[f].known
                 THEN [field[f] EXCEPT !.stage = "waiting", !.review = Flagged(field[f])]
                 ELSE [field[f] EXCEPT !.stage = "done"])
    /\ UNCHANGED <<free, request, modelCalls>>

\* async with sem, and the first call.
Called(r) == [r EXCEPT !.stage = "calling", !.calls = @ + 1]
Acquire(f) ==
    /\ field[f].stage = "waiting" /\ free > 0
    /\ free' = free - 1
    /\ Update(f, Called(field[f]))
    /\ UNCHANGED <<request, modelCalls>>

\* The model answers.  The slot is given back before the answer is read.  An answer that
\* is no object, or whose adjustment is no number, throws out of validate_one, and
\* gather passes the first exception on; the other coroutines go on.
Read(r, opinion) ==
    [r EXCEPT !.opinion = opinion,
              !.stage = IF opinion = "garbled" THEN "thrown" ELSE "done",
              !.review = @ \/ opinion = "implausible"]
Respond(f, opinion) ==
    /\ field[f].stage = "calling"
    /\ Update(f, Read(field[f], opinion))
    /\ free' = free + 1
    /\ modelCalls' = modelCalls + 1
    /\ request' = IF opinion = "garbled" /\ request = "running" THEN "failed" ELSE request

\* The call fails: a rate limit or a transient error is tried again after a pause, in
\* which the slot is kept.
MayRetry(r) == r.attempt < MaxAttempts
Pause(f) ==
    /\ field[f].stage = "calling" /\ MayRetry(field[f])
    /\ Update(f, [field[f] EXCEPT !.stage = "backoff"])
    /\ UNCHANGED <<free, request, modelCalls>>

Retry(f) ==
    /\ field[f].stage = "backoff"
    /\ Update(f, [Called(field[f]) EXCEPT !.attempt = @ + 1])
    /\ UNCHANGED <<free, request, modelCalls>>

\* The last attempt with the first model, or an error that is not retried: route goes on
\* with the second one.
FallBack(f) ==
    /\ field[f].stage = "calling" /\ field[f].model = "primary"
    /\ Update(f, [Called(field[f]) EXCEPT !.model = "fallback", !.attempt = 1])
    /\ UNCHANGED <<free, request, modelCalls>>

\* The same with the second: the field is left as examined.
GiveUpHoldingSlot(f) ==
    /\ field[f].stage = "calling" /\ field[f].model = "fallback"
    /\ Update(f, [field[f] EXCEPT !.stage = "done"])
    /\ UNCHANGED <<free, request, modelCalls>>
GiveUp(f) ==
    /\ field[f].stage = "calling" /\ field[f].model = "fallback"
    /\ Update(f, [field[f] EXCEPT !.stage = "done"])
    /\ free' = free + 1
    /\ UNCHANGED <<request, modelCalls>>

\* gather has all the results.
Answer ==
    /\ request = "running"
    /\ \A f \in Fields : field[f].stage = "done"
    /\ request' = "answered"
    /\ UNCHANGED <<field, free, modelCalls>>

Step(f) == \/ Examine(f) \/ Acquire(f) \/ Pause(f) \/ Retry(f) \/ FallBack(f) \/ GiveUp(f)
           \/ \E o \in Opinions \ {"none"} : Respond(f, o)

Next == Answer \/ \E f \in Fields : Step(f)

\* The calls of a model end, for they have a timeout, and the event loop goes on with
\* every coroutine that can.
Fairness == WF_vars(Answer) /\ \A f \in Fields : WF_vars(Step(f))

Spec == Init /\ [][Next]_vars /\ Fairness

-------------------------------------------------------------------------------

Holding == {f \in Fields : field[f].stage \in {"calling", "backoff"}}

\* Slots are neither lost nor handed out twice, whichever way the calls that hold them
\* end, and no field makes more calls than both models have attempts.
SlotsAreReturned == /\ free = Slots - Cardinality(Holding)
                    /\ \A f \in Fields : field[f].calls <= 2 * MaxAttempts

\* What the answer says of a field: it is to be reviewed if it came in so, or if the
\* examination or the model found fault with it, whatever else the model said: nothing
\* takes a flag back.  No opinion is there only for a metric that is not known or after both
\* models failed; and modelCalls has the opinions.  The request fails for a garbled opinion
\* only.
AnswerIsSound ==
    /\ request = "answered" =>
          \A f \in Fields : LET r == field[f] IN
              /\ r.review <=> \/ r.flagged
                              \/ r.known /\ (r.suspect \/ r.opinion = "implausible")
              /\ r.opinion = "none" => ~r.known \/ (r.model = "fallback" /\ r.calls >= 2)
    /\ modelCalls = Cardinality({f \in Fields : field[f].opinion # "none"})
    /\ request = "failed" <=> \E f \in Fields : field[f].opinion = "garbled"

ValidationIsSound == TypeOK /\ SlotsAreReturned /\ AnswerIsSound

\* Every request is answered or fails in the end.
RequestsAreAnswered == <>(request # "running")
===============================================================================
