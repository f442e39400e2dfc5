------------------------------- MODULE MCEngine -------------------------------
(* The AI engine and the copilot on small instances: the pipeline that reads a  *)
(* document, the agent that validates its fields, the consumer of corrections,  *)
(* and the dialogue of the copilot.  A behaviour is about one of them, its part. *)
EXTENDS FieldValidation, Sequences, TLC

CONSTANTS Files, Scale, Replies, MaxTurns, MaxMessages, MaxSeconds, MaxFaults

VARIABLES part,
          file, answer,
          phase, turn, sent, text, uses, log, judged,
          posted, group, running, batch, buffer, put, object, clock, lastFlush, faults,
          gone, unsure, doubted

-------------------------------------------------------------------------------
(* Documents: what may be on a bill, and how it is read.  -1 is no number; sums *)
(* and readings are in hundredths.                                              *)

Pair(label, value) == [label |-> label, value |-> value, exact |-> TRUE, conf |-> 1000]

Amounts == {<<>>, <<Pair("bill_amount", 12000)>>,
            <<Pair("bill_amount", 900000), Pair("bill_amount", 12000)>>}
DatesRead == {<<>>, <<Pair("bill_date", 3), Pair("due_date", 2)>>,
              <<Pair("bill_date", -1), Pair("bill_date", 2), Pair("due_date", 3)>>}
Accounts == {<<>>, <<[Pair("account_number", 7) EXCEPT !.exact = FALSE]>>}
ChargesRead == {<<>>, <<Pair("energy_charge", 15000)>>,
                <<Pair("energy_charge", 15000), Pair("rebate", 3450)>>}
\* 100, 120.40, 20 and a factor of 0.98; 100, 120 and 200 with a factor of 10, without the
\* difference and with it.
MeterRows == {<<>>, <<<<10000, 12040, 2000, 98>>>>,
              <<<<10000, 12000, 1000, 20000>>, <<10000, 12000, 2000, 1000, 20000>>>>}
NothingSaid == [l \in {} |-> 0]
Sayings == {NothingSaid, "bill_date" :> [value |-> 2, conf |-> 600]}

Layout(pairs, rows, said, garbled) ==
    [pairs |-> pairs, rows |-> rows, said |-> said, garbled |-> garbled, typeConf |-> 1000]

Scans == {Layout(a \o d \o c, <<>>, NothingSaid, FALSE) :
             a \in Amounts, d \in DatesRead, c \in Accounts}
Layers == {Layout(a \o d \o c \o g, r, s, FALSE) : a \in Amounts, d \in DatesRead,
              c \in Accounts, g \in ChargesRead, r \in MeterRows, s \in Sayings}
             \cup {Layout(a \o d, <<>>, NothingSaid, TRUE) : a \in Amounts, d \in DatesRead}

\* Without a text layer only one of the two readings is asked for: the other is blank.
Blank == Layout(<<>>, <<>>, NothingSaid, FALSE)
Readings == ({TRUE} \X Layers \X Scans)
              \cup ({FALSE} \X {Blank} \X Scans) \cup ({FALSE} \X Layers \X {Blank})
MCFiles == {[text |-> r[1], native |-> r[2], scan |-> r[3]] : r \in Readings}

-------------------------------------------------------------------------------
(* Replies of the model of the copilot, complete and cut off, with text and     *)
(* tool uses in either order.                                                   *)

Sentence(cites, claim) == [type |-> "text", cites |-> cites, claim |-> claim]
Use(metric, empty) == [type |-> "tool_use", metric |-> metric, empty |-> empty]
Says(blocks, stop) == [blocks |-> blocks, stop |-> stop]

MCReplies == {Says(<<Sentence(<<"m">>, TRUE)>>, "end_turn"),
              Says(<<Sentence(<<>>, TRUE)>>, "max_tokens"),
              Says(<<Sentence(<<>>, TRUE), Use("m", FALSE)>>, "tool_use"),
              Says(<<Use("m", FALSE), Use("n", FALSE)>>, "tool_use"),
              Says(<<Sentence(<<"n">>, FALSE), Use("n", TRUE)>>, "max_tokens"),
              Says(<<Use("n", FALSE), Sentence(<<"m">>, TRUE)>>, "tool_use"),
              Says(<<Use("n", FALSE)>>, "end_turn")}

-------------------------------------------------------------------------------
Pipeline == INSTANCE ExtractionPipeline
Copilot == INSTANCE CopilotAgent
Feedback == INSTANCE FeedbackStream

ASSUME Assumptions == /\ Pipeline!PipelineAssumption
                      /\ Copilot!CopilotAssumption
                      /\ Feedback!FeedbackAssumption
                      /\ ValidationAssumption

pipelineVars == <<file, answer>>
copilotVars == <<phase, turn, sent, text, uses, log, judged>>
feedbackVars == <<posted, group, running, batch, buffer, put, object, clock, lastFlush, faults,
                  gone, unsure, doubted>>

NoFile == [text |-> FALSE]

MCInit == /\ part \in {"pipeline", "copilot", "feedback", "validation"}
          /\ \/ part = "pipeline" /\ Pipeline!Init
             \/ part # "pipeline" /\ file = NoFile /\ answer = Pipeline!None
          /\ Copilot!Init
          /\ Feedback!Init
          /\ Init
          /\ part # "validation" => \A f \in Fields : field[f] = Fresh(TRUE, TRUE, FALSE)

MCNext ==
    /\ UNCHANGED part
    /\ \/ part = "pipeline" /\ Pipeline!Next
       \/ part # "pipeline" /\ UNCHANGED pipelineVars
    /\ \/ part = "copilot" /\ Copilot!Next
       \/ part # "copilot" /\ UNCHANGED copilotVars
    /\ \/ part = "feedback" /\ Feedback!Next
       \/ part # "feedback" /\ UNCHANGED feedbackVars
    /\ \/ part = "validation" /\ Next
       \/ part # "validation" /\ UNCHANGED vars

MCSpec == /\ MCInit
          /\ [][MCNext]_<<part, pipelineVars, copilotVars, feedbackVars, vars>>
          /\ part = "validation" => Fairness

\* What the pipeline answers of a document: the types, and PipelineIsSound of
\* ExtractionPipeline.  An answer that is not flagged for review is complete and adds up,
\* Document AI never makes an answer worse, a document fails for a reason, and the
\* readings of a meter always balance.
PipelineIsSound == part = "pipeline" => Pipeline!TypeOK /\ Pipeline!PipelineIsSound

\* The dialogue of the copilot: the types, and DialogueIsSound of CopilotAgent.  The model
\* is sent a dialogue it accepts, every sentence the user saw is judged, and an answer
\* ends without a last word only when the tool calls are used up.
DialogueIsSound == Copilot!TypeOK /\ Copilot!DialogueIsSound

\* Corrections of reviewers: the types, and FeedbackIsKept of FeedbackStream.  One that is
\* acknowledged is in memory or in S3, one that is not is in hand, and none is in the
\* training set twice, faults, crashes and what they cost apart.
FeedbackIsKept == Feedback!TypeOK /\ Feedback!FeedbackIsKept

\* A request for validation is answered or fails in the end: RequestsAreAnswered of
\* FieldValidation.
ValidationEnds == part = "validation" => RequestsAreAnswered
===============================================================================
