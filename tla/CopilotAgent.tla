----------------------------- MODULE CopilotAgent -----------------------------
(***************************************************************************)
(* One answer of the copilot (BaseAgent.stream): the model streams text and *)
(* asks for tools, the tools are run and their results sent back, until it  *)
(* ends its turn or the tool calls are used up; then CitationEnforcer looks *)
(* at all the text that was streamed.                                       *)
(*                                                                         *)
(* The model may reply anything of Replies.  Its text is given by sentences *)
(* as CitationEnforcer tells them apart, with the metrics they cite and     *)
(* whether they make a numeric claim; its tool calls by the metric asked.   *)
(* Of the order in which sentences, results and events come only what       *)
(* decides the next step is kept.                                           *)
(***************************************************************************)
EXTENDS Naturals, Sequences

CONSTANTS
    Replies,        \* replies of the model: [blocks, stop]
    MaxTurns        \* max_tool_calls_per_turn (12 in the code)

\* The blocks of a reply come one after the other.
CopilotAssumption ==
    /\ MaxTurns \in Nat \ {0}
    /\ \A reply \in Replies : DOMAIN reply.blocks \subseteq Nat

VARIABLES
    phase,          \* what the stream does: asking the model, running tools, ...
    turn,
    sent,           \* anthropic_msgs: who speaks, and the ids of tool uses or results
    text,           \* text_buf: the sentences the user has seen
    uses,           \* tool_uses_this_turn, by their place in the reply
    log,            \* tool_use_log, each entry with its turn and place
    judged          \* the citation events of the enforcer

vars == <<phase, turn, sent, text, uses, log, judged>>

\* A block of a reply: a sentence, or a use of get_metric, whose input is empty if no delta of it
\* came before the reply was cut off.
IsText(b) == b.type = "text"
IsTool(b) == b.type = "tool_use"

Message == [role : {"user", "assistant"}, ids : SUBSET (Nat \X Nat)]

NoUses == [i \in {} |-> 0]

TypeOK ==
    /\ phase \in {"asking", "tools", "safety", "done", "error"}
    /\ turn \in 1 .. MaxTurns
    /\ sent \in Seq(Message)
    /\ \A s \in text : IsText(s)
    /\ \A i \in DOMAIN uses : i \in Nat /\ IsTool(uses[i])
    /\ \A e \in log : e.turn \in 1 .. turn /\ e.nth \in Nat /\ e.result \in {"value", "error"}

Init ==
    /\ phase = "asking"
    /\ turn = 1
    /\ sent = <<[role |-> "user", ids |-> {}]>>
    /\ text = {}
    /\ uses = NoUses
    /\ log = {}
    /\ judged = {}

\* _input_partial was popped at the end of a tool use; the end of a text after it looks
\* for it again.
Crashes(blocks, i) ==
    IsText(blocks[i]) /\ \E k \in 1 .. i - 1 :
        /\ IsTool(blocks[k]) /\ ~blocks[k].empty
        /\ \A l \in k + 1 .. i : IsText(blocks[l])

TextOf(blocks, places) == {blocks[i] : i \in {k \in places : IsText(blocks[k])}}

UsesOf(blocks) == [i \in {k \in DOMAIN blocks : IsTool(blocks[k])} |-> blocks[i]]

Ids(us) == {<<turn, i>> : i \in DOMAIN us}

\* The stream of a reply, up to its end or to a KeyError, which ends the answer.
StreamBreaks(reply) ==
    /\ phase = "asking"
    /\ \E i \in DOMAIN reply.blocks :
          /\ Crashes(reply.blocks, i)
          /\ \A k \in 1 .. i - 1 : ~Crashes(reply.blocks, k)
          /\ text' = text \cup TextOf(reply.blocks, 1 .. i)
    /\ phase' = "error"
    /\ UNCHANGED <<turn, sent, uses, log, judged>>

Reply(reply) ==
    /\ phase = "asking"
    /\ \A i \in DOMAIN reply.blocks : ~Crashes(reply.blocks, i)
    /\ text' = text \cup TextOf(reply.blocks, DOMAIN reply.blocks)
    /\ LET us == UsesOf(reply.blocks)
       IN IF DOMAIN us = {} \/ reply.stop = "end_turn"
          THEN /\ phase' = "safety"
               /\ UNCHANGED <<sent, uses>>
          ELSE /\ phase' = "tools"
               /\ uses' = us
               /\ sent' = Append(sent, [role |-> "assistant", ids |-> Ids(us)])
    /\ UNCHANGED <<turn, log, judged>>

\* The API of the model fails: chat_sse ends the stream with an error.
ModelFails ==
    /\ phase = "asking"
    /\ phase' = "error"
    /\ UNCHANGED <<turn, sent, text, uses, log, judged>>

\* As if only the tools that worked had a result.
ResultsOfValues(entries) ==
    {<<e.turn, e.nth>> : e \in {f \in entries : f.turn = turn /\ f.result = "value"}}

\* The results of this turn: each entry of the log has one.
Results(entries) == {<<e.turn, e.nth>> : e \in {f \in entries : f.turn = turn}}

\* The tool uses of this turn that have not run.
Waiting == {i \in DOMAIN uses : <<turn, i>> \notin {<<e.turn, e.nth>> : e \in log}}

CapReached == turn = MaxTurns

\* _safe_run_tool, in the order of the uses: a tool without its input raises, and what
\* raises is a result as well.
RunTool(n, result) ==
    /\ phase = "tools"
    /\ \A k \in Waiting : n <= k
    /\ uses[n].empty => result = "error"
    /\ log' = log \cup {[turn |-> turn, nth |-> n, metric |-> uses[n].metric,
                         empty |-> uses[n].empty, result |-> result]}
    /\ IF Waiting # {n}
       THEN UNCHANGED <<phase, turn, sent, uses>>
       ELSE /\ sent' = Append(sent, [role |-> "user", ids |-> Results(log')])
            /\ uses' = NoUses
            /\ IF CapReached
               THEN phase' = "safety" /\ UNCHANGED turn
               ELSE phase' = "asking" /\ turn' = turn + 1
    /\ UNCHANGED <<text, judged>>

\* _build_verified_sets looks at the inputs of get_metric.
VerifiedMetrics == {e.metric : e \in {f \in log : ~f.empty}}

\* The events for one sentence: one for each citation, or a warning for its claims.
Judgement(s) ==
    IF s.cites # <<>>
    THEN {[kind |-> "cite", metric |-> s.cites[i], verified |-> s.cites[i] \in VerifiedMetrics] :
             i \in DOMAIN s.cites}
    ELSE IF s.claim THEN {[kind |-> "missing", verified |-> FALSE]} ELSE {}

Enforce ==
    /\ phase = "safety"
    /\ judged' = UNION {Judgement(s) : s \in text}
    /\ phase' = "done"
    /\ UNCHANGED <<turn, sent, text, uses, log>>

Next == \/ \E reply \in Replies : StreamBreaks(reply) \/ Reply(reply)
        \/ ModelFails
        \/ \E n \in Waiting, result \in {"value", "error"} : RunTool(n, result)
        \/ Enforce

Spec == Init /\ [][Next]_vars

-------------------------------------------------------------------------------
(* Properties.                                                               *)

\* What the model is sent is a dialogue it accepts: user and assistant take turns, the
\* user first and last, and each turn of tool uses is answered by the results of just
\* these, whichever of them failed.
DialogueIsWellFormed ==
    phase = "asking" =>
        /\ sent[1].role = "user" /\ sent[Len(sent)].role = "user"
        /\ \A i \in 1 .. Len(sent) - 1 : sent[i].role # sent[i + 1].role
        /\ \A i \in 1 .. Len(sent) - 1 : sent[i].role = "assistant" =>
              sent[i].ids # {} /\ sent[i + 1].ids = sent[i].ids

\* Every sentence the user has seen is judged when the answer is done, those streamed
\* before a tool call too: each citation has its event, which says that it is verified
\* exactly if a tool was asked for it at any turn, and a claim without one is marked.
EveryClaimIsJudged ==
    phase = "done" =>
        \A s \in text :
            /\ \A c \in DOMAIN s.cites :
                  \E j \in judged :
                      /\ j.kind = "cite" /\ j.metric = s.cites[c]
                      /\ j.verified <=> \E e \in log : ~e.empty /\ e.metric = s.cites[c]
            /\ s.claim /\ s.cites = <<>> => \E j \in judged : j.kind = "missing"

\* An answer is done without a last word of the model only when the tool calls are used
\* up: it never stops at a tool result otherwise.
StopsAtTheCapOnly ==
    phase = "done" /\ Len(sent) = 2 * turn + 1 => turn = MaxTurns

\* A dialogue with its answer: the three properties above.
DialogueIsSound == DialogueIsWellFormed /\ EveryClaimIsJudged /\ StopsAtTheCapOnly
===============================================================================
