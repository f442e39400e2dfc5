----------------------------- MODULE Engine_proofs -----------------------------
(* Proofs about the AI engine and the copilot, for every value of the constants *)
(* of MCEngine: documents are read soundly, the copilot's dialogue is sound,     *)
(* corrections are kept, and the fields of a document are validated.  The parts *)
(* do not share state; the steps of each are treated first, then all together.   *)
EXTENDS MCEngine, FiniteSetTheorems, WellFoundedInduction, TLAPS

-------------------------------------------------------------------------------
(* CopilotAgent: what the model is sent, and what is judged.                *)

\* A turn of tool uses has their results.
Answered(i) == sent[i].ids # {} /\ sent[i + 1].ids = sent[i].ids

\* What is sent is a dialogue, as long as the model will be asked again: the user speaks
\* first, in turn with the assistant, and after each turn of tool uses gives their results.
TurnsAreTaken ==
    /\ Len(sent) > 0 /\ sent[1].role = "user"
    /\ \A i \in 1 .. Len(sent) - 1 : sent[i].role # sent[i + 1].role
    /\ \A i \in 1 .. Len(sent) - 1 : sent[i].role = "assistant" => Answered(i)

\* The model was asked once for each turn.
AskedOnce ==
    /\ phase = "asking" => Len(sent) = 2 * turn - 1 /\ sent[Len(sent)].role = "user"
    /\ phase \in {"safety", "done"} =>
          Len(sent) = 2 * turn - 1 \/ (Len(sent) = 2 * turn + 1 /\ turn = MaxTurns)

\* While tools run, the last message has the ids of their uses, those that ran are in the
\* log, and one at least is left.
ToolsAreAsked ==
    phase = "tools" =>
        /\ Len(sent) = 2 * turn
        /\ sent[Len(sent)] = [role |-> "assistant", ids |-> Copilot!Ids(uses)]
        /\ \A e \in log : e.turn = turn => e.nth \in DOMAIN uses
        /\ Copilot!Waiting # {}

\* No tool of a turn has run before the model asked for it.
TurnIsNew == phase = "asking" => \A e \in log : e.turn < turn

\* What holds of a dialogue at every step.
DialogueInv ==
    /\ Copilot!TypeOK
    /\ TurnsAreTaken
    /\ AskedOnce
    /\ ToolsAreAsked
    /\ TurnIsNew
    /\ Copilot!EveryClaimIsJudged

\* A message at the end of the dialogue leaves the others as they are.
LEMMA Appended ==
  ASSUME Copilot!TypeOK, NEW m \in Copilot!Message, sent' = Append(sent, m)
  PROVE  /\ sent' \in Seq(Copilot!Message)
         /\ Len(sent') = Len(sent) + 1 /\ Len(sent) \in Nat
         /\ sent'[Len(sent) + 1] = m
         /\ \A i \in 1 .. Len(sent) : sent'[i] = sent[i]
  BY DEF Copilot!TypeOK

\* The message that asks for tools, and the one that brings their results.
LEMMA TurnsStayTaken ==
  ASSUME Copilot!TypeOK, TurnsAreTaken, NEW m \in Copilot!Message, sent' = Append(sent, m),
         m.role # sent[Len(sent)].role,
         sent[Len(sent)].role = "assistant" =>
             sent[Len(sent)].ids # {} /\ m.ids = sent[Len(sent)].ids
  PROVE  TurnsAreTaken'
  <1> USE DEF TurnsAreTaken, Answered
  <1>1. /\ Len(sent') = Len(sent) + 1 /\ Len(sent) \in Nat
        /\ sent'[Len(sent) + 1] = m
        /\ \A i \in 1 .. Len(sent) : sent'[i] = sent[i]
    BY Appended
  <1>2. Len(sent') > 0 /\ sent'[1].role = "user"
    BY <1>1
  <1>3. ASSUME NEW i \in 1 .. Len(sent') - 1
        PROVE  /\ sent'[i].role # sent'[i + 1].role
               /\ sent'[i].role = "assistant" => sent'[i].ids # {} /\ sent'[i + 1].ids = sent'[i].ids
    <2>1. CASE i = Len(sent)
      BY <1>1, <2>1
    <2>2. CASE i # Len(sent)
      <3>1. i \in 1 .. Len(sent) - 1 /\ i + 1 \in 1 .. Len(sent) /\ i \in 1 .. Len(sent)
        BY <1>1, <2>2
      <3> QED BY <1>1, <3>1
    <2> QED BY <2>1, <2>2
  <1> QED BY <1>2, <1>3

\* The stream of a reply that breaks, or that needs no tool.
LEMMA StreamEnds ==
  ASSUME Copilot!CopilotAssumption, DialogueInv, NEW reply \in Replies, phase = "asking",
         phase' \in {"error", "safety"}, UNCHANGED <<turn, sent, uses, log, judged>>,
         NEW places, text' = text \cup Copilot!TextOf(reply.blocks, places)
  PROVE  DialogueInv'
  <1> USE DEF DialogueInv
  <1>1. Copilot!TypeOK'
    BY DEF Copilot!TypeOK, Copilot!TextOf, Copilot!Message, Copilot!IsText, Copilot!IsTool
  <1>2. TurnsAreTaken' /\ AskedOnce' /\ ToolsAreAsked' /\ TurnIsNew' /\ Copilot!EveryClaimIsJudged'
    BY DEF TurnsAreTaken, Answered, AskedOnce, ToolsAreAsked, TurnIsNew,
       Copilot!EveryClaimIsJudged
  <1> QED BY <1>1, <1>2

\* A reply that asks for tools.
LEMMA ToolsAreAskedFor ==
  ASSUME Copilot!CopilotAssumption, DialogueInv, NEW reply \in Replies, Copilot!Reply(reply),
         phase' = "tools"
  PROVE  DialogueInv'
  <1> USE DEF DialogueInv
  <1> DEFINE us == Copilot!UsesOf(reply.blocks)
             m == [role |-> "assistant", ids |-> Copilot!Ids(us)]
  <1>1. /\ phase = "asking" /\ DOMAIN us # {} /\ uses' = us /\ sent' = Append(sent, m)
        /\ text' = text \cup Copilot!TextOf(reply.blocks, DOMAIN reply.blocks)
        /\ UNCHANGED <<turn, log, judged>>
    BY DEF Copilot!Reply
  <1>2. \A i \in DOMAIN us : i \in Nat /\ Copilot!IsTool(us[i])
    BY DEF Copilot!UsesOf, Copilot!CopilotAssumption
  <1> HIDE DEF us
  <1>3. m \in Copilot!Message /\ m.ids # {}
    <2>1. turn \in Nat
      BY DEF Copilot!TypeOK, Copilot!CopilotAssumption
    <2>2. Copilot!Ids(us) \subseteq Nat \X Nat
      BY <1>2, <2>1 DEF Copilot!Ids
    <2>3. Copilot!Ids(us) # {}
      BY <1>1 DEF Copilot!Ids
    <2> QED BY <2>2, <2>3 DEF Copilot!Message
  <1>4. Copilot!TypeOK'
    <2>1. sent' \in Seq(Copilot!Message)
      BY <1>1, <1>3, Appended
    <2> QED
      BY <1>1, <1>2, <2>1 DEF Copilot!TypeOK, Copilot!TextOf, Copilot!IsText, Copilot!IsTool
  <1>5. TurnsAreTaken'
    BY <1>1, <1>3, TurnsStayTaken DEF AskedOnce
  <1>6. Len(sent') = 2 * turn /\ sent'[Len(sent')] = m
    BY <1>1, <1>3, Appended DEF AskedOnce, Copilot!TypeOK, Copilot!CopilotAssumption
  <1>7. Copilot!Ids(uses)' = m.ids
    BY <1>1 DEF Copilot!Ids
  <1>8. \A e \in log : e.turn # turn
    BY <1>1 DEF TurnIsNew, Copilot!TypeOK, Copilot!CopilotAssumption
  <1>9. Copilot!Waiting' # {}
    <2>1. PICK i : i \in DOMAIN us
      BY <1>1
    <2>2. i \in Copilot!Waiting'
      BY <1>1, <1>8, <2>1 DEF Copilot!Waiting
    <2> QED BY <2>2
  <1>10. ToolsAreAsked'
    BY <1>1, <1>6, <1>7, <1>8, <1>9 DEF ToolsAreAsked
  <1>11. AskedOnce' /\ TurnIsNew' /\ Copilot!EveryClaimIsJudged'
    BY DEF AskedOnce, TurnIsNew, Copilot!EveryClaimIsJudged
  <1> QED BY <1>4, <1>5, <1>10, <1>11

\* A tool that is not the last of its turn, and the last one, which sends the results.
LEMMA ToolRuns ==
  ASSUME Copilot!CopilotAssumption, DialogueInv, NEW n \in Copilot!Waiting,
         NEW result \in {"value", "error"}, Copilot!RunTool(n, result)
  PROVE  DialogueInv'
  <1> USE DEF DialogueInv
  <1> DEFINE e == [turn |-> turn, nth |-> n, metric |-> uses[n].metric,
                   empty |-> uses[n].empty, result |-> result]
  <1>1. /\ phase = "tools" /\ log' = log \cup {e} /\ UNCHANGED <<text, judged>>
        /\ n \in DOMAIN uses /\ n \in Nat
    BY DEF Copilot!RunTool, Copilot!Waiting, Copilot!TypeOK
  <1>2. e.turn = turn /\ e.nth = n /\ e.result \in {"value", "error"}
    OBVIOUS
  <1> HIDE DEF e
  <1>3. turn \in 1 .. MaxTurns /\ turn \in Nat
    BY DEF Copilot!TypeOK, Copilot!CopilotAssumption
  <1>4. \A f \in log' : f.turn \in 1 .. turn /\ f.nth \in Nat /\ f.result \in {"value", "error"}
    BY <1>1, <1>2, <1>3 DEF Copilot!TypeOK
  <1>5. /\ Len(sent) = 2 * turn
        /\ sent[Len(sent)] = [role |-> "assistant", ids |-> Copilot!Ids(uses)]
        /\ \A f \in log' : f.turn = turn => f.nth \in DOMAIN uses
    BY <1>1, <1>2 DEF ToolsAreAsked
  <1>6. CASE Copilot!Waiting # {n}
    <2>1. UNCHANGED <<phase, turn, sent, uses>>
      BY <1>6 DEF Copilot!RunTool
    <2>2. Copilot!Waiting' # {}
      <3>1. PICK k \in Copilot!Waiting : k # n
        BY <1>6
      <3>2. k \in Copilot!Waiting'
        BY <1>1, <1>2, <2>1, <3>1 DEF Copilot!Waiting
      <3> QED BY <3>2
    <2>3. Copilot!TypeOK'
      BY <1>1, <1>4, <2>1 DEF Copilot!TypeOK, Copilot!IsText, Copilot!IsTool
    <2>4. TurnsAreTaken' /\ AskedOnce' /\ TurnIsNew' /\ Copilot!EveryClaimIsJudged'
      BY <1>1, <2>1 DEF TurnsAreTaken, Answered, AskedOnce, TurnIsNew,
         Copilot!EveryClaimIsJudged
    <2>5. ToolsAreAsked'
      BY <1>1, <1>5, <2>1, <2>2 DEF ToolsAreAsked, Copilot!Ids
    <2> QED BY <2>3, <2>4, <2>5
  <1>7. CASE Copilot!Waiting = {n}
    <2> DEFINE m == [role |-> "user", ids |-> Copilot!Results(log')]
    <2>1. sent' = Append(sent, m) /\ uses' = Copilot!NoUses
      BY <1>7 DEF Copilot!RunTool
    <2>2. \/ phase' = "safety" /\ turn' = turn /\ turn = MaxTurns
          \/ phase' = "asking" /\ turn' = turn + 1 /\ turn # MaxTurns
      BY <1>7 DEF Copilot!RunTool, Copilot!CapReached
    <2>3. Copilot!Results(log') = Copilot!Ids(uses)
      <3>1. \A i \in DOMAIN uses : \E f \in log' : f.turn = turn /\ f.nth = i
        <4> TAKE i \in DOMAIN uses
        <4>1. CASE i = n
          BY <1>1, <1>2, <4>1
        <4>2. CASE i # n
          <5>1. PICK f \in log : <<turn, i>> = <<f.turn, f.nth>>
            BY <1>7, <4>2 DEF Copilot!Waiting
          <5> QED BY <1>1, <5>1
        <4> QED BY <4>1, <4>2
      <3> QED BY <1>5, <3>1 DEF Copilot!Results, Copilot!Ids
    <2>4. m \in Copilot!Message
      BY <1>3, <2>3 DEF Copilot!Message, Copilot!Ids, Copilot!TypeOK
    <2>5. sent[Len(sent)].role = "assistant" /\ sent[Len(sent)].ids = m.ids /\ m.role = "user"
          /\ m.ids # {}
      <3>1. Copilot!Ids(uses) # {}
        BY <1>1 DEF Copilot!Ids
      <3> QED BY <1>5, <2>3, <3>1
    <2> HIDE DEF m
    <2>6. TurnsAreTaken'
      BY <2>1, <2>4, <2>5, TurnsStayTaken
    <2>7. Len(sent') = 2 * turn + 1 /\ sent'[Len(sent')] = m /\ sent' \in Seq(Copilot!Message)
      BY <1>3, <1>5, <2>1, <2>4, Appended
    <2>8. turn' \in 1 .. MaxTurns
      BY <1>3, <2>2 DEF Copilot!CopilotAssumption
    <2>9. Copilot!TypeOK'
      <3>1. \A f \in log' : f.turn \in 1 .. turn'
        BY <1>3, <1>4, <2>2
      <3>2. \A i \in DOMAIN uses' : i \in Nat /\ Copilot!IsTool(uses'[i])
        BY <2>1 DEF Copilot!NoUses
      <3> QED
        BY <1>1, <1>4, <2>2, <2>7, <2>8, <3>1, <3>2
        DEF Copilot!TypeOK, Copilot!IsText, Copilot!IsTool
    <2>10. AskedOnce'
      <3>1. sent'[Len(sent')].role = "user" /\ turn \in Nat
        BY <1>3, <2>5, <2>7
      <3>2. CASE phase' = "safety" /\ turn' = turn /\ turn = MaxTurns
        BY <2>7, <3>1, <3>2 DEF AskedOnce
      <3>3. CASE phase' = "asking" /\ turn' = turn + 1 /\ turn # MaxTurns
        <4>1. 2 * (turn + 1) - 1 = 2 * turn + 1
          BY <3>1
        <4> QED BY <2>7, <3>1, <3>3, <4>1 DEF AskedOnce
      <3> QED BY <2>2, <3>2, <3>3
    <2>11. TurnIsNew'
      BY <1>3, <1>4, <2>2 DEF TurnIsNew
    <2>12. ToolsAreAsked' /\ Copilot!EveryClaimIsJudged'
      BY <2>2 DEF ToolsAreAsked, Copilot!EveryClaimIsJudged
    <2> QED BY <2>6, <2>9, <2>10, <2>11, <2>12
  <1> QED BY <1>6, <1>7

\* The enforcer has an event for each citation, and for a claim without one.
LEMMA ClaimsAreJudged ==
  ASSUME DialogueInv, Copilot!Enforce
  PROVE  DialogueInv'
  <1> USE DEF DialogueInv
  <1>1. /\ phase = "safety" /\ phase' = "done"
        /\ judged' = UNION {Copilot!Judgement(s) : s \in text}
        /\ UNCHANGED <<turn, sent, text, uses, log>>
    BY DEF Copilot!Enforce
  <1>2. \A x : x \in Copilot!VerifiedMetrics <=> \E e \in log : ~e.empty /\ e.metric = x
    BY DEF Copilot!VerifiedMetrics
  <1>3. Copilot!EveryClaimIsJudged'
    <2> SUFFICES ASSUME NEW s \in text
                 PROVE  /\ \A c \in DOMAIN s.cites :
                             \E j \in judged' :
                                 /\ j.kind = "cite" /\ j.metric = s.cites[c]
                                 /\ j.verified <=> \E e \in log : ~e.empty /\ e.metric = s.cites[c]
                        /\ s.claim /\ s.cites = <<>> => \E j \in judged' : j.kind = "missing"
      BY <1>1 DEF Copilot!EveryClaimIsJudged
    <2>1. Copilot!Judgement(s) \subseteq judged'
      BY <1>1
    <2>2. ASSUME NEW c \in DOMAIN s.cites
          PROVE  \E j \in judged' :
                     /\ j.kind = "cite" /\ j.metric = s.cites[c]
                     /\ j.verified <=> \E e \in log : ~e.empty /\ e.metric = s.cites[c]
      <3> DEFINE j == [kind |-> "cite", metric |-> s.cites[c],
                       verified |-> s.cites[c] \in Copilot!VerifiedMetrics]
      <3>1. s.cites # <<>>
        OBVIOUS
      <3>2. j \in judged'
        BY <2>1, <3>1 DEF Copilot!Judgement
      <3>3. /\ j.kind = "cite" /\ j.metric = s.cites[c]
            /\ j.verified <=> \E e \in log : ~e.empty /\ e.metric = s.cites[c]
        BY <1>2
      <3> QED BY <3>2, <3>3
    <2>3. ASSUME s.claim, s.cites = <<>> PROVE \E j \in judged' : j.kind = "missing"
      <3>1. [kind |-> "missing", verified |-> FALSE] \in judged'
        BY <2>1, <2>3 DEF Copilot!Judgement
      <3> QED BY <3>1
    <2> QED BY <2>2, <2>3
  <1>4. Copilot!TypeOK'
    BY <1>1 DEF Copilot!TypeOK, Copilot!IsText, Copilot!IsTool
  <1>5. TurnsAreTaken' /\ AskedOnce' /\ ToolsAreAsked' /\ TurnIsNew'
    BY <1>1 DEF TurnsAreTaken, Answered, AskedOnce, ToolsAreAsked, TurnIsNew
  <1> QED BY <1>3, <1>4, <1>5

\* Every step of a dialogue keeps what holds.
LEMMA DialogueInvStep ==
  ASSUME Copilot!CopilotAssumption, DialogueInv, [Copilot!Next]_copilotVars
  PROVE  DialogueInv'
  <1>1. ASSUME NEW reply \in Replies, Copilot!StreamBreaks(reply) PROVE DialogueInv'
    <2>1. PICK i : text' = text \cup Copilot!TextOf(reply.blocks, 1 .. i)
      BY <1>1 DEF Copilot!StreamBreaks
    <2> QED BY <1>1, <2>1, StreamEnds DEF Copilot!StreamBreaks
  <1>2. ASSUME NEW reply \in Replies, Copilot!Reply(reply) PROVE DialogueInv'
    <2>1. CASE phase' = "tools"
      BY <1>2, <2>1, ToolsAreAskedFor
    <2>2. CASE phase' # "tools"
      <3>1. /\ phase = "asking" /\ phase' = "safety" /\ UNCHANGED <<turn, sent, uses, log, judged>>
            /\ text' = text \cup Copilot!TextOf(reply.blocks, DOMAIN reply.blocks)
        BY <1>2, <2>2 DEF Copilot!Reply
      <3> QED BY <3>1, StreamEnds
    <2> QED BY <2>1, <2>2
  <1>3. CASE Copilot!ModelFails
    BY <1>3 DEF Copilot!ModelFails, DialogueInv, Copilot!TypeOK, TurnsAreTaken, Answered,
       AskedOnce, ToolsAreAsked, TurnIsNew, Copilot!EveryClaimIsJudged, Copilot!IsText,
       Copilot!IsTool
  <1>4. ASSUME NEW n \in Copilot!Waiting, NEW result \in {"value", "error"},
               Copilot!RunTool(n, result)
        PROVE  DialogueInv'
    BY <1>4, ToolRuns
  <1>5. CASE Copilot!Enforce
    BY <1>5, ClaimsAreJudged
  <1>6. CASE UNCHANGED copilotVars
    BY <1>6 DEF copilotVars, DialogueInv, Copilot!TypeOK, TurnsAreTaken, Answered, AskedOnce,
       ToolsAreAsked, TurnIsNew, Copilot!EveryClaimIsJudged, Copilot!IsText, Copilot!IsTool,
       Copilot!Waiting, Copilot!Ids
  <1> QED BY <1>1, <1>2, <1>3, <1>4, <1>5, <1>6 DEF Copilot!Next

\* A dialogue begins with a question of the user.
LEMMA DialogueBegins ==
  ASSUME Copilot!CopilotAssumption, Copilot!Init
  PROVE  DialogueInv
  <1> USE DEF Copilot!Init, Copilot!CopilotAssumption
  <1>1. sent \in Seq(Copilot!Message) /\ Len(sent) = 1 /\ sent[1].role = "user"
    BY DEF Copilot!Message
  <1>2. Copilot!TypeOK
    BY <1>1 DEF Copilot!TypeOK, Copilot!NoUses
  <1> QED
    BY <1>1, <1>2 DEF DialogueInv, TurnsAreTaken, AskedOnce, ToolsAreAsked, TurnIsNew,
       Copilot!EveryClaimIsJudged

\* What holds of the dialogue implies its properties.
LEMMA DialogueInvSuffices ==
  ASSUME Copilot!CopilotAssumption, DialogueInv
  PROVE  DialogueIsSound
  <1> USE DEF DialogueInv
  <1>1. Copilot!DialogueIsWellFormed
    BY DEF Copilot!DialogueIsWellFormed, TurnsAreTaken, AskedOnce, Answered
  <1>2. Copilot!StopsAtTheCapOnly
    BY DEF Copilot!StopsAtTheCapOnly, AskedOnce, Copilot!TypeOK, Copilot!CopilotAssumption
  <1> QED BY <1>1, <1>2 DEF DialogueIsSound, Copilot!DialogueIsSound

-------------------------------------------------------------------------------
(* FeedbackStream: corrections on their way to S3.                          *)

\* In neither memory nor S3.
Nowhere(m) == m \notin Feedback!InMemory /\ ~Feedback!InS3(m)

\* The stream gives its messages in their order, each of them once.
DeliveredInOrder ==
    \A m \in Feedback!Messages : /\ m > posted => group[m] = "new"
                        /\ \A n \in Feedback!Messages : n < m /\ group[n] = "new" => group[m] = "new"

\* What was not read, or not handled, is in neither memory nor S3.
UnhandledIsNowhere ==
    /\ \A m \in Feedback!Messages : group[m] = "new" => Nowhere(m)
    /\ \A i \in DOMAIN batch : group[batch[i]] = "pending" /\ Nowhere(batch[i])

\* A batch has a message once.
BatchHasNoRepeats == \A i, j \in DOMAIN batch : i # j => batch[i] # batch[j]

\* Nothing is read or handled during a flush.
FlushIsAlone == put # Feedback!NoPut => batch = <<>> /\ buffer = {}

\* What is in memory is not in S3 yet, but for a put that failed after it had stored it.
MemoryIsNotStored == \A m \in Feedback!InMemory : m \in doubted \/ ~Feedback!InS3(m)

\* What holds of the stream and its consumer at every step.
FeedbackInv ==
    /\ Feedback!TypeOK /\ DeliveredInOrder /\ UnhandledIsNowhere /\ BatchHasNoRepeats
    /\ FlushIsAlone /\ MemoryIsNotStored
    /\ Feedback!AckedIsKept /\ Feedback!PendingIsInHand /\ Feedback!StoredOnce

-------------------------------------------------------------------------------
(* Every step preserves FeedbackInv.                                                *)

\* The parts of a batch.
LEMMA BatchParts ==
  ASSUME Feedback!TypeOK, batch # <<>>
  PROVE  /\ 1 \in DOMAIN batch /\ Head(batch) = batch[1] /\ Head(batch) \in Feedback!Messages
         /\ Tail(batch) \in Seq(Feedback!Messages)
         /\ \A i \in DOMAIN Tail(batch) : i + 1 \in DOMAIN batch /\ Tail(batch)[i] = batch[i + 1]
         /\ \A i \in DOMAIN batch \ {1} : i - 1 \in DOMAIN Tail(batch)
         /\ \A i \in DOMAIN batch : batch[i] \in Feedback!Messages
  BY DEF Feedback!TypeOK

\* A put under way has a key and items.
LEMMA PutTypes ==
  ASSUME Feedback!TypeOK, put # Feedback!NoPut
  PROVE  put.key \in Feedback!Seconds /\ put.items \subseteq Feedback!Messages /\ Feedback!InMemory = buffer \cup put.items
  BY DEF Feedback!TypeOK, Feedback!InMemory

\* A put is told apart from no put.
LEMMA NoPutIsNoPut ==
  ASSUME NEW k \in Feedback!Seconds, NEW items
  PROVE  [key |-> k, items |-> items] # Feedback!NoPut
  BY DEF Feedback!NoPut

\* Every step keeps the types.
LEMMA FeedbackTypesStep ==
  ASSUME Feedback!FeedbackAssumption, Feedback!TypeOK, [Feedback!Next]_feedbackVars
  PROVE  Feedback!TypeOK'
  <1> USE DEF Feedback!TypeOK, Feedback!FeedbackAssumption
  <1>0. CASE UNCHANGED feedbackVars
    BY <1>0 DEF feedbackVars
  <1>1. CASE Feedback!Post
    BY <1>1 DEF Feedback!Post, Feedback!Messages
  <1>2. CASE Feedback!Read
    <2>1. PICK n \in 1 .. posted :
             /\ batch' = [i \in 1 .. posted - n + 1 |-> n + i - 1]
             /\ group' = [m \in Feedback!Messages |-> IF m \in n .. posted THEN "pending" ELSE group[m]]
      BY <1>2 DEF Feedback!Read
    <2>2. batch' \in Seq(Feedback!Messages)
      <3>1. posted - n + 1 \in Nat
        OBVIOUS
      <3>2. \A i \in 1 .. posted - n + 1 : n + i - 1 \in Feedback!Messages
        BY DEF Feedback!Messages
      <3> QED BY <2>1, <3>1, <3>2
    <2> QED BY <1>2, <2>1, <2>2 DEF Feedback!Read
  <1>3. CASE Feedback!ReadFails
    BY <1>3 DEF Feedback!ReadFails, Feedback!Messages
  <1>4. CASE Feedback!Handle
    BY <1>4, BatchParts DEF Feedback!Handle
  <1>5. CASE Feedback!AckFails
    <2>1. {batch[i] : i \in DOMAIN batch} \subseteq Feedback!Messages
      OBVIOUS
    <2>2. batch' \in Seq(Feedback!Messages) /\ buffer' \subseteq Feedback!Messages
          /\ group' \in [Feedback!Messages -> {"new", "pending", "acked"}]
      BY <1>5, BatchParts DEF Feedback!AckFails
    <2>3. gone' \cup unsure' \cup doubted' \subseteq Feedback!Messages
      BY <1>5, <2>1 DEF Feedback!AckFails
    <2> QED BY <1>5, <2>2, <2>3 DEF Feedback!AckFails
  <1>6. CASE Feedback!Stop
    BY <1>6 DEF Feedback!Stop
  <1>7. CASE Feedback!BeginFlush
    BY <1>7 DEF Feedback!BeginFlush
  <1>8. CASE Feedback!SkipFlush
    BY <1>8 DEF Feedback!SkipFlush
  <1>9. CASE Feedback!PutSucceeds
    BY <1>9, PutTypes DEF Feedback!PutSucceeds, Feedback!Stored, Feedback!Overwritten,
       Feedback!NextRunning
  <1>10. CASE Feedback!PutFails
    BY <1>10, PutTypes DEF Feedback!PutFails, Feedback!Stored, Feedback!Overwritten,
       Feedback!NextRunning
  <1>11. CASE Feedback!End
    BY <1>11 DEF Feedback!End
  <1>12. CASE Feedback!Crash
    <2>1. Feedback!InMemory \subseteq Feedback!Messages
      BY PutTypes DEF Feedback!InMemory
    <2>2. {batch[i] : i \in DOMAIN batch} \subseteq Feedback!Messages
      OBVIOUS
    <2>3. put # Feedback!NoPut => /\ Feedback!Overwritten \subseteq Feedback!Messages
                         /\ [object EXCEPT ![put.key] = Feedback!Stored] \in [Feedback!Seconds -> SUBSET Feedback!Messages]
      BY PutTypes DEF Feedback!Overwritten, Feedback!Stored
    <2>4. batch' \in Seq(Feedback!Messages) /\ put' = Feedback!NoPut /\ buffer' = {}
      BY <1>12 DEF Feedback!Crash
    <2>5. gone' \subseteq Feedback!Messages /\ unsure' \subseteq Feedback!Messages /\ doubted' \subseteq Feedback!Messages
          /\ object' \in [Feedback!Seconds -> SUBSET Feedback!Messages]
      BY <1>12, <2>1, <2>2, <2>3, PutTypes DEF Feedback!Crash
    <2> QED BY <1>12, <2>4, <2>5 DEF Feedback!Crash
  <1>13. CASE Feedback!Start
    BY <1>13 DEF Feedback!Start
  <1>14. CASE Feedback!Tick
    BY <1>14 DEF Feedback!Tick, Feedback!Seconds
  <1> QED
    BY <1>0, <1>1, <1>2, <1>3, <1>4, <1>5, <1>6, <1>7, <1>8, <1>9, <1>10, <1>11, <1>12, <1>13,
       <1>14 DEF Feedback!Next

\* What a put stores, and what it leaves.
LEMMA PutStores ==
  ASSUME Feedback!TypeOK, put # Feedback!NoPut,
     object' = [object EXCEPT ![put.key] = Feedback!Stored]
  PROVE  /\ \A m \in put.items : Feedback!InS3(m)'
         /\ \A m \in Feedback!Messages : Feedback!InS3(m)' => m \in put.items \/ Feedback!InS3(m)
         /\ \A m \in Feedback!Messages : Feedback!InS3(m) => Feedback!InS3(m)' \/ m \in Feedback!Overwritten
         /\ \A m, k : k \in Feedback!Seconds /\ m \in object'[k] =>
               IF k = put.key THEN m \in put.items ELSE m \in object[k]
  BY PutTypes DEF Feedback!TypeOK, Feedback!Stored, Feedback!Overwritten, Feedback!InS3

\* What is read comes next in the stream.
LEMMA DeliveredInOrderStep ==
  ASSUME Feedback!FeedbackAssumption, FeedbackInv, [Feedback!Next]_feedbackVars
  PROVE  DeliveredInOrder'
  <1> USE DEF FeedbackInv, Feedback!TypeOK, Feedback!FeedbackAssumption, DeliveredInOrder,
     Feedback!Messages
  <1>1. CASE Feedback!Post
    BY <1>1 DEF Feedback!Post
  <1>2. CASE Feedback!Read
    <2>1. PICK n \in 1 .. posted :
             /\ \A m \in 1 .. n - 1 : group[m] # "new"
             /\ group' = [m \in Feedback!Messages |-> IF m \in n .. posted THEN "pending" ELSE group[m]]
      BY <1>2 DEF Feedback!Read
    <2> QED BY <1>2, <2>1 DEF Feedback!Read
  <1>3. CASE Feedback!ReadFails
    BY <1>3 DEF Feedback!ReadFails
  <1>4. CASE Feedback!Handle \/ Feedback!AckFails
    <2>1. batch # <<>> /\ posted' = posted
          /\ (group' = group \/ group' = [group EXCEPT ![Head(batch)] = "acked"])
      BY <1>4 DEF Feedback!Handle, Feedback!AckFails
    <2>2. Head(batch) \in Feedback!Messages /\ group[Head(batch)] = "pending"
      BY <2>1, BatchParts DEF UnhandledIsNowhere
    <2> QED BY <2>1, <2>2
  <1>5. CASE UNCHANGED <<posted, group>>
    BY <1>5
  <1> QED
    BY <1>1, <1>2, <1>3, <1>4, <1>5
    DEF Feedback!Next, feedbackVars, Feedback!Stop, Feedback!BeginFlush, Feedback!SkipFlush,
       Feedback!PutSucceeds, Feedback!PutFails, Feedback!End, Feedback!Crash, Feedback!Start,
          Feedback!Tick

\* What is nowhere stays so, unless it is handled.
LEMMA NowhereStays ==
  ASSUME FeedbackInv, [Feedback!Next]_feedbackVars, NEW m \in Feedback!Messages, Nowhere(m),
         ~(Feedback!Handle \/ Feedback!AckFails) \/ m # Head(batch)
  PROVE  Nowhere(m)'
  <1> USE DEF FeedbackInv, Nowhere, Feedback!InMemory
  <1>0. CASE UNCHANGED <<buffer, put, object>>
    BY <1>0 DEF Feedback!InS3
  <1>1. CASE Feedback!Handle \/ Feedback!AckFails
    BY <1>1 DEF Feedback!Handle, Feedback!AckFails, Feedback!InS3
  <1>2. CASE Feedback!BeginFlush
    BY <1>2, NoPutIsNoPut DEF Feedback!BeginFlush, Feedback!InS3, Feedback!TypeOK
  <1>3. CASE Feedback!PutSucceeds \/ Feedback!PutFails
    <2>1. put # Feedback!NoPut /\ m \notin put.items /\ put' = Feedback!NoPut /\ m \notin buffer'
          /\ (UNCHANGED object \/ object' = [object EXCEPT ![put.key] = Feedback!Stored])
      BY <1>3 DEF Feedback!PutSucceeds, Feedback!PutFails
    <2> QED BY <2>1, PutStores DEF Feedback!InS3
  <1>4. CASE Feedback!Crash
    <2>1. put' = Feedback!NoPut /\ buffer' = {}
      BY <1>4 DEF Feedback!Crash
    <2>2. UNCHANGED object \/ (put # Feedback!NoPut /\ object' = [object EXCEPT ![put.key] = Feedback!Stored])
      BY <1>4 DEF Feedback!Crash
    <2> QED BY <2>1, <2>2, PutStores DEF Feedback!InS3
  <1> QED
    BY <1>0, <1>1, <1>2, <1>3, <1>4
    DEF Feedback!Next, feedbackVars, Feedback!Post, Feedback!Read, Feedback!ReadFails,
       Feedback!Stop, Feedback!SkipFlush, Feedback!End, Feedback!Start, Feedback!Tick

\* What is read was nowhere, and is in the batch once.
LEMMA UnhandledStep ==
  ASSUME Feedback!FeedbackAssumption, FeedbackInv, [Feedback!Next]_feedbackVars
  PROVE  UnhandledIsNowhere' /\ BatchHasNoRepeats'
  <1> USE DEF FeedbackInv, Feedback!TypeOK, UnhandledIsNowhere, BatchHasNoRepeats
  <1>1. ASSUME NEW m \in Feedback!Messages, group'[m] = "new" PROVE Nowhere(m)'
    <2>1. group[m] = "new"
      BY <1>1 DEF Feedback!Next, feedbackVars, Feedback!Post, Feedback!Read,
         Feedback!ReadFails, Feedback!Handle, Feedback!AckFails, Feedback!Stop,
            Feedback!BeginFlush, Feedback!SkipFlush,
         Feedback!PutSucceeds, Feedback!PutFails, Feedback!End, Feedback!Crash,
            Feedback!Start, Feedback!Tick
    <2>2. (Feedback!Handle \/ Feedback!AckFails) => m # Head(batch)
      BY <2>1, BatchParts DEF Feedback!Handle, Feedback!AckFails
    <2> QED BY <2>1, <2>2, NowhereStays
  <1>2. CASE Feedback!Read
    <2>1. PICK n \in 1 .. posted :
             /\ group[n] = "new"
             /\ batch' = [i \in 1 .. posted - n + 1 |-> n + i - 1]
             /\ group' = [m \in Feedback!Messages |-> IF m \in n .. posted THEN "pending" ELSE group[m]]
      BY <1>2 DEF Feedback!Read
    <2>2. ASSUME NEW i \in DOMAIN batch'
          PROVE  /\ batch'[i] = n + i - 1 /\ batch'[i] \in Feedback!Messages /\ i \in Nat
                 /\ group[batch'[i]] = "new" /\ group'[batch'[i]] = "pending"
      <3>1. i \in 1 .. posted - n + 1 /\ batch'[i] = n + i - 1 /\ batch'[i] \in n .. posted
        BY <2>1
      <3>2. batch'[i] \in Feedback!Messages /\ n \in Feedback!Messages
        BY <2>1, <3>1 DEF Feedback!Messages, Feedback!FeedbackAssumption
      <3>3. group[batch'[i]] = "new"
        <4>1. batch'[i] = n \/ n < batch'[i]
          BY <3>1 DEF Feedback!FeedbackAssumption
        <4> QED BY <2>1, <3>2, <4>1 DEF DeliveredInOrder
      <3> QED BY <2>1, <3>1, <3>2, <3>3
    <2>3. \A i \in DOMAIN batch' : Nowhere(batch[i])'
      <3>1. \A m \in Feedback!Messages : Nowhere(m) => Nowhere(m)'
        BY <1>2, NowhereStays DEF Feedback!Read, Feedback!Handle, Feedback!AckFails,
           Feedback!Looping
      <3> QED BY <2>2, <3>1 DEF Nowhere, Feedback!InS3
    <2>4. \A i, j \in DOMAIN batch' : i # j => batch'[i] # batch'[j]
      BY <2>2
    <2> QED BY <1>1, <2>2, <2>3, <2>4
  <1>3. CASE Feedback!Handle
    <2>1. /\ batch # <<>> /\ batch' = Tail(batch)
          /\ group' = [group EXCEPT ![Head(batch)] = "acked"]
      BY <1>3 DEF Feedback!Handle
    <2>2. ASSUME NEW i \in DOMAIN batch'
          PROVE  /\ i + 1 \in DOMAIN batch /\ batch'[i] = batch[i + 1] /\ batch'[i] \in Feedback!Messages
                 /\ batch'[i] # Head(batch) /\ i \in Nat
                 /\ group[batch'[i]] = "pending" /\ Nowhere(batch'[i])
      <3>1. i + 1 \in DOMAIN batch /\ batch'[i] = batch[i + 1] /\ i \in Nat /\ i + 1 # 1
            /\ 1 \in DOMAIN batch /\ Head(batch) = batch[1] /\ batch[i + 1] \in Feedback!Messages
        BY <2>1, BatchParts
      <3> QED BY <3>1
    <2>3. ASSUME NEW i \in DOMAIN batch'
          PROVE  group'[batch'[i]] = "pending" /\ Nowhere(batch[i])'
      <3>1. \A m \in Feedback!Messages \ {Head(batch)} : Nowhere(m) => Nowhere(m)'
        BY <1>3, NowhereStays
      <3> QED BY <2>1, <2>2, <3>1 DEF Nowhere, Feedback!InS3
    <2>4. \A i, j \in DOMAIN batch' : i # j => batch'[i] # batch'[j]
      <3> TAKE i, j \in DOMAIN batch'
      <3>1. i # j => i + 1 # j + 1
        BY <2>2
      <3> QED BY <2>2, <3>1
    <2> QED BY <1>1, <2>3, <2>4
  <1>4. CASE batch' = <<>>
    BY <1>1, <1>4
  <1>5. CASE ~(Feedback!Read \/ Feedback!Handle) /\ batch' = batch
    <2>1. ~Feedback!AckFails \/ batch' = <<>>
      BY DEF Feedback!AckFails
    <2>2. CASE ~Feedback!AckFails
      <3>1. \A m \in Feedback!Messages : group[m] = "pending" => group'[m] = "pending"
        BY <1>5, <2>2 DEF Feedback!Next, feedbackVars, Feedback!Post, Feedback!ReadFails,
           Feedback!Stop, Feedback!BeginFlush, Feedback!SkipFlush,
           Feedback!PutSucceeds, Feedback!PutFails, Feedback!End, Feedback!Crash,
              Feedback!Start, Feedback!Tick
      <3>2. \A m \in Feedback!Messages : Nowhere(m) => Nowhere(m)'
        BY <1>5, <2>2, NowhereStays
      <3>3. ASSUME NEW i \in DOMAIN batch
            PROVE  /\ batch[i] \in Feedback!Messages /\ group[batch[i]] = "pending" /\ Nowhere(batch[i])
        OBVIOUS
      <3>4. ASSUME NEW i \in DOMAIN batch'
            PROVE  group'[batch'[i]] = "pending" /\ Nowhere(batch[i])'
        BY <1>5, <3>1, <3>2, <3>3 DEF Nowhere, Feedback!InS3
      <3> QED BY <1>1, <1>5, <3>4
    <2> QED BY <1>4, <2>1, <2>2
  <1> QED
    BY <1>2, <1>3, <1>4, <1>5
    DEF Feedback!Next, feedbackVars, Feedback!Post, Feedback!ReadFails, Feedback!AckFails,
       Feedback!Stop, Feedback!BeginFlush, Feedback!SkipFlush, Feedback!PutSucceeds,
          Feedback!PutFails,
        Feedback!End, Feedback!Crash, Feedback!Start, Feedback!Tick

\* A flush begins when nothing is in hand, and nothing is read until it ends.
LEMMA FlushIsAloneStep ==
  ASSUME FeedbackInv, [Feedback!Next]_feedbackVars
  PROVE  FlushIsAlone'
  BY DEF FeedbackInv, FlushIsAlone, Feedback!Next, feedbackVars, Feedback!Post,
     Feedback!Read, Feedback!ReadFails, Feedback!Looping, Feedback!Handle, Feedback!AckFails,
        Feedback!Stop,
     Feedback!BeginFlush, Feedback!SkipFlush, Feedback!PutSucceeds, Feedback!PutFails,
        Feedback!End, Feedback!Crash, Feedback!Start, Feedback!Tick

\* The items in memory, and where they go.
LEMMA MemoryAndStore ==
  ASSUME FeedbackInv, [Feedback!Next]_feedbackVars, NEW m \in Feedback!Messages
  PROVE  /\ m \in Feedback!InMemory' => m \in Feedback!InMemory \/ (batch # <<>> /\ m = Head(batch))
         /\ Feedback!InS3(m)' => Feedback!InS3(m) \/ m \in Feedback!InMemory
         /\ m \in Feedback!InMemory' /\ Feedback!InS3(m)' => m \in doubted' \/ Feedback!InS3(m)
         /\ m \in Feedback!InMemory \/ Feedback!InS3(m) => m \in Feedback!InMemory' \/ Feedback!InS3(m)' \/ m \in gone'
  <1> USE DEF FeedbackInv, Feedback!InMemory
  <1>0. CASE UNCHANGED <<buffer, put, object>>
    BY <1>0 DEF Feedback!InS3
  <1>1. CASE Feedback!Handle \/ Feedback!AckFails
    BY <1>1 DEF Feedback!Handle, Feedback!AckFails, Feedback!InS3
  <1>2. CASE Feedback!BeginFlush
    <2>1. put = Feedback!NoPut /\ put' = [key |-> clock, items |-> buffer] /\ buffer' = {}
          /\ object' = object /\ clock \in Feedback!Seconds
      BY <1>2 DEF Feedback!BeginFlush, Feedback!Looping, Feedback!TypeOK
    <2>2. Feedback!InMemory' = Feedback!InMemory
      BY <2>1, NoPutIsNoPut
    <2> QED BY <2>1, <2>2 DEF Feedback!InS3
  <1>3. CASE Feedback!PutSucceeds
    <2>1. /\ put # Feedback!NoPut /\ put' = Feedback!NoPut /\ buffer' = buffer /\ buffer = {}
          /\ object' = [object EXCEPT ![put.key] = Feedback!Stored]
          /\ gone' = gone \cup Feedback!Overwritten
      BY <1>3 DEF Feedback!PutSucceeds, FlushIsAlone
    <2> QED BY <2>1, PutStores, PutTypes
  <1>4. CASE Feedback!PutFails
    <2>1. /\ put # Feedback!NoPut /\ put' = Feedback!NoPut
          /\ buffer' = IF running = "stopping" THEN {} ELSE buffer \cup put.items
          /\ running = "stopping" => put.items \subseteq gone' /\ buffer = {}
      BY <1>4 DEF Feedback!PutFails, FlushIsAlone
    <2>2. CASE UNCHANGED object
      BY <2>1, <2>2 DEF Feedback!InS3
    <2>3. CASE /\ object' = [object EXCEPT ![put.key] = Feedback!Stored]
               /\ doubted' = doubted \cup put.items
               /\ gone' = gone \cup Feedback!Overwritten \cup (IF running = "stopping" THEN put.items ELSE {})
      BY <2>1, <2>3, PutStores DEF FlushIsAlone
    <2> QED BY <1>4, <2>2, <2>3 DEF Feedback!PutFails
  <1>5. CASE Feedback!Crash
    <2>1. put' = Feedback!NoPut /\ buffer' = {} /\ Feedback!InMemory \subseteq gone'
      BY <1>5 DEF Feedback!Crash
    <2>2. CASE UNCHANGED object
      BY <2>1, <2>2 DEF Feedback!InS3
    <2>3. CASE put # Feedback!NoPut /\ object' = [object EXCEPT ![put.key] = Feedback!Stored] /\ Feedback!Overwritten \subseteq gone'
      BY <2>1, <2>3, PutStores
    <2> QED BY <1>5, <2>2, <2>3 DEF Feedback!Crash
  <1> QED
    BY <1>0, <1>1, <1>2, <1>3, <1>4, <1>5
    DEF Feedback!Next, feedbackVars, Feedback!Post, Feedback!Read, Feedback!ReadFails,
       Feedback!Stop, Feedback!SkipFlush, Feedback!End, Feedback!Start, Feedback!Tick

\* What was lost or doubted once stays so.
LEMMA HistoryGrows ==
  ASSUME [Feedback!Next]_feedbackVars
  PROVE  gone \subseteq gone' /\ unsure \subseteq unsure' /\ doubted \subseteq doubted'
  BY DEF Feedback!Next, feedbackVars, Feedback!Post, Feedback!Read, Feedback!ReadFails,
     Feedback!Handle, Feedback!AckFails, Feedback!Stop, Feedback!BeginFlush, Feedback!SkipFlush,
     Feedback!PutSucceeds, Feedback!PutFails, Feedback!End, Feedback!Crash, Feedback!Start,
        Feedback!Tick

\* What goes to S3 leaves memory, unless the put seemed to fail.
LEMMA MemoryStep ==
  ASSUME Feedback!FeedbackAssumption, FeedbackInv, [Feedback!Next]_feedbackVars
  PROVE  MemoryIsNotStored'
  <1>1. Feedback!InMemory' \subseteq Feedback!Messages
    <2>1. Feedback!TypeOK'
      BY FeedbackTypesStep DEF FeedbackInv
    <2> QED BY <2>1 DEF Feedback!TypeOK, Feedback!InMemory
  <1>2. ASSUME NEW m \in Feedback!Messages, m \in Feedback!InMemory',
     Feedback!InS3(m)' PROVE m \in doubted'
    <2>1. m \in doubted' \/ Feedback!InS3(m)
      BY <1>2, MemoryAndStore
    <2>2. CASE m \in Feedback!InMemory
      BY <2>1, <2>2, HistoryGrows DEF FeedbackInv, MemoryIsNotStored
    <2>3. CASE batch # <<>> /\ m = Head(batch)
      BY <2>1, <2>3, BatchParts DEF FeedbackInv, UnhandledIsNowhere, Nowhere
    <2> QED BY <1>2, <2>2, <2>3, MemoryAndStore
  <1> QED BY <1>1, <1>2 DEF MemoryIsNotStored, Feedback!InS3

\* What is acknowledged goes from memory to S3, or is lost and known to be.
LEMMA AckedStep ==
  ASSUME FeedbackInv, [Feedback!Next]_feedbackVars
  PROVE  Feedback!AckedIsKept'
  <1> USE DEF FeedbackInv
  <1> SUFFICES ASSUME NEW m \in Feedback!Messages, group'[m] = "acked"
               PROVE  m \in Feedback!InMemory' \/ Feedback!InS3(m)' \/ m \in gone'
    BY DEF Feedback!AckedIsKept, Feedback!InS3
  <1>1. CASE group[m] = "acked"
    BY <1>1, MemoryAndStore, HistoryGrows DEF Feedback!AckedIsKept
  <1>2. CASE (Feedback!Handle \/ Feedback!AckFails) /\ m = Head(batch)
    BY <1>2 DEF Feedback!Handle, Feedback!AckFails, Feedback!InMemory
  <1>3. CASE group[m] # "acked" /\ ~((Feedback!Handle \/ Feedback!AckFails) /\ m = Head(batch))
    BY <1>3 DEF Feedback!TypeOK, Feedback!Next, feedbackVars, Feedback!Post, Feedback!Read,
       Feedback!ReadFails, Feedback!Handle, Feedback!AckFails, Feedback!Stop,
          Feedback!BeginFlush,
       Feedback!SkipFlush, Feedback!PutSucceeds, Feedback!PutFails, Feedback!End,
          Feedback!Crash, Feedback!Start, Feedback!Tick
  <1> QED BY <1>1, <1>2, <1>3

\* What leaves the batch is acknowledged, or known to be unsure.
LEMMA PendingStep ==
  ASSUME Feedback!FeedbackAssumption, FeedbackInv, [Feedback!Next]_feedbackVars
  PROVE  Feedback!PendingIsInHand'
  <1> USE DEF FeedbackInv, Feedback!TypeOK, Feedback!PendingIsInHand
  <1>1. CASE Feedback!Read
    <2>1. PICK n \in 1 .. posted :
             /\ batch' = [i \in 1 .. posted - n + 1 |-> n + i - 1]
             /\ group' = [m \in Feedback!Messages |-> IF m \in n .. posted THEN "pending" ELSE group[m]]
      BY <1>1 DEF Feedback!Read
    <2>2. ASSUME NEW m \in Feedback!Messages,
       m \in n .. posted PROVE \E i \in DOMAIN batch' : batch'[i] = m
      <3>1. m - n + 1 \in DOMAIN batch' /\ batch'[m - n + 1] = m
        BY <2>1, <2>2 DEF Feedback!FeedbackAssumption
      <3> QED BY <3>1
    <2>3. batch = <<>> /\ unsure' = unsure
      BY <1>1 DEF Feedback!Read, Feedback!Looping
    <2>4. \A m \in Feedback!Messages : group[m] = "pending" => m \in unsure'
      BY <2>3
    <2>5. \A m \in Feedback!Messages : group'[m] = "pending" => m \in n .. posted \/ group[m] = "pending"
      BY <2>1
    <2> QED BY <2>2, <2>4, <2>5
  <1>2. CASE Feedback!ReadFails
    <2>1. batch = <<>> /\ batch' = batch
      BY <1>2 DEF Feedback!ReadFails, Feedback!Looping
    <2>2. \A m \in Feedback!Messages : group'[m] = "pending" => group[m] = "pending" \/ m \in unsure'
      BY <1>2 DEF Feedback!ReadFails
    <2> QED BY <2>1, <2>2, HistoryGrows
  <1>3. CASE Feedback!Handle
    <2>1. /\ batch # <<>> /\ batch' = Tail(batch) /\ unsure' = unsure
          /\ group' = [group EXCEPT ![Head(batch)] = "acked"]
      BY <1>3 DEF Feedback!Handle
    <2> SUFFICES ASSUME NEW m \in Feedback!Messages, group'[m] = "pending", m \notin unsure'
                 PROVE  \E i \in DOMAIN batch' : batch'[i] = m
      OBVIOUS
    <2>2. m # Head(batch) /\ group[m] = "pending"
      BY <2>1
    <2>3. PICK i \in DOMAIN batch : batch[i] = m
      BY <2>1, <2>2
    <2>4. i # 1 /\ i - 1 \in DOMAIN batch' /\ batch'[i - 1] = m
      <3>1. i # 1
        BY <2>1, <2>2, <2>3, BatchParts
      <3>2. i - 1 \in DOMAIN Tail(batch) /\ i \in Nat
        BY <2>1, <3>1, BatchParts
      <3>3. Tail(batch)[i - 1] = batch[(i - 1) + 1]
        BY <2>1, <3>2, BatchParts
      <3> QED BY <2>1, <2>3, <3>1, <3>2, <3>3
    <2> QED BY <2>4
  <1>4. CASE Feedback!AckFails \/ Feedback!Crash
    <2>1. /\ unsure' = unsure \cup {batch[i] : i \in DOMAIN batch}
          /\ \A m \in Feedback!Messages : group'[m] = "pending" => group[m] = "pending"
      BY <1>4 DEF Feedback!AckFails, Feedback!Crash
    <2> QED BY <2>1
  <1>5. CASE UNCHANGED <<group, batch, unsure>>
    BY <1>5
  <1> QED
    BY <1>1, <1>2, <1>3, <1>4, <1>5
    DEF Feedback!Next, feedbackVars, Feedback!Post, Feedback!Stop, Feedback!BeginFlush,
       Feedback!SkipFlush, Feedback!PutSucceeds, Feedback!PutFails, Feedback!End,
          Feedback!Start, Feedback!Tick

\* A put never stores what another has stored, unless that seemed to fail.
LEMMA StoredOnceStep ==
  ASSUME FeedbackInv, [Feedback!Next]_feedbackVars
  PROVE  Feedback!StoredOnce'
  <1> USE DEF FeedbackInv
  <1> SUFFICES ASSUME NEW m \in Feedback!Messages, m \notin doubted',
     NEW j \in Feedback!Seconds, NEW k \in Feedback!Seconds,
                      m \in object'[j], m \in object'[k]
               PROVE  j = k
    BY DEF Feedback!StoredOnce
  <1>1. CASE UNCHANGED object
    BY <1>1, HistoryGrows DEF Feedback!StoredOnce
  <1>2. CASE put # Feedback!NoPut /\ object' = [object EXCEPT ![put.key] = Feedback!Stored]
    <2>1. m \in put.items => ~Feedback!InS3(m)
      BY <1>2, HistoryGrows, PutTypes DEF MemoryIsNotStored
    <2> QED BY <1>2, <2>1, PutStores, HistoryGrows DEF Feedback!StoredOnce, Feedback!InS3
  <1> QED
    BY <1>1, <1>2
    DEF Feedback!Next, feedbackVars, Feedback!Post, Feedback!Read, Feedback!ReadFails,
       Feedback!Handle, Feedback!AckFails, Feedback!Stop, Feedback!BeginFlush,
          Feedback!SkipFlush,
        Feedback!PutSucceeds, Feedback!PutFails, Feedback!End, Feedback!Crash,
           Feedback!Start, Feedback!Tick

-------------------------------------------------------------------------------
(* The invariant.                                                            *)

\* The stream begins with all of it.
LEMMA FeedbackBegins ==
  ASSUME Feedback!FeedbackAssumption, Feedback!Init
  PROVE  FeedbackInv
  BY DEF Feedback!Init, FeedbackInv, Feedback!TypeOK, Feedback!FeedbackAssumption,
     Feedback!Messages, Feedback!Seconds, DeliveredInOrder, UnhandledIsNowhere, Nowhere,
     Feedback!InMemory, Feedback!InS3, Feedback!NoPut, BatchHasNoRepeats, FlushIsAlone,
     MemoryIsNotStored, Feedback!AckedIsKept, Feedback!PendingIsInHand, Feedback!StoredOnce

\* Every step of the stream and its consumer keeps it.
LEMMA FeedbackInvStep ==
  ASSUME Feedback!FeedbackAssumption, FeedbackInv, [Feedback!Next]_feedbackVars
  PROVE  FeedbackInv'
  <1>1. Feedback!TypeOK'
    BY FeedbackTypesStep DEF FeedbackInv
  <1> QED
    BY <1>1, DeliveredInOrderStep, UnhandledStep, FlushIsAloneStep, MemoryStep, AckedStep,
       PendingStep, StoredOnceStep DEF FeedbackInv

-------------------------------------------------------------------------------
(* FieldValidation: the fields of one request.                              *)

\* A field has a slot.
Holds(r) == r.stage \in {"calling", "backoff"}

\* A field is through.
Over(r) == r.stage \in {"done", "thrown"}

\* What is known of a field at each of its stages.
FieldIsSound(r) ==
    /\ r.stage \in {"new", "waiting"} =>
          r.model = "primary" /\ r.attempt = 1 /\ r.calls = 0
    /\ r.stage = "new" => (r.review <=> r.flagged)
    /\ r.stage \in {"waiting", "calling", "backoff"} =>
          r.known /\ (r.review <=> r.flagged \/ r.suspect)
    /\ r.stage = "backoff" => r.attempt < MaxAttempts
    /\ Holds(r) /\ r.model = "primary" => r.calls = r.attempt
    /\ r.model = "fallback" => r.attempt < r.calls /\ r.calls <= MaxAttempts + r.attempt
    /\ r.stage = "thrown" <=> r.opinion = "garbled"
    /\ ~Over(r) => r.opinion = "none"
    /\ r.stage = "done" =>
          /\ r.review <=> r.flagged \/ (r.known /\ (r.suspect \/ r.opinion = "implausible"))
          /\ r.opinion = "none" => ~r.known \/ (r.model = "fallback" /\ r.calls >= 2)

\* The fields with an opinion.
Voiced == {f \in Fields : field[f].opinion # "none"}

\* What holds of a request at every step.
ValidationInv ==
    /\ TypeOK
    /\ \A f \in Fields : FieldIsSound(field[f])
    /\ free = Slots - Cardinality(Holding)
    /\ modelCalls = Cardinality(Voiced)
    /\ request = "failed" <=> \E f \in Fields : field[f].opinion = "garbled"
    /\ request = "answered" => \A f \in Fields : field[f].stage = "done"

-------------------------------------------------------------------------------
(* The step of one field.                                                    *)

\* What field f has become is r, and the rest follows.
Became(f, r) ==
    /\ field' = [field EXCEPT ![f] = r]
    /\ ~Over(field[f])
    /\ free' = free + (IF Holds(field[f]) THEN 1 ELSE 0) - (IF Holds(r) THEN 1 ELSE 0)
    /\ Holds(r) /\ ~Holds(field[f]) => free > 0
    /\ modelCalls' = modelCalls + (IF r.opinion # "none" THEN 1 ELSE 0)
    /\ request' = IF r.opinion = "garbled" /\ request = "running" THEN "failed" ELSE request

\* The step of a field makes it another that is sound.
LEMMA FieldStep ==
  ASSUME ValidationAssumption, TypeOK, NEW f \in Fields, FieldIsSound(field[f]), Step(f)
  PROVE  \E r \in Field : FieldIsSound(r) /\ Became(f, r)
  <1> DEFINE s == field[f]
  <1> USE DEF ValidationAssumption, FieldIsSound, Became, Holds, Over, Update
  <1>0. /\ s \in Field
        /\ free \in Int /\ modelCalls \in Int
    BY DEF TypeOK
  <1>1. CASE Examine(f)
    <2>1. CASE s.known
      <3> DEFINE r == [s EXCEPT !.stage = "waiting", !.review = Flagged(s)]
      <3>1. r \in Field
        BY <1>0 DEF Field, Flagged, Stages
      <3>2. Became(f, r)
        BY <1>0, <1>1, <2>1 DEF Examine, Field
      <3>3. FieldIsSound(r)
        BY <1>0, <1>1, <2>1 DEF Examine, Field, Flagged
      <3> QED BY <3>1, <3>2, <3>3
    <2>2. CASE ~s.known
      <3> DEFINE r == [s EXCEPT !.stage = "done"]
      <3>1. r \in Field
        BY <1>0 DEF Field, Stages
      <3>2. Became(f, r)
        BY <1>0, <1>1, <2>2 DEF Examine, Field
      <3>3. FieldIsSound(r)
        BY <1>0, <1>1, <2>2 DEF Examine, Field
      <3> QED BY <3>1, <3>2, <3>3
    <2> QED BY <2>1, <2>2
  <1>2. CASE Acquire(f)
    <2> DEFINE r == Called(s)
    <2>1. r \in Field
      <3>1. s.calls = 0 /\ s.calls + 1 \in 0 .. 2 * MaxAttempts
        BY <1>0, <1>2 DEF Acquire
      <3> QED BY <1>0, <3>1 DEF Called, Field, Stages
    <2>2. Became(f, r)
      BY <1>0, <1>2 DEF Acquire, Called, Field
    <2>3. FieldIsSound(r)
      BY <1>0, <1>2 DEF Acquire, Called, Field
    <2> QED BY <2>1, <2>2, <2>3
  <1>3. CASE Pause(f)
    <2> DEFINE r == [s EXCEPT !.stage = "backoff"]
    <2>1. r \in Field
      BY <1>0 DEF Field, Stages
    <2>2. Became(f, r)
      BY <1>0, <1>3 DEF Pause, Field
    <2>3. FieldIsSound(r)
      BY <1>0, <1>3 DEF Pause, MayRetry, Field
    <2> QED BY <2>1, <2>2, <2>3
  <1>4. CASE Retry(f)
    <2> DEFINE r == [Called(s) EXCEPT !.attempt = @ + 1]
    <2>1. s.stage = "backoff" /\ s.attempt < MaxAttempts /\ s.calls <= MaxAttempts + s.attempt
      BY <1>0, <1>4 DEF Retry, Field, Models
    <2>2. r \in Field
      <3>1. s.calls + 1 \in 0 .. 2 * MaxAttempts /\ s.attempt + 1 \in 1 .. MaxAttempts
        BY <1>0, <2>1 DEF Field
      <3> QED BY <1>0, <3>1 DEF Called, Field, Stages
    <2>3. Became(f, r)
      BY <1>0, <1>4 DEF Retry, Called, Field
    <2>4. FieldIsSound(r)
      BY <1>0, <2>1 DEF Called, Field
    <2> QED BY <2>2, <2>3, <2>4
  <1>5. CASE FallBack(f)
    <2> DEFINE r == [Called(s) EXCEPT !.model = "fallback", !.attempt = 1]
    <2>1. s.stage = "calling" /\ s.model = "primary" /\ s.calls = s.attempt
      BY <1>5 DEF FallBack
    <2>2. r \in Field
      <3>1. s.calls + 1 \in 0 .. 2 * MaxAttempts /\ 1 \in 1 .. MaxAttempts
        BY <1>0, <2>1 DEF Field
      <3> QED BY <1>0, <3>1 DEF Called, Field, Stages, Models
    <2>3. Became(f, r)
      BY <1>0, <1>5 DEF FallBack, Called, Field
    <2>4. FieldIsSound(r)
      BY <1>0, <2>1 DEF Called, Field
    <2> QED BY <2>2, <2>3, <2>4
  <1>6. CASE GiveUp(f)
    <2> DEFINE r == [s EXCEPT !.stage = "done"]
    <2>1. r \in Field
      BY <1>0 DEF Field, Stages
    <2>2. Became(f, r)
      BY <1>0, <1>6 DEF GiveUp, Field
    <2>3. FieldIsSound(r)
      BY <1>0, <1>6 DEF GiveUp, Field
    <2> QED BY <2>1, <2>2, <2>3
  <1>7. ASSUME NEW o \in Opinions \ {"none"}, Respond(f, o)
        PROVE  \E r \in Field : FieldIsSound(r) /\ Became(f, r)
    <2> DEFINE r == Read(s, o)
    <2>1. r \in Field
      BY <1>0 DEF Read, Field, Stages, Opinions
    <2>2. Became(f, r)
      BY <1>0, <1>7 DEF Respond, Read, Field
    <2>3. FieldIsSound(r)
      BY <1>0, <1>7 DEF Respond, Read, Field, Opinions
    <2> QED BY <2>1, <2>2, <2>3
  <1> QED BY <1>1, <1>2, <1>3, <1>4, <1>5, <1>6, <1>7 DEF Step

-------------------------------------------------------------------------------
(* What it makes of the whole.                                               *)

\* Sets of fields that satisfy P, when one field changes.
LEMMA OneMember ==
  ASSUME IsFiniteSet(Fields), NEW S \in SUBSET Fields, NEW T \in SUBSET Fields,
         NEW f \in Fields, T \ {f} = S \ {f}
  PROVE  /\ Cardinality(S) \in Nat /\ Cardinality(S) <= Cardinality(Fields)
         /\ Cardinality(T) = Cardinality(S) + (IF f \in T THEN 1 ELSE 0)
                                            - (IF f \in S THEN 1 ELSE 0)
  <1>1. IsFiniteSet(S) /\ IsFiniteSet(T) /\ Cardinality(S) <= Cardinality(Fields)
    BY FS_Subset
  <1>2. Cardinality(S) \in Nat /\ Cardinality(T) \in Nat
    BY <1>1, FS_CardinalityType
  <1>3. CASE f \in S /\ f \in T
    <2>1. S = T
      BY <1>3
    <2> QED BY <1>1, <1>2, <1>3, <2>1
  <1>4. CASE f \notin S /\ f \notin T
    <2>1. S = T
      BY <1>4
    <2> QED BY <1>1, <1>2, <1>4, <2>1
  <1>5. CASE f \in S /\ f \notin T
    <2>1. T = S \ {f}
      BY <1>5
    <2>2. Cardinality(T) = Cardinality(S) - 1
      BY <1>1, <1>5, <2>1, FS_RemoveElement
    <2> QED BY <1>1, <1>2, <1>5, <2>2
  <1>6. CASE f \notin S /\ f \in T
    <2>1. T = S \cup {f}
      BY <1>6
    <2>2. Cardinality(T) = Cardinality(S) + 1
      BY <1>1, <1>6, <2>1, FS_AddElement
    <2> QED BY <1>1, <1>2, <1>6, <2>2
  <1> QED BY <1>3, <1>4, <1>5, <1>6

\* A field that becomes a sound one keeps the count of slots and of opinions.
LEMMA BecameKeepsInv ==
  ASSUME ValidationAssumption, ValidationInv, NEW f \in Fields, NEW r \in Field,
     FieldIsSound(r),
         Became(f, r)
  PROVE  ValidationInv'
  <1> USE DEF ValidationInv, TypeOK
  <1>1. /\ field' \in [Fields -> Field] /\ field'[f] = r
        /\ \A g \in Fields \ {f} : field'[g] = field[g]
    BY DEF Became
  <1>2. \A g \in Fields : FieldIsSound(field[g])'
    BY <1>1 DEF FieldIsSound, Holds, Over
  <1>3. free' = Slots - Cardinality(Holding)' /\ free' \in 0 .. Slots
    <2>1. Holding' \in SUBSET Fields /\ Holding \in SUBSET Fields /\ Holding' \ {f} = Holding \ {f}
      BY <1>1 DEF Holding
    <2>2. (f \in Holding' <=> Holds(r)) /\ (f \in Holding <=> Holds(field[f]))
      BY <1>1 DEF Holding, Holds
    <2>3. /\ Cardinality(Holding) \in Nat /\ Cardinality(Holding') \in Nat
          /\ Cardinality(Holding') = Cardinality(Holding) + (IF f \in Holding' THEN 1 ELSE 0)
                                                          - (IF f \in Holding THEN 1 ELSE 0)
      BY <2>1, OneMember DEF ValidationAssumption
    <2> HIDE DEF Holding
    <2>4. free' = free + (IF f \in Holding THEN 1 ELSE 0) - (IF f \in Holding' THEN 1 ELSE 0)
          /\ (f \in Holding' /\ f \notin Holding => free > 0)
      BY <2>2 DEF Became
    <2> QED BY <2>3, <2>4 DEF ValidationAssumption
  <1>4. modelCalls' = Cardinality(Voiced)' /\ modelCalls' \in 0 .. Cardinality(Fields)
    <2>1. Voiced' \in SUBSET Fields /\ Voiced \in SUBSET Fields /\ Voiced' \ {f} = Voiced \ {f}
      BY <1>1 DEF Voiced
    <2>2. (f \in Voiced' <=> r.opinion # "none") /\ f \notin Voiced
      BY <1>1 DEF Voiced, Became, FieldIsSound
    <2>3. /\ Cardinality(Voiced) \in Nat /\ Cardinality(Voiced') \in Nat
          /\ Cardinality(Voiced') <= Cardinality(Fields) /\ Cardinality(Fields) \in Nat
          /\ Cardinality(Voiced') = Cardinality(Voiced) + (IF f \in Voiced' THEN 1 ELSE 0)
                                                        - (IF f \in Voiced THEN 1 ELSE 0)
      BY <2>1, OneMember, FS_CardinalityType DEF ValidationAssumption
    <2>4. modelCalls' = modelCalls + (IF f \in Voiced' THEN 1 ELSE 0)
      BY <2>2 DEF Became
    <2> QED BY <2>2, <2>3, <2>4
  <1>5. request # "answered"
    BY DEF Became, Over
  <1>6. (request' = "failed" <=> \E g \in Fields : field'[g].opinion = "garbled")
        /\ request' \in {"running", "failed"}
    BY <1>1, <1>5 DEF Became, FieldIsSound
  <1> QED BY <1>1, <1>2, <1>3, <1>4, <1>6

-------------------------------------------------------------------------------
(* The theorems.                                                             *)

\* A request begins with all of it.
LEMMA ValidationBegins ==
  ASSUME ValidationAssumption, Init
  PROVE  ValidationInv
  <1>1. \A k, s, g \in BOOLEAN : Fresh(k, s, g) \in Field
    BY DEF Fresh, Field, Stages, Models, Opinions, ValidationAssumption
  <1>2. \A f \in Fields : \E k, s, g \in BOOLEAN : field[f] = Fresh(k, s, g)
    BY DEF Init
  <1>3. \A f \in Fields : field[f].stage = "new" /\ field[f].opinion = "none"
                          /\ FieldIsSound(field[f])
    <2>1. \A k, s, g \in BOOLEAN :
             /\ Fresh(k, s, g).stage = "new" /\ Fresh(k, s, g).opinion = "none"
             /\ FieldIsSound(Fresh(k, s, g))
      BY DEF Fresh, FieldIsSound, Holds, Over
    <2> QED BY <1>2, <2>1
  <1>4. Holding = {} /\ Voiced = {} /\ field \in [Fields -> Field]
    BY <1>1, <1>3 DEF Holding, Voiced, Init
  <1> QED
    BY <1>3, <1>4, FS_EmptySet, FS_CardinalityType
    DEF Init, ValidationInv, TypeOK, ValidationAssumption

\* Every step of a request keeps what holds.
LEMMA ValidationInvStep ==
  ASSUME ValidationAssumption, ValidationInv, [Next]_vars
  PROVE  ValidationInv'
  <1>1. ASSUME NEW f \in Fields, Step(f) PROVE ValidationInv'
    BY <1>1, FieldStep, BecameKeepsInv DEF ValidationInv
  <1>2. CASE Answer
    <2>1. /\ field' = field /\ free' = free /\ modelCalls' = modelCalls
          /\ request = "running" /\ request' = "answered"
          /\ \A f \in Fields : field[f].stage = "done"
      BY <1>2 DEF Answer
    <2>2. Holding' = Holding /\ Voiced' = Voiced
      BY <2>1 DEF Holding, Voiced
    <2> QED BY <2>1, <2>2 DEF ValidationInv, TypeOK, FieldIsSound, Holds, Over
  <1>3. CASE UNCHANGED vars
    BY <1>3 DEF vars, ValidationInv, TypeOK, FieldIsSound, Holds, Over, Holding, Voiced
  <1> QED BY <1>1, <1>2, <1>3 DEF Next

\* What holds of a request implies its properties.
LEMMA ValidationInvSuffices ==
  ASSUME ValidationInv
  PROVE  ValidationIsSound
  <1>1. SlotsAreReturned
    BY DEF ValidationInv, TypeOK, Field, SlotsAreReturned
  <1>2. AnswerIsSound
    BY DEF ValidationInv, AnswerIsSound, Voiced, FieldIsSound
  <1> QED BY <1>1, <1>2 DEF ValidationInv, ValidationIsSound

-------------------------------------------------------------------------------
(* Numbers: the least and the largest of a set, and totals, by induction on its *)
(* size: a smallest set of which a fact does not hold has none below.           *)

\* A set of numbers has a least one.
LEMMA LeastOf ==
  ASSUME NEW T \in SUBSET Nat, T # {}
  PROVE  \E n \in T : \A m \in T : n <= m
  <1> DEFINE Less == OpToRel(<, Nat)
  <1>1. IsWellFoundedOn(Less, Nat)
    BY NatLessThanWellFounded
  <1>2. \A m, n \in Nat : m < n => <<m, n>> \in Less
    BY DEF OpToRel
  <1> HIDE DEF Less
  <1>3. PICK n \in T : \A m \in T : ~ (<<m, n>> \in Less)
    BY <1>1, WFMin
  <1>4. ASSUME NEW m \in T PROVE n <= m
    <2>1. n \in Nat /\ m \in Nat /\ ~ (m < n)
      BY <1>2, <1>3
    <2> QED BY <2>1
  <1> QED BY <1>4

\* The element that comes next in a total, a function that adds up the sets of fewer than n
\* elements of the domain of h, and one that adds up all.
Picked(s) == CHOOSE x \in s : TRUE
Sums(g, h, n) == [s \in {s \in SUBSET DOMAIN h : Cardinality(s) < n} |->
                    IF s = {} THEN 0 ELSE h[Picked(s)] + g[s \ {Picked(s)}]]
Sum(g, h) == [s \in SUBSET DOMAIN h |-> IF s = {} THEN 0 ELSE h[Picked(s)] + g[s \ {Picked(s)}]]

\* What is left of a finite set without the element that is picked of it is smaller.
LEMMA OneLess ==
  ASSUME NEW S, IsFiniteSet(S), NEW s \in SUBSET S, s # {}
  PROVE  /\ Picked(s) \in s
         /\ s \ {Picked(s)} \in SUBSET S
         /\ IsFiniteSet(s)
         /\ Cardinality(s \ {Picked(s)}) = Cardinality(s) - 1
         /\ Cardinality(s) \in Nat
         /\ Cardinality(s \ {Picked(s)}) \in Nat
  <1>1. Picked(s) \in s
    BY DEF Picked
  <1>2. IsFiniteSet(s)
    BY FS_Subset
  <1> QED BY <1>1, <1>2, FS_RemoveElement, FS_CardinalityType

\* The recursive function that adds up a finite function exists: for sets of fewer than n
\* elements by induction on n, and so for all.
LEMMA SumsExist ==
  ASSUME NEW h, IsFiniteSet(DOMAIN h)
  PROVE  \E g : g = Sum(g, h)
  <1> DEFINE N == {n \in Nat : ~ \E g : g = Sums(g, h, n)}
  <1>1. N = {}
    <2> SUFFICES ASSUME N # {} PROVE FALSE
      OBVIOUS
    <2>1. PICK n \in N : \A m \in N : n <= m
      BY LeastOf
    <2>2. ~ \E g : g = Sums(g, h, n)
      OBVIOUS
    <2>3. n # 0
      <3> SUFFICES ASSUME n = 0 PROVE FALSE
        OBVIOUS
      <3>1. \A s \in SUBSET DOMAIN h : ~ (Cardinality(s) < 0)
        BY FS_Subset, FS_CardinalityType
      <3> DEFINE e == [s \in {} |-> 0]
      <3>2. e = Sums(e, h, 0)
        BY <3>1 DEF Sums
      <3> QED BY <2>2, <3>2
    <2>4. PICK g : g = Sums(g, h, n - 1)
      BY <2>1, <2>3
    <2> DEFINE f == [s \in {s \in SUBSET DOMAIN h : Cardinality(s) < n} |->
                        IF s = {} THEN 0 ELSE h[Picked(s)] + g[s \ {Picked(s)}]]
    <2>5. ASSUME NEW s \in SUBSET DOMAIN h, Cardinality(s) < n - 1
          PROVE  f[s] = g[s]
      <3>1. g[s] = IF s = {} THEN 0 ELSE h[Picked(s)] + g[s \ {Picked(s)}]
        BY <2>4, <2>5 DEF Sums
      <3>2. Cardinality(s) \in Nat
        BY FS_Subset, FS_CardinalityType
      <3> QED BY <2>1, <2>5, <3>1, <3>2
    <2>6. f = Sums(f, h, n)
      <3>1. ASSUME NEW s \in SUBSET DOMAIN h, Cardinality(s) < n, s # {}
            PROVE  g[s \ {Picked(s)}] = f[s \ {Picked(s)}]
        <4>1. /\ s \ {Picked(s)} \in SUBSET DOMAIN h
              /\ Cardinality(s \ {Picked(s)}) < n - 1
          <5> HIDE DEF f, N
          <5> QED BY <2>1, <3>1, OneLess DEF N
        <4> HIDE DEF f
        <4> QED BY <2>5, <4>1
      <3> QED BY <3>1 DEF Sums
    <2> HIDE DEF f
    <2> QED BY <2>2, <2>6
  <1>2. Cardinality(DOMAIN h) + 1 \in Nat
    BY FS_CardinalityType
  <1>3. PICK g : g = Sums(g, h, Cardinality(DOMAIN h) + 1)
    BY <1>1, <1>2
  <1>4. {s \in SUBSET DOMAIN h : Cardinality(s) < Cardinality(DOMAIN h) + 1} = SUBSET DOMAIN h
    BY FS_Subset, FS_CardinalityType
  <1>5. g = Sum(g, h)
    BY <1>3, <1>4 DEF Sums, Sum
  <1> QED BY <1>5

\* A total is the value of that function.
LEMMA SumIs ==
  ASSUME NEW h, IsFiniteSet(DOMAIN h)
  PROVE  \E g : Pipeline!Total(h) = g[DOMAIN h] /\ g = Sum(g, h)
  <1> DEFINE g == CHOOSE g : g = Sum(g, h)
  <1>1. Pipeline!Total(h) = g[DOMAIN h]
    BY DEF Pipeline!Total, Pipeline!MapThenSumSet, Pipeline!MapThenFoldSet, Sum, Picked
  <1>2. g = Sum(g, h)
    BY SumsExist
  <1> QED BY <1>1, <1>2

\* A total of numbers that are at most c times their weights is at most c times the total of
\* the weights.
LEMMA SumBound ==
  ASSUME NEW S, IsFiniteSet(S), NEW h \in [S -> Nat], NEW w \in [S -> Nat], NEW c \in Nat,
         \A x \in S : h[x] <= c * w[x]
  PROVE  /\ Pipeline!Total(h) \in Nat /\ Pipeline!Total(w) \in Nat
         /\ Pipeline!Total(h) <= c * Pipeline!Total(w)
  <1>1. PICK g : Pipeline!Total(h) = g[S] /\ g = Sum(g, h)
    BY SumIs
  <1>2. PICK k : Pipeline!Total(w) = k[S] /\ k = Sum(k, w)
    BY SumIs
  <1> DEFINE Good(s) == g[s] \in Nat /\ k[s] \in Nat /\ g[s] <= c * k[s]
             Bad == {n \in Nat : \E s \in SUBSET S : Cardinality(s) = n /\ ~Good(s)}
  <1>3. Bad = {}
    <2> SUFFICES ASSUME Bad # {} PROVE FALSE
      OBVIOUS
    <2>1. PICK n \in Bad : \A m \in Bad : n <= m
      BY LeastOf
    <2>2. PICK s \in SUBSET S : Cardinality(s) = n /\ ~Good(s)
      OBVIOUS
    <2>3. s # {}
      <3>1. g[{}] = 0 /\ k[{}] = 0
        BY <1>1, <1>2 DEF Sum
      <3>2. Good({})
        BY <3>1
      <3> HIDE DEF Good
      <3> QED BY <2>2, <3>2
    <2> DEFINE t == s \ {Picked(s)}
    <2>4. Picked(s) \in S /\ t \in SUBSET S /\ Cardinality(t) \in Nat /\ Cardinality(t) = n - 1
      BY <2>2, <2>3, OneLess
    <2>5. Good(t)
      BY <2>1, <2>4
    <2>6. g[s] = h[Picked(s)] + g[t] /\ k[s] = w[Picked(s)] + k[t]
      BY <1>1, <1>2, <2>3 DEF Sum
    <2>7. h[Picked(s)] \in Nat /\ w[Picked(s)] \in Nat /\ h[Picked(s)] <= c * w[Picked(s)]
      BY <2>4
    <2>8. c * (w[Picked(s)] + k[t]) = c * w[Picked(s)] + c * k[t]
      BY <2>5, <2>7
    <2>9. c * w[Picked(s)] \in Nat /\ c * k[t] \in Nat
      BY <2>5, <2>7
    <2> HIDE DEF t
    <2> QED BY <2>2, <2>5, <2>6, <2>7, <2>8, <2>9
  <1>4. Cardinality(S) \in Nat
    BY FS_CardinalityType
  <1>5. Good(S)
    BY <1>3, <1>4
  <1> QED BY <1>1, <1>2, <1>5

\* A finite set of integers has a largest one.
LEMMA LargestOf ==
  ASSUME NEW V \in SUBSET Int, V # {}, IsFiniteSet(V)
  PROVE  \E x \in V : \A y \in V : y <= x
  <1> DEFINE Top(S) == \E x \in S : \A y \in S : y <= x
             Bad == {n \in Nat : \E S \in SUBSET Int : /\ S # {} /\ IsFiniteSet(S)
                                                      /\ Cardinality(S) = n /\ ~Top(S)}
  <1>1. Bad = {}
    <2> SUFFICES ASSUME Bad # {} PROVE FALSE
      OBVIOUS
    <2>1. PICK n \in Bad : \A m \in Bad : n <= m
      BY LeastOf
    <2>2. PICK S \in SUBSET Int : S # {} /\ IsFiniteSet(S) /\ Cardinality(S) = n /\ ~Top(S)
      OBVIOUS
    <2>3. PICK x \in S : TRUE
      BY <2>2
    <2>4. IsFiniteSet(S \ {x}) /\ Cardinality(S \ {x}) = n - 1 /\ Cardinality(S \ {x}) \in Nat
      BY <2>2, <2>3, FS_RemoveElement, FS_CardinalityType
    <2>5. CASE S \ {x} = {}
      <3>1. \A y \in S : y <= x
        BY <2>3, <2>5
      <3> QED BY <2>2, <2>3, <3>1
    <2>6. CASE S \ {x} # {}
      <3>0. n - 1 \notin Bad
        BY <2>1
      <3>1. Top(S \ {x})
        <4> HIDE DEF Top
        <4> QED BY <2>4, <2>6, <3>0
      <3>2. PICK z \in S \ {x} : \A y \in S \ {x} : y <= z
        BY <3>1
      <3>3. CASE x <= z
        <4>1. \A y \in S : y <= z
          BY <3>2, <3>3
        <4> QED BY <2>2, <4>1
      <3>4. CASE ~ (x <= z)
        <4>1. \A y \in S : y <= x
          <5> SUFFICES ASSUME NEW y \in S PROVE y <= x
            OBVIOUS
          <5>1. x \in Int /\ y \in Int /\ z \in Int
            BY <2>3
          <5>2. y = x \/ y <= z
            BY <3>2
          <5> QED BY <3>4, <5>1, <5>2
        <4> QED BY <2>2, <2>3, <4>1
      <3> QED BY <3>3, <3>4
    <2> QED BY <2>5, <2>6
  <1>2. Cardinality(V) \in Nat
    BY FS_CardinalityType
  <1> QED BY <1>1, <1>2

\* The minimum of a set of numbers is in it.
LEMMA MinIsLeast ==
  ASSUME NEW T \in SUBSET Nat, T # {}
  PROVE  Pipeline!Min(T) \in T /\ \A m \in T : Pipeline!Min(T) <= m
  BY LeastOf DEF Pipeline!Min

\* What a finite set is mapped to is finite.
LEMMA ImageIsFinite ==
  ASSUME NEW S, IsFiniteSet(S), NEW T, NEW f \in [S -> T], \A y \in T : \E x \in S : f[x] = y
  PROVE  IsFiniteSet(T)
  <1>1. f \in Surjection(S, T)
    BY DEF Surjection
  <1> QED BY <1>1, FS_Surjection

\* A set of positions of a sequence is a finite set of numbers.
LEMMA PositionsAreFinite ==
  ASSUME NEW s, NEW R, s \in Seq(R), NEW S \in SUBSET DOMAIN s
  PROVE  IsFiniteSet(S) /\ S \in SUBSET Nat
  <1>1. DOMAIN s = 1 .. Len(s) /\ Len(s) \in Nat
    OBVIOUS
  <1>2. IsFiniteSet(1 .. Len(s))
    BY <1>1, FS_Interval
  <1> QED BY <1>1, <1>2, FS_Subset

-------------------------------------------------------------------------------
(* ExtractionPipeline: what a document is read as.                            *)

\* What a field is read as, and a meter.
Statuses == {"UNVALIDATED", "VALID", "INVALID", "FLAGGED"}
Reading == [value : Int, conf : 0 .. 1000, status : Statuses]
MeterReading == [previous : Reading, current : Reading, factor : Reading, consumption : Reading]

\* A label that only contains an alias keeps the confidence in its range.
LEMMA PairConfRange ==
  ASSUME NEW pair \in Pipeline!Pairs
  PROVE  Pipeline!PairConf(pair) \in 0 .. 1000
  <1> DEFINE c == pair.conf
             n == IF pair.exact THEN 1000 ELSE 955
  <1>1. c \in Int /\ 0 <= c /\ c <= 1000
    BY DEF Pipeline!Pairs
  <1>2. n = 1000 \/ n = 955
    OBVIOUS
  <1> HIDE DEF c, n
  <1>3. c * n \in Int /\ 0 <= c * n /\ c * n <= 1000000
    <2>1. CASE n = 1000
      BY <1>1, <2>1, SMT
    <2>2. CASE n = 955
      BY <1>1, <2>2, SMT
    <2> QED BY <1>2, <2>1, <2>2
  <1>4. (c * n + 500) \div 1000 \in 0 .. 1000
    BY <1>3, SMT
  <1> QED BY <1>4 DEF Pipeline!PairConf, c, n

\* A field starts as a reading.
LEMMA FieldIsReading ==
  ASSUME NEW v \in Int, NEW c \in 0 .. 1000
  PROVE  Pipeline!Field(v, c) \in Reading
  BY DEF Pipeline!Field, Reading, Statuses

\* A pair is read as a field.
LEMMA PairIsRead ==
  ASSUME NEW pair \in Pipeline!Pairs
  PROVE  Pipeline!Field(pair.value, Pipeline!PairConf(pair)) \in Reading
  <1>1. pair.value \in Int
    BY DEF Pipeline!Pairs
  <1>2. Pipeline!PairConf(pair) \in 0 .. 1000
    BY PairConfRange
  <1> QED BY <1>1, <1>2 DEF Pipeline!Field, Reading, Statuses

\* The dictionary finds finitely many fields.
LEMMA DictionaryIsRead ==
  ASSUME NEW pairs \in Seq(Pipeline!Pairs)
  PROVE  LET found == Pipeline!FromDictionary(pairs)
         IN  IsFiniteSet(DOMAIN found) /\ \A l \in DOMAIN found : found[l] \in Reading
  <1> DEFINE S == {i \in DOMAIN pairs : Pipeline!Kept(pairs[i])}
             T == {pairs[i].label : i \in S}
             f == [i \in S |-> pairs[i].label]
             found == Pipeline!FromDictionary(pairs)
  <1>1. IsFiniteSet(S)
    BY PositionsAreFinite
  <1>2. f \in [S -> T] /\ \A y \in T : \E x \in S : f[x] = y
    OBVIOUS
  <1>3. IsFiniteSet(T)
    <2> HIDE DEF f, T, S
    <2> QED BY <1>1, <1>2, ImageIsFinite
  <1>4. DOMAIN found = T
    BY DEF Pipeline!FromDictionary
  <1>5. ASSUME NEW l \in T PROVE found[l] \in Reading
    <2> DEFINE I == {i \in DOMAIN pairs : pairs[i].label = l /\ Pipeline!Kept(pairs[i])}
    <2>1. I # {} /\ I \in SUBSET DOMAIN pairs
      OBVIOUS
    <2>2. Pipeline!Min(I) \in DOMAIN pairs
      <3> HIDE DEF I
      <3> QED BY <2>1, PositionsAreFinite, MinIsLeast
    <2> DEFINE pair == Pipeline!FirstKept(pairs, l)
    <2>3. pair \in Pipeline!Pairs
      BY <2>2 DEF Pipeline!FirstKept
    <2>4. Pipeline!Field(pair.value, Pipeline!PairConf(pair)) \in Reading
      <3> HIDE DEF S, T, f, found, I, pair
      <3> QED BY <2>3, PairIsRead
    <2>5. found[l] = Pipeline!Field(pair.value, Pipeline!PairConf(pair))
      BY <1>4 DEF Pipeline!FromDictionary
    <2> HIDE DEF pair, found
    <2> QED BY <2>4, <2>5
  <1> QED BY <1>3, <1>4, <1>5

\* The first of the triples with the largest previous reading is one of the triples.
LEMMA BestIsTriple ==
  ASSUME NEW row \in Seq(Int), Pipeline!Triples(row) # {}
  PROVE  Pipeline!BestTriple(row) \in Pipeline!Triples(row)
  <1> DEFINE Ts == Pipeline!Triples(row)
             P == {t[1] : t \in Ts}
             V == {row[i] : i \in P}
             f == [i \in P |-> row[i]]
             largest == {t \in Ts : \A s \in Ts : row[s[1]] <= row[t[1]]}
  <1>1. Ts \subseteq (DOMAIN row) \X (DOMAIN row) \X (DOMAIN row)
    BY DEF Pipeline!Triples
  <1>2. P \in SUBSET DOMAIN row
    BY <1>1
  <1>0. \A i \in DOMAIN row : i \in Nat
    OBVIOUS
  <1>3. IsFiniteSet(P)
    <2> HIDE DEF P
    <2> QED BY <1>2, PositionsAreFinite
  <1>4. f \in [P -> V] /\ \A y \in V : \E x \in P : f[x] = y
    OBVIOUS
  <1>5. IsFiniteSet(V)
    <2> HIDE DEF P, V, f
    <2> QED BY <1>3, <1>4, ImageIsFinite
  <1>6. V \in SUBSET Int
    <2> HIDE DEF P
    <2> QED BY <1>2
  <1>7. V # {}
    OBVIOUS
  <1>8. PICK v \in V : \A y \in V : y <= v
    <2> HIDE DEF V
    <2> QED BY <1>5, <1>6, <1>7, LargestOf
  <1>9. PICK t \in Ts : row[t[1]] = v
    BY <1>8
  <1>10. t \in largest
    <2>1. \A s \in Ts : row[s[1]] \in V
      OBVIOUS
    <2> HIDE DEF Ts, V
    <2> QED BY <1>8, <1>9, <2>1
  <1> HIDE DEF Ts, P, V, f
  <1> DEFINE A == {s[1] : s \in largest}
  <1>11. A # {} /\ A \in SUBSET Nat
    <2>1. \A s \in largest : s[1] \in Nat
      BY <1>0, <1>1
    <2> QED BY <1>10, <2>1
  <1>12. PICK a \in A : \A n \in A : a <= n
    BY <1>11, LeastOf
  <1> DEFINE B == {s[2] : s \in {s \in largest : s[1] = a}}
  <1>13. B # {} /\ B \in SUBSET Nat
    <2>1. \A s \in largest : s[2] \in Nat
      BY <1>0, <1>1
    <2> QED BY <1>12, <2>1
  <1>14. PICK b \in B : \A n \in B : b <= n
    BY <1>13, LeastOf
  <1> DEFINE C == {s[3] : s \in {s \in largest : s[1] = a /\ s[2] = b}}
  <1>15. C # {} /\ C \in SUBSET Nat
    <2>1. \A s \in largest : s[3] \in Nat
      BY <1>0, <1>1
    <2> QED BY <1>14, <2>1
  <1>16. PICK c \in C : \A n \in C : c <= n
    BY <1>15, LeastOf
  <1>17. PICK u \in largest : u[1] = a /\ u[2] = b /\ u[3] = c
    BY <1>16
  <1>18. ASSUME NEW s \in largest PROVE Pipeline!Before(u, s)
    <2>1. s[1] \in Nat /\ s[2] \in Nat /\ s[3] \in Nat /\ a \in Nat /\ b \in Nat /\ c \in Nat
      BY <1>0, <1>1, <1>11, <1>13, <1>15
    <2>2. a <= s[1]
      BY <1>12
    <2>3. s[1] = a => b <= s[2]
      BY <1>14
    <2>4. s[1] = a /\ s[2] = b => c <= s[3]
      BY <1>16
    <2> QED BY <1>17, <2>1, <2>2, <2>3, <2>4 DEF Pipeline!Before
  <1>19. Pipeline!BestTriple(row) = CHOOSE x \in largest : \A s \in largest : Pipeline!Before(x, s)
    BY DEF Pipeline!BestTriple, Ts
  <1>20. Pipeline!BestTriple(row) \in largest
    <2> HIDE DEF largest
    <2> QED BY <1>17, <1>18, <1>19
  <1> QED BY <1>20 DEF Ts

\* Multiplication keeps the order.
LEMMA TimesKeepsOrder ==
  ASSUME NEW n \in Nat \ {0}, NEW a \in Int, NEW b \in Int, a < b
  PROVE  n * a \in Int /\ n * b \in Int /\ n * a < n * b
  <1>1. n * b = n * a + n * (b - a)
    OBVIOUS
  <1>2. n * (b - a) > 0
    OBVIOUS
  <1>3. n * a \in Int /\ n * (b - a) \in Int
    OBVIOUS
  <1> QED BY <1>1, <1>2, <1>3

\* A consumption c that is the difference d of two readings to less than half a unit, and
\* their product with the factor f as well: the factor makes less than a unit of difference.
LEMMA FactorIsAsGoodAsOne ==
  ASSUME NEW n \in Nat \ {0}, NEW d \in Int, NEW c \in Int, NEW f \in Int, d > 0,
         2 * Pipeline!Abs(d - c) < n,
         f = n \/ 2 * Pipeline!Abs(d * f - n * c) < n * n
  PROVE  /\ Pipeline!Abs(d * f - n * c) <= n * n
         /\ d * Pipeline!Abs(f - n) < n * n
  <1> DEFINE DF == d * f
             NC == n * c
             ND == n * d
             NN == n * n
  <1>1. DF \in Int /\ NC \in Int /\ ND \in Int /\ NN \in Int /\ NN > 0
    OBVIOUS
  <1>2. 2 * Pipeline!Abs(ND - NC) < NN
    <2>1. ND - NC = n * (d - c) /\ NC - ND = n * (c - d)
      OBVIOUS
    <2>2. n * (2 * (d - c)) = 2 * (n * (d - c)) /\ n * (2 * (c - d)) = 2 * (n * (c - d))
      OBVIOUS
    <2>3. 2 * (d - c) < n /\ 2 * (c - d) < n
      BY DEF Pipeline!Abs
    <2>4. n * (2 * (d - c)) < NN /\ n * (2 * (c - d)) < NN
      BY <2>3, TimesKeepsOrder
    <2> HIDE DEF ND, NC, NN
    <2>5. 2 * (ND - NC) < NN /\ 2 * (NC - ND) < NN
      BY <2>1, <2>2, <2>4
    <2> QED BY <1>1, <2>5 DEF Pipeline!Abs
  <1>3. d * Pipeline!Abs(f - n) = Pipeline!Abs(DF - ND)
    <2>1. d * (f - n) = DF - ND /\ d * (n - f) = ND - DF
      OBVIOUS
    <2>2. CASE f < n
      <3>1. ND - DF > 0
        <4>1. d * f < d * n /\ d * n = ND
          BY <2>2, TimesKeepsOrder
        <4> HIDE DEF ND
        <4> QED BY <1>1, <4>1
      <3>2. Pipeline!Abs(f - n) = n - f
        BY <2>2 DEF Pipeline!Abs
      <3> HIDE DEF ND, DF
      <3>3. Pipeline!Abs(DF - ND) = ND - DF
        BY <1>1, <3>1 DEF Pipeline!Abs
      <3> QED BY <2>1, <3>2, <3>3
    <2>3. CASE f >= n
      <3>1. DF - ND >= 0
        <4>1. f > n => d * n < d * f
          BY TimesKeepsOrder
        <4>2. d * n = ND
          OBVIOUS
        <4>3. f = n => DF = ND
          OBVIOUS
        <4>4. f > n \/ f = n
          BY <2>3
        <4> HIDE DEF ND
        <4> QED BY <1>1, <4>1, <4>2, <4>3, <4>4
      <3>2. Pipeline!Abs(f - n) = f - n
        BY <2>3 DEF Pipeline!Abs
      <3> HIDE DEF ND, DF
      <3>3. Pipeline!Abs(DF - ND) = DF - ND
        BY <1>1, <3>1 DEF Pipeline!Abs
      <3> QED BY <2>1, <3>2, <3>3
    <2> QED BY <2>2, <2>3
  <1>4. f = n => DF = ND
    OBVIOUS
  <1>5. f = n \/ 2 * Pipeline!Abs(DF - NC) < NN
    OBVIOUS
  <1> HIDE DEF DF, NC, ND, NN
  <1>6. Pipeline!Abs(DF - NC) <= NN /\ Pipeline!Abs(DF - ND) < NN
    BY <1>1, <1>2, <1>4, <1>5 DEF Pipeline!Abs
  <1> QED BY <1>3, <1>6 DEF DF, NC, NN

\* A meter has readings whose difference is its consumption, or nearly, and a factor that
\* is as good as one.
LEMMA MeterBalances ==
  ASSUME NEW row \in Seq(Int), Pipeline!Triples(row) # {}
  PROVE  LET m == Pipeline!Meter(row)
         IN  m \in MeterReading /\ Pipeline!PlainDifference(m) /\ Pipeline!ReadingsBalance(m)
  <1> DEFINE t == Pipeline!BestTriple(row)
             a == row[t[1]]
             b == row[t[2]]
             c == row[t[3]]
             f == Pipeline!Multiplier(row, t)
  <1>1. t \in Pipeline!Triples(row)
    BY BestIsTriple
  <1>2. /\ a \in Int /\ b \in Int /\ c \in Int
        /\ b > a
        /\ 2 * Pipeline!Abs((b - a) - c) < Scale
    <2> HIDE DEF t
    <2> QED BY <1>1 DEF Pipeline!Triples
  <1>3. Scale \in Nat \ {0}
    BY Assumptions DEF Pipeline!PipelineAssumption
  <1>4. f \in Int /\ (f = Scale \/ 2 * Pipeline!Abs((b - a) * f - Scale * c) < Scale * Scale)
    <2> DEFINE Fits(n) == /\ 0 < n /\ n <= 1000 * Scale
                          /\ 2 * Pipeline!Abs((b - a) * n - Scale * c) < Scale * Scale
               fits == {i \in DOMAIN row : Fits(row[i])}
    <2>1. fits \in SUBSET Nat
      <3>1. fits \in SUBSET DOMAIN row
        OBVIOUS
      <3> HIDE DEF fits
      <3> QED BY <3>1, PositionsAreFinite
    <2>2. f = IF fits = {} THEN Scale ELSE row[Pipeline!Min(fits)]
      BY DEF Pipeline!Multiplier
    <2>3. \A i \in fits : row[i] \in Int /\ Fits(row[i])
      OBVIOUS
    <2> HIDE DEF fits
    <2>4. fits # {} => Pipeline!Min(fits) \in fits
      BY <2>1, MinIsLeast
    <2>5. CASE fits = {}
      BY <1>3, <2>2, <2>5
    <2>6. CASE fits # {}
      <3>1. f \in Int /\ Fits(f)
        <4> HIDE DEF f, Fits
        <4> QED BY <2>2, <2>3, <2>4, <2>6
      <3> QED BY <3>1
    <2> QED BY <2>5, <2>6
  <1>5. Pipeline!Meter(row) = [previous |-> Pipeline!Field(a, 900),
                               current |-> Pipeline!Field(b, 900),
                               factor |-> Pipeline!Field(f, 900),
                               consumption |-> Pipeline!Field(c, 900)]
    BY DEF Pipeline!Meter
  <1> HIDE DEF t, a, b, c, f
  <1>6. \A v \in Int : Pipeline!Field(v, 900) \in Reading
    BY FieldIsReading
  <1>7. \A v : Pipeline!Field(v, 900).value = v
    BY DEF Pipeline!Field
  <1>8. Pipeline!Meter(row) \in MeterReading
    BY <1>2, <1>4, <1>5, <1>6 DEF MeterReading
  <1> DEFINE m == Pipeline!Meter(row)
  <1>9. m.previous.value = a /\ m.current.value = b /\ m.factor.value = f /\ m.consumption.value = c
    BY <1>5, <1>7
  <1>10. /\ Pipeline!Abs((b - a) * f - Scale * c) <= Scale * Scale
         /\ (b - a) * Pipeline!Abs(f - Scale) < Scale * Scale
    <2>1. (b - a) \in Int /\ b - a > 0
      BY <1>2
    <2> QED BY <1>2, <1>3, <1>4, <2>1, FactorIsAsGoodAsOne
  <1> HIDE DEF m
  <1>11. Pipeline!PlainDifference(m)
    BY <1>2, <1>9, <1>10 DEF Pipeline!PlainDifference
  <1>12. Pipeline!ReadingsBalance(m)
    <2> DEFINE lhs == Pipeline!Abs((b - a) * f - Scale * c)
               unit == Scale * Scale
               share == (Scale * c) \div 200
    <2>1. lhs \in Int /\ unit \in Int /\ share \in Int
      <3>1. (b - a) * f \in Int /\ Scale * c \in Int /\ unit \in Int
        BY <1>2, <1>3, <1>4
      <3> QED BY <3>1 DEF Pipeline!Abs
    <2>2. lhs <= unit
      BY <1>10
    <2> HIDE DEF lhs, unit, share
    <2>3. lhs <= Pipeline!Largest(unit, share)
      BY <2>1, <2>2 DEF Pipeline!Largest
    <2> QED BY <1>9, <2>3 DEF Pipeline!ReadingsBalance, lhs, unit, share
  <1> QED BY <1>8, <1>11, <1>12 DEF m

\* What a reading of a document is made of.
IsDoc(doc) ==
    /\ IsFiniteSet(DOMAIN doc.fields) /\ \A l \in DOMAIN doc.fields : doc.fields[l] \in Reading
    /\ IsFiniteSet(DOMAIN doc.charges) /\ \A l \in DOMAIN doc.charges : doc.charges[l] \in Reading
    /\ IsFiniteSet(DOMAIN doc.meters) /\ \A i \in DOMAIN doc.meters : doc.meters[i] \in MeterReading
    /\ IsFiniteSet(DOMAIN doc.flow) /\ \A i \in DOMAIN doc.flow : doc.flow[i] \in Reading
    /\ doc.type.conf \in 0 .. 1000

\* The consumption of a meter is the difference of its readings, and passes the check.
Balanced(m) == Pipeline!PlainDifference(m) /\ Pipeline!ReadingsBalance(m)

\* The one meter has the numbers of the other.
SameNumbers(n, m) ==
    /\ n.previous.value = m.previous.value /\ n.current.value = m.current.value
    /\ n.factor.value = m.factor.value /\ n.consumption.value = m.consumption.value

\* Their difference is the consumption of both, or of none.
LEMMA NumbersMakeTheDifference ==
  ASSUME NEW n, NEW m, SameNumbers(n, m), Pipeline!PlainDifference(m)
  PROVE  Pipeline!PlainDifference(n)
  BY DEF SameNumbers, Pipeline!PlainDifference

\* So do the meters of a table.
LEMMA MetersBalanceInRows ==
  ASSUME NEW rows \in Seq(Seq(Int))
  PROVE  LET meters == Pipeline!Meters(rows)
         IN  /\ IsFiniteSet(DOMAIN meters) /\ DOMAIN meters \in SUBSET Nat
             /\ \A i \in DOMAIN meters : meters[i] \in MeterReading /\ Balanced(meters[i])
  <1> DEFINE S == {i \in DOMAIN rows : Pipeline!Triples(rows[i]) # {}}
             meters == Pipeline!Meters(rows)
  <1>1. DOMAIN meters = S /\ \A i \in S : meters[i] = Pipeline!Meter(rows[i])
    BY DEF Pipeline!Meters
  <1>2. IsFiniteSet(S) /\ S \in SUBSET Nat
    <2>1. S \in SUBSET DOMAIN rows
      OBVIOUS
    <2> HIDE DEF S
    <2> QED BY <2>1, PositionsAreFinite
  <1>3. ASSUME NEW i \in S PROVE meters[i] \in MeterReading /\ Balanced(meters[i])
    <2>1. rows[i] \in Seq(Int) /\ Pipeline!Triples(rows[i]) # {}
      OBVIOUS
    <2> HIDE DEF S, meters
    <2> QED BY <1>1, <2>1, MeterBalances DEF Balanced
  <1> QED BY <1>1, <1>2, <1>3

\* So is what the model says of one.
LEMMA SaidIsRead ==
  ASSUME NEW v \in Pipeline!Said
  PROVE  Pipeline!Field(v.value, v.conf) \in Reading
  <1>1. v.value \in Int
    BY DEF Pipeline!Said
  <1>2. v.conf \in 0 .. 1000
    BY DEF Pipeline!Said
  <1> QED BY <1>1, <1>2 DEF Pipeline!Field, Reading, Statuses

\* map_layout gives a document in which all meters balance.
LEMMA MapIsDoc ==
  ASSUME NEW layout, Pipeline!LayoutOK(layout)
  PROVE  LET doc == Pipeline!MapLayout(layout)
         IN  IsDoc(doc) /\ \A i \in DOMAIN doc.meters : Balanced(doc.meters[i])
  <1> DEFINE words == Pipeline!FromDictionary(layout.pairs)
             said == layout.said
             found == Pipeline!WithModel(words, said)
             meters == Pipeline!Meters(layout.rows)
             flow == Pipeline!GridImport(meters)
             doc == Pipeline!MapLayout(layout)
  <1>1. IsFiniteSet(DOMAIN words) /\ \A l \in DOMAIN words : words[l] \in Reading
    <2>1. layout.pairs \in Seq(Pipeline!Pairs)
      BY DEF Pipeline!LayoutOK
    <2> QED BY <2>1, DictionaryIsRead
  <1>2. /\ IsFiniteSet(DOMAIN meters) /\ DOMAIN meters \in SUBSET Nat
        /\ \A i \in DOMAIN meters : meters[i] \in MeterReading /\ Balanced(meters[i])
    <2>1. layout.rows \in Seq(Seq(Int))
      BY DEF Pipeline!LayoutOK
    <2> QED BY <2>1, MetersBalanceInRows
  <1>3. \A l \in DOMAIN said : Pipeline!Field(said[l].value, said[l].conf) \in Reading
    <2>1. \A l \in DOMAIN said : said[l] \in Pipeline!Said
      BY DEF Pipeline!LayoutOK
    <2> HIDE DEF words, said, found, meters, flow, doc
    <2> QED BY <2>1, SaidIsRead
  <1> HIDE DEF words, meters, said
  <1>4. /\ DOMAIN found = DOMAIN words \cup (DOMAIN said \cap Pipeline!Critical)
        /\ \A l \in DOMAIN found : found[l] \in Reading
    BY <1>1, <1>3 DEF Pipeline!WithModel
  <1>5. IsFiniteSet(Pipeline!Critical)
    <2>1. Pipeline!Critical = ({} \cup {"account_number"} \cup {"bill_amount"}) \cup {"bill_date"}
      BY DEF Pipeline!Critical
    <2> QED BY <2>1, FS_EmptySet, FS_AddElement
  <1>6. IsFiniteSet(DOMAIN found)
    <2> HIDE DEF found
    <2>1. IsFiniteSet(DOMAIN words \cup Pipeline!Critical)
      BY <1>1, <1>5, FS_Union
    <2> QED BY <1>4, <2>1, FS_Subset
  <1>7. IsFiniteSet(DOMAIN flow) /\ \A i \in DOMAIN flow : flow[i] \in Reading
    <2>1. CASE DOMAIN meters = {}
      <3>1. flow = <<>>
        BY <2>1 DEF Pipeline!GridImport
      <3> QED BY <3>1, FS_EmptySet
    <2>2. CASE DOMAIN meters # {}
      <3> DEFINE m == meters[Pipeline!Min(DOMAIN meters)]
      <3>1. m \in MeterReading
        BY <1>2, <2>2, MinIsLeast
      <3>2. flow = <<m.consumption>>
        BY <2>2 DEF Pipeline!GridImport
      <3>3. m.consumption \in Reading
        <4> HIDE DEF m
        <4> QED BY <3>1 DEF MeterReading
      <3>4. DOMAIN flow = {1} /\ flow[1] = m.consumption
        BY <3>2
      <3> HIDE DEF m, flow
      <3> QED BY <3>3, <3>4, FS_Singleton
    <2> QED BY <2>1, <2>2
  <1> HIDE DEF found, flow
  <1> DEFINE plain == Pipeline!Restrict(found, (DOMAIN found) \ Pipeline!Charges)
             charged == Pipeline!Restrict(found, (DOMAIN found) \cap Pipeline!Charges)
  <1>8. /\ doc.fields = plain /\ doc.charges = charged /\ doc.meters = meters /\ doc.flow = flow
        /\ doc.type.conf = layout.typeConf
    BY DEF Pipeline!MapLayout, Pipeline!Field, words, said, found, meters, flow
  <1>9. /\ DOMAIN plain \in SUBSET DOMAIN found /\ DOMAIN charged \in SUBSET DOMAIN found
        /\ \A l \in DOMAIN plain : plain[l] \in Reading
        /\ \A l \in DOMAIN charged : charged[l] \in Reading
    BY <1>4 DEF Pipeline!Restrict
  <1> HIDE DEF plain, charged, doc
  <1>10. IsFiniteSet(DOMAIN plain) /\ IsFiniteSet(DOMAIN charged)
    BY <1>6, <1>9, FS_Subset
  <1>11. layout.typeConf \in 0 .. 1000
    BY DEF Pipeline!LayoutOK
  <1>12. IsDoc(doc) /\ \A i \in DOMAIN doc.meters : Balanced(doc.meters[i])
    BY <1>2, <1>7, <1>8, <1>9, <1>10, <1>11 DEF IsDoc
  <1> QED BY <1>12 DEF doc

\* validate changes statuses only.
SameValues(doc, old) ==
    /\ DOMAIN doc.fields = DOMAIN old.fields
    /\ \A l \in DOMAIN old.fields : doc.fields[l].value = old.fields[l].value
    /\ doc.charges = old.charges
    /\ DOMAIN doc.meters = DOMAIN old.meters

\* validate finds the readings of such a meter valid.
LEMMA MarkedMeter ==
  ASSUME NEW m \in MeterReading, Balanced(m)
  PROVE  LET n == Pipeline!MarkMeter(m)
         IN  /\ n \in MeterReading
             /\ n.consumption.status = "VALID"
             /\ Pipeline!PlainDifference(n)
  <1> DEFINE n == Pipeline!MarkMeter(m)
  <1>1. PICK a \in Reading, b \in Reading, c \in Reading, d \in Reading :
            m = [previous |-> a, current |-> b, factor |-> c, consumption |-> d]
    BY DEF MeterReading
  <1>2. ASSUME NEW r \in Reading
        PROVE  LET v == Pipeline!Marked(r, "VALID")
               IN  v \in Reading /\ v.status = "VALID" /\ v.value = r.value
    BY DEF Pipeline!Marked, Reading, Statuses
  <1> DEFINE mark(r) == Pipeline!Marked(r, "VALID")
  <1>3. n = [previous |-> mark(a), current |-> mark(b), factor |-> c, consumption |-> mark(d)]
    BY <1>1 DEF Pipeline!MarkMeter, Balanced
  <1>4. /\ mark(a) \in Reading /\ mark(b) \in Reading
        /\ mark(d) \in Reading /\ mark(d).status = "VALID"
        /\ mark(a).value = a.value /\ mark(b).value = b.value /\ mark(d).value = d.value
    BY <1>2
  <1> HIDE DEF mark
  <1>5. n \in MeterReading /\ n.consumption = mark(d)
    BY <1>3, <1>4 DEF MeterReading
  <1>6. SameNumbers(n, m)
    BY <1>1, <1>3, <1>4 DEF SameNumbers
  <1> HIDE DEF n
  <1>7. Pipeline!PlainDifference(n)
    BY <1>6, NumbersMakeTheDifference DEF Balanced
  <1> QED BY <1>4, <1>5, <1>7 DEF n

\* validate keeps the document, its values, and the numbers of its meters.
LEMMA ValidateIsDoc ==
  ASSUME NEW doc, IsDoc(doc), \A i \in DOMAIN doc.meters : Balanced(doc.meters[i])
  PROVE  LET v == Pipeline!Validate(doc)
         IN  /\ IsDoc(v)
             /\ SameValues(v, doc)
             /\ v.overall = Pipeline!Overall(Pipeline!Checks(doc))
             /\ \A i \in DOMAIN v.meters : /\ v.meters[i].consumption.status = "VALID"
                                           /\ Pipeline!PlainDifference(v.meters[i])
  <1> DEFINE v == Pipeline!Validate(doc)
             fields == IF Pipeline!AmountImplausible(doc)
                       THEN [doc.fields EXCEPT !["bill_amount"] = Pipeline!Marked(@, "FLAGGED")]
                       ELSE doc.fields
             meters == [i \in DOMAIN doc.meters |-> Pipeline!MarkMeter(doc.meters[i])]
  <1>1. /\ v.fields = fields /\ v.charges = doc.charges /\ v.meters = meters
        /\ v.flow = doc.flow /\ v.type = doc.type
        /\ v.overall = Pipeline!Overall(Pipeline!Checks(doc))
    BY DEF Pipeline!Validate
  <1>2. ASSUME NEW r \in Reading
        PROVE  LET f == Pipeline!Marked(r, "FLAGGED") IN f \in Reading /\ f.value = r.value
    BY DEF Pipeline!Marked, Reading, Statuses
  <1>3. /\ DOMAIN fields = DOMAIN doc.fields
        /\ \A l \in DOMAIN fields : fields[l] \in Reading /\ fields[l].value = doc.fields[l].value
    BY <1>2 DEF IsDoc
  <1>4. \A i \in DOMAIN doc.meters :
           /\ meters[i] \in MeterReading
           /\ meters[i].consumption.status = "VALID"
           /\ Pipeline!PlainDifference(meters[i])
    BY MarkedMeter DEF IsDoc
  <1>5. DOMAIN meters = DOMAIN doc.meters
    OBVIOUS
  <1> HIDE DEF v, fields, meters
  <1>6. IsDoc(v)
    BY <1>1, <1>3, <1>4, <1>5 DEF IsDoc
  <1>7. SameValues(v, doc)
    BY <1>1, <1>3, <1>5 DEF SameValues
  <1> QED BY <1>1, <1>4, <1>5, <1>6, <1>7 DEF v

\* The confidence of a field stays in its range when its status is counted in.
LEMMA ScoredIsReading ==
  ASSUME NEW f \in Reading
  PROVE  LET s == Pipeline!Scored(f)
         IN  s \in Reading /\ s.value = f.value /\ s.status = f.status
  <1>1. PICK v \in Int, c \in 0 .. 1000, st \in Statuses :
            f = [value |-> v, conf |-> c, status |-> st]
    BY DEF Reading
  <1> DEFINE d == CASE st = "VALID" -> Pipeline!Least(1000, c + 30)
                    [] st = "INVALID" -> (c + 1) \div 2
                    [] st = "FLAGGED" -> (c * 6 + 5) \div 10
                    [] OTHER -> c
  <1>2. d \in 0 .. 1000
    <2>1. c \in Int /\ 0 <= c /\ c <= 1000
      OBVIOUS
    <2>2. CASE st = "VALID"
      <3>1. d = IF 1000 < c + 30 THEN 1000 ELSE c + 30
        BY <2>2 DEF Pipeline!Least
      <3> HIDE DEF d
      <3> QED BY <2>1, <3>1
    <2>3. CASE st = "INVALID"
      <3>1. d = (c + 1) \div 2
        BY <2>3
      <3> HIDE DEF d
      <3> QED BY <2>1, <3>1
    <2>4. CASE st = "FLAGGED"
      <3>1. d = (c * 6 + 5) \div 10
        BY <2>4
      <3> HIDE DEF d
      <3> QED BY <2>1, <3>1
    <2>5. CASE st \notin {"VALID", "INVALID", "FLAGGED"}
      BY <2>5
    <2> QED BY <2>2, <2>3, <2>4, <2>5
  <1>3. Pipeline!Scored(f) = [f EXCEPT !.conf = d]
    BY <1>1 DEF Pipeline!Scored
  <1> HIDE DEF d
  <1>4. Pipeline!Scored(f) = [value |-> v, conf |-> d, status |-> st]
    BY <1>1, <1>3
  <1> QED BY <1>1, <1>2, <1>4 DEF Reading

\* score keeps all but the confidence of fields.
LEMMA ScoresAreDoc ==
  ASSUME NEW doc, IsDoc(doc),
         doc = [fields |-> doc.fields, charges |-> doc.charges, meters |-> doc.meters,
                flow |-> doc.flow, type |-> doc.type, overall |-> doc.overall]
  PROVE  LET s == Pipeline!WithScores(doc)
         IN  /\ IsDoc(s)
             /\ SameValues(s, doc)
             /\ s.overall = doc.overall
             /\ \A i \in DOMAIN s.meters :
                   /\ s.meters[i].consumption.status = doc.meters[i].consumption.status
                   /\ SameNumbers(s.meters[i], doc.meters[i])
  <1> DEFINE s == Pipeline!WithScores(doc)
             fields == [l \in DOMAIN doc.fields |-> Pipeline!Scored(doc.fields[l])]
             meters == [i \in DOMAIN doc.meters |-> Pipeline!ScoredMeter(doc.meters[i])]
  <1>1. /\ s.fields = fields /\ s.charges = doc.charges /\ s.meters = meters
        /\ s.flow = doc.flow /\ s.type = doc.type /\ s.overall = doc.overall
    <2>1. s = [doc EXCEPT !.fields = fields, !.meters = meters]
      BY DEF Pipeline!WithScores
    <2> HIDE DEF s, fields, meters
    <2> QED BY <2>1
  <1>2. /\ DOMAIN fields = DOMAIN doc.fields
        /\ \A l \in DOMAIN fields : fields[l] \in Reading /\ fields[l].value = doc.fields[l].value
    BY ScoredIsReading DEF IsDoc
  <1>3. ASSUME NEW m \in MeterReading
        PROVE  LET n == Pipeline!ScoredMeter(m)
               IN  /\ n \in MeterReading
                   /\ n.consumption.status = m.consumption.status
                   /\ SameNumbers(n, m)
    BY ScoredIsReading DEF Pipeline!ScoredMeter, MeterReading, SameNumbers
  <1>4. /\ DOMAIN meters = DOMAIN doc.meters
        /\ \A i \in DOMAIN meters :
              /\ meters[i] \in MeterReading
              /\ meters[i].consumption.status = doc.meters[i].consumption.status
              /\ SameNumbers(meters[i], doc.meters[i])
    BY <1>3 DEF IsDoc
  <1> HIDE DEF s, fields, meters
  <1>5. IsDoc(s)
    <2>1. IsFiniteSet(DOMAIN fields) /\ \A l \in DOMAIN fields : fields[l] \in Reading
      BY <1>2 DEF IsDoc
    <2>2. IsFiniteSet(DOMAIN meters) /\ \A i \in DOMAIN meters : meters[i] \in MeterReading
      BY <1>4 DEF IsDoc
    <2> QED BY <1>1, <2>1, <2>2 DEF IsDoc
  <1>6. SameValues(s, doc)
    BY <1>1, <1>2, <1>4 DEF SameValues
  <1> QED BY <1>1, <1>4, <1>5, <1>6 DEF s

\* A rounded weighted mean of numbers up to 1000 is one.
LEMMA AverageInRange ==
  ASSUME NEW w \in Nat, NEW n \in Nat, n > 0, w <= 1000 * n
  PROVE  (2 * w + n) \div (2 * n) \in 0 .. 1000
  <1> DEFINE q == (2 * w + n) \div (2 * n)
  <1>1. q \in Int /\ (2 * n) * q <= 2 * w + n /\ 2 * w + n < (2 * n) * q + 2 * n
    OBVIOUS
  <1> HIDE DEF q
  <1>2. q >= 0
    BY <1>1
  <1>3. q <= 1000
    BY <1>1
  <1> QED BY <1>1, <1>2, <1>3 DEF q

\* A total of confidences stays within the total of their weights.
Within(h, w) == /\ Pipeline!Total(h) \in Nat /\ Pipeline!Total(w) \in Nat
                /\ Pipeline!Total(h) <= 1000 * Pipeline!Total(w)

\* So it is if each does.
LEMMA WithinIfEach ==
  ASSUME NEW S, IsFiniteSet(S), NEW h, NEW w, h = [x \in S |-> h[x]], w = [x \in S |-> w[x]],
         \A x \in S : h[x] \in Nat /\ w[x] \in Nat /\ h[x] <= 1000 * w[x]
  PROVE  Within(h, w)
  <1>1. h \in [S -> Nat] /\ w \in [S -> Nat]
    OBVIOUS
  <1>2. \A x \in S : h[x] <= 1000 * w[x]
    OBVIOUS
  <1> QED BY <1>1, <1>2, SumBound DEF Within

\* The confidence of a reading is a number up to 1000.
LEMMA ConfIsNat ==
  ASSUME NEW r \in Reading
  PROVE  r.conf \in Nat /\ r.conf <= 1000
  BY DEF Reading

\* Readings that count once.
LEMMA ReadingsWithin ==
  ASSUME NEW rs, IsFiniteSet(DOMAIN rs), \A x \in DOMAIN rs : rs[x] \in Reading
  PROVE  Within([x \in DOMAIN rs |-> rs[x].conf], [x \in DOMAIN rs |-> 1])
  <1> DEFINE h == [x \in DOMAIN rs |-> rs[x].conf]
             w == [x \in DOMAIN rs |-> 1]
  <1>1. \A x \in DOMAIN rs : h[x] \in Nat /\ w[x] \in Nat /\ h[x] <= 1000 * w[x]
    BY ConfIsNat
  <1>2. h = [x \in DOMAIN rs |-> h[x]] /\ w = [x \in DOMAIN rs |-> w[x]]
    OBVIOUS
  <1> HIDE DEF h, w
  <1>3. Within(h, w)
    BY <1>1, <1>2, WithinIfEach
  <1> QED BY <1>3 DEF h, w

\* Fields, of which the critical ones count three times.
LEMMA FieldsWithin ==
  ASSUME NEW rs, IsFiniteSet(DOMAIN rs), \A x \in DOMAIN rs : rs[x] \in Reading
  PROVE  Within([l \in DOMAIN rs |-> Pipeline!Weight(l) * rs[l].conf],
                [l \in DOMAIN rs |-> Pipeline!Weight(l)])
  <1> DEFINE h == [l \in DOMAIN rs |-> Pipeline!Weight(l) * rs[l].conf]
             w == [l \in DOMAIN rs |-> Pipeline!Weight(l)]
  <1>1. ASSUME NEW x \in DOMAIN rs
        PROVE  h[x] \in Nat /\ w[x] \in Nat /\ h[x] <= 1000 * w[x]
    <2>1. rs[x].conf \in Nat /\ rs[x].conf <= 1000
      BY ConfIsNat
    <2>2. w[x] = 3 \/ w[x] = 1
      BY DEF Pipeline!Weight
    <2>3. h[x] = w[x] * rs[x].conf
      OBVIOUS
    <2> HIDE DEF h, w
    <2> QED BY <2>1, <2>2, <2>3
  <1>2. h = [x \in DOMAIN rs |-> h[x]] /\ w = [x \in DOMAIN rs |-> w[x]]
    OBVIOUS
  <1> HIDE DEF h, w
  <1>3. Within(h, w)
    BY <1>1, <1>2, WithinIfEach
  <1> QED BY <1>3 DEF h, w

\* Meters, of four readings each.
LEMMA MetersWithin ==
  ASSUME NEW ms, IsFiniteSet(DOMAIN ms), \A i \in DOMAIN ms : ms[i] \in MeterReading
  PROVE  Within([i \in DOMAIN ms |-> Pipeline!MeterConf(ms[i])], [i \in DOMAIN ms |-> 4])
  <1> DEFINE h == [i \in DOMAIN ms |-> Pipeline!MeterConf(ms[i])]
             w == [i \in DOMAIN ms |-> 4]
  <1>1. ASSUME NEW r \in MeterReading
        PROVE  Pipeline!MeterConf(r) \in Nat /\ Pipeline!MeterConf(r) <= 4000
    <2>1. r.previous \in Reading /\ r.current \in Reading /\ r.factor \in Reading
          /\ r.consumption \in Reading
      BY DEF MeterReading
    <2>2. /\ r.previous.conf \in Nat /\ r.previous.conf <= 1000
          /\ r.current.conf \in Nat /\ r.current.conf <= 1000
          /\ r.factor.conf \in Nat /\ r.factor.conf <= 1000
          /\ r.consumption.conf \in Nat /\ r.consumption.conf <= 1000
      BY <2>1, ConfIsNat
    <2> QED BY <2>2 DEF Pipeline!MeterConf
  <1>2. \A x \in DOMAIN ms : h[x] \in Nat /\ w[x] \in Nat /\ h[x] <= 1000 * w[x]
    BY <1>1
  <1>3. h = [x \in DOMAIN ms |-> h[x]] /\ w = [x \in DOMAIN ms |-> w[x]]
    OBVIOUS
  <1> HIDE DEF h, w
  <1>4. Within(h, w)
    BY <1>2, <1>3, WithinIfEach
  <1> QED BY <1>4 DEF h, w

\* The confidence of a document is in the range of that of its fields.
LEMMA ConfidenceInRange ==
  ASSUME NEW doc, IsDoc(doc)
  PROVE  Pipeline!OverallConfidence(doc) \in 0 .. 1000
  <1> DEFINE f == [l \in DOMAIN doc.fields |-> Pipeline!Weight(l) * doc.fields[l].conf]
             fw == [l \in DOMAIN doc.fields |-> Pipeline!Weight(l)]
             c == [l \in DOMAIN doc.charges |-> doc.charges[l].conf]
             cw == [l \in DOMAIN doc.charges |-> 1]
             m == [i \in DOMAIN doc.meters |-> Pipeline!MeterConf(doc.meters[i])]
             mw == [i \in DOMAIN doc.meters |-> 4]
             w == [i \in DOMAIN doc.flow |-> doc.flow[i].conf]
             ww == [i \in DOMAIN doc.flow |-> 1]
             t == doc.type.conf
             sum == Pipeline!WeightedSum(doc)
             weights == Pipeline!Weights(doc)
  <1>1. Within(f, fw) /\ Within(c, cw) /\ Within(m, mw) /\ Within(w, ww)
    BY FieldsWithin, ReadingsWithin, MetersWithin DEF IsDoc
  <1>2. /\ sum = Pipeline!Total(f) + Pipeline!Total(c) + Pipeline!Total(m) + Pipeline!Total(w) + t
        /\ weights = Pipeline!Total(fw) + Pipeline!Total(cw) + Pipeline!Total(mw)
                       + Pipeline!Total(ww) + 1
    BY DEF Pipeline!WeightedSum, Pipeline!Weights
  <1>3. t \in 0 .. 1000
    BY DEF IsDoc
  <1>4. Pipeline!OverallConfidence(doc) = (2 * sum + weights) \div (2 * weights)
    BY DEF Pipeline!OverallConfidence
  <1> HIDE DEF f, fw, c, cw, m, mw, w, ww, t, sum, weights
  <1>5. t \in Nat /\ t <= 1000
    BY <1>3
  <1>6. sum \in Nat /\ weights \in Nat /\ weights > 0 /\ sum <= 1000 * weights
    BY <1>1, <1>2, <1>5 DEF Within
  <1>7. (2 * sum + weights) \div (2 * weights) \in 0 .. 1000
    BY <1>6, AverageInRange
  <1> QED BY <1>4, <1>7

\* The properties of what _run_di makes of a layout.
SoundReading(r) ==
    /\ r = [doc |-> r.doc, confidence |-> r.confidence, review |-> r.review]
    /\ r.confidence \in 0 .. 1000
    /\ r.review \in BOOLEAN
    /\ IsDoc(r.doc)
    /\ \A i \in DOMAIN r.doc.meters : /\ r.doc.meters[i].consumption.status = "VALID"
                                      /\ Pipeline!PlainDifference(r.doc.meters[i])
    /\ ~r.review =>
          /\ Pipeline!Critical \subseteq DOMAIN r.doc.fields
          /\ Pipeline!CanCompareDates(r.doc) => Pipeline!DatesOrdered(r.doc)
          /\ ~Pipeline!AmountImplausible(r.doc)
          /\ Pipeline!CanReconcile(r.doc) => Pipeline!ChargesReconcile(r.doc)

\* The checks of validate look at values only, so that score changes none of them.
LEMMA ChecksSeeValues ==
  ASSUME NEW doc, NEW old, SameValues(doc, old)
  PROVE  /\ Pipeline!CanCompareDates(doc) <=> Pipeline!CanCompareDates(old)
         /\ Pipeline!CanCompareDates(old) =>
               (Pipeline!DatesOrdered(doc) <=> Pipeline!DatesOrdered(old))
         /\ Pipeline!AmountImplausible(doc) <=> Pipeline!AmountImplausible(old)
         /\ Pipeline!CanReconcile(doc) <=> Pipeline!CanReconcile(old)
         /\ Pipeline!CanReconcile(old) =>
               (Pipeline!ChargesReconcile(doc) <=> Pipeline!ChargesReconcile(old))
  <1>1. \A l : Pipeline!ValueOf(doc.fields, l) = Pipeline!ValueOf(old.fields, l)
    BY DEF SameValues, Pipeline!ValueOf
  <1>2. \A l : Pipeline!Number(Pipeline!ValueOf(old.fields, l)) => l \in DOMAIN old.fields
    BY DEF Pipeline!Number, Pipeline!ValueOf
  <1>3. \A l \in DOMAIN old.fields : doc.fields[l].value = old.fields[l].value
    BY DEF SameValues
  <1>4. Pipeline!CanCompareDates(doc) <=> Pipeline!CanCompareDates(old)
    BY <1>1 DEF Pipeline!CanCompareDates
  <1>5. ASSUME Pipeline!CanCompareDates(old)
        PROVE  Pipeline!DatesOrdered(doc) <=> Pipeline!DatesOrdered(old)
    <2>1. "bill_date" \in DOMAIN old.fields /\ "due_date" \in DOMAIN old.fields
      BY <1>2, <1>5 DEF Pipeline!CanCompareDates, Pipeline!Dates
    <2> QED BY <1>3, <2>1 DEF Pipeline!DatesOrdered
  <1>6. Pipeline!AmountImplausible(doc) <=> Pipeline!AmountImplausible(old)
    BY <1>1, <1>2, <1>3 DEF Pipeline!AmountImplausible
  <1>7. Pipeline!CanReconcile(doc) <=> Pipeline!CanReconcile(old)
    BY <1>1 DEF SameValues, Pipeline!CanReconcile
  <1>8. ASSUME Pipeline!CanReconcile(old)
        PROVE  Pipeline!ChargesReconcile(doc) <=> Pipeline!ChargesReconcile(old)
    <2>1. "bill_amount" \in DOMAIN old.fields
      BY <1>2, <1>8 DEF Pipeline!CanReconcile
    <2>2. doc.charges = old.charges
      BY DEF SameValues
    <2> QED BY <1>3, <2>1, <2>2 DEF Pipeline!ChargesReconcile
  <1> QED BY <1>4, <1>5, <1>6, <1>7, <1>8

\* Steps that keep the values keep them together.
LEMMA SameValuesTrans ==
  ASSUME NEW a, NEW b, NEW c, SameValues(a, b), SameValues(b, c)
  PROVE  SameValues(a, c)
  BY DEF SameValues

\* _run_di makes a sound reading of any layout.
LEMMA RunIsSound ==
  ASSUME NEW layout, Pipeline!LayoutOK(layout)
  PROVE  SoundReading(Pipeline!RunDI(layout))
  <1> DEFINE old == Pipeline!MapLayout(layout)
             valid == Pipeline!Validate(old)
             doc == Pipeline!WithScores(valid)
             confidence == Pipeline!OverallConfidence(doc)
             r == Pipeline!RunDI(layout)
  <1>1. IsDoc(old) /\ \A i \in DOMAIN old.meters : Balanced(old.meters[i])
    BY MapIsDoc
  <1>2. /\ IsDoc(valid) /\ SameValues(valid, old)
        /\ valid.overall = Pipeline!Overall(Pipeline!Checks(old))
        /\ \A i \in DOMAIN valid.meters : /\ valid.meters[i].consumption.status = "VALID"
                                          /\ Pipeline!PlainDifference(valid.meters[i])
    <2> HIDE DEF old
    <2> QED BY <1>1, ValidateIsDoc
  <1>3. /\ IsDoc(doc) /\ SameValues(doc, valid) /\ doc.overall = valid.overall
        /\ \A i \in DOMAIN doc.meters :
              /\ doc.meters[i].consumption.status = valid.meters[i].consumption.status
              /\ SameNumbers(doc.meters[i], valid.meters[i])
    <2>1. valid = [fields |-> valid.fields, charges |-> valid.charges, meters |-> valid.meters,
                   flow |-> valid.flow, type |-> valid.type, overall |-> valid.overall]
      BY DEF Pipeline!Validate
    <2> HIDE DEF old, valid
    <2> QED BY <1>2, <2>1, ScoresAreDoc
  <1>4. r = [doc |-> doc, confidence |-> confidence, review |-> ~Pipeline!Ready(doc, confidence)]
    BY DEF Pipeline!RunDI, Pipeline!Score
  <1>5. confidence \in 0 .. 1000
    <2> HIDE DEF doc
    <2> QED BY <1>3, ConfidenceInRange
  <1> HIDE DEF old, valid, doc, confidence, r
  <1>6. SameValues(doc, old)
    BY <1>2, <1>3, SameValuesTrans
  <1>7. ASSUME Pipeline!Ready(doc, confidence)
        PROVE  /\ Pipeline!Critical \subseteq DOMAIN doc.fields
               /\ Pipeline!CanCompareDates(doc) => Pipeline!DatesOrdered(doc)
               /\ ~Pipeline!AmountImplausible(doc)
               /\ Pipeline!CanReconcile(doc) => Pipeline!ChargesReconcile(doc)
    <2>1. "INVALID" \notin Pipeline!Checks(old) /\ "FLAGGED" \notin Pipeline!Checks(old)
      BY <1>2, <1>3, <1>7 DEF Pipeline!Ready, Pipeline!Overall
    <2>2. Pipeline!CanCompareDates(old) => Pipeline!DatesOrdered(old)
      BY <2>1 DEF Pipeline!Checks
    <2>3. ~Pipeline!AmountImplausible(old)
      BY <2>1 DEF Pipeline!Checks
    <2>4. Pipeline!CanReconcile(old) => Pipeline!ChargesReconcile(old)
      BY <2>1 DEF Pipeline!Checks
    <2>5. Pipeline!Critical \subseteq DOMAIN doc.fields
      BY <1>7 DEF Pipeline!Ready
    <2> QED BY <1>6, <2>2, <2>3, <2>4, <2>5, ChecksSeeValues
  <1>8. \A i \in DOMAIN doc.meters : /\ doc.meters[i].consumption.status = "VALID"
                                     /\ Pipeline!PlainDifference(doc.meters[i])
    BY <1>2, <1>3, NumbersMakeTheDifference DEF SameValues
  <1>9. Pipeline!Ready(doc, confidence) \in BOOLEAN
    BY DEF Pipeline!Ready
  <1>10. r.doc = doc /\ r.confidence = confidence /\ r.review = ~Pipeline!Ready(doc, confidence)
    BY <1>4
  <1>11. SoundReading(r)
    BY <1>3, <1>4, <1>5, <1>7, <1>8, <1>9, <1>10 DEF SoundReading
  <1> QED BY <1>11 DEF r

\* The critical fields that are trusted are counted.
LEMMA HealthIsNat ==
  ASSUME NEW r, SoundReading(r)
  PROVE  Pipeline!CriticalHealth(r) \in Nat
  <1> DEFINE S == {l \in Pipeline!Critical \cap DOMAIN r.doc.fields :
                     r.doc.fields[l].status \notin {"FLAGGED", "INVALID"}}
  <1>1. IsFiniteSet(DOMAIN r.doc.fields)
    <2>1. IsDoc(r.doc)
      BY DEF SoundReading
    <2> QED BY <2>1 DEF IsDoc
  <1>2. IsFiniteSet(S)
    <2>1. S \in SUBSET DOMAIN r.doc.fields
      OBVIOUS
    <2> HIDE DEF S
    <2> QED BY <1>1, <2>1, FS_Subset
  <1>3. Pipeline!CriticalHealth(r) = Pipeline!Cardinality(S)
    BY DEF Pipeline!CriticalHealth
  <1> HIDE DEF S
  <1>4. Pipeline!Cardinality(S) = Cardinality(S)
    BY DEF Pipeline!Cardinality, Cardinality
  <1> QED BY <1>2, <1>3, <1>4, FS_CardinalityType

\* What may be answered of a document: a failure that is its own, or a sound reading, as
\* good as that of the text layer, and of a scan without a flag only by Document AI.
SoundAnswer(f, a) ==
    \/ a = Pipeline!Failed /\ (f.text => Pipeline!Raises(f.native))
    \/ \E r : /\ SoundReading(r)
              /\ a = Pipeline!Response(r)
              /\ f.text => /\ Pipeline!CriticalHealth(r)
                                >= Pipeline!CriticalHealth(Pipeline!RunDI(f.native))
                           /\ ~Pipeline!RunDI(f.native).review => r = Pipeline!RunDI(f.native)
              /\ ~f.text /\ ~r.review => r = Pipeline!RunDI(f.scan)

PipelineInv == /\ file \in Files
               /\ answer = Pipeline!None \/ SoundAnswer(file, answer)

\* The answer to a reading.
LEMMA AnswerParts ==
  ASSUME NEW r, SoundReading(r)
  PROVE  /\ Pipeline!Response(r) =
              [status |-> IF r.review THEN "NEEDS_REVIEW" ELSE "OK",
               values |-> [l \in DOMAIN r.doc.fields |-> r.doc.fields[l].value],
               consumption |-> [i \in DOMAIN r.doc.meters |-> r.doc.meters[i].consumption.value],
               result |-> r]
         /\ Pipeline!Response(r) \notin {Pipeline!None, Pipeline!Failed}
  <1>1. DOMAIN r = {"doc", "confidence", "review"} /\ DOMAIN Pipeline!Failed = {"status"}
    BY DEF SoundReading, Pipeline!Failed
  <1>2. r # Pipeline!Failed
    BY <1>1
  <1>3. Pipeline!Response(r) =
              [status |-> IF r.review THEN "NEEDS_REVIEW" ELSE "OK",
               values |-> [l \in DOMAIN r.doc.fields |-> r.doc.fields[l].value],
               consumption |-> [i \in DOMAIN r.doc.meters |-> r.doc.meters[i].consumption.value],
               result |-> r]
    BY <1>2 DEF Pipeline!Response
  <1>4. Pipeline!Response(r).status \in {"NEEDS_REVIEW", "OK"}
    BY <1>3
  <1>5. Pipeline!None.status = "none" /\ Pipeline!Failed.status = "FAILED"
    BY DEF Pipeline!None, Pipeline!Failed
  <1>6. Pipeline!Response(r) \notin {Pipeline!None, Pipeline!Failed}
    BY <1>4, <1>5
  <1> QED BY <1>3, <1>6

\* Whichever way process takes, its answer is sound.
LEMMA ProcessIsSound ==
  ASSUME NEW f \in Files, NEW cloud \in Pipeline!Clouds
  PROVE  SoundAnswer(f, Pipeline!Response(Pipeline!Process(f, cloud)))
  <1> DEFINE native == Pipeline!RunDI(f.native)
             scan == Pipeline!RunDI(f.scan)
             p == Pipeline!Process(f, cloud)
  <1>1. f.text \in BOOLEAN /\ Pipeline!LayoutOK(f.native) /\ Pipeline!LayoutOK(f.scan)
    BY Assumptions DEF Pipeline!PipelineAssumption
  <1>2. SoundReading(native) /\ SoundReading(scan)
    BY <1>1, RunIsSound
  <1>3. Pipeline!CriticalHealth(native) \in Nat /\ Pipeline!CriticalHealth(scan) \in Nat
    BY <1>2, HealthIsNat
  <1>4. Pipeline!Response(Pipeline!Failed) = Pipeline!Failed
    BY DEF Pipeline!Response
  <1>5. cloud \in {"off", "up", "down"}
    BY DEF Pipeline!Clouds
  <1>6. CASE f.text /\ Pipeline!Raises(f.native)
    <2>1. p = Pipeline!Failed
      BY <1>6 DEF Pipeline!Process
    <2> QED BY <1>4, <1>6, <2>1 DEF SoundAnswer
  <1>7. CASE f.text /\ ~Pipeline!Raises(f.native)
    <2>1. p = Pipeline!FromText(f, cloud)
      BY <1>7 DEF Pipeline!Process
    <2>2. p = native \/ (p = scan /\ native.review /\ Pipeline!Better(scan, native))
      BY <2>1 DEF Pipeline!FromText
    <2> HIDE DEF native, scan, p
    <2>3. Pipeline!CriticalHealth(p) >= Pipeline!CriticalHealth(native)
      BY <1>3, <2>2 DEF Pipeline!Better
    <2>4. ~native.review => p = native
      BY <2>2
    <2>5. SoundReading(p)
      BY <1>2, <2>2
    <2> QED BY <1>7, <2>3, <2>4, <2>5 DEF SoundAnswer, native, p
  <1>8. CASE ~f.text
    <2>1. CASE p = Pipeline!Failed
      BY <1>4, <1>8, <2>1 DEF SoundAnswer
    <2>2. CASE p = scan
      BY <1>2, <1>8, <2>2 DEF SoundAnswer
    <2>3. CASE p = Pipeline!BestEffort(f)
      <3>1. p = [doc |-> native.doc, confidence |-> native.confidence, review |-> TRUE]
        <4>1. p = [native EXCEPT !.review = TRUE]
          BY <2>3 DEF Pipeline!BestEffort
        <4> HIDE DEF p, native, scan
        <4>2. native = [doc |-> native.doc, confidence |-> native.confidence,
                        review |-> native.review]
          BY <1>2 DEF SoundReading
        <4> QED BY <4>1, <4>2
      <3> HIDE DEF p, native, scan
      <3>2. /\ p.doc = native.doc
            /\ p.confidence = native.confidence
            /\ p.review = TRUE
        BY <3>1
      <3>3. p = [doc |-> p.doc, confidence |-> p.confidence, review |-> p.review]
        BY <3>1, <3>2
      <3>4. SoundReading(p)
        <4>1. p.confidence \in 0 .. 1000 /\ IsDoc(p.doc)
          BY <1>2, <3>2 DEF SoundReading
        <4>2. \A i \in DOMAIN p.doc.meters : /\ p.doc.meters[i].consumption.status = "VALID"
                                             /\ Pipeline!PlainDifference(p.doc.meters[i])
          BY <1>2, <3>2 DEF SoundReading
        <4> QED BY <3>2, <3>3, <4>1, <4>2 DEF SoundReading
      <3> QED BY <1>8, <3>2, <3>4 DEF SoundAnswer, p
    <2>4. p \in {Pipeline!Failed, scan, Pipeline!BestEffort(f)}
      BY <1>5, <1>8 DEF Pipeline!Process
    <2> HIDE DEF p, scan
    <2> QED BY <2>1, <2>2, <2>3, <2>4
  <1> QED BY <1>1, <1>6, <1>7, <1>8

\* Sound answers have the types and the properties of ExtractionPipeline.
LEMMA PipelineInvSuffices == PipelineInv => Pipeline!TypeOK /\ Pipeline!PipelineIsSound
  <1> SUFFICES ASSUME PipelineInv PROVE Pipeline!TypeOK /\ Pipeline!PipelineIsSound
    OBVIOUS
  <1>1. CASE answer = Pipeline!None
    <2>1. answer.status = "none" /\ answer # Pipeline!Failed
      <3>1. Pipeline!None.status = "none" /\ Pipeline!Failed.status = "FAILED"
        BY DEF Pipeline!None, Pipeline!Failed
      <3> QED BY <1>1, <3>1
    <2> QED BY <1>1, <2>1 DEF PipelineInv, Pipeline!TypeOK, Pipeline!PipelineIsSound,
          Pipeline!ReadyIsSound, Pipeline!EscalationHelps, Pipeline!FailsForAReason,
          Pipeline!MetersAlwaysBalance
  <1>2. CASE answer = Pipeline!Failed /\ (file.text => Pipeline!Raises(file.native))
    <2>1. answer.status = "FAILED"
      BY <1>2 DEF Pipeline!Failed
    <2> QED BY <1>2, <2>1 DEF PipelineInv, Pipeline!TypeOK, Pipeline!PipelineIsSound,
          Pipeline!ReadyIsSound, Pipeline!EscalationHelps, Pipeline!FailsForAReason,
          Pipeline!MetersAlwaysBalance
  <1>3. ASSUME NEW r, SoundReading(r), answer = Pipeline!Response(r),
               file.text => /\ Pipeline!CriticalHealth(r)
                                 >= Pipeline!CriticalHealth(Pipeline!RunDI(file.native))
                            /\ ~Pipeline!RunDI(file.native).review
                                  => r = Pipeline!RunDI(file.native),
               ~file.text /\ ~r.review => r = Pipeline!RunDI(file.scan)
        PROVE  Pipeline!TypeOK /\ Pipeline!PipelineIsSound
    <2>1. /\ answer \notin {Pipeline!None, Pipeline!Failed}
          /\ answer.status = IF r.review THEN "NEEDS_REVIEW" ELSE "OK"
          /\ answer.values = [l \in DOMAIN r.doc.fields |-> r.doc.fields[l].value]
          /\ answer.result = r
      BY <1>3, AnswerParts
    <2>2. Pipeline!TypeOK
      <3>1. \A l \in DOMAIN r.doc.fields : r.doc.fields[l] \in Reading
        <4>1. IsDoc(r.doc)
          BY <1>3 DEF SoundReading
        <4> QED BY <4>1 DEF IsDoc
      <3>2. \A x \in Reading : x.conf \in 0 .. 1000
        BY DEF Reading
      <3>3. \A l \in DOMAIN r.doc.fields : r.doc.fields[l].conf \in 0 .. 1000
        BY <3>1, <3>2
      <3>4. r.confidence \in 0 .. 1000
        BY <1>3 DEF SoundReading
      <3>5. DOMAIN answer.values = DOMAIN r.doc.fields
        BY <2>1
      <3>6. answer.status \in {"OK", "NEEDS_REVIEW"}
        BY <2>1
      <3>7. answer.result = r /\ file \in Files
        BY <2>1 DEF PipelineInv
      <3>8. ASSUME NEW l \in DOMAIN answer.values
            PROVE  answer.result.doc.fields[l].conf \in 0 .. 1000
        <4>1. answer.result.doc.fields = r.doc.fields
          BY <3>7
        <4>2. l \in DOMAIN r.doc.fields
          BY <3>5
        <4>3. r.doc.fields[l].conf \in 0 .. 1000
          BY <3>3, <4>2
        <4> QED BY <4>1, <4>3
      <3>9. answer.result.confidence \in 0 .. 1000
        BY <3>4, <3>7
      <3>10. answer = Pipeline!None \/ answer.status \in {"OK", "NEEDS_REVIEW", "FAILED"}
        BY <3>6
      <3> QED BY <3>7, <3>8, <3>9, <3>10 DEF Pipeline!TypeOK
    <2>3. Pipeline!ReadyIsSound
      <3> SUFFICES ASSUME answer.status = "OK" PROVE Pipeline!ReadyIsSound
        BY DEF Pipeline!ReadyIsSound
      <3> DEFINE v == answer.values
                 doc == answer.result.doc
      <3>1. ~r.review
        BY <2>1
      <3>2. /\ Pipeline!Critical \subseteq DOMAIN doc.fields
            /\ Pipeline!CanCompareDates(doc) => Pipeline!DatesOrdered(doc)
            /\ ~Pipeline!AmountImplausible(doc)
            /\ Pipeline!CanReconcile(doc) => Pipeline!ChargesReconcile(doc)
        BY <1>3, <2>1, <3>1 DEF SoundReading
      <3>3. /\ DOMAIN v = DOMAIN doc.fields
            /\ \A l \in DOMAIN doc.fields : /\ v[l] = doc.fields[l].value
                                            /\ Pipeline!ValueOf(doc.fields, l) = v[l]
        BY <2>1 DEF Pipeline!ValueOf
      <3> HIDE DEF v, doc
      <3>4. {"bill_date", "bill_amount"} \subseteq DOMAIN v
        BY <3>2, <3>3 DEF Pipeline!Critical
      <3>5. ASSUME "due_date" \in DOMAIN v, Pipeline!Number(v["bill_date"]),
                   Pipeline!Number(v["due_date"])
            PROVE  v["bill_date"] <= v["due_date"]
        <4>1. Pipeline!CanCompareDates(doc)
          BY <3>3, <3>4, <3>5 DEF Pipeline!CanCompareDates, Pipeline!Dates
        <4> QED BY <3>2, <3>3, <3>4, <3>5, <4>1 DEF Pipeline!DatesOrdered
      <3>6. Pipeline!Number(v["bill_amount"]) => ~Pipeline!LooksLikePhone(v["bill_amount"])
        BY <3>2, <3>3, <3>4 DEF Pipeline!AmountImplausible
      <3> QED BY <3>2, <3>3, <3>5, <3>6 DEF Pipeline!ReadyIsSound, v, doc
    <2>4. Pipeline!EscalationHelps
      BY <1>3, <2>1 DEF Pipeline!EscalationHelps
    <2>5. Pipeline!FailsForAReason
      BY <1>3, <2>1 DEF Pipeline!FailsForAReason
    <2>6. Pipeline!MetersAlwaysBalance
      BY <1>3, <2>1 DEF Pipeline!MetersAlwaysBalance, SoundReading
    <2> QED BY <2>2, <2>3, <2>4, <2>5, <2>6 DEF Pipeline!PipelineIsSound
  <1> QED BY <1>1, <1>2, <1>3 DEF PipelineInv, SoundAnswer

\* A document is answered once, and soundly.
LEMMA PipelineInvStep ==
  ASSUME PipelineInv, [Pipeline!Next]_pipelineVars
  PROVE  PipelineInv'
  <1>1. ASSUME NEW cloud \in Pipeline!Clouds, Pipeline!Extract(cloud) PROVE PipelineInv'
    <2>1. file' = file /\ answer' = Pipeline!Response(Pipeline!Process(file, cloud))
      BY <1>1 DEF Pipeline!Extract
    <2>2. SoundAnswer(file, Pipeline!Response(Pipeline!Process(file, cloud)))
      BY ProcessIsSound DEF PipelineInv
    <2>3. SoundAnswer(file', answer')
      BY <2>1, <2>2
    <2> QED BY <2>1, <2>3 DEF PipelineInv, SoundAnswer
  <1>2. CASE UNCHANGED pipelineVars
    BY <1>2 DEF pipelineVars, PipelineInv, SoundAnswer
  <1> QED BY <1>1, <1>2 DEF Pipeline!Next

-------------------------------------------------------------------------------
(* All parts.                                                               *)

\* What holds of the parts of the engine at every step.
EngineInv == /\ DialogueInv /\ FeedbackInv /\ ValidationInv
             /\ part = "pipeline" => PipelineInv

engineVars == <<part, pipelineVars, copilotVars, feedbackVars, vars>>

\* Every part begins with what holds of it.
LEMMA EngineBegins ==
  ASSUME MCInit
  PROVE  EngineInv
  <1>1. part = "pipeline" => PipelineInv
    BY DEF MCInit, Pipeline!Init, PipelineInv
  <1> QED
    BY <1>1, Assumptions, DialogueBegins, FeedbackBegins, ValidationBegins DEF MCInit, EngineInv

\* A step of one part leaves the others alone.
LEMMA EngineStep ==
  ASSUME EngineInv, [MCNext]_engineVars
  PROVE  EngineInv'
  <1>1. [Copilot!Next]_copilotVars
    BY DEF MCNext, engineVars
  <1>2. [Feedback!Next]_feedbackVars
    BY DEF MCNext, engineVars
  <1>3. [Next]_vars
    BY DEF MCNext, engineVars
  <1>4. part' = part /\ [Pipeline!Next]_pipelineVars
    BY DEF MCNext, engineVars
  <1>5. (part = "pipeline" => PipelineInv)'
    BY <1>4, PipelineInvStep DEF EngineInv
  <1> QED
    BY <1>1, <1>2, <1>3, <1>5, Assumptions, DialogueInvStep, FeedbackInvStep, ValidationInvStep
    DEF EngineInv

\* So it holds throughout.
LEMMA EngineInvariance == MCSpec => []EngineInv
  <1>1. MCInit => EngineInv
    BY EngineBegins
  <1>2. EngineInv /\ [MCNext]_engineVars => EngineInv'
    BY EngineStep
  <1> QED BY <1>1, <1>2, PTL DEF MCSpec, engineVars

\* What the engine answers of a document is sound: an answer without a flag for review is
\* complete and adds up, whichever of two readings it comes from, a document fails for no
\* fault of Document AI, meters balance, and confidences are in their range, for any
\* documents.
THEOREM AnswersAreSound == MCSpec => []PipelineIsSound
  <1>1. EngineInv => PipelineIsSound
    BY PipelineInvSuffices DEF EngineInv, PipelineIsSound
  <1> QED BY EngineInvariance, <1>1, PTL

\* The copilot sends the model a dialogue it accepts, and judges every sentence the user
\* has seen, for any number of turns.
THEOREM DialogueHolds == MCSpec => []DialogueIsSound
  <1>1. EngineInv => DialogueIsSound
    BY Assumptions, DialogueInvSuffices DEF EngineInv
  <1> QED BY EngineInvariance, <1>1, PTL

\* A correction is never lost without a trace, and never stored twice but by a put that
\* seemed to fail, for any number of messages, seconds and faults.
THEOREM CorrectionsAreKept == MCSpec => []FeedbackIsKept
  <1>1. EngineInv => FeedbackIsKept
    BY DEF EngineInv, FeedbackInv, FeedbackIsKept, Feedback!FeedbackIsKept
  <1> QED BY EngineInvariance, <1>1, PTL

\* The slots are returned however a call ends, and what a request is answered is what the
\* examination and the model found, for any number of fields, slots and attempts.
THEOREM RequestsAreValidated == MCSpec => []ValidationIsSound
  <1>1. EngineInv => ValidationIsSound
    BY ValidationInvSuffices DEF EngineInv
  <1> QED BY EngineInvariance, <1>1, PTL
===============================================================================
