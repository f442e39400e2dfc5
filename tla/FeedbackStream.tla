---------------------------- MODULE FeedbackStream ----------------------------
(***************************************************************************)
(* Corrections of reviewers on their way to the training set: the AI engine *)
(* appends them to a Redis stream, and a consumer process of its own reads  *)
(* them in batches, keeps them in memory, acknowledges them one by one, and *)
(* writes what it has to S3 every hour and when it is stopped.              *)
(*                                                                         *)
(* The stream, its consumer group and S3 are modelled by what the consumer  *)
(* relies on; a call to either may fail, before or after it had its effect. *)
(***************************************************************************)
EXTENDS Naturals, Sequences, FiniteSets

CONSTANTS
    MaxMessages,    \* corrections that are posted (a bound)
    MaxSeconds,     \* as much of the clock as is told apart (a bound)
    MaxFaults       \* failed calls and crashes (a bound)

FeedbackAssumption == /\ MaxMessages \in Nat \ {0}
                      /\ MaxSeconds \in Nat
                      /\ MaxFaults \in Nat

VARIABLES
    posted,         \* how many messages the stream has
    group,          \* group[m]: what the consumer group knows of message m
    running,        \* "on", "stopping" or "off"
    batch,          \* the messages read and not yet handled
    buffer,         \* self.buffer
    put,            \* put_object under way: its key and items, or NoPut
    object,         \* object[k]: the items under the key of second k
    clock,
    lastFlush,      \* last_flush
    faults,
    gone,           \* messages in memory when it was lost, or overwritten (history)
    unsure,         \* messages of a failed read or ack, and the rest of its batch (history)
    doubted         \* messages of a put that failed after it had stored them (history)

vars == <<posted, group, running, batch, buffer, put, object, clock, lastFlush, faults, gone, unsure, doubted>>

Messages == 1 .. MaxMessages
Seconds == 0 .. MaxSeconds

NoPut == [key |-> "none"]

TypeOK ==
    /\ posted \in 0 .. MaxMessages
    /\ group \in [Messages -> {"new", "pending", "acked"}]
    /\ running \in {"on", "stopping", "off"}
    /\ batch \in Seq(Messages)
    /\ buffer \subseteq Messages
    /\ put = NoPut \/ put \in [key : Seconds, items : SUBSET Messages]
    /\ object \in [Seconds -> SUBSET Messages]
    /\ clock \in Seconds
    /\ lastFlush \in Seconds
    /\ faults \in 0 .. MaxFaults
    /\ gone \cup unsure \cup doubted \subseteq Messages

Init ==
    /\ posted = 0
    /\ group = [m \in Messages |-> "new"]
    /\ running = "on"
    /\ batch = <<>>
    /\ buffer = {}
    /\ put = NoPut
    /\ object = [k \in Seconds |-> {}]
    /\ clock = 0
    /\ lastFlush = 0
    /\ faults = 0
    /\ gone = {}
    /\ unsure = {}
    /\ doubted = {}

\* POST /feedback: xadd.
Post ==
    /\ posted < MaxMessages
    /\ posted' = posted + 1
    /\ UNCHANGED <<group, running, batch, buffer, put, object, clock, faults, gone, unsure, doubted, lastFlush>>

\* Between two batches.
Looping == running = "on" /\ batch = <<>> /\ put = NoPut

\* xreadgroup with ">": only what was never delivered.
Read ==
    /\ Looping
    /\ \E n \in 1 .. posted :
          /\ \A m \in 1 .. n - 1 : group[m] # "new"
          /\ group[n] = "new"
          /\ batch' = [i \in 1 .. posted - n + 1 |-> n + i - 1]
          /\ group' = [m \in Messages |-> IF m \in n .. posted THEN "pending" ELSE group[m]]
    /\ UNCHANGED <<posted, running, buffer, put, object, clock, faults, gone, unsure, doubted, lastFlush>>

\* xreadgroup raises when the messages are delivered already.
ReadFails ==
    /\ Looping
    /\ faults < MaxFaults
    /\ faults' = faults + 1
    /\ LET delivered == {m \in 1 .. posted : group[m] = "new"}
       IN /\ group' = [m \in Messages |-> IF m \in delivered THEN "pending" ELSE group[m]]
          /\ unsure' = unsure \cup delivered
    /\ UNCHANGED <<posted, running, batch, buffer, put, object, clock, gone, doubted, lastFlush>>

\* _handle, and the acknowledgement.
Handle ==
    /\ batch # <<>>
    /\ put = NoPut
    /\ buffer' = buffer \cup {Head(batch)}
    /\ group' = [group EXCEPT ![Head(batch)] = "acked"]
    /\ batch' = Tail(batch)
    /\ UNCHANGED <<posted, running, put, object, clock, faults, gone, unsure, doubted, lastFlush>>

\* xack raises: the rest of the batch is not handled, and will not be read again.
AckFails ==
    /\ batch # <<>>
    /\ put = NoPut
    /\ faults < MaxFaults
    /\ faults' = faults + 1
    /\ buffer' = buffer \cup {Head(batch)}
    /\ \/ group' = [group EXCEPT ![Head(batch)] = "acked"]
       \/ UNCHANGED group
    /\ batch' = <<>>
    /\ unsure' = unsure \cup {batch[i] : i \in DOMAIN batch}
    /\ UNCHANGED <<posted, running, put, object, clock, gone, doubted, lastFlush>>

\* SIGTERM: after the batch in hand.
Stop ==
    /\ running = "on"
    /\ running' = "stopping"
    /\ UNCHANGED <<posted, group, batch, buffer, put, object, clock, faults, gone, unsure, doubted, lastFlush>>

\* _flush_to_s3: after an hour, or when the loop has ended.
BeginFlush ==
    /\ \/ Looping /\ clock > lastFlush
       \/ running = "stopping" /\ batch = <<>> /\ put = NoPut
    /\ buffer # {}
    /\ put' = [key |-> clock, items |-> buffer]
    /\ buffer' = {}
    /\ UNCHANGED <<posted, group, running, batch, object, clock, faults, gone, unsure, doubted, lastFlush>>

\* After an hour with nothing to write.
SkipFlush ==
    /\ Looping
    /\ clock > lastFlush
    /\ buffer = {}
    /\ lastFlush' = clock
    /\ UNCHANGED <<posted, group, running, batch, buffer, put, object, clock, faults, gone, unsure, doubted>>

\* The process ends after its last flush, however that went.
NextRunning == IF running = "stopping" THEN "off" ELSE running

Stored == put.items
Overwritten == object[put.key] \ put.items

PutSucceeds ==
    /\ put # NoPut
    /\ object' = [object EXCEPT ![put.key] = Stored]
    /\ gone' = gone \cup Overwritten
    /\ put' = NoPut
    /\ running' = NextRunning
    /\ lastFlush' = clock
    /\ UNCHANGED <<posted, group, batch, buffer, clock, faults, unsure, doubted>>

\* As if what could not be written were dropped.
PutFailsForGood ==
    /\ put # NoPut
    /\ faults < MaxFaults
    /\ faults' = faults + 1
    /\ put' = NoPut
    /\ lastFlush' = clock
    /\ UNCHANGED <<posted, group, running, batch, buffer, object, clock, gone, unsure, doubted>>

\* The items go back into the buffer, which a process that ends takes with it.
PutFails ==
    /\ put # NoPut
    /\ faults < MaxFaults
    /\ faults' = faults + 1
    /\ \/ /\ object' = [object EXCEPT ![put.key] = Stored]
          /\ doubted' = doubted \cup put.items
          /\ gone' = gone \cup Overwritten \cup (IF running = "stopping" THEN put.items ELSE {})
       \/ /\ gone' = gone \cup (IF running = "stopping" THEN put.items ELSE {})
          /\ UNCHANGED <<object, doubted>>
    /\ buffer' = IF running = "stopping" THEN {} ELSE buffer \cup put.items
    /\ put' = NoPut
    /\ running' = NextRunning
    /\ lastFlush' = clock
    /\ UNCHANGED <<posted, group, batch, clock, unsure>>

\* Nothing to flush.
End ==
    /\ running = "stopping"
    /\ batch = <<>> /\ put = NoPut /\ buffer = {}
    /\ running' = "off"
    /\ UNCHANGED <<posted, group, batch, buffer, put, object, clock, faults, gone, unsure, doubted, lastFlush>>

InMemory == buffer \cup (IF put = NoPut THEN {} ELSE put.items)

Crash ==
    /\ running # "off"
    /\ faults < MaxFaults
    /\ faults' = faults + 1
    /\ running' = "off"
    /\ unsure' = unsure \cup {batch[i] : i \in DOMAIN batch}
    /\ batch' = <<>>
    /\ buffer' = {}
    /\ put' = NoPut
    /\ \/ /\ gone' = gone \cup InMemory
          /\ UNCHANGED <<object, doubted>>
       \/ /\ put # NoPut
          /\ object' = [object EXCEPT ![put.key] = Stored]
          /\ gone' = gone \cup InMemory \cup Overwritten
          /\ doubted' = doubted \cup put.items
    /\ UNCHANGED <<posted, group, clock, lastFlush>>

\* ensure_group finds the group, with all it knows.
Start ==
    /\ running = "off"
    /\ running' = "on"
    /\ lastFlush' = clock
    /\ UNCHANGED <<posted, group, batch, buffer, put, object, clock, faults, gone, unsure, doubted>>

Tick ==
    /\ clock < MaxSeconds
    /\ clock' = clock + 1
    /\ UNCHANGED <<posted, group, running, batch, buffer, put, object, faults, gone, unsure, doubted, lastFlush>>

Next == \/ Post \/ Read \/ ReadFails \/ Handle \/ AckFails \/ Stop \/ BeginFlush \/ SkipFlush
        \/ PutSucceeds \/ PutFails \/ End \/ Crash \/ Start \/ Tick

Spec == Init /\ [][Next]_vars

-------------------------------------------------------------------------------
(* Properties.                                                               *)

InS3(m) == \E k \in Seconds : m \in object[k]

\* An acknowledged correction is in memory or in S3, though the stream will not give it
\* again: unless the process lost its memory, by a crash or a last flush that failed, or
\* another flush of the same second took its place.
AckedIsKept ==
    \A m \in Messages : group[m] = "acked" => m \in InMemory \/ InS3(m) \/ m \in gone

\* A correction that was delivered and not acknowledged is in the batch in hand, or was
\* left there by a crash, or a read or an acknowledgement that failed: no other is stranded.
PendingIsInHand ==
    \A m \in Messages : group[m] = "pending" =>
        m \in unsure \/ \E i \in DOMAIN batch : batch[i] = m

\* A correction is in the training set once, whatever was read again or flushed again:
\* it is under two keys only if a put failed that had stored it.
StoredOnce ==
    \A m \in Messages : m \notin doubted => \A j, k \in Seconds : m \in object[j] /\ m \in object[k] => j = k

\* A correction is never lost without a trace: the three properties of messages.
FeedbackIsKept == AckedIsKept /\ PendingIsInHand /\ StoredOnce
===============================================================================
