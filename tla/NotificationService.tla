------------------------ MODULE NotificationService ------------------------
(***************************************************************************)
(* NotificationService.Handle (services/notification/internal/application/ *)
(* notification_service.go): one notification for every event of a topic,  *)
(* whatever its type, with notification_processed_events against           *)
(* duplicates.  Every call of a repository or of the sender is one step.   *)
(*                                                                         *)
(* The instances of the service are a consumer group on one partition, as  *)
(* in SagaConsumer: the new reader of the partition starts at the          *)
(* committed offset, which may be anywhere before the records that are     *)
(* still handled, while an instance that lost the partition finishes the   *)
(* records it has polled.  The text of the notification (flattenPayload)   *)
(* decides nothing.                                                        *)
(***************************************************************************)
EXTENDS Integers, Sequences, Bags

CONSTANTS
    Senders,    \* instances of the service
    MaxFaults   \* bound: failed calls, restarts and rebalances

VARIABLES
    topic,      \* the records, each with its event_id
    sent,       \* the notifications, as a bag of the events they are about
    processed,  \* notification_processed_events
    failed,     \* history: the records whose handler returned an error
    reader,     \* the instance the partition is assigned to
    next,       \* the offset the reader fetches from
    cur,        \* the record each instance handles, or 0,
    last,       \* and the last one of the same poll
    pc,         \* where its handler is
    faults      \* faults so far

tables == <<sent, processed>>
vars == <<topic, sent, processed, failed, reader, next, cur, last, pc, faults>>

PCs == {"idle", "check", "send", "mark"}

\* A service that has not read anything yet.
ServiceInit ==
    /\ sent = EmptyBag
    /\ processed = {}
    /\ failed = {}
    /\ reader = CHOOSE c \in Senders : TRUE
    /\ next = 0
    /\ cur = [c \in Senders |-> 0]
    /\ last = [c \in Senders |-> 0]
    /\ pc = [c \in Senders |-> "idle"]

Fault == faults < MaxFaults /\ faults' = faults + 1

Event(c) == topic[cur[c]].event

-----------------------------------------------------------------------------
(* Consumer.Run.                                                           *)

\* PollFetches returns the next records, one or more.
Poll(c) ==
    /\ pc[c] = "idle" /\ reader = c
    /\ \E n \in (next + 1)..Len(topic) : next' = n /\ last' = [last EXCEPT ![c] = n]
    /\ cur' = [cur EXCEPT ![c] = next + 1]
    /\ pc' = [pc EXCEPT ![c] = "check"]
    /\ UNCHANGED <<tables, failed, reader, faults>>

\* c is done with the records of its poll.
Return(c) ==
    /\ cur' = [cur EXCEPT ![c] = 0]
    /\ last' = [last EXCEPT ![c] = 0]
    /\ pc' = [pc EXCEPT ![c] = "idle"]

\* EachRecord: the next record of the poll, if there is one, also after the
\* partition was lost.
NextRecord(c) ==
    IF cur[c] < last[c]
    THEN /\ cur' = [cur EXCEPT ![c] = @ + 1]
         /\ pc' = [pc EXCEPT ![c] = "check"]
         /\ UNCHANGED last
    ELSE Return(c)

\* The offsets that the group may have committed: no record is marked before
\* its handler has returned, and a commit may be without effect.
Committable ==
    IF pc[reader] # "idle" /\ last[reader] = next THEN 0..(cur[reader] - 1) ELSE 0..next

\* The partition goes from the reader to c, or is assigned to the reader again,
\* which first finishes its poll.
Rebalance(c) ==
    /\ Fault
    /\ reader' = c
    /\ next' \in Committable
    /\ UNCHANGED <<tables, failed, cur, last, pc>>

\* c stops and is started again; if it is the reader, the partition is
\* assigned anew.
Restart(c) ==
    /\ reader = c \/ pc[c] # "idle"
    /\ Fault
    /\ IF reader = c
       THEN reader' \in Senders /\ next' \in Committable
       ELSE UNCHANGED <<reader, next>>
    /\ Return(c)
    /\ UNCHANGED <<tables, failed>>

-----------------------------------------------------------------------------
(* NotificationService.Handle.                                             *)

\* IsProcessed is true.
Skip(c) ==
    /\ pc[c] = "check" /\ Event(c) \in processed
    /\ NextRecord(c)
    /\ UNCHANGED <<tables, failed, reader, next, faults>>

\* Mutant: notification_processed_events is not consulted.
BeginUnchecked(c) ==
    /\ pc[c] = "check"
    /\ pc' = [pc EXCEPT ![c] = "send"]
    /\ UNCHANGED <<tables, failed, reader, next, cur, last, faults>>

\* IsProcessed is false and the payload is an object.
Begin(c) ==
    /\ pc[c] = "check" /\ Event(c) \notin processed
    /\ pc' = [pc EXCEPT ![c] = "send"]
    /\ UNCHANGED <<tables, failed, reader, next, cur, last, faults>>

Send(c) ==
    /\ pc[c] = "send"
    /\ sent' = sent (+) SetToBag({Event(c)})
    /\ pc' = [pc EXCEPT ![c] = "mark"]
    /\ UNCHANGED <<processed, failed, reader, next, cur, last, faults>>

\* ON CONFLICT DO NOTHING.
MarkProcessed(c) ==
    /\ pc[c] = "mark"
    /\ processed' = processed \cup {Event(c)}
    /\ NextRecord(c)
    /\ UNCHANGED <<sent, failed, reader, next, faults>>

\* IsProcessed, the decoding, Send or MarkProcessed fails, the last two with
\* or without their effect.  Handle returns the error, and the loop goes on
\* with the next record.
CallFails(c) ==
    /\ pc[c] # "idle"
    /\ Fault
    /\ \/ UNCHANGED tables
       \/ pc[c] = "send" /\ sent' = sent (+) SetToBag({Event(c)}) /\ UNCHANGED processed
       \/ pc[c] = "mark" /\ processed' = processed \cup {Event(c)} /\ UNCHANGED sent
    /\ failed' = failed \cup {cur[c]}
    /\ NextRecord(c)
    /\ UNCHANGED <<reader, next>>

\* What an instance does by itself.
Run(c) == Poll(c) \/ Skip(c) \/ Begin(c) \/ Send(c) \/ MarkProcessed(c)

ServiceNext == \E c \in Senders : Run(c) \/ CallFails(c) \/ Rebalance(c) \/ Restart(c)

=============================================================================
