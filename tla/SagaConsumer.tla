---------------------------- MODULE SagaConsumer ----------------------------
(***************************************************************************)
(* The wallet side of the transfer saga: members of a consumer group       *)
(* (pkg/kafka/consumer.go) that hand the records of one partition of the   *)
(* transactions topic to SagaHandler (services/wallet/internal/adapters/   *)
(* inbound/kafka/saga_handler.go).                                         *)
(*                                                                         *)
(* Kafka and its client are external: a partition belongs to one member at *)
(* a time and its new owner starts at the committed offset, but a member   *)
(* that lost it finishes the records it has already polled.  A commit may  *)
(* be without effect.  A call of WalletService, which WalletService.tla    *)
(* shows to be atomic, is one step.                                        *)
(***************************************************************************)
EXTENDS Integers, Sequences, FiniteSets, Bags

CONSTANTS
    Members,    \* consumers of the group
    NoMember,   \* the partition has no owner
    Feed,       \* records of the partition, each with its event_id header and
                \* its event_type header; the same event may come twice
    MaxFaults   \* bound: failed calls, crashes and rebalances

SagaTypes == {"TransactionInitiated", "TransactionCompleted"}
RecordTypes == SagaTypes \cup {"TransactionFailed"}

ASSUME SagaAssumption ==
    /\ IsFiniteSet(Members) /\ NoMember \notin Members
    /\ Feed \in Seq([event : {Feed[i].event : i \in DOMAIN Feed}, type : RecordTypes])
    /\ \A i, j \in DOMAIN Feed : Feed[i].event = Feed[j].event => Feed[i] = Feed[j]
    /\ MaxFaults \in Nat

VARIABLES
    topic,      \* the partition
    owner,      \* the member the partition is assigned to
    committed,  \* the committed offset of the group
    effects,    \* wallet_events, as a bag of the events that caused the rows
    outbox,     \* wallet_outbox_events: a bag of [event, type]
    processed,  \* processed_events
    failed,     \* history: the records whose handler returned an error
    refused,    \* history: the events whose wallet operation was refused
    pc,         \* where each member is
    next,       \* the offset it fetches from
    cur,        \* the record it handles,
    last,       \* and the last one of the same poll
    marked,     \* the offset up to which it has marked records
    faults      \* faults so far

tables == <<effects, outbox, processed>>
history == <<failed, refused>>
group == <<owner, committed>>
vars == <<topic, owner, committed, effects, outbox, processed, failed, refused,
          pc, next, cur, last, marked, faults>>

PCs == {"poll", "handle", "effect", "outbox", "processed", "commit"}

\* A group that has not read anything yet.
GroupInit ==
    /\ owner = NoMember
    /\ committed = 0
    /\ effects = EmptyBag
    /\ outbox = EmptyBag
    /\ processed = {}
    /\ failed = {}
    /\ refused = {}
    /\ pc = [c \in Members |-> "poll"]
    /\ next = [c \in Members |-> 0]
    /\ cur = [c \in Members |-> 0]
    /\ last = [c \in Members |-> 0]
    /\ marked = [c \in Members |-> 0]
    /\ faults = 0

Init == GroupInit /\ topic = Feed

Fault == faults < MaxFaults /\ faults' = faults + 1

Events == {topic[i].event : i \in DOMAIN topic}
Event(c) == topic[cur[c]].event
Type(c) == topic[cur[c]].type

-----------------------------------------------------------------------------
(* The group.                                                              *)

\* The partition goes to c, which will fetch from the committed offset, even
\* if it is still busy with records of before.  Taking the partition from a
\* member that runs is a fault; that member's marks are dropped.
Assign(c) ==
    /\ owner # c
    /\ IF owner = NoMember THEN UNCHANGED faults ELSE Fault
    /\ owner' = c
    /\ next' = [next EXCEPT ![c] = committed]
    /\ marked' = [d \in Members |-> 0]
    /\ UNCHANGED <<committed, tables, history, pc, cur, last>>

\* c dies and is started again; the partition it has is to be reassigned.
Crash(c) ==
    /\ owner = c \/ pc[c] # "poll"
    /\ Fault
    /\ owner' = IF owner = c THEN NoMember ELSE owner
    /\ pc' = [pc EXCEPT ![c] = "poll"]
    /\ marked' = [marked EXCEPT ![c] = 0]
    /\ UNCHANGED <<committed, tables, history, next, cur, last>>

-----------------------------------------------------------------------------
(* Consumer.Run.                                                           *)

\* PollFetches returns the next records, one or more.
Poll(c) ==
    /\ pc[c] = "poll" /\ owner = c
    /\ \E n \in (next[c] + 1)..Len(topic) :
        /\ last' = [last EXCEPT ![c] = n]
        /\ next' = [next EXCEPT ![c] = n]
    /\ cur' = [cur EXCEPT ![c] = next[c] + 1]
    /\ pc' = [pc EXCEPT ![c] = "handle"]
    /\ UNCHANGED <<group, tables, history, marked, faults>>

\* Mutant: an index that is one too far.
NextRecordTooFar(c) ==
    IF cur[c] <= last[c]
    THEN cur' = [cur EXCEPT ![c] = @ + 1] /\ pc' = [pc EXCEPT ![c] = "handle"]
    ELSE pc' = [pc EXCEPT ![c] = "commit"] /\ UNCHANGED cur

\* Mutant: only the first record of a poll is handled.
NextRecordDroppingRest(c) == pc' = [pc EXCEPT ![c] = "commit"] /\ UNCHANGED cur

\* EachRecord: the next record of the poll, if there is one.
NextRecord(c) ==
    IF cur[c] < last[c]
    THEN cur' = [cur EXCEPT ![c] = @ + 1] /\ pc' = [pc EXCEPT ![c] = "handle"]
    ELSE pc' = [pc EXCEPT ![c] = "commit"] /\ UNCHANGED cur

\* The handler returns nil: MarkCommitRecords, for the owner of the partition.
Handled(c) ==
    /\ marked' = IF owner = c THEN [marked EXCEPT ![c] = cur[c]] ELSE marked
    /\ NextRecord(c)
    /\ UNCHANGED <<group, history, next, last>>

\* The handler returns an error: the loop goes on with the next record.
HandlerError(c) ==
    /\ failed' = failed \cup {cur[c]}
    /\ NextRecord(c)
    /\ UNCHANGED <<group, marked, next, last>>

\* CommitMarkedOffsets, which may fail or do nothing.
Commit(c) ==
    /\ pc[c] = "commit"
    /\ \/ owner = c /\ marked[c] > committed /\ committed' = marked[c]
       \/ committed' = committed
    /\ pc' = [pc EXCEPT ![c] = "poll"]
    /\ UNCHANGED <<owner, tables, history, next, cur, last, marked, faults>>

-----------------------------------------------------------------------------
(* SagaHandler.Handle.                                                     *)

\* IsProcessed is true, or the type is none of the saga's: nothing to do.
\* A record without a valid event_id, which no outbox worker writes, would
\* be passed over in the same way.
Skip(c) ==
    /\ pc[c] = "handle"
    /\ Event(c) \in processed \/ Type(c) \notin SagaTypes
    /\ Handled(c)
    /\ UNCHANGED <<tables, faults>>

\* Mutant: processed_events is not consulted.
BeginWithoutCheck(c) ==
    /\ pc[c] = "handle"
    /\ Type(c) \in SagaTypes
    /\ pc' = [pc EXCEPT ![c] = "effect"]
    /\ UNCHANGED <<group, tables, history, next, cur, last, marked, faults>>

\* Mutant: MarkProcessed comes first.
BeginMarkingProcessed(c) ==
    /\ pc[c] = "handle"
    /\ Event(c) \notin processed /\ Type(c) \in SagaTypes
    /\ processed' = processed \cup {Event(c)}
    /\ pc' = [pc EXCEPT ![c] = "effect"]
    /\ UNCHANGED <<group, effects, outbox, history, next, cur, last, marked, faults>>

\* IsProcessed is false: the handler of the type is called.
Begin(c) ==
    /\ pc[c] = "handle"
    /\ Event(c) \notin processed /\ Type(c) \in SagaTypes
    /\ pc' = [pc EXCEPT ![c] = "effect"]
    /\ UNCHANGED <<group, tables, history, next, cur, last, marked, faults>>

\* ReserveForTransaction or CreditForTransaction succeeds.
Effect(c) ==
    /\ pc[c] = "effect"
    /\ effects' = effects (+) SetToBag({Event(c)})
    /\ pc' = [pc EXCEPT ![c] = "outbox"]
    /\ UNCHANGED <<group, outbox, processed, history, next, cur, last, marked, faults>>

\* Mutant: handleTransactionInitiated goes on after the error.
EffectRefusedContinuing(c) ==
    /\ pc[c] = "effect"
    /\ refused' = refused \cup {Event(c)}
    /\ pc' = [pc EXCEPT ![c] = "outbox"]
    /\ UNCHANGED <<group, tables, failed, next, cur, last, marked, faults>>

\* The wallet refuses (no funds, no wallet, a version conflict).
EffectRefused(c) ==
    /\ pc[c] = "effect"
    /\ refused' = refused \cup {Event(c)}
    /\ failed' = failed \cup {cur[c]}
    /\ NextRecord(c)
    /\ UNCHANGED <<group, tables, marked, next, last, faults>>

\* The event is appended, but the call fails after that: maybeSnapshot, or
\* the answer to COMMIT is lost.
EffectUnconfirmed(c) ==
    /\ pc[c] = "effect"
    /\ Fault
    /\ effects' = effects (+) SetToBag({Event(c)})
    /\ HandlerError(c)
    /\ UNCHANGED <<outbox, processed, refused>>

OutboxTypeOf(type) == IF type = "TransactionInitiated" THEN "FundsReserved" ELSE "FundsDeposited"

Emitted(c) == [event |-> Event(c), type |-> OutboxTypeOf(Type(c))]

\* outbox.Save.
SaveOutbox(c) ==
    /\ pc[c] = "outbox"
    /\ outbox' = outbox (+) SetToBag({Emitted(c)})
    /\ pc' = [pc EXCEPT ![c] = "processed"]
    /\ UNCHANGED <<group, effects, processed, history, next, cur, last, marked, faults>>

\* MarkProcessed, ON CONFLICT DO NOTHING.
MarkProcessed(c) ==
    /\ pc[c] = "processed"
    /\ processed' = processed \cup {Event(c)}
    /\ Handled(c)
    /\ UNCHANGED <<effects, outbox, faults>>

\* A statement, or the decoding of the payload, fails; a statement may fail
\* after it took effect.
StatementFails(c) ==
    /\ Fault
    /\ \/ pc[c] \in {"handle", "outbox", "processed"} /\ UNCHANGED tables
       \/ /\ pc[c] = "outbox"
          /\ outbox' = outbox (+) SetToBag({Emitted(c)})
          /\ UNCHANGED <<effects, processed>>
       \/ /\ pc[c] = "processed"
          /\ processed' = processed \cup {Event(c)}
          /\ UNCHANGED <<effects, outbox>>
    /\ HandlerError(c)
    /\ UNCHANGED refused

-----------------------------------------------------------------------------
\* What a member does by itself.
Run(c) ==
    \/ Poll(c) \/ Skip(c) \/ Begin(c) \/ Effect(c) \/ EffectRefused(c)
    \/ SaveOutbox(c) \/ MarkProcessed(c) \/ Commit(c)

GroupNext ==
    \E c \in Members :
        Run(c) \/ EffectUnconfirmed(c) \/ StatementFails(c) \/ Assign(c) \/ Crash(c)

Next == GroupNext /\ UNCHANGED topic

Spec == Init /\ [][Next]_vars

\* Members run, and a partition without an owner is given to one that is
\* ready to take it.
FairSpec ==
    /\ Spec
    /\ \A c \in Members : WF_vars(Run(c) /\ UNCHANGED topic)
    /\ WF_vars(owner = NoMember /\ (\E c \in Members : Assign(c)) /\ UNCHANGED topic)

-----------------------------------------------------------------------------
(* Properties.                                                             *)

Copies(x, bag) == IF BagIn(x, bag) THEN bag[x] ELSE 0
Rows(e) == Copies(e, effects)
EmittedRows(e) == Copies([event |-> e, type |-> "FundsReserved"], outbox)
                    + Copies([event |-> e, type |-> "FundsDeposited"], outbox)

\* Types of the tables, the group and the state of the members.
TypeOK ==
    /\ \A i \in DOMAIN topic : topic[i].type \in RecordTypes
    /\ owner \in Members \cup {NoMember}
    /\ committed \in 0..Len(topic)
    /\ IsABag(effects) /\ BagToSet(effects) \subseteq Events
    /\ IsABag(outbox)
    /\ BagToSet(outbox) \subseteq [event : Events, type : {"FundsReserved", "FundsDeposited"}]
    /\ processed \subseteq Events
    /\ failed \subseteq DOMAIN topic
    /\ refused \subseteq Events
    /\ pc \in [Members -> PCs]
    /\ next \in [Members -> 0..Len(topic)]
    /\ cur \in [Members -> 0..Len(topic)]
    /\ last \in [Members -> 0..Len(topic)]
    /\ \A c \in Members : cur[c] <= last[c] /\ (pc[c] \notin {"poll", "commit"} => cur[c] > 0)
    /\ marked \in [Members -> 0..Len(topic)]
    /\ faults \in 0..MaxFaults

\* An event in processed_events had its effect on the wallet and has its
\* outbox event, whatever failed on the way and whoever handled it.
ProcessedIsDone ==
    \A e \in processed : Rows(e) >= 1 /\ EmittedRows(e) >= 1

\* The outbox never announces more reservations and deposits than the wallet
\* really has, whichever statement of the handler failed.
AnnouncedIsReal ==
    \A e \in Events : EmittedRows(e) <= Rows(e)

\* Without faults an event takes effect once, however often its record is
\* in the topic, and each fault lets it take effect once more at most: so far
\* goes the exactly-once that docs/adr/004-transactional-outbox.md claims.
ExtraEffectsNeedFaults ==
    \A e \in Events : Rows(e) <= 1 + faults

\* The committed offset never passes a record that was neither handled nor
\* reported as an error, even when two members work on the partition.
CommittedIsAccounted ==
    \A i \in 1..committed :
        i \in failed \/ topic[i].event \in processed \/ topic[i].type \notin SagaTypes

\* Every saga event is processed in the end, or its handler returned an
\* error: no crash and no rebalance makes the group pass over it silently.
EventuallyAccounted ==
    \A i \in DOMAIN Feed :
        Feed[i].type \in SagaTypes => <>(Feed[i].event \in processed \/ i \in failed)

\* What docs/adr/004-transactional-outbox.md says: at-least-once delivery.
\* An event that no wallet refuses is processed in the end, since faults stop.
AtLeastOnce ==
    \A i \in DOMAIN Feed :
        Feed[i].type \in SagaTypes => <>(Feed[i].event \in processed \cup refused)

=============================================================================
