---------------------------- MODULE TransferSaga ----------------------------
(***************************************************************************)
(* A transfer from end to end: TransactionService writes its events to     *)
(* outbox_events, an outbox worker publishes them to the transactions      *)
(* topic, and the wallet's SagaHandler and the NotificationService consume *)
(* the topic, each in a group of its own.                                  *)
(*                                                                         *)
(* The transaction service is that of its module, whose Init and Next this *)
(* module extends; so are the consumers.  The worker is what it promises   *)
(* (Relay, which Outbox implements).  An event is its row of               *)
(* outbox_events.  All records of a transaction are in one partition,      *)
(* since the key of a record is the source wallet of its transaction.      *)
(***************************************************************************)
EXTENDS TransactionService, Integers, SequencesExt, FiniteSets, Bags

CONSTANTS
    Members, NoMember,  \* see SagaConsumer
    Senders,            \* see NotificationService
    MaxDuplicates,      \* bound: records that repeat an event
    MaxFaults           \* bound: failed calls, crashes and rebalances of consumers

ASSUME TransferAssumption ==
    /\ IsFiniteSet(Members) /\ NoMember \notin Members
    /\ IsFiniteSet(Senders) /\ Senders # {}
    /\ MaxDuplicates \in Nat /\ MaxFaults \in Nat

VARIABLES
    log,                                        \* the topic: rows of outbox
    owner, committed, effects, walletOutbox,    \* SagaConsumer
    processed, failed, refused, walletpc, next, cur, last, marked,
    sent, notified, unsent, reader, sendNext,   \* NotificationService
    sending, sendLast, notifypc,
    faults                                      \* of both consumers

walletVars == <<owner, committed, effects, walletOutbox, processed, failed, refused,
                walletpc, next, cur, last, marked>>
notifyVars == <<sent, notified, unsent, reader, sendNext, sending, sendLast, notifypc>>
sagaVars == <<vars, log, walletVars, notifyVars, faults>>

\* A record as the worker makes it: the row's id and event type in headers.
Records == [i \in DOMAIN log |-> [event |-> log[i], type |-> outbox[log[i]].type]]

Worker == INSTANCE Relay WITH
    Rows <- Nat, table <- [i \in DOMAIN outbox |-> i], published <- {}, topic <- log

Wallet == INSTANCE SagaConsumer WITH
    Feed <- <<>>, topic <- Records, outbox <- walletOutbox, pc <- walletpc

Notification == INSTANCE NotificationService WITH
    topic <- Records, processed <- notified, failed <- unsent, pc <- notifypc,
    next <- sendNext, cur <- sending, last <- sendLast

SagaInit ==
    /\ Init
    /\ log = <<>>
    /\ Wallet!GroupInit
    /\ Notification!ServiceInit

TransactionStep == Next /\ UNCHANGED <<log, walletVars, notifyVars, faults>>

\* A record of a row that has none, or one more of a row that has.
PublishFirst ==
    /\ UNCHANGED <<vars, walletVars, notifyVars, faults>>
    /\ \E r \in DOMAIN outbox : ~ Contains(log, r) /\ Worker!Publish(r)

PublishAgain ==
    /\ UNCHANGED <<vars, walletVars, notifyVars, faults>>
    /\ Len(log) < Cardinality(ToSet(log)) + MaxDuplicates
    /\ \E r \in ToSet(log) : Worker!Publish(r)

WalletStep == Wallet!GroupNext /\ UNCHANGED <<vars, log, notifyVars>>

NotificationStep == Notification!ServiceNext /\ UNCHANGED <<vars, log, walletVars>>

SagaNext == TransactionStep \/ PublishFirst \/ PublishAgain \/ WalletStep \/ NotificationStep

WalletRuns == \E c \in Members : Wallet!Run(c) /\ UNCHANGED <<vars, log, notifyVars>>

WalletAssigned ==
    /\ owner = NoMember
    /\ \E c \in Members : Wallet!Assign(c) /\ UNCHANGED <<vars, log, notifyVars>>

NotificationRuns ==
    \E c \in Senders : Notification!Run(c) /\ UNCHANGED <<vars, log, walletVars>>

\* Rows are published in the end (EventuallyPublished of Outbox), consumers
\* run, and a partition without an owner is assigned.  Nothing is assumed of
\* the calls, which may stop half way.
SagaSpec ==
    /\ SagaInit /\ [][SagaNext]_sagaVars
    /\ WF_sagaVars(PublishFirst)
    /\ WF_sagaVars(WalletRuns) /\ WF_sagaVars(WalletAssigned)
    /\ WF_sagaVars(NotificationRuns)

-----------------------------------------------------------------------------
(* Properties.                                                             *)

\* The calls of ReserveForTransaction and CreditForTransaction for event i.
Reserves(i) == outbox[i].type = "TransactionInitiated" /\ BagIn(i, effects)
Credits(i) == outbox[i].type = "TransactionCompleted" /\ BagIn(i, effects)

\* What reaches a wallet or a user was decided by the transaction service: a
\* reservation is for a transaction in the table, a credit for a decided one.
\* However calls fail, retries repeat, records come twice and consumers
\* restart, only one event reserves for a transaction, and an event takes
\* effect once and is notified once, each with at most one more for every
\* fault of a consumer.
EffectsExplained ==
    /\ BagToSet(effects) \cup BagToSet(sent) \subseteq DOMAIN outbox
    /\ \A i \in DOMAIN outbox :
        /\ Reserves(i) => status[outbox[i].tx] # "none"
        /\ Credits(i) => status[outbox[i].tx] \in Terminal
        /\ \A j \in DOMAIN outbox :
            Reserves(i) /\ Reserves(j) /\ outbox[i].tx = outbox[j].tx => i = j
        /\ Wallet!Copies(i, effects) <= 1 + faults
        /\ Wallet!Copies(i, sent) <= 1 + faults

FailedAt(records, i) == \E j \in records : log[j] = i

Arrived(i) ==
    /\ i \in processed \/ FailedAt(failed, i) \/ outbox[i].type \notin Wallet!SagaTypes
    /\ BagIn(i, sent) \/ FailedAt(unsent, i)

\* No event gets stuck between the services: when calls have stopped writing
\* to outbox_events, sooner or later the wallet has processed every event in
\* it, unless it is none of the saga's or its handler returned an error, and
\* its notification was sent, unless that failed.
EventsArrive == <>[](\A i \in DOMAIN outbox : Arrived(i))

=============================================================================
