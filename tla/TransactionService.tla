------------------------- MODULE TransactionService -------------------------
(***************************************************************************)
(* The transaction service: concurrent calls of TransactionService         *)
(* (services/transaction/internal/application/transaction_service.go) on   *)
(* the transactions and outbox_events tables (adapters/outbound/postgres/  *)
(* repos.go).                                                              *)
(*                                                                         *)
(* A process of Procs is a goroutine serving one call at a time.  Every    *)
(* repository method is a statement of its own, outside any transaction,   *)
(* and so a step of its own; so is the gRPC call of the fraud service.     *)
(*                                                                         *)
(* A row of transactions is its status and idempotency key; wallets,       *)
(* amount, description and failure reason never decide what a call does    *)
(* once NewTransaction has accepted them.                                  *)
(***************************************************************************)
EXTENDS Naturals, Sequences

CONSTANTS
    Procs,      \* concurrent calls
    Txs,        \* transaction ids uuid.New may give
    NoTx,       \* an id that no transaction has
    Keys,       \* idempotency keys a client sends
    NoKey,      \* the empty idempotency key
    MaxEvents   \* bound: no new call once the outbox has this many events

ASSUME TransactionAssumption ==
    /\ NoTx \notin Txs
    /\ NoKey \notin Keys
    /\ MaxEvents \in Nat

VARIABLES
    status,   \* transactions.status; "none" when there is no row
    key,      \* transactions.idempotency_key
    outbox,   \* outbox_events, in the order of insertion
    pc,       \* where each call is
    call,     \* its operation, idempotency key and transaction
    reply     \* how the last call of the process ended; "none" while running

vars == <<status, key, outbox, pc, call, reply>>

Ops == {"InitiateTransfer", "CompleteTransaction", "FailTransaction", "GetTransaction"}
Terminal == {"COMPLETED", "FAILED"}
EventTypes == {"TransactionInitiated", "TransactionCompleted", "TransactionFailed"}
OutboxEvents == [type : EventTypes, tx : Txs]
Calls == [op : Ops, key : Keys \cup {NoKey}, tx : Txs \cup {NoTx}]
PCs == {"idle", "lookup", "fraud", "find", "save", "update", "outbox"}

\* What an operation writes: the event, and for a decision the status.
EventTypeOf(op) ==
    CASE op = "InitiateTransfer"    -> "TransactionInitiated"
      [] op = "CompleteTransaction" -> "TransactionCompleted"
      [] op = "FailTransaction"     -> "TransactionFailed"

\* Mutant: a failure is recorded as a compensation.
StatusOfCompensating(op) == IF op = "CompleteTransaction" THEN "COMPLETED" ELSE "COMPENSATED"

StatusOf(op) == IF op = "CompleteTransaction" THEN "COMPLETED" ELSE "FAILED"

NoCall == [op |-> "GetTransaction", key |-> NoKey, tx |-> NoTx]

Init ==
    /\ status = [t \in Txs |-> "none"]
    /\ key = [t \in Txs |-> NoKey]
    /\ outbox = <<>>
    /\ pc = [p \in Procs |-> "idle"]
    /\ call = [p \in Procs |-> NoCall]
    /\ reply = [p \in Procs |-> "none"]

Goto(p, step) ==
    /\ pc' = [pc EXCEPT ![p] = step]
    /\ reply' = [reply EXCEPT ![p] = "none"]

ReturnOk(p) ==
    /\ pc' = [pc EXCEPT ![p] = "idle"]
    /\ reply' = [reply EXCEPT ![p] = "ok"]

\* The call of p returns an error; its locals are gone.
ReturnError(p) ==
    /\ pc' = [pc EXCEPT ![p] = "idle"]
    /\ reply' = [reply EXCEPT ![p] = "failed"]
    /\ call' = [call EXCEPT ![p] = NoCall]

tables == <<status, key, outbox>>

-----------------------------------------------------------------------------
(* InitiateTransfer.                                                       *)

\* NewTransaction gives the call a PENDING transaction with a fresh UUID,
\* which is not in the table yet.
NewTransaction(p, k) ==
    /\ \E t \in Txs :
        /\ status[t] = "none"
        /\ \A q \in Procs : call[q].tx # t
        /\ call' = [call EXCEPT ![p] = [op |-> "InitiateTransfer", key |-> k, tx |-> t]]
    /\ Goto(p, "fraud")

\* With a key the call looks for an earlier transfer first, without one it
\* makes its transaction at once.
BeginInitiate(p) ==
    /\ pc[p] = "idle"
    /\ Len(outbox) < MaxEvents
    /\ \/ NewTransaction(p, NoKey)
       \/ \E k \in Keys :
            /\ call' = [call EXCEPT ![p] = [op |-> "InitiateTransfer", key |-> k, tx |-> NoTx]]
            /\ Goto(p, "lookup")
    /\ UNCHANGED tables

\* NewTransaction refuses the amount or the wallets.
InvalidTransfer(p) ==
    /\ pc[p] \in {"idle", "lookup"}
    /\ ReturnError(p)
    /\ UNCHANGED tables

\* FindByIdempotencyKey finds a transaction, which is the result.
LookupHit(p) ==
    /\ pc[p] = "lookup"
    /\ \E t \in Txs :
        /\ status[t] # "none" /\ key[t] = call[p].key
        /\ call' = [call EXCEPT ![p].tx = t]
    /\ ReturnOk(p)
    /\ UNCHANGED tables

\* It finds none, or fails: every error counts as "not found".
LookupMiss(p) ==
    /\ pc[p] = "lookup"
    /\ NewTransaction(p, call[p].key)
    /\ UNCHANGED tables

\* fraud.Evaluate answers APPROVED or REVIEW.
FraudPasses(p) ==
    /\ pc[p] = "fraud"
    /\ Goto(p, "save")
    /\ UNCHANGED <<tables, call>>

\* fraud.Evaluate answers REJECTED or fails.
FraudRejects(p) ==
    /\ pc[p] = "fraud"
    /\ ReturnError(p)
    /\ UNCHANGED tables

KeyTaken(k) == k # NoKey /\ \E t \in Txs : status[t] # "none" /\ key[t] = k

SavedRow(p) ==
    /\ status' = [status EXCEPT ![call[p].tx] = "PENDING"]
    /\ key' = [key EXCEPT ![call[p].tx] = call[p].key]

\* Mutant: there is no unique index on the key.
SaveWithoutIndex(p) ==
    /\ pc[p] = "save"
    /\ SavedRow(p)
    /\ Goto(p, "outbox")
    /\ UNCHANGED <<outbox, call>>

\* Mutant: a conflict is taken for a success (ON CONFLICT DO NOTHING).
SaveIgnoringConflict(p) ==
    /\ pc[p] = "save"
    /\ IF KeyTaken(call[p].key) THEN UNCHANGED <<status, key>> ELSE SavedRow(p)
    /\ Goto(p, "outbox")
    /\ UNCHANGED <<outbox, call>>

\* Mutant: a conflict overwrites the older row (ON CONFLICT DO UPDATE).
SaveUpserting(p) ==
    /\ pc[p] = "save"
    /\ IF KeyTaken(call[p].key)
       THEN /\ status' = [t \in Txs |-> IF status[t] # "none" /\ key[t] = call[p].key
                                        THEN "PENDING" ELSE status[t]]
            /\ UNCHANGED key
       ELSE SavedRow(p)
    /\ Goto(p, "outbox")
    /\ UNCHANGED <<outbox, call>>

\* txRepo.Save: the partial unique index on idempotency_key lets the row in.
\* The answer may be lost after the row is written.
Save(p) ==
    /\ pc[p] = "save"
    /\ ~KeyTaken(call[p].key)
    /\ SavedRow(p)
    /\ (Goto(p, "outbox") /\ UNCHANGED call) \/ ReturnError(p)
    /\ UNCHANGED outbox

\* Another transfer with the key was saved since the lookup.
SaveConflict(p) ==
    /\ pc[p] = "save"
    /\ KeyTaken(call[p].key)
    /\ ReturnError(p)
    /\ UNCHANGED tables

-----------------------------------------------------------------------------
(* CompleteTransaction, FailTransaction and GetTransaction.                *)

\* A call about a transaction in the table, or about an unknown id.
BeginOnTransaction(p) ==
    /\ pc[p] = "idle"
    /\ \E op \in Ops \ {"InitiateTransfer"}, t \in {u \in Txs : status[u] # "none"} \cup {NoTx} :
        /\ op = "GetTransaction" \/ Len(outbox) < MaxEvents
        /\ call' = [call EXCEPT ![p] = [op |-> op, key |-> NoKey, tx |-> t]]
    /\ Goto(p, "find")
    /\ UNCHANGED tables

\* FindByID finds nothing, or a decided transaction where the operation
\* needs a pending one.
FindRefused(p) ==
    /\ pc[p] = "find"
    /\ \/ call[p].tx = NoTx
       \/ /\ call[p].tx # NoTx /\ call[p].op # "GetTransaction"
          /\ status[call[p].tx] # "PENDING"
    /\ ReturnError(p)
    /\ UNCHANGED tables

GetTransaction(p) ==
    /\ pc[p] = "find"
    /\ call[p].op = "GetTransaction" /\ call[p].tx # NoTx
    /\ ReturnOk(p)
    /\ UNCHANGED <<tables, call>>

\* FindByID finds a pending transaction, which tx.Complete or tx.Fail
\* decides in memory.
FindPending(p) ==
    /\ pc[p] = "find"
    /\ call[p].op # "GetTransaction" /\ call[p].tx # NoTx
    /\ status[call[p].tx] = "PENDING"
    /\ Goto(p, "update")
    /\ UNCHANGED <<tables, call>>

\* txRepo.Update writes the decision whatever the status is now.  The answer
\* may be lost after the write.
Update(p) ==
    /\ pc[p] = "update"
    /\ status' = [status EXCEPT ![call[p].tx] = StatusOf(call[p].op)]
    /\ (Goto(p, "outbox") /\ UNCHANGED call) \/ ReturnError(p)
    /\ UNCHANGED <<key, outbox>>

-----------------------------------------------------------------------------
(* The last statement of InitiateTransfer, Complete- and FailTransaction.  *)

OutboxEvent(p) == [type |-> EventTypeOf(call[p].op), tx |-> call[p].tx]

\* Mutant: the error of outbox.Save is dropped.
SaveOutboxIgnoringError(p) ==
    /\ pc[p] = "outbox"
    /\ outbox' = Append(outbox, OutboxEvent(p)) \/ outbox' = outbox
    /\ ReturnOk(p)
    /\ UNCHANGED <<status, key, call>>

\* Mutant: an insert whose answer is lost is tried again, under a new UUID.
SaveOutboxTwice(p) ==
    /\ pc[p] = "outbox"
    /\ outbox' = Append(outbox, OutboxEvent(p))
    /\ ReturnOk(p) \/ Goto(p, "outbox")
    /\ UNCHANGED <<status, key, call>>

\* outbox.Save, whose answer may be lost after the row is written.
SaveOutbox(p) ==
    /\ pc[p] = "outbox"
    /\ outbox' = Append(outbox, OutboxEvent(p))
    /\ (ReturnOk(p) /\ UNCHANGED call) \/ ReturnError(p)
    /\ UNCHANGED <<status, key>>

\* A statement fails without effect, the context is cancelled or the service
\* crashes: what earlier statements wrote stays.
Abort(p) ==
    /\ pc[p] # "idle"
    /\ ReturnError(p)
    /\ UNCHANGED tables

-----------------------------------------------------------------------------
Next ==
    \E p \in Procs :
        \/ BeginInitiate(p) \/ InvalidTransfer(p) \/ LookupHit(p) \/ LookupMiss(p)
        \/ FraudPasses(p) \/ FraudRejects(p) \/ Save(p) \/ SaveConflict(p)
        \/ BeginOnTransaction(p) \/ FindRefused(p) \/ GetTransaction(p) \/ FindPending(p)
        \/ Update(p) \/ SaveOutbox(p) \/ Abort(p)

Spec == Init /\ [][Next]_vars

-----------------------------------------------------------------------------
(* Properties.                                                             *)

HasEvent(type, t) == \E i \in DOMAIN outbox : outbox[i] = [type |-> type, tx |-> t]

\* Types of the tables and of the state of the calls.  No operation of the
\* service makes a transaction COMPENSATED, the fourth status of the domain.
TypeOK ==
    /\ status \in [Txs -> {"none", "PENDING"} \cup Terminal]
    /\ key \in [Txs -> Keys \cup {NoKey}]
    /\ outbox \in Seq(OutboxEvents)
    /\ pc \in [Procs -> PCs]
    /\ call \in [Procs -> Calls]
    /\ reply \in [Procs -> {"none", "ok", "failed"}]

\* However retries with one idempotency key overlap, fail half way or miss
\* in the lookup, the table has one transaction for the key.
OneTransactionPerKey ==
    \A t, u \in Txs :
        /\ status[t] # "none" /\ status[u] # "none"
        /\ key[t] = key[u] /\ key[t] # NoKey
        => t = u

\* Two InitiateTransfer calls with the same idempotency key that succeed, at
\* whatever time, were told the same transaction.
RepliesAgree ==
    \A p, q \in Procs :
        /\ pc[p] = "idle" /\ reply[p] = "ok" /\ call[p].op = "InitiateTransfer"
        /\ pc[q] = "idle" /\ reply[q] = "ok" /\ call[q].op = "InitiateTransfer"
        /\ call[p].key = call[q].key /\ call[p].key # NoKey
        => call[p].tx = call[q].tx

\* The outbox announces nothing that did not happen: a transaction that any
\* event names is in the table, and decided if the event is a decision.
EventsFollowState ==
    \A i \in DOMAIN outbox :
        /\ status[outbox[i].tx] # "none"
        /\ outbox[i].type # "TransactionInitiated" => status[outbox[i].tx] \in Terminal

\* A saga is started at most once: no two TransactionInitiated events are
\* about one transaction, or about two transactions of one idempotency key.
StartedOnce ==
    \A i, j \in DOMAIN outbox :
        /\ outbox[i].type = "TransactionInitiated"
        /\ outbox[j].type = "TransactionInitiated"
        /\ \/ outbox[i].tx = outbox[j].tx
           \/ key[outbox[i].tx] = key[outbox[j].tx] /\ key[outbox[i].tx] # NoKey
        => i = j

\* A decision that was acknowledged is announced: when CompleteTransaction
\* or FailTransaction has returned success the event is in the outbox.
AcksAnnounced ==
    \A p \in Procs :
        pc[p] = "idle" /\ reply[p] = "ok" /\ call[p].op \in {"CompleteTransaction", "FailTransaction"}
        => HasEvent(EventTypeOf(call[p].op), call[p].tx)

\* A transaction that exists keeps its key, and is never pending again once
\* it is decided, however late the statements of a slow call arrive.
DecidedStaysDecided ==
    [][\A t \in Txs :
        /\ status[t] # "none" => status'[t] # "none" /\ key'[t] = key[t]
        /\ status[t] \in Terminal => status'[t] \in Terminal]_<<status, key>>

\* What docs/adr/004-transactional-outbox.md says: the state change and its
\* event are written together, so that no event is lost.  When no call is
\* running, every transaction in the table has its TransactionInitiated, and a
\* decided one the event of its outcome: no retry can announce it later, since
\* FindRefused answers it.
NoEventLost ==
    (\A p \in Procs : pc[p] = "idle") =>
        \A t \in Txs :
            /\ status[t] # "none" => HasEvent("TransactionInitiated", t)
            /\ status[t] = "COMPLETED" => HasEvent("TransactionCompleted", t)
            /\ status[t] = "FAILED" => HasEvent("TransactionFailed", t)

=============================================================================
