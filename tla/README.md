# A TLA+ verification of go-fintech-microservices

Models, model-checking runs and machine-checked proofs of the system: the
event-sourced wallet, the transfer saga between the transaction, the wallet and
the notification service, the transactional outbox that connects them, the read
model built from their events, the fraud rules, the gateway with the identity
service behind it, and the processes all of this runs in.

Run a configuration with `tlc -config X.cfg Module` (the module of each
configuration is in `PROJECT.json`), check proofs with
`tlapm Module.tla`. `PROJECT.json` lists the runs, the source lines behind every
definition, the mutants each property detects, the hazards and the theorems.

## 1. The system

Seven Go services, each with its own PostgreSQL schema (Redis for fraud and the
gateway), talking gRPC synchronously and Kafka asynchronously.

| Component | State | Operations that change it | Talks to |
|---|---|---|---|
| Wallet (`services/wallet`) | `wallet_events`, `wallet_snapshots` | CreateWallet, Deposit, Withdraw, ReserveForTransaction, CreditForTransaction, ReleaseReservation | called by gRPC handlers and by the saga handler |
| Transaction (`services/transaction`) | `transactions`, `outbox_events` | InitiateTransfer, CompleteTransaction, FailTransaction | fraud service (gRPC), outbox |
| Outbox workers (both services) and `pkg/breaker` | `published_at` of the outbox rows; breaker state in memory | flush every tick, publish with retry, mark | Kafka |
| `pkg/kafka` consumer and the wallet's saga handler | committed offset; `processed_events`, wallet outbox | poll, handle, mark, commit | wallet service, wallet outbox |
| Query (`services/query`) | `balance_projections`, `statement_entries`, `user_stats`, `query_processed_events` | HandleEvent | Kafka |
| Notification | `notification_processed_events` | Handle | Kafka, a sender |
| Fraud | Redis profile per user, with a TTL | Evaluate (reads), profile updater (read, add, write) | called by transaction; Kafka |
| Identity | `users`, `refresh_tokens` | Register, Login, RefreshToken, Logout; ValidateToken reads | gateway |
| Gateway | none (Redis counters of a rate limiter that is not wired) | authentication, routing | identity, wallet, transaction, query |
| Processes (`cmd/server/main.go`, `pkg/server`, `pkg/middleware`) | open resources, calls in flight | start, serve, drain, force, close | signals |

What is hard here:

* **Concurrency without row locks.** Every operation reads, decides in memory
  and writes in another statement, at the default isolation level. What keeps
  concurrent callers apart are unique indexes, and where there is none (the
  status update of a transaction, the balance projection) nothing does.
* **Several statements without a transaction.** Only `AppendEvents` opens a
  database transaction. A crash, a cancelled context or a failed statement
  between two others leaves what the first ones wrote.
* **At-least-once messaging.** Outbox rows are published again after a failed
  mark and by other replicas; records are delivered again after a restart or
  rebalance; a member that lost a partition still finishes what it has polled.
* **Waiting.** A row that cannot be published blocks the rows behind it, and the
  breaker refuses requests while it is open.
* **Time.** Sessions, access tokens and fraud profiles expire while calls that
  have read them go on; a shutdown has a deadline that handlers may miss.
* **Machine arithmetic.** Balances are `int64` without overflow checks.

What makes each component correct: no lost update and no gap in a wallet's log,
faithful snapshots, debits covered by funds; one transaction per idempotency
key, events that are true, decisions that last; no outbox row lost or published
out of order; saga events that take effect, and are not passed over silently; a
read model that agrees with the events it has processed; rejections that the
counted transfers justify; one owner per address, and no admission without a
session; a shutdown that waits for calls but not for ever. The hazards in
`PROJECT.json` tie each of these to the line where it is at risk.

## 2. Modules

| Module | Models | Shape |
|---|---|---|
| `WalletDomain` | `domain/wallet.go`: the aggregate, `applyEvent`, the checks of the commands, `Reconstitute` | operators; replay is a recursive function over versions, arithmetic wraps at `MaxInt64` |
| `WalletLedger` | what the wallet promises | abstract specification: each command is one atomic step |
| `WalletService` | `wallet_service.go`, `event_store.go` and the migration | one action per SQL statement of each concurrent call |
| `TransactionService` | `transaction_service.go`, its repositories, the fraud client | one action per statement or remote call |
| `Relay` | what an outbox promises to the consumers of its topic | abstract specification: rows saved, published at least once, marked |
| `Outbox` | both `outbox_worker.go`, the outbox repositories, `pkg/breaker` | rows, replicas of the worker, a breaker each; implements `Relay` |
| `SagaConsumer` | `pkg/kafka/consumer.go`, `saga_handler.go` | group members on one partition |
| `NotificationService` | `notification_service.go`, its repository and sender | group of instances on one partition, one action per call |
| `TransferSaga` | a transfer from end to end | `TransactionService`, `Relay`, `SagaConsumer` and `NotificationService` composed through the outbox table and the topic |
| `QueryService` | `query_service.go`, its repositories | group members, one action per statement |
| `FraudService` | the rules, `profile_repo.go`, `profile_updater.go` | updaters with a partition each, evaluations, one action per Redis command |
| `IdentityService` | `auth_service.go`, its repositories, the gRPC server | one action per SQL statement of each concurrent call, on a clock |
| `Gateway` | `auth.go`, `router.go`, the generated gateway handlers | where each HTTP request is |
| `Edge` | the way into the system | `Gateway` and `IdentityService` composed on one clock |
| `ServiceProcess` | `run` of every `main.go`, `pkg/server/server.go`, `pkg/middleware/grpc.go`, set-up of logger, metrics and tracing | resources, phases, signals, calls |
| `WalletServiceProofs`, `OutboxProofs`, `SagaConsumerProofs`, `EdgeProofs`, `FraudServiceProofs` | theorems about the modules they are named after | hierarchical proofs |
| `TransferSagaProofs` | theorems about `TransactionService` and about `TransferSaga`, which extends it | the invariants of the components under the substitution of their variables |
| `ServiceProofs` | theorems about `ServiceProcess` and `QueryService` | hierarchical proofs |
| `NatRecursion` | what the proofs share: recursive functions on numbers, counting | lemmas |
| `MC*` | instances for TLC | |

A call in `WalletService` and `TransactionService` is a process with a program
counter `pc[p]` naming the statement it will execute next, `call[p]` its
arguments and local variables, `reply[p]` what it returned. A step is one
statement, with the in-memory code around it: statements are what other callers
can see and what can fail. Each statement may fail without effect (`Abort`,
which is also the crash of the process and the cancelled context) and, where it
matters, with effect but without an answer (`InsertUnconfirmed`,
`EffectUnconfirmed`, `SaveOutbox` and `Update` returning an error).

**WalletService.** `LoadSnapshot` is the snapshot read; `LoadEvents` follows in
the same call, and the aggregate it produces is what `Accept`, `Reject` and
`GetBalance` work on at the time of the events read. `ReadVersion`/`Conflict` is
the `MAX(version)` check inside the transaction, `Insert` the INSERT and COMMIT,
`UniqueViolation` its failure on `UNIQUE (wallet_id, version)`. `SaveSnapshot`
comes after the commit, when `MaybeSnapshot` says so, and overwrites
unconditionally. Amounts are what callers
can pass; integers wrap modulo the width (`Int64`, with `MaxInt64` a parameter).

**TransactionService.** The idempotency lookup is optional, since a failing
lookup counts as a miss; the fraud answer is arbitrary; `Save` is guarded by the
unique index on the key; `Update` is unconditional, as in the code.

**Outbox.** A row is a number, its `created_at`; `table` is the order in which
rows became visible, so that rows may be inserted out of order of creation. The
breaker is gobreaker (external), modelled from the settings in `pkg/breaker`;
`TripAfter` and `MaxRequests` are the numbers in those settings. `Batches` is what
`FetchUnpublished` may return: the oldest unpublished rows in order of creation,
as many as the limit allows. `ImplementsRelay`
says that whatever replicas, breakers, faults and crashes do, a consumer sees
only what `Relay` does: records of rows, each perhaps several times, and rows
that were created and inserted one after the other first appear in that order.

**SagaConsumer.** Kafka and franz-go are external: one owner per partition, who
starts at the committed offset, and commits that may be without effect. Wallet
operations are single steps, which `ServiceImplementsLedger` justifies; they may
be refused, and may take effect although the call returns an error.

**QueryService.** Delivery is that of `SagaConsumer`, with the offsets reduced to
what matters here: `Poll` takes some of the next records, `Deliver` goes on with
them one by one whether or not the member still has the partition, `Rebalance`
and `Crash` continue after an offset that may have been committed. What the
projections should be is a sum over the topic: an event counts at its first
record (`IsFirst`), and `BalanceOf` and `StatsOf` add what those records of the
given events stand for. Nothing is assumed of the order of the topic, of its
versions or of its statement ids; the ids of the instance are the nil id, which
is what the handlers decode from a payload of the outbox, but for one movement
that is built as in the tests. The history variable `torn` becomes true when a
handler is cut off between its upsert and its mark, when two handlers are at work
at once, or when a failed read is taken for an empty row: the three things after
which the projections are no longer what the processed events come to.

**NotificationService.** The instances are a consumer group too: `Poll` takes
records, `NextRecord` goes on with them, also after the partition was lost,
`Rebalance` gives the partition to another instance, or again to the same one,
and `Restart` ends the poll of one. The next reader starts at one of the
`Committable` offsets, none of them beyond a record that the present reader
still handles. Every event type is notified; `Send` and `MarkProcessed` may fail
with or without effect (`CallFails`).

**TransferSaga.** The module extends `TransactionService`; the other components
are instances of their own modules, with variables substituted: the rows of
`outbox` are the events, the records of the topic are rows (`Records`). The key
of a record is the source wallet, so that all records of a transaction are in
one partition. The worker is `Relay`, which is sound because `Outbox` implements
it, and small enough to leave room for the consumers. Each step of `SagaNext` is
a step of one component with the others unchanged. Two things end in the middle:
a call of the transaction service, which may abort, and a consumer, which may
fail; both are bounded by named constants.

**FraudService.** Each updater has its own partition: the key of a record is the
source wallet, so that a user with several wallets has records in several of
them and two updaters may interleave a read and a write of one profile. The
history variables say what was counted: `stored` how often each record was,
`delivered` the sums for each user, `recent` what came to it since the last
`Tick`, and `seen` what was recent when a call was decided. No action depends on
them. Redis and franz-go are external; the client's own autocommit, which
`NewProfileUpdater` leaves on, is part of `Poll`.

**IdentityService, Gateway and Edge.** A call of the identity service is a
program counter as above; statements fail with or without effect. A password
stands for its hash and an access token for its claims, which leaves what the
code decides: the lookups, the unique index on the email, the expiry of refresh
tokens, their deletion. `Gateway` has the routing table of the generated
handlers and the public paths of `isPublicPath`, which compares prefixes of the
text: a path is a sequence of words, and the last word of a prefix may go on in
the path (`HasPrefix`, `LongerThan`). `Edge` makes a routed request a
call of the identity service, or of another service that answers anything.
`lastAuth` is a history variable: when a user last had a session.

**ServiceProcess.** `Setup` of a service is the sequence of resources its `run`
opens, `Deferred` those it closes, last first. `Signal` may come at any moment;
before `signal.Notify`, and always in the gateway, it is fatal. Every gRPC server
also answers health checks and reflection (`Methods`, `Streams`): a stream ends
when its client lets it end, so that an open health `Watch` keeps `GracefulStop`
waiting until the timeout. `Stopped` and
`ForceStop` are the two arms of the last `select` of `Server.Run`.

## 3. Runs

Passing runs (bounds are named constants of the modules):

| Run | Instance | Checks |
|---|---|---|
| `wallet_service` | 1 wallet, 2 callers, amounts 0 and 1, `MaxInt64` 1, snapshot every 2 events, 3 versions | `LogGapless`, `DebitsCovered` (no lost update), `SnapshotsFaithful`, `LoadsFaithful`, `AcksDurable`, refinement of `WalletLedger` |
| `transaction_service` | 2 calls, 2 transactions, 1 key and none, 3 outbox events | `OneTransactionPerKey`, `RepliesAgree`, `EventsFollowState`, `StartedOnce`, `AcksAnnounced`, `DecidedStaysDecided` |
| `outbox` | 2 replicas, 2 rows, batches of 2, breaker opening after 2 failures in a row and closing after 2 successes, 3 faults | `FirstCopiesInOrder`, `DuplicatesExplained`, refinement of `Relay`, `EventuallyPublished` |
| `saga_consumer` | 2 members, 4 records of which one event twice and one ignored type, 2 faults | `ProcessedIsDone`, `AnnouncedIsReal`, `ExtraEffectsNeedFaults`, `CommittedIsAccounted`, `EventuallyAccounted` |
| `transfer_saga` | 1 transaction, 1 call at a time without key, 2 outbox events, 1 member of each group, 1 duplicate record, 1 fault of a consumer; aborted calls without bound | `EffectsExplained`, `EventsArrive` |
| `query_service` | 2 members, 7 records of which one event twice and one of another type, 2 faults | `StatementIsIdempotent`, `ExactUnlessTorn` |
| `fraud_service` | 2 updaters, 5 records of one user of which one names nobody and one is not a completion, 1 evaluation at a time, `MaxInt` 15 with a daily limit of 7, lifetime 2, 1 fault | `CopiesBounded`, `RejectionsEarned` |
| `edge` | 2 requests, 1 address, 2 passwords, 1 refresh token, lifetimes 1, clock 0 to 2, 1 fault, a path of every service and one without route | `OneOwnerPerEmail`, `RefreshNeedsLiveSession`, `AdmissionNeedsSession` |
| `service_process` | all seven processes, 2 calls; no other bound | `OnlyForceAbandons`, `StopsAfterSignal` |

Why the bounds are enough to be interesting. Two callers are what a race takes:
the wallet hazards are between one call and everything that is appended during
it. `MaxInt64` = 1 makes wraparound happen within three events, and a snapshot
interval of 2 makes snapshots happen in the middle of the log and be overwritten
by older ones. Two transactions under one key reach the idempotency race; two
workers with the same batch of two rows reach overlapping batches and rows
inserted out of order; two faults reach a failure during the recovery from
another, three open a breaker and fail its trial request. In `transfer_saga`
what matters is how one transfer crosses the components: two events are its
announcement and its decision; races inside a component are the business of its
own run, and the faults of one consumer group are explored while the other goes
on. It has one instance of the notification service, which loses the partition
and gets it back in the middle of a poll; that two overlap is covered by the
theorem `SagaEffectsExplained`, which is for any number of them. In
`query_service` two faults are a handler that is cut off and one that overlaps. A
largest integer of 15 makes the daily total overflow with one large
amount, and one fault is a crash at any point of a poll or a failed Redis
command; two updaters overlap without any. One refresh token is
enough for a refresh to race the logout of its session, two callers for a
registration to race another, and lifetimes of one tick for everything to expire
while calls run. For the safety properties the proofs of the next section
remove the bounds; the liveness properties are left to the runs alone.

The wallet, transaction, fraud and transfer instances check for deadlock. The
others may really stop and say `CHECK_DEADLOCK FALSE`: all rows are published, all
records are consumed, the clock has reached its bound, the process has exited.

Violations, each of a statement in the repository's own documents or tests (the
quotations are under `findings`):

| Run | Statement | What happens |
|---|---|---|
| `transaction_event_lost` | ADR 004: state and event in one DB transaction, events are never lost | the row is saved, the service stops before `outbox.Save`; a retry with the key reports success (a decision written without its event violates the same property) |
| `saga_at_least_once` | ADR 004: at-least-once delivery | a handler error is logged, and the loop goes on with the next record. This does not depend on whether commits take effect |
| `fraud_velocity` | README: N transactions in T seconds; the rejection says "in last minute" | without a fault: the count goes on while updates renew the profile, and one recent transfer is enough for a rejection |

**Fairness.** Only the liveness properties (and `saga_at_least_once`) depend on any. A
worker that has something to do does it (weak fairness of `Work`): `Run` is a
ticker loop that only a cancelled context ends, and a crashed worker is started
again by the orchestrator. An open breaker becomes half-open (weak fairness of
`BreakerTimeout`): gobreaker compares the clock. A consumer keeps polling and
handling (weak fairness of `Run`), and a partition without an owner is assigned.
`TransferSaga` assumes the same of its two consumers, and of the relay what
`EventuallyPublished` shows of the workers: a row without a record gets one. It
assumes nothing of the calls of the transaction service, which may stop half
way. `ServiceProcess` assumes that `main` runs and that its shutdown timer
expires (weak fairness of `Run`); handlers need not return.
Faults are not fair: they are bounded by `MaxFaults`, which says that they stop
in the end.

**Mutants.** Next to the definitions are mutated forms of them, marked `Mutant`,
used by nothing else: replacing the definition by the mutant must break the
property that `PROJECT.json` names. They show that the properties depend on the
code: dropping the unique index, marking before acting, continuing after an
error, not consulting the table of processed events, and so on.

## 4. Proofs

All for any number of wallets, callers, transactions, keys, replicas, members,
records, users, tokens and faults, any snapshot interval, batch limit, lifetime
and integer width. The assumptions are named in the modules that declare the
constants: the limits are natural numbers, `SnapshotInterval`, `BatchLimit`, `TTL`
and `MaxRequests` positive, amounts within `int64`, the null values outside their
sets, a deployment has finitely many `Workers`, `Members` and `Senders`, the last
at least one, and a `Feed` or `Topic` is a sequence of records in which one event
id is one event; amounts and versions in a `Topic` are natural numbers, and a
wallet is created by one event of it.

**Wallet** (`WalletServiceProofs`): `TypeCorrect`, `LogIsGapless`,
`NoLostUpdate`, `SnapshotsAreReplays`, `LoadsAreReplays`,
`AcknowledgedIsDurable`, `LogIsAppendOnly`, and `ServiceImplementsLedger`, the
refinement of the atomic ledger. (That rows are never changed is part of the
refinement, so that the run does not check it separately.) The invariants are
not inductive alone: that the log has no gap depends on what a call in flight is
about to insert. `IInv` adds `ProcOK`, which says of each `pc` what the call
holds: a loaded wallet is the replay of some prefix of the log, and what it will
insert is that replay plus its change. The insert then splits on the version: if
the log still ends where the wallet was loaded the new row extends it and the
check of the command applies to the current state (hence `NoLostUpdate` and the
ledger step); otherwise the version exists already and the unique index refuses.
The argument never uses the `MAX(version)` check: it is redundant for safety and
only gives a better error.

The first part of the module holds the facts about replay: that it unfolds,
that a longer log has the same prefixes, and that replaying from a snapshot that
is itself a replay gives the same wallet. That the recursive function exists is
proved in `NatRecursion` from the least number principle for sets.

**Transaction service** (`TransferSagaProofs`, first part): `TypeCorrect`,
`KeysAreUnique`, `IdempotentReplies`, `EventsAreTrue`, `SagasStartOnce`,
`AcknowledgedIsAnnounced`, `DecisionsLast`. The strengthening: a call before
`Save` holds a fresh id that no other call has (`CallInv`); a call that is about
to announce a transfer is the only one, and nobody has done so (`StartInv`).

**Outbox** (`OutboxProofs`): `TypeCorrect`, `CopiesInOrder`, `DuplicatesBounded` and
`RelayRefinement`, the refinement of `Relay` that `TransferSaga` relies on. The
order of first copies is not inductive: it depends on what the batches hold,
which were fetched earlier. `OrderInv` says of each row of a batch that whatever
was created and inserted before it has a record or comes before it in the same
batch; a row inserted later cannot break that, because `Before` also asks for the
order of insertion. The bound on duplicates needs to know to which worker a copy
may be due. `CopiesInv` counts `Publishers`: for an unmarked row the workers about
to mark it, for a marked one those that do not have it to publish any more. A
publication adds a publisher with its copy, a mark turns the one set into the
other, and a step that loses a publisher is a fault.

**Saga consumer** (`SagaConsumerProofs`): `TypeCorrect`, `ProcessedMeansDone`,
`AnnouncementsAreReal`, `EffectsBounded`, `CommitsAccounted`. `DoneInv` and
`AnnouncedInv` say what is in the tables for each member in the middle of
`Handle`, and count those with an effect to announce. `EffectsInv` is the heart:
the effects of an event, plus the members that may still apply it, plus one when
no member owns the partition, are at most one more than the faults. An owner
that loses the partition in the middle of a record stays an applier beside the
next one, and that rebalance is the fault that pays for it. `OffsetInv` follows
the positions (`committed`, `marked`, `cur`, `last`, `next`), none of which is ever
beyond a record that is not accounted for.

**Identity service and gateway** (`EdgeProofs`): `EdgeTypes`, `OneOwner`,
`RefreshNeedsSession`, and the action property `Admission`. `StatementInv` says at
which statement of which operation a call is; `OwnerInv` that two users have two
addresses, for which the unique index is needed, since two registrations may
both have found the address free; `TokenInv` that a token about to be saved is
nobody else's and that a session that was logged out has no row; `SessionInv`
that a refresh that began without a live session reads no row, or one that has
expired. `AccessInv` carries `Admission`: a user with a live session, or for whom
a token is about to be signed, had a session at this moment, and no granted
access token ends later than `AccessTTL` after the last one. The clock may go on
between the check of a session and the signature: `lastAuth` then counts the user
as authorised until the call has signed (`Authorised`), which is the most that
can be said of the code.

**Fraud service** (`FraudServiceProofs`): `TypeCorrect`, `CopiesAreBounded`,
`RejectionsAreEarned`. `CopiesInv` bounds the copies of a record by the position of
its updater: a record it is done with (`Handled`) was stored at most once more
than there were faults, one it will come to at most as often as there were
faults. A crash makes records of the first kind records of the second, and is a
fault. `ProfileInv` says that no
profile claims more than was delivered for its user, and `FoundInv` says it of the
profile that an updater has read and will write back: what it has read may be
old, overflowed, expired or empty since, but never too much, since what is
delivered only grows. For the same reason a rejection that was earned when it was
decided stays so until it is answered.

**Transfer saga** (`TransferSagaProofs`, second part): `SagaEffectsExplained`.
The invariant `SagaInv` is that of the transaction service, `LogInv` (records
are rows of `outbox_events`), and one for each consumer. For the wallet's group
the lemmas of `SagaConsumerProofs` are cited through an instance: they are
stated for any partition, and here the partition is `Records`, which grows while
the group reads it. Two kinds of steps have to be looked at: a step of the
group, which its own lemmas cover, and a step of another component, which leaves
the group alone and at most appends a record (`OutsideEffects`) or uses up a
fault (`FaultsGrow`). `NotifyInv` bounds the notifications by the same kind of
count: those sent of an event, plus the instances that may still send it without
a fault (`MaySenders`), are at most one more than the faults. The reader may
send what it has not fetched yet, an instance that lost the partition what is
left of its poll, and the rebalance that made two of one is the fault that pays.
That a reservation is for a saved transaction and is due to one event follows
from `EventsFollowState` and `StartedOnce` of the transaction service.

**Read model** (`ServiceProofs`, second part): `QueryTypeCorrect`,
`StatementAlwaysIdempotent` and `ReadModelIsExact`. `QueryInv` says what a member
holds before each statement (`AtInv`), that past `Upsert` the row is in the table,
and that a row once written stays (`EffectsKeep`), whoever overwrites it;
`EntryInv` does the same for the statement. `ReadModelIsExact` is about
`ExactUnlessTorn`. Its invariant `ExactInv` says that while nothing is torn one
member is at work at most, on an event that is not processed; that the tables
are what the processed events come to; and that past `Upsert` and `Append` they
are ahead of them by the record in hand. Nothing is asked of the order of the
topic: a movement whose wallet has no row is refused and not marked, so that a
wallet with a row has its creation among the processed events, and this creation
finds no movement before it. The sums
are recursive functions; `SumFacts` unfolds them by means of `NatRecursion`, and
`SumAdd` shows by induction, with the property as a set, that changing one term
changes the sum by as much. One more event makes one more record count
(`OneMoreCounts`), so the balance grows by its amount.

**Processes** (`ServiceProofs`, first part): `ProcessTypeCorrect`,
`AbandonedOnlyByForce`, for each of the seven services. `SetupInv` says that what
is held is what was opened, in order, and everything while the process serves and
drains; `CallInv` why a call may still run when resources are being closed.

**Only model-checked.** Liveness (`EventuallyPublished`, `EventuallyAccounted`,
`EventsArrive`, `StopsAfterSignal`) is out of the prover's reach. Every safety
property of the passing runs, action properties and refinements included, has a
theorem.

## 5. Observations

* The `main` functions of the wallet, transaction, query and notification
  services start a gRPC server with nothing but health and reflection, and wire
  neither handlers, consumers nor workers: every call the gateway routes to them
  is answered Unimplemented (`Methods` in `ServiceProcess`). The other models
  compose the parts as their constructors and tests do.
* Two overlapping calls of `CompleteTransaction` both read PENDING and both
  announce the completion: the test "rejects double completion"
  (`transaction_service_test.go:131`) only tries one after the other.
  `EffectsExplained` therefore allows a credit for each announced completion.
* ADR 004 says that "exactly-once is achieved via consumer idempotency". A fault
  between the wallet operation and `MarkProcessed` makes the redelivered event
  take effect twice, and one between `Send` and `MarkProcessed` notifies twice:
  `ExtraEffectsNeedFaults` and `EffectsExplained` say how far the claim goes.
* Two updaters that read a profile before either writes it lose one amount of the
  daily total, without any fault: the key of a record is the source wallet, not
  the user.
* One rebalance can make every record of a poll take effect twice, since the
  member that lost the partition finishes all that it has polled. The bound of
  `EffectsExplained` and `ExtraEffectsNeedFaults` is therefore one more effect of
  each event for every fault, not one more effect in all.
* A stop between the balance upsert and `MarkProcessed` of the query service
  makes the redelivered amount count twice, where ADR 003 relies on
  `query_processed_events` for idempotency. `ExactUnlessTorn` says
  how far that idempotency goes.
* `MarkCommitRecords` and `CommitMarkedOffsets` need the `AutoCommitMarks` option
  of franz-go, which `NewConsumer` does not set. `SagaConsumer` lets commits be
  without effect, and its properties hold either way.
* The payload of `TransactionCompleted` has no `user_id`, so that the profile
  updater skips every record the transaction service publishes. `FraudService`
  is checked on records that name a user, as its tests build them.
* Nothing resets `DailyTotalCents` or `TxCountLastMinute` but the end of the
  profile's lifetime, which every update renews: the velocity rule counts all
  transfers of an active user, where the repository's README lists "N txns in T
  seconds" (`VelocityWithinMinute`).
* An error of `GetProfile` is taken for an empty profile by the rules and by the
  updater (`EvaluateBlind`, `GetProfile`): the rules are open when Redis fails.
* The defaults of `JWT_SECRET` differ: `change-me` in the identity service,
  `change-me-in-production` in the gateway. `Edge` gives both the same secret.
* The gateway handles no signal, and the shutdown goroutine of its `main` waits
  on a context that is never done.
* The rate limiter of the gateway and `handler.go` of the identity service are
  not wired by any `main`.
* An access token stays valid until it expires, whatever happens to its session:
  `AdmissionNeedsSession` has the lifetime of an access token in it for that
  reason.
* Nothing calls `CompleteTransaction`, `FailTransaction` or
  `ReleaseReservation` outside tests, and nothing consumes `FundsReserved`: the
  choreography of ADR 002 ends with the reservation. The models let callers be
  arbitrary.
* No code publishes `WalletCreated` or `FundsWithdrawn`, and the payloads of the
  outbox have no `user_id`, `event_id` or `version`, which the query service
  decodes as zero values: without a creation a movement finds no balance row, all
  transfers are counted for the nil user, and all statement entries would share
  the nil id. `QueryService` makes no assumption on any of these.
* `COMPENSATED` is a status no operation sets.
* `ReadyToTrip` is `ConsecutiveFailures > 5`: the breaker opens at the sixth
  failure in a row, where ADR 004 says five.
* When a reservation is refused, `saga_handler.go:89` logs "reserve failed, will
  emit funds released", but no code writes a `FundsReleased` outbox event; the
  transaction stays PENDING.
* `handleTransactionCompleted` takes any error of the statistics read for a user
  without statistics, so that one transient error resets the user's totals
  (`ReadStats`). That is one of the causes of `torn`.
