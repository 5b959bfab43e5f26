------------------------------- MODULE Outbox -------------------------------
(***************************************************************************)
(* The outbox workers: replicas of OutboxWorker (adapters/outbound/kafka/  *)
(* outbox_worker.go, the same code in the transaction and wallet services) *)
(* that poll one outbox table and publish its rows to one topic, each      *)
(* through the circuit breaker of pkg/breaker.                             *)
(*                                                                         *)
(* Rows are numbered by created_at, which the service sets before it       *)
(* inserts the row: the order of insertion may differ.  Kafka, PostgreSQL  *)
(* and gobreaker are external.                                             *)
(***************************************************************************)
EXTENDS Integers, Sequences, SequencesExt, FiniteSets

CONSTANTS
    Workers,      \* running replicas of the worker
    MaxRow,       \* bound: rows ever written to the table
    BatchLimit,   \* the limit flush gives FetchUnpublished (100 in the code)
    TripAfter,    \* ReadyToTrip: ConsecutiveFailures > TripAfter (5 in the code)
    MaxRequests,  \* trial requests of a half-open breaker (3 in the code)
    MaxFaults     \* bound: failed statements, failed produces and crashes

ASSUME OutboxAssumption ==
    /\ MaxRow \in Nat /\ TripAfter \in Nat /\ MaxFaults \in Nat
    /\ BatchLimit \in Nat \ {0} /\ MaxRequests \in Nat \ {0}
    /\ IsFiniteSet(Workers)

Rows == 1..MaxRow

VARIABLES
    table,      \* the rows of the outbox table, in the order of insertion
    published,  \* the rows with a published_at
    topic,      \* the records of the topic
    pc,         \* where each worker is
    batch,      \* the events of its flush that are still to be published
    breaker,    \* its circuit breaker
    faults      \* faults so far

vars == <<table, published, topic, pc, batch, breaker, faults>>

PCs == {"idle", "publish", "backoff", "mark"}
Breakers == [state : {"closed", "open", "half-open"}, failures : Nat, successes : Nat]

\* breaker.New.
NewBreaker == [state |-> "closed", failures |-> 0, successes |-> 0]

Init ==
    /\ table = <<>>
    /\ published = {}
    /\ topic = <<>>
    /\ pc = [w \in Workers |-> "idle"]
    /\ batch = [w \in Workers |-> <<>>]
    /\ breaker = [w \in Workers |-> NewBreaker]
    /\ faults = 0

Fault == faults < MaxFaults /\ faults' = faults + 1

-----------------------------------------------------------------------------
(* gobreaker, as breaker.New configures it.  A worker makes one request at *)
(* a time, so that a half-open breaker never has too many of them.         *)

\* Mutant: a half-open breaker stays half-open after a failure.
AfterFailureStaying(b) ==
    IF b.state = "closed" /\ b.failures + 1 > TripAfter
    THEN [NewBreaker EXCEPT !.state = "open"]
    ELSE [b EXCEPT !.failures = @ + 1, !.successes = 0]

\* More than TripAfter consecutive failures open a closed breaker, one
\* failure a half-open one.
AfterFailure(b) ==
    IF b.state = "half-open" \/ b.failures + 1 > TripAfter
    THEN [NewBreaker EXCEPT !.state = "open"]
    ELSE [b EXCEPT !.failures = @ + 1, !.successes = 0]

\* MaxRequests consecutive successes close a half-open breaker.
AfterSuccess(b) ==
    IF b.state = "closed" \/ b.successes + 1 >= MaxRequests
    THEN NewBreaker
    ELSE [b EXCEPT !.successes = @ + 1]

\* Timeout: 30 seconds after it opened the breaker lets requests try again.
BreakerTimeout(w) ==
    /\ breaker[w].state = "open"
    /\ breaker' = [breaker EXCEPT ![w] = [NewBreaker EXCEPT !.state = "half-open"]]
    /\ UNCHANGED <<table, published, topic, pc, batch, faults>>

\* Interval: every 60 seconds a closed breaker forgets its counts.
BreakerInterval(w) ==
    /\ breaker[w].state = "closed" /\ breaker[w].failures > 0
    /\ breaker' = [breaker EXCEPT ![w] = NewBreaker]
    /\ UNCHANGED <<table, published, topic, pc, batch, faults>>

-----------------------------------------------------------------------------
(* The service that fills the table.                                       *)

\* OutboxRepository.Save.
Save(r) ==
    /\ ~Contains(table, r)
    /\ table' = Append(table, r)
    /\ UNCHANGED <<published, topic, pc, batch, breaker, faults>>

-----------------------------------------------------------------------------
(* Run and flush.                                                          *)

Unpublished == ToSet(table) \ published

\* FetchUnpublished: published_at IS NULL ORDER BY created_at LIMIT n.  The
\* rows come in the order of creation; what is left out, if the limit is
\* reached, was created after them.
Batches ==
    {b \in UNION {[1..n -> Unpublished] : n \in 1..BatchLimit} :
        /\ \A i, j \in DOMAIN b : i < j => b[i] < b[j]
        /\ \A r \in Unpublished \ ToSet(b) :
            Len(b) = BatchLimit /\ \A i \in DOMAIN b : b[i] < r}

\* Mutant: the worker waits until a batch is full.
FetchFullBatch(w) ==
    /\ pc[w] = "idle"
    /\ \E b \in Batches : Len(b) = BatchLimit /\ batch' = [batch EXCEPT ![w] = b]
    /\ pc' = [pc EXCEPT ![w] = "publish"]
    /\ UNCHANGED <<table, published, topic, breaker, faults>>

\* The tick of a worker that finds rows.
Fetch(w) ==
    /\ pc[w] = "idle"
    /\ \E b \in Batches : batch' = [batch EXCEPT ![w] = b]
    /\ pc' = [pc EXCEPT ![w] = "publish"]
    /\ UNCHANGED <<table, published, topic, breaker, faults>>

\* ProduceSync succeeds: the record is in the topic.
Produce(w) ==
    /\ pc[w] = "publish"
    /\ breaker[w].state # "open"
    /\ topic' = Append(topic, Head(batch[w]))
    /\ breaker' = [breaker EXCEPT ![w] = AfterSuccess(@)]
    /\ pc' = [pc EXCEPT ![w] = "mark"]
    /\ UNCHANGED <<table, published, batch, faults>>

\* ProduceSync fails, with or without the record in the topic.
ProduceFails(w) ==
    /\ pc[w] = "publish"
    /\ breaker[w].state # "open"
    /\ Fault
    /\ topic' = Append(topic, Head(batch[w])) \/ topic' = topic
    /\ breaker' = [breaker EXCEPT ![w] = AfterFailure(@)]
    /\ pc' = [pc EXCEPT ![w] = "backoff"]
    /\ UNCHANGED <<table, published, batch>>

\* An open breaker refuses the request: ErrOpenState, an error like others.
BreakerRefuses(w) ==
    /\ pc[w] = "publish"
    /\ breaker[w].state = "open"
    /\ pc' = [pc EXCEPT ![w] = "backoff"]
    /\ UNCHANGED <<table, published, topic, batch, breaker, faults>>

\* backoff.Retry tries again,
Retry(w) ==
    /\ pc[w] = "backoff"
    /\ pc' = [pc EXCEPT ![w] = "publish"]
    /\ UNCHANGED <<table, published, topic, batch, breaker, faults>>

\* The event at the head of the batch is done with.
NextEvent(w) ==
    /\ batch' = [batch EXCEPT ![w] = Tail(@)]
    /\ pc' = [pc EXCEPT ![w] = IF Tail(batch[w]) = <<>> THEN "idle" ELSE "publish"]

\* Mutant: flush goes on with the next event.
GiveUpContinuing(w) ==
    /\ pc[w] = "backoff"
    /\ NextEvent(w)
    /\ UNCHANGED <<table, published, topic, breaker, faults>>

\* Mutant: flush marks an event that it did not publish.
GiveUpMarking(w) ==
    /\ pc[w] = "backoff"
    /\ pc' = [pc EXCEPT ![w] = "mark"]
    /\ UNCHANGED <<table, published, topic, batch, breaker, faults>>

\* or gives up after MaxElapsedTime, and flush drops the rest of its batch.
GiveUp(w) ==
    /\ pc[w] = "backoff"
    /\ pc' = [pc EXCEPT ![w] = "idle"]
    /\ batch' = [batch EXCEPT ![w] = <<>>]
    /\ UNCHANGED <<table, published, topic, breaker, faults>>

\* Mutant: the row is not found by its id.
MarkPublishedNothing(w) ==
    /\ pc[w] = "mark"
    /\ NextEvent(w)
    /\ UNCHANGED <<table, published, topic, breaker, faults>>

\* MarkPublished.
MarkPublished(w) ==
    /\ pc[w] = "mark"
    /\ published' = published \cup {Head(batch[w])}
    /\ NextEvent(w)
    /\ UNCHANGED <<table, topic, breaker, faults>>

\* MarkPublished fails: flush logs it and goes on with the next event.
MarkFails(w) ==
    /\ pc[w] = "mark"
    /\ Fault
    /\ NextEvent(w)
    /\ UNCHANGED <<table, published, topic, breaker>>

\* A worker crashes, or its context is cancelled, and it is started again
\* with a new client and a new breaker.
Crash(w) ==
    /\ pc[w] # "idle"
    /\ Fault
    /\ pc' = [pc EXCEPT ![w] = "idle"]
    /\ batch' = [batch EXCEPT ![w] = <<>>]
    /\ breaker' = [breaker EXCEPT ![w] = NewBreaker]
    /\ UNCHANGED <<table, published, topic>>

-----------------------------------------------------------------------------
\* What a running worker does by itself.
Work(w) ==
    \/ Fetch(w) \/ Produce(w) \/ BreakerRefuses(w) \/ Retry(w) \/ GiveUp(w)
    \/ MarkPublished(w)

Next ==
    \/ \E r \in Rows : Save(r)
    \/ \E w \in Workers :
        \/ Work(w)
        \/ ProduceFails(w) \/ MarkFails(w) \/ Crash(w)
        \/ BreakerTimeout(w) \/ BreakerInterval(w)

Spec == Init /\ [][Next]_vars

\* The ticker keeps every worker going, and time passes for its breaker.
FairSpec ==
    Spec /\ \A w \in Workers : WF_vars(Work(w)) /\ WF_vars(BreakerTimeout(w))

-----------------------------------------------------------------------------
(* Properties.                                                             *)

\* Types of the table, the topic and the state of the workers.
TypeOK ==
    /\ table \in Seq(Rows)
    /\ published \subseteq Rows
    /\ topic \in Seq(Rows)
    /\ pc \in [Workers -> PCs]
    /\ batch \in [Workers -> Seq(Rows)]
    /\ breaker \in [Workers -> Breakers]
    /\ \A w \in Workers :
        /\ breaker[w].failures \in 0..TripAfter
        /\ breaker[w].state # "closed" => breaker[w].failures = 0
        /\ breaker[w].successes \in 0..(MaxRequests - 1)
    /\ faults \in 0..MaxFaults

\* The workers together keep what Relay promises to consumers: no event is
\* lost, none is invented, and none overtakes an earlier one.
PromisedRelay == INSTANCE Relay
ImplementsRelay == PromisedRelay!Spec

Position(s, x) == CHOOSE i \in 1..Len(s) : s[i] = x /\ \A j \in 1..(i - 1) : s[j] # x

\* Of two rows of which one was created and inserted before the other, the
\* first copy of the earlier comes first in the topic, even with several
\* workers, failures and retries.
FirstCopiesInOrder ==
    \A i, j \in DOMAIN table :
        i < j /\ table[i] < table[j] /\ Contains(topic, table[j]) =>
            /\ Contains(topic, table[i])
            /\ Position(topic, table[i]) < Position(topic, table[j])

\* Duplicates are only as many as replicas and faults explain: what is
\* marked is not fetched again.
DuplicatesExplained ==
    \A r \in Rows :
        Cardinality({i \in DOMAIN topic : topic[i] = r}) <= Cardinality(Workers) + faults

\* Every row is published and marked in the end, once faults stop: no row
\* is starved by the ones before it, by an open breaker or by a lost batch.
EventuallyPublished ==
    \A r \in Rows : Contains(table, r) ~> r \in published

=============================================================================
