---------------------------- MODULE OutboxProofs ----------------------------
(***************************************************************************)
(* Theorems about Outbox, for any number of replicas of the worker, rows   *)
(* and faults, any batch limit and any settings of the breaker: the order  *)
(* of the records, the bound on duplicates, and the refinement of Relay.   *)
(***************************************************************************)
EXTENDS Outbox, NatRecursion, FiniteSetTheorems, TLAPS

USE OutboxAssumption

-----------------------------------------------------------------------------
(* The inductive invariant.                                                *)

InTopic(r) == \E i \in DOMAIN topic : topic[i] = r
InTable(r) == \E i \in DOMAIN table : table[i] = r

\* q was created and inserted before r.
Before(q, r) ==
    \E i, j \in DOMAIN table : i < j /\ table[i] = q /\ table[j] = r /\ q < r

\* Records are of rows, and marked rows have a record.
TopicInv ==
    /\ \A i \in DOMAIN topic : InTable(topic[i])
    /\ \A r \in published : InTopic(r)

\* A batch is in the order of creation, and a worker at MarkPublished has
\* published the head of its batch.
BatchInv ==
    \A w \in Workers :
        /\ \A i \in DOMAIN batch[w] : InTable(batch[w][i])
        /\ \A i, j \in DOMAIN batch[w] : i < j => batch[w][i] < batch[w][j]
        /\ pc[w] = "idle" <=> batch[w] = <<>>
        /\ pc[w] = "mark" => InTopic(Head(batch[w]))

\* What comes before a row of a batch has a record, or comes before it in the
\* batch as well.
OrderInv ==
    \A w \in Workers : \A k \in DOMAIN batch[w] : \A q \in Rows :
        Before(q, batch[w][k]) => InTopic(q) \/ \E l \in 1..(k - 1) : batch[w][l] = q

Copies(r) == {i \in DOMAIN topic : topic[i] = r}

\* w has published r and is about to mark it.
Marking(w, r) == pc[w] = "mark" /\ Head(batch[w]) = r

\* w has yet to publish r.
ToPublish(w, r) == ~ Marking(w, r) /\ \E i \in DOMAIN batch[w] : batch[w][i] = r

\* The workers that a copy of r may be due to.
Publisher(w, r) == IF r \in published THEN ~ ToPublish(w, r) ELSE Marking(w, r)
Publishers(r) == {w \in Workers : Publisher(w, r)}

\* A row that is not marked has copies only from workers about to mark it,
\* and a marked row none from workers that still have it to publish: all
\* other copies are due to faults.
CopiesInv == \A r \in Rows : Cardinality(Copies(r)) <= Cardinality(Publishers(r)) + faults

IInv == TypeOK /\ TopicInv /\ BatchInv /\ OrderInv /\ FirstCopiesInOrder /\ CopiesInv

-----------------------------------------------------------------------------
(* Type correctness.                                                       *)

\* The counts of a breaker that TypeOK allows.
BreakerOK(b) ==
    /\ b \in Breakers
    /\ b.failures \in 0..TripAfter
    /\ b.state # "closed" => b.failures = 0
    /\ b.successes \in 0..(MaxRequests - 1)

\* A breaker counts within its limits, whatever becomes of a request.
LEMMA BreakerSteps ==
    ASSUME NEW b, BreakerOK(b)
    PROVE  /\ BreakerOK(NewBreaker)
           /\ BreakerOK([NewBreaker EXCEPT !.state = "half-open"])
           /\ b.state # "open" => BreakerOK(AfterFailure(b)) /\ BreakerOK(AfterSuccess(b))
<1>1. BreakerOK(NewBreaker) /\ BreakerOK([NewBreaker EXCEPT !.state = "half-open"])
    BY DEF BreakerOK, Breakers, NewBreaker
<1>2. ASSUME b.state # "open" PROVE BreakerOK(AfterFailure(b))
    <2>1. CASE b.state = "half-open" \/ b.failures + 1 > TripAfter
        <3>1. AfterFailure(b) = [state |-> "open", failures |-> 0, successes |-> 0]
            BY <2>1 DEF AfterFailure, NewBreaker
        <3> QED BY <3>1 DEF BreakerOK, Breakers
    <2>2. CASE ~ (b.state = "half-open" \/ b.failures + 1 > TripAfter)
        <3>1. AfterFailure(b) = [state |-> b.state, failures |-> b.failures + 1, successes |-> 0]
            BY <2>2 DEF AfterFailure, BreakerOK, Breakers
        <3>2. b.state = "closed" /\ b.failures + 1 \in 0..TripAfter
            BY <1>2, <2>2 DEF BreakerOK, Breakers
        <3> QED BY <3>1, <3>2 DEF BreakerOK, Breakers
    <2> QED BY <2>1, <2>2
<1>3. BreakerOK(AfterSuccess(b))
    BY DEF BreakerOK, Breakers, NewBreaker, AfterSuccess
<1> QED BY <1>1, <1>2, <1>3

\* A batch is a non-empty sequence of unpublished rows of the table.
LEMMA BatchesAreSequences ==
    ASSUME TypeOK, NEW b \in Batches
    PROVE  b \in Seq(Rows) /\ b # <<>> /\ \A i \in DOMAIN b : b[i] \in Unpublished
<1>1. PICK n \in 1..BatchLimit : b \in [1..n -> Unpublished]
    BY DEF Batches
<1>2. Unpublished \subseteq Rows
    BY DEF TypeOK, Unpublished, ToSet
<1>3. b \in [1..n -> Rows] /\ n \in Nat
    BY <1>1, <1>2
<1>4. b \in Seq(Rows)
    BY <1>3
<1>5. b # <<>>
    BY <1>1
<1> QED BY <1>1, <1>4, <1>5

\* What is left of a batch after its head.
LEMMA TailOfBatch ==
    ASSUME NEW S, NEW s \in Seq(S), s # <<>>
    PROVE  /\ Head(s) = s[1] /\ Head(s) \in S /\ 1 \in DOMAIN s
           /\ Tail(s) \in Seq(S)
           /\ DOMAIN Tail(s) = 1..(Len(s) - 1)
           /\ \A i \in DOMAIN Tail(s) : i + 1 \in DOMAIN s /\ Tail(s)[i] = s[i + 1]
OBVIOUS

\* What TypeOK says of the workers and the faults.
TypeRest ==
    /\ pc \in [Workers -> PCs]
    /\ batch \in [Workers -> Seq(Rows)]
    /\ breaker \in [Workers -> Breakers]
    /\ \A w \in Workers : BreakerOK(breaker[w])
    /\ faults \in 0..MaxFaults

\* TypeOK, with the counts of a breaker gathered in BreakerOK.
LEMMA TypeParts ==
    TypeOK <=> table \in Seq(Rows) /\ published \subseteq Rows /\ topic \in Seq(Rows) /\ TypeRest
BY DEF TypeOK, TypeRest, BreakerOK

\* The table, the topic and the workers keep their types in every step.
LEMMA TypeStep == TypeOK /\ BatchInv /\ [Next]_vars => TypeOK'
<1> SUFFICES ASSUME TypeOK, BatchInv, [Next]_vars PROVE TypeOK'
    OBVIOUS
<1>0. table \in Seq(Rows) /\ published \subseteq Rows /\ topic \in Seq(Rows) /\ TypeRest
    BY TypeParts
<1>a. SUFFICES table' \in Seq(Rows) /\ published' \subseteq Rows /\ topic' \in Seq(Rows) /\ TypeRest'
    BY DEF TypeOK, TypeRest, BreakerOK
<1>b. \A w \in Workers : batch[w] \in Seq(Rows)
    BY <1>0 DEF TypeRest
<1>d. ASSUME NEW w \in Workers, pc[w] # "idle"
      PROVE  batch[w] # <<>> /\ Head(batch[w]) \in Rows /\ Tail(batch[w]) \in Seq(Rows)
    BY <1>b, <1>d, TailOfBatch DEF BatchInv
<1>1. CASE UNCHANGED vars
    BY <1>0, <1>1 DEF TypeRest, vars
<1>2. ASSUME NEW r \in Rows, Save(r)
      PROVE table' \in Seq(Rows) /\ published' \subseteq Rows /\ topic' \in Seq(Rows) /\ TypeRest'
    BY <1>0, <1>2 DEF Save, TypeRest
<1>3. ASSUME NEW w \in Workers, Work(w) \/ ProduceFails(w) \/ MarkFails(w) \/ Crash(w)
                                \/ BreakerTimeout(w) \/ BreakerInterval(w)
      PROVE table' \in Seq(Rows) /\ published' \subseteq Rows /\ topic' \in Seq(Rows) /\ TypeRest'
    <2>0. BreakerOK(breaker[w]) /\ breaker[w] \in Breakers
        BY <1>0 DEF TypeRest
    <2> DEFINE Goto(s) == pc' = [pc EXCEPT ![w] = s]
               Break(b) == breaker' = [breaker EXCEPT ![w] = b]
    <2>a. ASSUME NEW s \in PCs, Goto(s) PROVE pc' \in [Workers -> PCs]
        BY <1>0, <2>a DEF TypeRest
    <2>b. ASSUME NEW b, BreakerOK(b), Break(b)
          PROVE breaker' \in [Workers -> Breakers] /\ \A v \in Workers : BreakerOK(breaker'[v])
        BY <1>0, <2>b DEF TypeRest, BreakerOK
    <2>c. {"idle", "publish", "backoff", "mark"} \subseteq PCs
        BY DEF PCs
    <2>1. CASE Fetch(w)
        <3>1. PICK b \in Batches : batch' = [batch EXCEPT ![w] = b]
            BY <2>1 DEF Fetch
        <3>2. batch' \in [Workers -> Seq(Rows)]
            BY <1>0, <3>1, BatchesAreSequences DEF TypeRest
        <3> QED BY <1>0, <2>1, <2>a, <2>c, <3>2 DEF Fetch, TypeRest
    <2>2. CASE Produce(w)
        <3>1. Break(AfterSuccess(breaker[w])) /\ BreakerOK(AfterSuccess(breaker[w]))
            BY <2>0, <2>2, BreakerSteps DEF Produce
        <3>2. topic' \in Seq(Rows)
            BY <1>0, <1>d, <2>2 DEF Produce
        <3> QED BY <1>0, <2>2, <2>a, <2>b, <2>c, <3>1, <3>2 DEF Produce, TypeRest
    <2>3. CASE BreakerRefuses(w)
        BY <1>0, <2>3, <2>a, <2>c DEF BreakerRefuses, TypeRest
    <2>4. CASE Retry(w)
        BY <1>0, <2>4, <2>a, <2>c DEF Retry, TypeRest
    <2>5. CASE GiveUp(w)
        BY <1>0, <2>5, <2>a, <2>c DEF GiveUp, TypeRest
    <2>d. ASSUME NextEvent(w), pc[w] = "mark"
          PROVE pc' \in [Workers -> PCs] /\ batch' \in [Workers -> Seq(Rows)]
        BY <1>0, <1>d, <2>a, <2>c, <2>d DEF NextEvent, TypeRest
    <2>6. CASE MarkPublished(w)
        BY <1>0, <1>d, <2>6, <2>d DEF MarkPublished, TypeRest
    <2>7. CASE ProduceFails(w)
        <3>1. Break(AfterFailure(breaker[w])) /\ BreakerOK(AfterFailure(breaker[w]))
            BY <2>0, <2>7, BreakerSteps DEF ProduceFails, Fault
        <3>2. topic' \in Seq(Rows)
            BY <1>0, <1>d, <2>7, SMTT(30) DEF ProduceFails, Fault
        <3>3. faults' \in 0..MaxFaults
            BY <1>0, <2>7 DEF ProduceFails, Fault, TypeRest
        <3>4. pc' \in [Workers -> PCs]
            BY <2>7, <2>a, <2>c DEF ProduceFails, Fault
        <3>5. breaker' \in [Workers -> Breakers] /\ \A v \in Workers : BreakerOK(breaker'[v])
            BY <2>b, <3>1
        <3> QED BY <1>0, <2>7, <3>2, <3>3, <3>4, <3>5 DEF ProduceFails, TypeRest, Fault
    <2>8. CASE MarkFails(w)
        BY <1>0, <2>8, <2>d DEF MarkFails, TypeRest, Fault
    <2>9. CASE Crash(w)
        <3>1. Break(NewBreaker) /\ BreakerOK(NewBreaker)
            BY <2>0, <2>9, BreakerSteps DEF Crash, Fault
        <3>2. faults' \in 0..MaxFaults
            BY <1>0, <2>9 DEF Crash, Fault, TypeRest
        <3>3. pc' \in [Workers -> PCs]
            BY <2>9, <2>a, <2>c DEF Crash, Fault
        <3>4. breaker' \in [Workers -> Breakers] /\ \A v \in Workers : BreakerOK(breaker'[v])
            BY <2>b, <3>1
        <3> QED BY <1>0, <2>9, <3>2, <3>3, <3>4 DEF Crash, TypeRest, Fault
    <2>10. CASE BreakerTimeout(w)
        <3>1. BreakerOK([NewBreaker EXCEPT !.state = "half-open"])
            BY <2>0, BreakerSteps
        <3> QED BY <1>0, <2>10, <2>b, <3>1 DEF BreakerTimeout, TypeRest
    <2>11. CASE BreakerInterval(w)
        <3>1. BreakerOK(NewBreaker)
            BY <2>0, BreakerSteps
        <3> QED BY <1>0, <2>11, <2>b, <3>1 DEF BreakerInterval, TypeRest
    <2> QED BY <1>3, <2>1, <2>2, <2>3, <2>4, <2>5, <2>6, <2>7, <2>8, <2>9, <2>10, <2>11 DEF Work
<1> QED BY <1>1, <1>2, <1>3 DEF Next

-----------------------------------------------------------------------------
(* What the steps have in common, for the workers and the topic.           *)

\* The worker publishes the head of its batch: Produce, or a ProduceFails
\* that leaves the record in the topic.
Appends(w) ==
    /\ pc[w] = "publish"
    /\ topic' = Append(topic, Head(batch[w]))
    /\ UNCHANGED <<table, published, batch>>
    /\ \/ pc' = [pc EXCEPT ![w] = "mark"] /\ faults' = faults
       \/ pc' = [pc EXCEPT ![w] = "backoff"] /\ faults' = faults + 1

\* It is done with the head: MarkPublished or MarkFails.
Advances(w) ==
    /\ pc[w] = "mark"
    /\ NextEvent(w)
    /\ UNCHANGED <<table, topic>>
    /\ \/ published' = published \cup {Head(batch[w])} /\ faults' = faults
       \/ published' = published /\ faults' = faults + 1

\* It drops its batch: GiveUp or Crash.  It was about to mark only if it
\* crashed.
Drops(w) ==
    /\ pc' = [pc EXCEPT ![w] = "idle"]
    /\ batch' = [batch EXCEPT ![w] = <<>>]
    /\ UNCHANGED <<table, published, topic>>
    /\ \/ pc[w] = "backoff" /\ faults' = faults
       \/ faults' = faults + 1

\* Neither the rows, nor the records, nor the batches change.
Quiet ==
    /\ UNCHANGED <<table, published, topic, batch>>
    /\ faults' \in {faults, faults + 1}
    /\ \A w \in Workers :
        /\ pc'[w] = "idle" <=> pc[w] = "idle"
        /\ pc'[w] = "mark" <=> pc[w] = "mark"

\* Every step is one of these.
LEMMA StepKinds ==
    ASSUME TypeOK, [Next]_vars
    PROVE  \/ \E r \in Rows : Save(r)
           \/ Quiet
           \/ \E w \in Workers : Fetch(w) \/ Appends(w) \/ Advances(w) \/ Drops(w)
<1>0. pc \in [Workers -> PCs] /\ faults \in Nat
    BY DEF TypeOK
<1>1. CASE UNCHANGED vars
    BY <1>1 DEF Quiet, vars
<1>2. ASSUME NEW w \in Workers, Work(w) \/ ProduceFails(w) \/ MarkFails(w) \/ Crash(w)
                                \/ BreakerTimeout(w) \/ BreakerInterval(w)
      PROVE  Quiet \/ Fetch(w) \/ Appends(w) \/ Advances(w) \/ Drops(w)
    <2>1. CASE Produce(w)
        BY <2>1 DEF Produce, Appends
    <2>2. CASE BreakerRefuses(w)
        BY <1>0, <2>2 DEF BreakerRefuses, Quiet
    <2>3. CASE Retry(w)
        BY <1>0, <2>3 DEF Retry, Quiet
    <2>4. CASE GiveUp(w)
        BY <2>4 DEF GiveUp, Drops
    <2>5. CASE MarkPublished(w)
        BY <2>5 DEF MarkPublished, Advances
    <2>6. CASE ProduceFails(w)
        <3>1. CASE topic' = topic
            BY <1>0, <2>6, <3>1 DEF ProduceFails, Fault, Quiet
        <3>2. CASE topic' = Append(topic, Head(batch[w]))
            BY <2>6, <3>2 DEF ProduceFails, Fault, Appends
        <3> QED BY <2>6, <3>1, <3>2 DEF ProduceFails, Fault
    <2>7. CASE MarkFails(w)
        BY <2>7 DEF MarkFails, Fault, Advances
    <2>8. CASE Crash(w)
        BY <2>8 DEF Crash, Fault, Drops
    <2>9. CASE BreakerTimeout(w) \/ BreakerInterval(w)
        BY <2>9 DEF BreakerTimeout, BreakerInterval, Quiet
    <2> QED BY <1>2, <2>1, <2>2, <2>3, <2>4, <2>5, <2>6, <2>7, <2>8, <2>9 DEF Work
<1> QED BY <1>1, <1>2 DEF Next

\* A sequence with one more element.
LEMMA Appended ==
    ASSUME NEW S, NEW s \in Seq(S), NEW x \in S
    PROVE  /\ Append(s, x) \in Seq(S)
           /\ Len(Append(s, x)) = Len(s) + 1
           /\ DOMAIN Append(s, x) = DOMAIN s \cup {Len(s) + 1}
           /\ \A i \in DOMAIN s : Append(s, x)[i] = s[i] /\ i < Len(s) + 1
           /\ Append(s, x)[Len(s) + 1] = x
           /\ Len(s) + 1 \notin DOMAIN s
OBVIOUS

\* A worker that is not idle has a head of its batch, and what NextEvent
\* leaves of it.
LEMMA HeadOfBatch ==
    ASSUME TypeOK, BatchInv, NEW w \in Workers, pc[w] # "idle"
    PROVE  /\ batch[w] \in Seq(Rows) /\ batch[w] # <<>>
           /\ Head(batch[w]) = batch[w][1] /\ Head(batch[w]) \in Rows /\ 1 \in DOMAIN batch[w]
           /\ InTable(Head(batch[w]))
           /\ \A i \in DOMAIN batch[w] : i # 1 => Head(batch[w]) < batch[w][i]
<1>1. batch[w] \in Seq(Rows) /\ batch[w] # <<>>
    BY DEF TypeOK, BatchInv
<1>2. Head(batch[w]) = batch[w][1] /\ Head(batch[w]) \in Rows /\ 1 \in DOMAIN batch[w]
    BY <1>1, TailOfBatch
<1>3. InTable(batch[w][1])
    BY <1>2 DEF BatchInv
<1>4. \A i \in DOMAIN batch[w] : i # 1 => 1 < i
    BY <1>1
<1>5. \A i \in DOMAIN batch[w] : i # 1 => batch[w][1] < batch[w][i]
    BY <1>2, <1>4 DEF BatchInv
<1> QED BY <1>1, <1>2, <1>3, <1>5

\* Rows and records stay.
LEMMA Growing ==
    ASSUME TypeOK, BatchInv, [Next]_vars
    PROVE  \A q : /\ InTable(q) => InTable(q)'
                  /\ InTopic(q) => InTopic(q)'
<1>0. table \in Seq(Rows) /\ topic \in Seq(Rows)
    BY DEF TypeOK
<1>1. ASSUME NEW r \in Rows, Save(r) PROVE \A q : (InTable(q) => InTable(q)') /\ (InTopic(q) => InTopic(q)')
    BY <1>0, <1>1, Appended DEF Save, InTable, InTopic
<1>2. ASSUME NEW w \in Workers, Appends(w)
      PROVE \A q : (InTable(q) => InTable(q)') /\ (InTopic(q) => InTopic(q)')
    <2>1. Head(batch[w]) \in Rows
        BY <1>2, HeadOfBatch DEF Appends
    <2> QED BY <1>0, <1>2, <2>1, Appended DEF Appends, InTable, InTopic
<1>3. CASE UNCHANGED <<table, topic>>
    BY <1>3 DEF InTable, InTopic
<1>4. Quiet \/ (\E w \in Workers : Fetch(w) \/ Advances(w) \/ Drops(w)) => UNCHANGED <<table, topic>>
    BY DEF Quiet, Fetch, Advances, Drops
<1> QED BY <1>1, <1>2, <1>3, <1>4, StepKinds

\* Records are of rows, and marked rows have a record, after every step.
LEMMA TopicStep ==
    ASSUME TypeOK, TopicInv, BatchInv, [Next]_vars
    PROVE  TopicInv'
<1>0. table \in Seq(Rows) /\ topic \in Seq(Rows)
    BY DEF TypeOK
<1>1. CASE UNCHANGED topic
    <2>1. (\A i \in DOMAIN topic : InTable(topic[i]))'
        BY <1>1, Growing DEF TopicInv
    <2>2. (\A r \in published : InTopic(r))'
        <3>1. CASE published' = published
            BY <3>1, Growing DEF TopicInv
        <3>2. ASSUME NEW w \in Workers, Advances(w) PROVE (\A r \in published : InTopic(r))'
            <4>1. InTopic(Head(batch[w]))
                BY <3>2 DEF Advances, BatchInv
            <4> QED BY <3>2, <4>1, Growing DEF Advances, TopicInv
        <3>3. \A r \in Rows : Save(r) => published' = published
            BY DEF Save
        <3>4. Quiet \/ (\E w \in Workers : Fetch(w) \/ Appends(w) \/ Drops(w)) => published' = published
            BY DEF Quiet, Fetch, Appends, Drops
        <3> QED BY <3>1, <3>2, <3>3, <3>4, StepKinds
    <2> QED BY <2>1, <2>2 DEF TopicInv
<1>2. ASSUME NEW w \in Workers, Appends(w) PROVE TopicInv'
    <2>1. Head(batch[w]) \in Rows /\ InTable(Head(batch[w]))
        BY <1>2, HeadOfBatch DEF Appends
    <2>2. \A i \in DOMAIN topic' : InTable(topic'[i])
        BY <1>0, <1>2, <2>1, Appended DEF Appends, TopicInv
    <2> QED BY <1>2, <2>2, Growing DEF Appends, TopicInv
<1>3. \A r \in Rows : Save(r) => UNCHANGED topic
    BY DEF Save
<1>4. Quiet \/ (\E w \in Workers : Fetch(w) \/ Advances(w) \/ Drops(w)) => UNCHANGED topic
    BY DEF Quiet, Fetch, Advances, Drops
<1> QED BY <1>1, <1>2, <1>3, <1>4, StepKinds

\* A batch is in the order of creation, before and after every step, and a
\* worker that is about to mark a row has published it.
LEMMA BatchStep ==
    ASSUME TypeOK, BatchInv, [Next]_vars
    PROVE  BatchInv'
<1> DEFINE OK(s, p) ==
        /\ \A i \in DOMAIN s : InTable(s[i])
        /\ \A i, j \in DOMAIN s : i < j => s[i] < s[j]
        /\ p = "idle" <=> s = <<>>
        /\ p = "mark" => InTopic(Head(s))
<1>0. batch \in [Workers -> Seq(Rows)] /\ pc \in [Workers -> PCs]
    BY DEF TypeOK
<1>a. \A v \in Workers : OK(batch[v], pc[v])
    BY DEF BatchInv
<1>b. ASSUME NEW v \in Workers, OK(batch'[v], pc'[v]) PROVE OK(batch[v], pc[v])'
    BY <1>b, Growing
<1>c. SUFFICES ASSUME NEW v \in Workers PROVE OK(batch[v], pc[v])'
    BY DEF BatchInv
<1>1. CASE batch'[v] = batch[v] /\ pc'[v] = pc[v]
    BY <1>1, <1>a, <1>b
<1>2. ASSUME NEW r \in Rows, Save(r) PROVE OK(batch[v], pc[v])'
    BY <1>2, <1>1 DEF Save
<1>3. CASE Quiet
    <2>1. OK(batch'[v], pc'[v])
        BY <1>3, <1>a DEF Quiet
    <2> QED BY <2>1, <1>b
<1>4. ASSUME NEW w \in Workers, Fetch(w) PROVE OK(batch[v], pc[v])'
    <2>1. PICK b \in Batches : batch' = [batch EXCEPT ![w] = b]
        BY <1>4 DEF Fetch
    <2>2. CASE v = w
        <3>1. batch'[v] = b /\ pc'[v] = "publish"
            BY <1>0, <1>4, <2>1, <2>2 DEF Fetch
        <3>2. b # <<>> /\ \A i \in DOMAIN b : b[i] \in Unpublished
            BY BatchesAreSequences
        <3>3. \A r \in Unpublished : InTable(r)
            BY DEF Unpublished, ToSet, InTable
        <3>4. \A i, j \in DOMAIN b : i < j => b[i] < b[j]
            BY DEF Batches
        <3>5. OK(b, "publish")
            BY <3>2, <3>3, <3>4
        <3> QED BY <3>1, <3>5, <1>b
    <2> QED BY <1>0, <1>1, <1>4, <2>1, <2>2 DEF Fetch
<1>5. ASSUME NEW w \in Workers, Appends(w) PROVE OK(batch[v], pc[v])'
    <2>1. CASE v = w
        <3>0. Head(batch[w]) \in Rows /\ topic \in Seq(Rows)
            BY <1>5, HeadOfBatch DEF Appends, TypeOK
        <3>1. batch'[v] = batch[v] /\ pc[v] = "publish" /\ pc'[v] \in {"mark", "backoff"}
            BY <1>0, <1>5, <2>1 DEF Appends
        <3>2. InTopic(Head(batch[v]))'
            BY <1>5, <2>1, <3>0, <3>1, Appended DEF Appends, InTopic
        <3>3. OK(batch[v], "publish")'
            BY <3>1, <1>a, Growing
        <3> QED BY <3>1, <3>2, <3>3
    <2> QED BY <1>0, <1>1, <1>5, <2>1 DEF Appends
<1>6. ASSUME NEW w \in Workers, Advances(w) PROVE OK(batch[v], pc[v])'
    <2>1. CASE v = w
        <3>0. batch[w] \in Seq(Rows) /\ batch[w] # <<>>
            BY <1>6, HeadOfBatch DEF Advances
        <3> DEFINE s == batch[w]
                   u == Tail(batch[w])
        <3>1. /\ DOMAIN u = 1..(Len(s) - 1)
              /\ \A i \in DOMAIN u : i \in Int /\ i + 1 \in DOMAIN s /\ u[i] = s[i + 1]
            BY <3>0, TailOfBatch
        <3>2. batch'[v] = u /\ pc'[v] = IF u = <<>> THEN "idle" ELSE "publish"
            BY <1>0, <1>6, <2>1 DEF Advances, NextEvent
        <3>3. OK(s, pc[v])
            BY <1>a, <2>1
        <3> HIDE DEF s, u
        <3>4. \A i \in DOMAIN u : InTable(u[i])
            BY <3>1, <3>3
        <3>5. ASSUME NEW i \in DOMAIN u, NEW j \in DOMAIN u, i < j PROVE u[i] < u[j]
            <4>1. i + 1 < j + 1
                BY <3>1, <3>5
            <4> QED BY <3>1, <3>3, <4>1
        <3>6. OK(batch'[v], pc'[v])
            BY <3>2, <3>4, <3>5
        <3> QED BY <3>6, <1>b
    <2> QED BY <1>0, <1>1, <1>6, <2>1 DEF Advances, NextEvent
<1>7. ASSUME NEW w \in Workers, Drops(w) PROVE OK(batch[v], pc[v])'
    <2>1. CASE v = w
        <3>1. batch'[v] = <<>> /\ pc'[v] = "idle"
            BY <1>0, <1>7, <2>1 DEF Drops
        <3> QED BY <3>1
    <2> QED BY <1>0, <1>1, <1>7, <2>1 DEF Drops
<1> QED BY <1>2, <1>3, <1>4, <1>5, <1>6, <1>7, StepKinds

\* The rows before a row of the table do not change.
LEMMA BeforeStable ==
    ASSUME TypeOK, [Next]_vars, NEW q, NEW r, InTable(r)
    PROVE  Before(q, r)' => Before(q, r)
<1>0. table \in Seq(Rows)
    BY DEF TypeOK
<1>1. CASE UNCHANGED table
    BY <1>1 DEF Before
<1>2. ASSUME NEW x \in Rows, Save(x), Before(q, r)' PROVE Before(q, r)
    <2>1. table' = Append(table, x) /\ r # x
        BY <1>2 DEF Save, Contains, InTable
    <2>2. PICK i \in DOMAIN table', j \in DOMAIN table' :
                i < j /\ table'[i] = q /\ table'[j] = r /\ q < r
        BY <1>2 DEF Before
    <2>3. j \in DOMAIN table
        BY <1>0, <2>1, <2>2, Appended
    <2>4. i \in DOMAIN table
        BY <1>0, <2>1, <2>2, <2>3, Appended
    <2>5. table[i] = q /\ table[j] = r
        BY <1>0, <2>1, <2>2, <2>3, <2>4, Appended
    <2> QED BY <2>2, <2>3, <2>4, <2>5 DEF Before
<1>3. Quiet \/ (\E w \in Workers : Fetch(w) \/ Appends(w) \/ Advances(w) \/ Drops(w)) => UNCHANGED table
    BY DEF Quiet, Fetch, Appends, Advances, Drops
<1> QED BY <1>1, <1>2, <1>3, StepKinds

\* What comes before a row of a batch has a record or is in the batch before
\* it, after every step: FetchUnpublished leaves out no earlier row, and a
\* row leaves its batch at the head, with a record, or with the whole batch.
LEMMA OrderStep ==
    ASSUME TypeOK, TopicInv, BatchInv, OrderInv, [Next]_vars
    PROVE  OrderInv'
<1> DEFINE OK(s) == \A k \in DOMAIN s : \A q \in Rows :
                Before(q, s[k]) => InTopic(q) \/ \E l \in 1..(k - 1) : s[l] = q
<1>0. batch \in [Workers -> Seq(Rows)] /\ pc \in [Workers -> PCs]
    BY DEF TypeOK
<1>a. \A v \in Workers : OK(batch[v])
    BY DEF OrderInv
<1>b. ASSUME NEW v \in Workers, OK(batch'[v]), \A i \in DOMAIN batch'[v] : InTable(batch'[v][i])
      PROVE  OK(batch[v])'
    <2>1. SUFFICES ASSUME NEW k \in DOMAIN batch'[v], NEW q \in Rows, Before(q, batch[v][k])'
                   PROVE  InTopic(q)' \/ \E l \in 1..(k - 1) : batch'[v][l] = q
        OBVIOUS
    <2>2. Before(q, batch'[v][k])
        BY <1>b, <2>1, BeforeStable
    <2> QED BY <1>b, <2>2, Growing
<1>c. SUFFICES ASSUME NEW v \in Workers PROVE OK(batch[v])'
    BY DEF OrderInv
<1>1. CASE batch'[v] = batch[v]
    <2>1. \A i \in DOMAIN batch[v] : InTable(batch[v][i])
        BY DEF BatchInv
    <2> QED BY <1>1, <1>a, <1>b, <2>1
<1>2. ASSUME NEW w \in Workers, Fetch(w), v = w PROVE OK(batch[v])'
    <2>1. PICK b \in Batches : batch' = [batch EXCEPT ![w] = b]
        BY <1>2 DEF Fetch
    <2>2. batch'[v] = b
        BY <1>0, <1>2, <2>1
    <2>3. b \in Seq(Rows) /\ \A i \in DOMAIN b : b[i] \in Unpublished
        BY BatchesAreSequences
    <2>4. \A i \in DOMAIN b : InTable(b[i])
        BY <2>3 DEF Unpublished, ToSet, InTable
    <2>5. ASSUME NEW k \in DOMAIN b, NEW q \in Rows, Before(q, b[k])
          PROVE  InTopic(q) \/ \E l \in 1..(k - 1) : b[l] = q
        <3>0. q \in ToSet(table) /\ q < b[k]
            BY <2>5 DEF Before, ToSet
        <3>1. CASE q \in published
            BY <3>1 DEF TopicInv
        <3>2. CASE q \in Unpublished
            <4>0. b[k] \in Rows
                BY <2>3
            <4>1. q \in ToSet(b)
                <5>1. SUFFICES ASSUME q \notin ToSet(b) PROVE FALSE
                    OBVIOUS
                <5>2. b[k] < q
                    BY <3>2, <5>1 DEF Batches
                <5> QED BY <3>0, <4>0, <5>2 DEF Rows
            <4>2. PICK l \in DOMAIN b : b[l] = q
                BY <4>1 DEF ToSet
            <4>3. \A i, j \in DOMAIN b : i < j => b[i] < b[j]
                BY DEF Batches
            <4>4. l # k /\ ~ (k < l)
                BY <3>0, <4>0, <4>2, <4>3 DEF Rows
            <4>5. l \in 1..(k - 1)
                BY <2>3, <4>4
            <4> QED BY <4>2, <4>5
        <3> QED BY <3>0, <3>1, <3>2 DEF Unpublished
    <2>6. OK(b)
        BY <2>5
    <2> QED BY <1>b, <2>2, <2>4, <2>6
<1>3. ASSUME NEW w \in Workers, Advances(w), v = w PROVE OK(batch[v])'
    <2> DEFINE s == batch[w]
               u == Tail(batch[w])
    <2>0. s \in Seq(Rows) /\ s # <<>> /\ Head(s) = s[1]
        BY <1>3, HeadOfBatch DEF Advances
    <2>1. /\ DOMAIN u = 1..(Len(s) - 1)
          /\ \A i \in DOMAIN u : i \in Int /\ i + 1 \in DOMAIN s /\ u[i] = s[i + 1]
        BY <2>0, TailOfBatch
    <2>2. batch'[v] = u
        BY <1>0, <1>3 DEF Advances, NextEvent
    <2>3. OK(s) /\ InTopic(s[1]) /\ \A i \in DOMAIN s : InTable(s[i])
        BY <1>3, <1>a, <2>0 DEF Advances, BatchInv
    <2>4. Len(s) \in Nat
        BY <2>0
    <2> HIDE DEF s, u
    <2>5. ASSUME NEW k \in DOMAIN u, NEW q \in Rows, Before(q, u[k])
          PROVE  InTopic(q) \/ \E l \in 1..(k - 1) : u[l] = q
        <3>1. k + 1 \in DOMAIN s /\ Before(q, s[k + 1]) /\ k \in Int /\ k <= Len(s) - 1
            BY <2>1, <2>4, <2>5
        <3>2. CASE \E l \in 1..((k + 1) - 1) : s[l] = q
            <4>1. PICK l \in 1..k : s[l] = q
                BY <3>1, <3>2
            <4>2. CASE l = 1
                BY <2>3, <4>1, <4>2
            <4>3. CASE l # 1
                <5>1. l - 1 \in 1..(k - 1) /\ l - 1 \in 1..(Len(s) - 1) /\ (l - 1) + 1 = l
                    BY <2>4, <3>1, <4>1, <4>3
                <5>2. u[l - 1] = q
                    BY <2>1, <4>1, <5>1
                <5> QED BY <5>1, <5>2
            <4> QED BY <4>2, <4>3
        <3> QED BY <2>3, <3>1, <3>2
    <2>6. OK(u)
        BY <2>5
    <2>7. \A i \in DOMAIN u : InTable(u[i])
        BY <2>1, <2>3
    <2> QED BY <1>b, <2>2, <2>6, <2>7
<1>4. ASSUME NEW w \in Workers, Drops(w), v = w PROVE OK(batch[v])'
    <2>1. batch'[v] = <<>>
        BY <1>0, <1>4 DEF Drops
    <2> QED BY <2>1
<1>5. \A r \in Rows : Save(r) => batch'[v] = batch[v]
    BY DEF Save
<1>6. Quiet \/ (\E w \in Workers : Appends(w)) => batch'[v] = batch[v]
    BY DEF Quiet, Appends
<1>7. \A w \in Workers : v # w /\ (Fetch(w) \/ Advances(w) \/ Drops(w)) => batch'[v] = batch[v]
    BY <1>0 DEF Fetch, Advances, NextEvent, Drops
<1> QED BY <1>1, <1>2, <1>3, <1>4, <1>5, <1>6, <1>7, StepKinds

-----------------------------------------------------------------------------
(* The order of the first copies.                                          *)

\* Position is the first index of what a sequence contains.
LEMMA FirstPosition ==
    ASSUME NEW S, NEW s \in Seq(S), NEW x, \E i \in 1..Len(s) : s[i] = x
    PROVE  /\ Position(s, x) \in 1..Len(s) /\ s[Position(s, x)] = x
           /\ \A j \in 1..(Position(s, x) - 1) : s[j] # x
<1> DEFINE T == {i \in 1..Len(s) : s[i] = x}
<1>1. T \in SUBSET Nat /\ T # {}
    OBVIOUS
<1>2. PICK n \in T : \A m \in T : n <= m
    <2> HIDE DEF T
    <2> QED BY <1>1, NatLeast
<1>3. n \in 1..Len(s) /\ s[n] = x
    BY <1>2
<1>4. \A j \in 1..(n - 1) : s[j] # x
    <2>1. \A j \in 1..(n - 1) : j \in 1..Len(s) /\ ~ (n <= j)
        BY <1>3
    <2> QED BY <1>2, <2>1
<1> HIDE DEF T
<1>5. \E i \in 1..Len(s) : s[i] = x /\ \A j \in 1..(i - 1) : s[j] # x
    BY <1>3, <1>4
<1> QED BY <1>5 DEF Position

\* There is only one first index.
LEMMA OnlyPosition ==
    ASSUME NEW S, NEW s \in Seq(S), NEW x, NEW p \in 1..Len(s), s[p] = x,
           \A j \in 1..(p - 1) : s[j] # x
    PROVE  Position(s, x) = p
<1> DEFINE n == Position(s, x)
<1>1. n \in 1..Len(s) /\ s[n] = x /\ \A j \in 1..(n - 1) : s[j] # x
    BY FirstPosition
<1> HIDE DEF n
<1>2. ~ (n < p) /\ ~ (p < n)
    BY <1>1
<1>3. n = p
    BY <1>1, <1>2
<1> QED BY <1>3 DEF n

\* Appending leaves the first index of what was there, and is the first index
\* of what was not.
LEMMA PositionAppended ==
    ASSUME NEW S, NEW s \in Seq(S), NEW y \in S, NEW x
    PROVE  /\ (\E i \in 1..Len(s) : s[i] = x) => Position(Append(s, y), x) = Position(s, x)
           /\ ~ (\E i \in 1..Len(s) : s[i] = x) /\ x = y => Position(Append(s, y), x) = Len(s) + 1
<1> DEFINE t == Append(s, y)
<1>0. t \in Seq(S) /\ Len(t) = Len(s) + 1 /\ t[Len(s) + 1] = y /\ Len(s) \in Nat
    BY Appended
<1>a. \A i \in 1..Len(s) : t[i] = s[i] /\ i \in 1..Len(t)
    OBVIOUS
<1> HIDE DEF t
<1>1. ASSUME \E i \in 1..Len(s) : s[i] = x PROVE Position(t, x) = Position(s, x)
    <2> DEFINE n == Position(s, x)
    <2>1. n \in 1..Len(s) /\ s[n] = x /\ \A j \in 1..(n - 1) : s[j] # x
        BY <1>1, FirstPosition
    <2> HIDE DEF n
    <2>2. n \in 1..Len(t) /\ t[n] = x
        BY <1>a, <2>1
    <2>3. \A j \in 1..(n - 1) : j \in 1..Len(s)
        BY <1>0, <2>1
    <2>4. \A j \in 1..(n - 1) : t[j] # x
        BY <1>a, <2>1, <2>3
    <2>5. Position(t, x) = n
        BY <1>0, <2>2, <2>4, OnlyPosition
    <2> QED BY <2>5 DEF n
<1>2. ASSUME ~ (\E i \in 1..Len(s) : s[i] = x), x = y PROVE Position(t, x) = Len(s) + 1
    <2>1. \A j \in 1..((Len(s) + 1) - 1) : t[j] # x
        BY <1>0, <1>a, <1>2
    <2>2. Len(s) + 1 \in 1..Len(t)
        BY <1>0
    <2> QED BY <1>0, <1>2, <2>1, <2>2, OnlyPosition
<1> QED BY <1>1, <1>2 DEF t

\* FirstCopiesInOrder in terms of Before.
LEMMA OrderOfCopies ==
    TypeOK =>
        (FirstCopiesInOrder <=>
            \A q, r \in Rows : Before(q, r) /\ InTopic(r) =>
                InTopic(q) /\ Position(topic, q) < Position(topic, r))
<1> HAVE TypeOK
<1>0. table \in Seq(Rows) /\ topic \in Seq(Rows)
    BY DEF TypeOK
<1>1. \A x : Contains(topic, x) <=> InTopic(x)
    BY <1>0 DEF Contains, InTopic
<1>2. \A i \in DOMAIN table : table[i] \in Rows
    BY <1>0
<1> QED BY <1>1, <1>2 DEF FirstCopiesInOrder, Before

\* An append leaves no record before an earlier row without one.
LEMMA FirstCopiesStep ==
    ASSUME TypeOK, TypeOK', TopicInv, BatchInv, OrderInv, FirstCopiesInOrder, [Next]_vars
    PROVE  FirstCopiesInOrder'
<1>0. table \in Seq(Rows) /\ topic \in Seq(Rows)
    BY DEF TypeOK
<1>a. \A q, r \in Rows : Before(q, r) /\ InTopic(r) =>
          InTopic(q) /\ Position(topic, q) < Position(topic, r)
    BY OrderOfCopies
<1>b. SUFFICES ASSUME NEW q \in Rows, NEW r \in Rows, Before(q, r)', InTopic(r)'
               PROVE  InTopic(q)' /\ Position(topic', q) < Position(topic', r)
    <2>1. (\A q, r \in Rows : Before(q, r) /\ InTopic(r) =>
               InTopic(q) /\ Position(topic, q) < Position(topic, r))'
        BY <1>b
    <2> QED BY <2>1, OrderOfCopies, PTL
<1>c. \A i \in DOMAIN topic : InTable(topic[i])
    BY DEF TopicInv
<1>1. CASE UNCHANGED topic
    <2>1. InTopic(r)
        BY <1>1, <1>b DEF InTopic
    <2>2. InTable(r)
        BY <1>c, <2>1 DEF InTopic
    <2>3. Before(q, r)
        BY <1>b, <2>2, BeforeStable
    <2> QED BY <1>1, <1>a, <2>1, <2>3 DEF InTopic
<1>2. ASSUME NEW w \in Workers, Appends(w)
      PROVE  InTopic(q)' /\ Position(topic', q) < Position(topic', r)
    <2> DEFINE h == Head(batch[w])
    <2>0. h \in Rows /\ InTable(h) /\ 1 \in DOMAIN batch[w] /\ h = batch[w][1]
        BY <1>2, HeadOfBatch DEF Appends
    <2>1. topic' = Append(topic, h) /\ table' = table
        BY <1>2 DEF Appends
    <2> HIDE DEF h
    <2>2. Before(q, r)
        BY <1>b, <2>1 DEF Before
    <2>3. \A x : InTopic(x) <=> \E i \in 1..Len(topic) : topic[i] = x
        BY <1>0 DEF InTopic
    <2>4. CASE InTopic(r)
        <3>1. InTopic(q) /\ Position(topic, q) < Position(topic, r)
            BY <1>a, <2>2, <2>4
        <3>2. Position(topic', q) = Position(topic, q)
            BY <1>0, <2>0, <2>1, <2>3, <3>1, PositionAppended
        <3>3. Position(topic', r) = Position(topic, r)
            BY <1>0, <2>0, <2>1, <2>3, <2>4, PositionAppended
        <3> QED BY <3>1, <3>2, <3>3, Growing
    <2>5. CASE ~ InTopic(r)
        <3>1. r = h
            BY <1>0, <1>b, <2>0, <2>1, <2>5, Appended DEF InTopic
        <3>2. InTopic(q)
            BY <2>0, <2>2, <3>1 DEF OrderInv
        <3>3. Position(topic', q) = Position(topic, q)
            BY <1>0, <2>0, <2>1, <2>3, <3>2, PositionAppended
        <3>4. Position(topic', r) = Len(topic) + 1
            BY <1>0, <2>0, <2>1, <2>3, <2>5, <3>1, PositionAppended
        <3>5. Position(topic, q) \in 1..Len(topic)
            BY <1>0, <2>3, <3>2, FirstPosition
        <3>6. Position(topic', q) < Position(topic', r)
            BY <1>0, <3>3, <3>4, <3>5
        <3> QED BY <3>2, <3>6, Growing
    <2> QED BY <2>4, <2>5
<1>3. \A x \in Rows : Save(x) => UNCHANGED topic
    BY DEF Save
<1>4. Quiet \/ (\E w \in Workers : Fetch(w) \/ Advances(w) \/ Drops(w)) => UNCHANGED topic
    BY DEF Quiet, Fetch, Advances, Drops
<1> QED BY <1>1, <1>2, <1>3, <1>4, StepKinds

-----------------------------------------------------------------------------
(* The bound on the copies of a row.                                       *)

\* Sets of workers can be counted.
LEMMA CountWorkers ==
    ASSUME NEW P \in SUBSET Workers, NEW Q \in SUBSET Workers
    PROVE  /\ Cardinality(P) \in Nat /\ Cardinality(Q) \in Nat
           /\ P \subseteq Q => Cardinality(P) <= Cardinality(Q)
           /\ \A w \in Workers : /\ w \notin P /\ P \cup {w} \subseteq Q => Cardinality(P) + 1 <= Cardinality(Q)
                                 /\ P \ {w} \subseteq Q => Cardinality(P) <= Cardinality(Q) + 1
BY CountSubsets

\* An append adds a copy of its row and of no other.
LEMMA CountCopies ==
    ASSUME TypeOK, NEW h \in Rows, topic' = Append(topic, h), NEW r \in Rows
    PROVE  /\ Cardinality(Copies(r)) \in Nat
           /\ r # h => Copies(r)' = Copies(r)
           /\ r = h => Cardinality(Copies(r)') = Cardinality(Copies(r)) + 1
<1>0. topic \in Seq(Rows)
    BY DEF TypeOK
<1>1. IsFiniteSet(Copies(r))
    <2>1. Len(topic) \in Int /\ Copies(r) \subseteq 1..Len(topic)
        BY <1>0 DEF Copies
    <2>2. IsFiniteSet(1..Len(topic))
        BY <2>1, FS_Interval
    <2> QED BY <2>1, <2>2, FS_Subset
<1>2. ASSUME r # h PROVE Copies(r)' = Copies(r)
    BY <1>0, <1>2, Appended DEF Copies
<1>3. ASSUME r = h PROVE Cardinality(Copies(r)') = Cardinality(Copies(r)) + 1
    <2>1. Copies(r)' = Copies(r) \cup {Len(topic) + 1} /\ Len(topic) + 1 \notin Copies(r)
        BY <1>0, <1>3, Appended DEF Copies
    <2> QED BY <1>1, <2>1, FS_AddElement
<1> QED BY <1>1, <1>2, <1>3, FS_CardinalityType

\* The copies of a row and the workers to which they may be due stay in
\* balance in every step, but for a fault.
LEMMA CopiesStep ==
    ASSUME TypeOK, BatchInv, CopiesInv, [Next]_vars
    PROVE  CopiesInv'
<1>0. /\ batch \in [Workers -> Seq(Rows)] /\ pc \in [Workers -> PCs] /\ faults \in Nat
      /\ topic \in Seq(Rows)
    BY DEF TypeOK
<1>a. SUFFICES ASSUME NEW r \in Rows
               PROVE  Cardinality(Copies(r)') <= Cardinality(Publishers(r)') + faults'
    BY DEF CopiesInv
<1> DEFINE P == Publishers(r)
           Q == Publishers(r)'
           c == Cardinality(Copies(r))
<1>b. P \in SUBSET Workers /\ Q \in SUBSET Workers
    BY DEF Publishers
<1>c. c <= Cardinality(P) + faults
    BY DEF CopiesInv
<1>d. c \in Nat
    <2>1. Len(topic) \in Int /\ Copies(r) \subseteq 1..Len(topic)
        BY <1>0 DEF Copies
    <2>2. IsFiniteSet(1..Len(topic))
        BY <2>1, FS_Interval
    <2> QED BY <2>1, <2>2, FS_Subset, FS_CardinalityType
<1>e. Cardinality(P) \in Nat /\ Cardinality(Q) \in Nat
    BY <1>b, CountWorkers
<1>f. ASSUME NEW w \in Workers, NEW v \in Workers, v # w,
             (r \in published) => (r \in published'),
             batch'[v] = batch[v], pc'[v] = pc[v]
      PROVE  Publisher(v, r) => Publisher(v, r)'
    BY <1>f DEF Publisher, Marking, ToPublish
<1>1. ASSUME Copies(r)' = Copies(r), P \subseteq Q, faults' \in {faults, faults + 1}
      PROVE  Cardinality(Copies(r)') <= Cardinality(Q) + faults'
    <2>1. Cardinality(P) <= Cardinality(Q)
        BY <1>1, <1>b, CountWorkers
    <2> HIDE DEF P, Q
    <2> QED BY <1>0, <1>1, <1>c, <1>d, <1>e, <2>1
<1>2. ASSUME Copies(r)' = Copies(r), NEW w \in Workers, P \ {w} \subseteq Q, faults' = faults + 1
      PROVE  Cardinality(Copies(r)') <= Cardinality(Q) + faults'
    <2>1. Cardinality(P) <= Cardinality(Q) + 1
        BY <1>2, <1>b, CountWorkers
    <2> HIDE DEF P, Q
    <2> QED BY <1>0, <1>2, <1>c, <1>d, <1>e, <2>1
<1>3. ASSUME NEW x \in Rows, Save(x) PROVE Cardinality(Copies(r)') <= Cardinality(Q) + faults'
    <2>1. Copies(r)' = Copies(r) /\ P \subseteq Q /\ faults' = faults
        BY <1>3 DEF Save, Copies, Publishers, Publisher, Marking, ToPublish
    <2> QED BY <1>1, <2>1
<1>4. CASE Quiet
    <2>1. Copies(r)' = Copies(r) /\ faults' \in {faults, faults + 1}
        BY <1>4 DEF Quiet, Copies
    <2>2. P \subseteq Q
        BY <1>4 DEF Quiet, Publishers, Publisher, Marking, ToPublish
    <2> QED BY <1>1, <2>1, <2>2
<1>5. ASSUME NEW w \in Workers, Fetch(w) PROVE Cardinality(Copies(r)') <= Cardinality(Q) + faults'
    <2>1. PICK b \in Batches : batch' = [batch EXCEPT ![w] = b]
        BY <1>5 DEF Fetch
    <2>2. Copies(r)' = Copies(r) /\ faults' = faults /\ published' = published
        BY <1>5 DEF Fetch, Copies
    <2>3. ASSUME Publisher(w, r) PROVE Publisher(w, r)'
        <3>1. pc[w] = "idle" /\ pc'[w] = "publish" /\ batch'[w] = b
            BY <1>0, <1>5, <2>1 DEF Fetch
        <3>2. r \in published
            BY <2>3, <3>1 DEF Publisher, Marking
        <3>3. \A i \in DOMAIN b : b[i] # r
            BY <3>2, BatchesAreSequences DEF Unpublished
        <3> QED BY <2>2, <3>1, <3>2, <3>3 DEF Publisher, ToPublish
    <2>4. \A v \in Workers : v # w => batch'[v] = batch[v] /\ pc'[v] = pc[v]
        BY <1>0, <1>5, <2>1 DEF Fetch
    <2>5. P \subseteq Q
        BY <1>f, <2>2, <2>3, <2>4 DEF Publishers
    <2> QED BY <1>1, <2>2, <2>5
<1>6. ASSUME NEW w \in Workers, Appends(w) PROVE Cardinality(Copies(r)') <= Cardinality(Q) + faults'
    <2> DEFINE h == Head(batch[w])
    <2>0. h \in Rows /\ 1 \in DOMAIN batch[w] /\ h = batch[w][1]
        BY <1>6, HeadOfBatch DEF Appends
    <2>1. topic' = Append(topic, h) /\ published' = published /\ batch' = batch /\ pc[w] = "publish"
        BY <1>6 DEF Appends
    <2>2. \A v \in Workers : v # w => batch'[v] = batch[v] /\ pc'[v] = pc[v]
        BY <1>0, <1>6 DEF Appends
    <2>3. ASSUME Publisher(w, r), r # h \/ pc'[w] = "backoff" PROVE Publisher(w, r)'
        BY <2>1, <2>3 DEF Publisher, ToPublish, Marking
    <2>4. r # h \/ pc'[w] = "backoff" => P \subseteq Q
        BY <1>f, <2>1, <2>2, <2>3 DEF Publishers
    <2>5. \/ pc'[w] = "mark" /\ faults' = faults
          \/ pc'[w] = "backoff" /\ faults' = faults + 1
        BY <1>0, <1>6 DEF Appends
    <2>6. CASE r # h
        <3>1. Copies(r)' = Copies(r)
            BY <2>0, <2>1, <2>6, CountCopies
        <3> QED BY <1>1, <2>4, <2>5, <2>6, <3>1
    <2>7. CASE r = h
        <3>1. Cardinality(Copies(r)') = c + 1
            BY <2>0, <2>1, <2>7, CountCopies
        <3>2. CASE pc'[w] = "backoff" /\ faults' = faults + 1
            <4>1. Cardinality(P) <= Cardinality(Q)
                BY <1>b, <2>4, <3>2, CountWorkers
            <4> HIDE DEF P, Q, c
            <4> QED BY <1>0, <1>c, <1>d, <1>e, <3>1, <3>2, <4>1
        <3>3. CASE pc'[w] = "mark" /\ faults' = faults
            <4>1. ~ Publisher(w, r)
                BY <2>0, <2>1, <2>7 DEF Publisher, ToPublish, Marking
            <4>2. Publisher(w, r)'
                BY <2>1, <2>7, <3>3 DEF Publisher, ToPublish, Marking
            <4>3. w \notin P /\ P \cup {w} \subseteq Q
                BY <1>f, <2>1, <2>2, <4>1, <4>2 DEF Publishers
            <4>4. Cardinality(P) + 1 <= Cardinality(Q)
                BY <1>b, <4>3, CountWorkers
            <4> HIDE DEF P, Q, c
            <4> QED BY <1>0, <1>c, <1>d, <1>e, <3>1, <3>3, <4>4
        <3> QED BY <2>5, <3>2, <3>3
    <2> QED BY <2>6, <2>7
<1>7. ASSUME NEW w \in Workers, Advances(w) PROVE Cardinality(Copies(r)') <= Cardinality(Q) + faults'
    <2> DEFINE s == batch[w]
               u == Tail(batch[w])
    <2>0. /\ s \in Seq(Rows) /\ s # <<>> /\ Head(s) = s[1]
          /\ \A i \in DOMAIN s : i # 1 => s[1] < s[i]
        BY <1>7, HeadOfBatch DEF Advances
    <2>1. /\ DOMAIN u = 1..(Len(s) - 1)
          /\ \A i \in DOMAIN u : i \in Int /\ i + 1 \in DOMAIN s /\ u[i] = s[i + 1]
        BY <2>0, TailOfBatch
    <2>2. batch'[w] = u /\ pc[w] = "mark" /\ pc'[w] # "mark"
        BY <1>0, <1>7 DEF Advances, NextEvent
    <2>3. \A v \in Workers : v # w => batch'[v] = batch[v] /\ pc'[v] = pc[v]
        BY <1>0, <1>7 DEF Advances, NextEvent
    <2>4. /\ Copies(r)' = Copies(r)
          /\ \/ published' = published \cup {s[1]} /\ faults' = faults
             \/ published' = published /\ faults' = faults + 1
        BY <1>7, <2>0 DEF Advances, Copies
    <2>5. \A v \in Workers : v # w => (Publisher(v, r) => Publisher(v, r)')
        BY <1>f, <2>3, <2>4
    <2>6. \A i \in DOMAIN u : u[i] \in Rows /\ s[1] < u[i] /\ u[i] \in {s[j] : j \in DOMAIN s}
        <3>1. \A i \in DOMAIN u : i + 1 # 1
            BY <2>1
        <3> QED BY <2>0, <2>1, <3>1
    <2>7. s[1] \in Rows
        BY <2>0
    <2> HIDE DEF s, u
    <2>8. Marking(w, r) <=> s[1] = r
        BY <2>0, <2>2 DEF Marking, s
    <2>9. ToPublish(w, r)' <=> \E i \in DOMAIN u : u[i] = r
        BY <2>2 DEF ToPublish, Marking
    <2>10. CASE s[1] # r
        <3>1. ToPublish(w, r)' => ToPublish(w, r)
            <4>1. ASSUME NEW i \in DOMAIN u, u[i] = r PROVE \E j \in DOMAIN s : s[j] = r
                BY <2>6, <4>1
            <4> QED BY <2>8, <2>9, <2>10, <4>1 DEF ToPublish, s
        <3>2. Publisher(w, r) => Publisher(w, r)'
            BY <2>4, <2>8, <2>10, <3>1 DEF Publisher
        <3>3. P \subseteq Q
            BY <2>5, <3>2 DEF Publishers
        <3> QED BY <1>1, <2>4, <3>3
    <2>11. CASE s[1] = r
        <3>1. ~ ToPublish(w, r)'
            BY <2>6, <2>7, <2>9, <2>11 DEF Rows
        <3>2. CASE published' = published \cup {s[1]} /\ faults' = faults
            <4>1. Publisher(w, r)'
                BY <2>11, <3>1, <3>2 DEF Publisher
            <4>2. P \subseteq Q
                BY <2>5, <4>1 DEF Publishers
            <4> QED BY <1>1, <2>4, <3>2, <4>2
        <3>3. CASE published' = published /\ faults' = faults + 1
            <4>1. P \ {w} \subseteq Q
                BY <2>5 DEF Publishers
            <4> QED BY <1>2, <2>4, <3>3, <4>1
        <3> QED BY <2>4, <3>2, <3>3
    <2> QED BY <2>10, <2>11
<1>8. ASSUME NEW w \in Workers, Drops(w) PROVE Cardinality(Copies(r)') <= Cardinality(Q) + faults'
    <2>1. Copies(r)' = Copies(r) /\ published' = published
        BY <1>8 DEF Drops, Copies
    <2>2. \A v \in Workers : v # w => batch'[v] = batch[v] /\ pc'[v] = pc[v]
        BY <1>0, <1>8 DEF Drops
    <2>3. \A v \in Workers : v # w => (Publisher(v, r) => Publisher(v, r)')
        BY <1>f, <2>1, <2>2
    <2>4. CASE pc[w] = "backoff" /\ faults' = faults
        <3>1. batch'[w] = <<>>
            BY <1>0, <1>8 DEF Drops
        <3>2. Publisher(w, r) => Publisher(w, r)'
            BY <2>1, <2>4, <3>1 DEF Publisher, ToPublish, Marking
        <3>3. P \subseteq Q
            BY <2>3, <3>2 DEF Publishers
        <3> QED BY <1>1, <2>1, <2>4, <3>3
    <2>5. CASE faults' = faults + 1
        <3>1. P \ {w} \subseteq Q
            BY <2>3 DEF Publishers
        <3> QED BY <1>2, <2>1, <2>5, <3>1
    <2> QED BY <1>8, <2>4, <2>5 DEF Drops
<1> QED BY <1>3, <1>4, <1>5, <1>6, <1>7, <1>8, StepKinds

-----------------------------------------------------------------------------
(* The theorems.                                                           *)

\* Nothing is in the table, in the topic or in a batch at first.
LEMMA InvInit == Init => IInv
<1> HAVE Init
<1>1. TypeOK
    BY DEF Init, TypeOK, NewBreaker, Breakers, PCs
<1>2. TopicInv /\ BatchInv /\ OrderInv
    BY DEF Init, TopicInv, BatchInv, OrderInv, Before
<1>3. FirstCopiesInOrder
    BY DEF Init, FirstCopiesInOrder
<1>4. ASSUME NEW r \in Rows PROVE Cardinality(Copies(r)) <= Cardinality(Publishers(r)) + faults
    <2>1. Copies(r) = {} /\ faults = 0
        BY DEF Init, Copies
    <2>2. Publishers(r) \in SUBSET Workers
        BY DEF Publishers
    <2>3. Cardinality(Publishers(r)) \in Nat
        BY <2>2, CountWorkers
    <2>4. Cardinality(Copies(r)) = 0
        BY <2>1, FS_EmptySet
    <2> QED BY <2>1, <2>3, <2>4
<1> QED BY <1>1, <1>2, <1>3, <1>4 DEF IInv, CopiesInv

\* Every step preserves the invariant.
LEMMA InvStep == IInv /\ [Next]_vars => IInv'
<1> SUFFICES ASSUME IInv, [Next]_vars PROVE IInv'
    OBVIOUS
<1>0. TypeOK /\ TopicInv /\ BatchInv /\ OrderInv /\ FirstCopiesInOrder /\ CopiesInv
    BY DEF IInv
<1>1. TypeOK'
    BY <1>0, TypeStep
<1>2. TopicInv'
    BY <1>0, TopicStep
<1>3. BatchInv'
    BY <1>0, BatchStep
<1>4. OrderInv'
    BY <1>0, OrderStep
<1>5. FirstCopiesInOrder'
    BY <1>0, <1>1, FirstCopiesStep
<1>6. CopiesInv'
    BY <1>0, CopiesStep
<1> QED BY <1>1, <1>2, <1>3, <1>4, <1>5, <1>6 DEF IInv

\* The invariant holds throughout.
LEMMA InvHolds == Spec => []IInv
BY InvInit, InvStep, PTL DEF Spec

\* The table, the topic and the workers have their types, and a breaker
\* counts no further than its limits.
THEOREM TypeCorrect == Spec => []TypeOK
<1>1. IInv => TypeOK
    BY DEF IInv
<1> QED BY <1>1, InvHolds, PTL

\* However many replicas flush the outbox, and whatever fails, the first
\* copy of a row is not in the topic before that of a row that was created
\* and inserted before it.
THEOREM CopiesInOrder == Spec => []FirstCopiesInOrder
<1>1. IInv => FirstCopiesInOrder
    BY DEF IInv
<1> QED BY <1>1, InvHolds, PTL

\* A row has at most one record for each replica and each fault: rows that
\* are marked are not fetched again.
THEOREM DuplicatesBounded == Spec => []DuplicatesExplained
<1>1. IInv => DuplicatesExplained
    <2> SUFFICES ASSUME IInv, NEW r \in Rows
                 PROVE  Cardinality({i \in DOMAIN topic : topic[i] = r}) <= Cardinality(Workers) + faults
        BY DEF DuplicatesExplained
    <2>0. faults \in Nat /\ topic \in Seq(Rows)
        BY DEF IInv, TypeOK
    <2>1. Cardinality(Copies(r)) <= Cardinality(Publishers(r)) + faults
        BY DEF IInv, CopiesInv
    <2>2. Publishers(r) \in SUBSET Workers /\ Workers \in SUBSET Workers
        BY DEF Publishers
    <2>3. /\ Cardinality(Publishers(r)) <= Cardinality(Workers)
          /\ Cardinality(Publishers(r)) \in Nat /\ Cardinality(Workers) \in Nat
        BY <2>2, CountWorkers
    <2>4. Cardinality(Copies(r)) \in Nat
        <3>1. Len(topic) \in Int /\ Copies(r) \subseteq 1..Len(topic)
            BY <2>0 DEF Copies
        <3>2. IsFiniteSet(1..Len(topic))
            BY <3>1, FS_Interval
        <3> QED BY <3>1, <3>2, FS_Subset, FS_CardinalityType
    <2>5. Cardinality(Copies(r)) <= Cardinality(Workers) + faults
        BY <2>0, <2>1, <2>3, <2>4
    <2> QED BY <2>5 DEF Copies
<1> QED BY <1>1, InvHolds, PTL

\* A worker appends a row of the table, one with a record already or with a
\* record of everything before it, and marks only what is in the topic.
LEMMA RelayStep == IInv /\ [Next]_vars => [PromisedRelay!Next]_(PromisedRelay!vars)
<1> SUFFICES ASSUME IInv, [Next]_vars PROVE [PromisedRelay!Next]_(PromisedRelay!vars)
    OBVIOUS
<1>0. TypeOK /\ TopicInv /\ BatchInv /\ OrderInv
    BY DEF IInv
<1>a. table \in Seq(Rows) /\ topic \in Seq(Rows)
    BY <1>0 DEF TypeOK
<1>b. \A x : /\ PromisedRelay!Contains(topic, x) <=> InTopic(x)
             /\ PromisedRelay!Contains(table, x) <=> InTable(x)
             /\ InTopic(x) => x \in PromisedRelay!ToSet(topic)
    BY <1>a DEF PromisedRelay!Contains, InTopic, InTable, PromisedRelay!ToSet
<1>1. ASSUME NEW r \in Rows, Save(r) PROVE PromisedRelay!Save(r)
    BY <1>1 DEF Save, PromisedRelay!Save, Contains, PromisedRelay!Contains
<1>2. ASSUME NEW w \in Workers, Appends(w) PROVE PromisedRelay!Publish(Head(batch[w]))
    <2> DEFINE h == Head(batch[w])
    <2>1. h \in Rows /\ InTable(h) /\ 1 \in DOMAIN batch[w] /\ h = batch[w][1]
        BY <1>0, <1>2, HeadOfBatch DEF Appends
    <2>2. topic' = Append(topic, h) /\ UNCHANGED <<table, published>>
        BY <1>2 DEF Appends
    <2> HIDE DEF h
    <2>3. ASSUME NEW i \in DOMAIN table, table[i] < h, \E k \in DOMAIN table : i < k /\ table[k] = h
          PROVE  table[i] \in PromisedRelay!ToSet(topic)
        <3>1. Before(table[i], h) /\ table[i] \in Rows
            BY <1>a, <2>3 DEF Before
        <3>2. InTopic(table[i])
            BY <1>0, <2>1, <3>1 DEF OrderInv
        <3> QED BY <1>b, <3>2
    <2>4. PromisedRelay!Earlier(h) \subseteq PromisedRelay!ToSet(topic)
        BY <2>3 DEF PromisedRelay!Earlier
    <2>5. PromisedRelay!Publish(h)
        BY <1>b, <2>1, <2>2, <2>4 DEF PromisedRelay!Publish
    <2> QED BY <2>5 DEF h
<1>3. ASSUME NEW w \in Workers, Advances(w)
      PROVE  PromisedRelay!Mark(Head(batch[w])) \/ UNCHANGED <<table, published, topic>>
    <2>1. InTopic(Head(batch[w]))
        BY <1>0, <1>3 DEF Advances, BatchInv
    <2> QED BY <1>3, <1>b, <2>1 DEF Advances, PromisedRelay!Mark
<1>4. \A w \in Workers : Appends(w) \/ Advances(w) => Head(batch[w]) \in Rows
    BY <1>0, HeadOfBatch DEF Appends, Advances
<1>5. Quiet \/ (\E w \in Workers : Fetch(w) \/ Drops(w)) => UNCHANGED <<table, published, topic>>
    BY DEF Quiet, Fetch, Drops
<1>6. (\E r \in Rows : PromisedRelay!Save(r) \/ PromisedRelay!Publish(r) \/ PromisedRelay!Mark(r))
      \/ UNCHANGED <<table, published, topic>>
    BY <1>0, <1>1, <1>2, <1>3, <1>4, <1>5, StepKinds
<1> QED BY <1>6 DEF PromisedRelay!Next, PromisedRelay!vars

\* The workers together implement Relay: every record is of a row, no row is
\* marked without its record, and none overtakes an earlier one.
THEOREM RelayRefinement == Spec => ImplementsRelay
<1>1. Init => PromisedRelay!Init
    BY DEF Init, PromisedRelay!Init
<1> QED BY <1>1, RelayStep, InvHolds, PTL DEF Spec, ImplementsRelay, PromisedRelay!Spec

=============================================================================
