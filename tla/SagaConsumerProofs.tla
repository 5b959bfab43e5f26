------------------------- MODULE SagaConsumerProofs -------------------------
(***************************************************************************)
(* Theorems about SagaConsumer, for any number of members of the group,    *)
(* any records in the partition and any number of faults: what the offset, *)
(* processed_events, the wallet's events and its outbox say of each other. *)
(***************************************************************************)
EXTENDS SagaConsumer, NatRecursion, FiniteSetTheorems, TLAPS

-----------------------------------------------------------------------------
(* The inductive invariant.                                                *)

\* The steps of SagaHandler.Handle, and the members that are in one of them.
Handling == {"handle", "effect", "outbox", "processed"}

\* c has applied e and is on its way to MarkProcessed.
InFlight(c, e) == pc[c] \in {"outbox", "processed"} /\ Event(c) = e

\* A member that is past the wallet operation has its effect, and one past
\* outbox.Save its outbox event.
DoneInv ==
    /\ ProcessedIsDone
    /\ \A c \in Members : \A e \in Events : InFlight(c, e) =>
        Rows(e) >= 1 /\ (pc[c] = "processed" => EmittedRows(e) >= 1)

\* The members that have the effect of e to announce.
Announcing(e) == {c \in Members : pc[c] = "outbox" /\ Event(c) = e}

\* For each of them the wallet has one more row than the outbox.
AnnouncedInv ==
    \A e \in Events : EmittedRows(e) + Cardinality(Announcing(e)) <= Rows(e)

\* c may still apply e: it is past IsProcessed with it, or, while e is not in
\* processed_events, has the partition or handles records.
Pending(c, e) ==
    IF e \in processed
    THEN pc[c] = "effect" /\ Event(c) = e
    ELSE (c = owner \/ pc[c] # "poll") /\ ~ InFlight(c, e)

\* The members that may still apply e, and whether the next owner may.
Appliers(e) == {c \in Members : Pending(c, e)}
Unowned(e) == IF owner = NoMember /\ e \notin processed THEN 1 ELSE 0

\* Only one member may apply an event first; a fault may let one more.  That
\* is so of an event that is not in the partition yet, too.
EffectsOf(e) == Rows(e) + Cardinality(Appliers(e)) + Unowned(e) <= 1 + faults

EffectsInv == \A e : EffectsOf(e)

Accounted(i) == i \in failed \/ topic[i].event \in processed \/ topic[i].type \notin SagaTypes

\* The offsets that pass only records that are accounted for.
Passed == {n \in 0..Len(topic) : \A i \in 1..n : Accounted(i)}

\* Everything up to the committed offset, to a mark, to the record before the
\* one that is handled, and to the end of a poll that is done, is accounted
\* for; the owner fetches from there, or from the end of its poll.
OffsetInv ==
    /\ committed \in Passed
    /\ \A c \in Members :
        /\ marked[c] \in Passed
        /\ pc[c] \in Handling => cur[c] - 1 \in Passed
        /\ pc[c] = "commit" => last[c] \in Passed
        /\ owner = c /\ pc[c] = "poll" => next[c] \in Passed
        /\ owner = c /\ pc[c] # "poll" => next[c] = last[c] \/ next[c] \in Passed

\* The partition is a sequence.  The steps need to know no more of it, and
\* hold of a partition that is still written to as well.
IsPartition == Len(topic) \in Nat /\ DOMAIN topic = 1..Len(topic)

IInv ==
    /\ topic = Feed
    /\ TypeOK
    /\ DoneInv
    /\ AnnouncedInv
    /\ EffectsInv
    /\ OffsetInv

-----------------------------------------------------------------------------
(* Type correctness.                                                       *)

\* One more element in a bag.
LEMMA BagAdd ==
    ASSUME NEW B, IsABag(B), NEW x
    PROVE  /\ IsABag(B (+) SetToBag({x}))
           /\ BagToSet(B (+) SetToBag({x})) = BagToSet(B) \cup {x}
           /\ \A y : /\ Copies(y, B) \in Nat
                     /\ y # x => Copies(y, B (+) SetToBag({x})) = Copies(y, B)
           /\ Copies(x, B (+) SetToBag({x})) = Copies(x, B) + 1
<1> DEFINE C == B (+) SetToBag({x})
<1>1. B \in [DOMAIN B -> {n \in Nat : n > 0}]
    BY DEF IsABag
<1>2. C = [e \in DOMAIN B \cup {x} |->
              (IF e \in DOMAIN B THEN B[e] ELSE 0) + (IF e \in {x} THEN 1 ELSE 0)]
    BY DEF (+), SetToBag
<1> HIDE DEF C
<1>3. DOMAIN C = DOMAIN B \cup {x}
    BY <1>2
<1>4. \A e \in DOMAIN B : e # x => C[e] = B[e]
    BY <1>1, <1>2
<1>5. C[x] = (IF x \in DOMAIN B THEN B[x] ELSE 0) + 1
    BY <1>2
<1>6. C \in [DOMAIN C -> {n \in Nat : n > 0}]
    <2>1. \A e \in DOMAIN C : C[e] \in {n \in Nat : n > 0}
        BY <1>1, <1>3, <1>4, <1>5
    <2>2. C = [e \in DOMAIN C |-> C[e]]
        BY <1>2, <1>3
    <2> QED BY <2>1, <2>2
<1>7. \A y : Copies(y, B) \in Nat
    BY <1>1 DEF Copies, BagIn, BagToSet
<1>8. \A y : y # x => Copies(y, C) = Copies(y, B)
    BY <1>3, <1>4 DEF Copies, BagIn, BagToSet
<1>9. Copies(x, C) = Copies(x, B) + 1
    BY <1>3, <1>5 DEF Copies, BagIn, BagToSet
<1> QED BY <1>3, <1>6, <1>7, <1>8, <1>9 DEF C, IsABag, BagToSet

\* TypeOK in parts: the members' variables,
MembersOK ==
    /\ pc \in [Members -> PCs]
    /\ next \in [Members -> 0..Len(topic)]
    /\ cur \in [Members -> 0..Len(topic)]
    /\ last \in [Members -> 0..Len(topic)]
    /\ \A c \in Members : cur[c] <= last[c] /\ (pc[c] \notin {"poll", "commit"} => cur[c] > 0)
    /\ marked \in [Members -> 0..Len(topic)]

\* the bags of rows,
BagsOK ==
    /\ IsABag(effects) /\ BagToSet(effects) \subseteq Events
    /\ IsABag(outbox)
    /\ BagToSet(outbox) \subseteq [event : Events, type : {"FundsReserved", "FundsDeposited"}]

\* and the rest.
RestOK ==
    /\ \A i \in DOMAIN topic : topic[i].type \in RecordTypes
    /\ owner \in Members \cup {NoMember}
    /\ committed \in 0..Len(topic)
    /\ processed \subseteq Events
    /\ failed \subseteq DOMAIN topic
    /\ refused \subseteq Events
    /\ faults \in 0..MaxFaults

\* The parts make up TypeOK.
LEMMA TypeParts == TypeOK <=> MembersOK /\ BagsOK /\ RestOK
BY Zenon DEF TypeOK, MembersOK, BagsOK, RestOK

\* The records that members hold are records of the partition.
LEMMA Located ==
    ASSUME IsPartition, TypeOK
    PROVE  /\ Len(topic) \in Nat /\ DOMAIN topic = 1..Len(topic)
           /\ \A c \in Members : pc[c] \in Handling =>
                /\ cur[c] \in DOMAIN topic
                /\ Event(c) \in Events
                /\ Type(c) \in RecordTypes
                /\ Emitted(c) \in [event : Events, type : {"FundsReserved", "FundsDeposited"}]
<1>0. MembersOK
    BY TypeParts
<1>a. RestOK
    BY TypeParts
<1>1. Len(topic) \in Nat /\ DOMAIN topic = 1..Len(topic)
    BY DEF IsPartition
<1>2. ASSUME NEW c \in Members, pc[c] \in Handling PROVE cur[c] \in DOMAIN topic
    <2>1. cur[c] \in 0..Len(topic) /\ cur[c] > 0
        BY <1>0, <1>2 DEF MembersOK, Handling
    <2> QED BY <1>1, <2>1
<1>3. ASSUME NEW c \in Members, pc[c] \in Handling PROVE Event(c) \in Events /\ Type(c) \in RecordTypes
    BY <1>a, <1>2, <1>3 DEF RestOK, Event, Events, Type
<1>4. ASSUME NEW c \in Members, pc[c] \in Handling
      PROVE  Emitted(c) \in [event : Events, type : {"FundsReserved", "FundsDeposited"}]
    BY <1>3, <1>4 DEF Emitted, OutboxTypeOf
<1> QED BY <1>1, <1>2, <1>3, <1>4

\* Where NextRecord leaves a member and its position.
LEMMA NextRecordStep ==
    ASSUME IsPartition, TypeOK, NEW c \in Members, pc[c] \in Handling, NextRecord(c)
    PROVE  /\ pc' \in [Members -> PCs] /\ cur' \in [Members -> 0..Len(topic)]
           /\ \/ cur'[c] = cur[c] + 1 /\ cur[c] < last[c] /\ pc'[c] = "handle"
              \/ cur'[c] = cur[c] /\ cur[c] = last[c] /\ pc'[c] = "commit"
           /\ \A d \in Members : d # c => pc'[d] = pc[d] /\ cur'[d] = cur[d]
           /\ \A d \in Members : cur'[d] <= last[d] /\ (pc'[d] \notin {"poll", "commit"} => cur'[d] > 0)
<1>0. /\ pc \in [Members -> PCs] /\ cur \in [Members -> 0..Len(topic)] /\ last \in [Members -> 0..Len(topic)]
      /\ \A d \in Members : cur[d] <= last[d] /\ (pc[d] \notin {"poll", "commit"} => cur[d] > 0)
    BY TypeParts DEF MembersOK
<1>a. Len(topic) \in Nat
    BY Located
<1>1. CASE cur[c] < last[c]
    <2>1. cur' = [cur EXCEPT ![c] = cur[c] + 1] /\ pc' = [pc EXCEPT ![c] = "handle"]
        BY <1>1 DEF NextRecord
    <2>2. cur[c] + 1 \in 0..Len(topic) /\ cur[c] + 1 <= last[c] /\ cur[c] + 1 > 0
        BY <1>0, <1>1, <1>a
    <2> QED BY <1>0, <1>1, <2>1, <2>2 DEF PCs
<1>2. CASE ~ (cur[c] < last[c])
    <2>1. cur' = cur /\ pc' = [pc EXCEPT ![c] = "commit"]
        BY <1>2 DEF NextRecord
    <2>2. cur[c] = last[c]
        BY <1>0, <1>2, <1>a
    <2> QED BY <1>0, <2>1, <2>2 DEF PCs
<1> QED BY <1>1, <1>2

\* A member is done with its record: it goes on to the next one, and the
\* record may be marked.
Finishes(c) ==
    /\ pc[c] \in Handling
    /\ NextRecord(c)
    /\ \/ marked' = marked
       \/ owner = c /\ marked' = [marked EXCEPT ![c] = cur[c]]
    /\ UNCHANGED <<owner, committed, next, last>>

\* It goes on to the next step of the handler.
Continues(c, s) ==
    /\ pc[c] \in Handling
    /\ pc' = [pc EXCEPT ![c] = s]
    /\ UNCHANGED <<owner, committed, next, cur, last, marked>>

\* What each action does to the position of a member.
LEMMA Positions ==
    ASSUME NEW c \in Members
    PROVE  /\ Skip(c) \/ EffectRefused(c) \/ EffectUnconfirmed(c) \/ MarkProcessed(c) \/ StatementFails(c)
                => Finishes(c)
           /\ Begin(c) => Continues(c, "effect")
           /\ Effect(c) => Continues(c, "outbox")
           /\ SaveOutbox(c) => Continues(c, "processed")
<1>1. ASSUME Skip(c) PROVE Finishes(c)
    BY <1>1 DEF Skip, Handled, Finishes, Handling, group
<1>2. ASSUME EffectRefused(c) PROVE Finishes(c)
    BY <1>2 DEF EffectRefused, Finishes, Handling, group
<1>3. ASSUME EffectUnconfirmed(c) PROVE Finishes(c)
    BY <1>3 DEF EffectUnconfirmed, HandlerError, Finishes, Handling, group
<1>4. ASSUME MarkProcessed(c) PROVE Finishes(c)
    BY <1>4 DEF MarkProcessed, Handled, Finishes, Handling, group
<1>5. ASSUME StatementFails(c) PROVE Finishes(c)
    BY <1>5 DEF StatementFails, HandlerError, Finishes, Handling, group
<1>6. ASSUME Begin(c) PROVE Continues(c, "effect")
    BY <1>6 DEF Begin, Continues, Handling, group
<1>7. ASSUME Effect(c) PROVE Continues(c, "outbox")
    BY <1>7 DEF Effect, Continues, Handling, group
<1>8. ASSUME SaveOutbox(c) PROVE Continues(c, "processed")
    BY <1>8 DEF SaveOutbox, Continues, Handling, group
<1> QED BY <1>1, <1>2, <1>3, <1>4, <1>5, <1>6, <1>7, <1>8

\* A step is one of these.
LEMMA StepKinds ==
    ASSUME [Next]_vars
    PROVE  \/ UNCHANGED vars
           \/ /\ topic' = topic
              /\ \E c \in Members :
                    \/ Assign(c) \/ Crash(c) \/ Poll(c) \/ Commit(c)
                    \/ Skip(c) \/ EffectRefused(c) \/ EffectUnconfirmed(c)
                    \/ MarkProcessed(c) \/ StatementFails(c)
                    \/ Begin(c) \/ Effect(c) \/ SaveOutbox(c)
BY Zenon DEF Next, GroupNext, Run

\* The members' variables keep their types.
LEMMA MembersStep ==
    ASSUME IsPartition, TypeOK, [Next]_vars
    PROVE  MembersOK'
<1>0. MembersOK
    BY TypeParts
<1>a. Len(topic) \in Nat /\ committed \in 0..Len(topic)
    BY Located, TypeParts DEF RestOK
<1>1. CASE UNCHANGED vars
    BY <1>0, <1>1 DEF MembersOK, vars
<1>2. ASSUME NEW c \in Members, topic' = topic, Finishes(c) PROVE MembersOK'
    <2>1. /\ pc' \in [Members -> PCs] /\ cur' \in [Members -> 0..Len(topic)]
          /\ \A d \in Members : cur'[d] <= last[d] /\ (pc'[d] \notin {"poll", "commit"} => cur'[d] > 0)
        BY <1>2, NextRecordStep DEF Finishes
    <2>2. marked' \in [Members -> 0..Len(topic)]
        BY <1>0, <1>2 DEF Finishes, MembersOK
    <2>3. next' \in [Members -> 0..Len(topic)] /\ last' = last /\ last' \in [Members -> 0..Len(topic)]
        BY <1>0, <1>2 DEF Finishes, MembersOK
    <2> QED BY <1>2, <2>1, <2>2, <2>3 DEF MembersOK
<1>3. ASSUME NEW c \in Members, topic' = topic, NEW s \in PCs, Continues(c, s) PROVE MembersOK'
    BY <1>0, <1>3 DEF Continues, MembersOK, Handling
<1>4. ASSUME NEW c \in Members, topic' = topic, Assign(c) PROVE MembersOK'
    <2>1. /\ next' = [next EXCEPT ![c] = committed] /\ marked' = [d \in Members |-> 0]
          /\ UNCHANGED <<pc, cur, last>>
        BY <1>4 DEF Assign, Fault
    <2>2. marked' \in [Members -> 0..Len(topic)]
        BY <1>a, <2>1
    <2> QED BY <1>0, <1>a, <1>4, <2>1, <2>2 DEF MembersOK
<1>5. ASSUME NEW c \in Members, topic' = topic, Crash(c) PROVE MembersOK'
    <2>1. /\ pc' = [pc EXCEPT ![c] = "poll"] /\ marked' = [marked EXCEPT ![c] = 0]
          /\ UNCHANGED <<next, cur, last>>
        BY <1>5 DEF Crash, Fault
    <2> QED BY <1>0, <1>a, <1>5, <2>1 DEF MembersOK, PCs
<1>6. ASSUME NEW c \in Members, topic' = topic, Poll(c) PROVE MembersOK'
    <2>1. PICK n \in (next[c] + 1)..Len(topic) :
              last' = [last EXCEPT ![c] = n] /\ next' = [next EXCEPT ![c] = n]
        BY <1>6 DEF Poll
    <2>2. cur' = [cur EXCEPT ![c] = next[c] + 1] /\ pc' = [pc EXCEPT ![c] = "handle"] /\ marked' = marked
        BY <1>6 DEF Poll
    <2>3. n \in 0..Len(topic) /\ next[c] + 1 \in 0..Len(topic) /\ next[c] + 1 <= n /\ next[c] + 1 > 0
        BY <1>0, <1>a, <2>1 DEF MembersOK
    <2> QED BY <1>0, <1>6, <2>1, <2>2, <2>3 DEF MembersOK, PCs
<1>7. ASSUME NEW c \in Members, topic' = topic, Commit(c) PROVE MembersOK'
    <2>1. pc' = [pc EXCEPT ![c] = "poll"] /\ UNCHANGED <<next, cur, last, marked>>
        BY <1>7 DEF Commit
    <2> QED BY <1>0, <1>7, <2>1 DEF MembersOK, PCs
<1>8. {"effect", "outbox", "processed"} \subseteq PCs
    BY DEF PCs
<1> QED BY <1>1, <1>2, <1>3, <1>4, <1>5, <1>6, <1>7, <1>8, StepKinds, Positions

\* The three statements of the handler that change a table: the wallet
\* operation, outbox.Save and MarkProcessed.
Applies(c) ==
    /\ pc[c] = "effect"
    /\ effects' = effects (+) SetToBag({Event(c)})
    /\ UNCHANGED <<outbox, processed>>
Announces(c) ==
    /\ pc[c] = "outbox"
    /\ outbox' = outbox (+) SetToBag({Emitted(c)})
    /\ UNCHANGED <<effects, processed>>
Marks(c) ==
    /\ pc[c] = "processed"
    /\ processed' = processed \cup {Event(c)}
    /\ UNCHANGED <<effects, outbox>>

\* What each action does to the tables.
LEMMA Tables ==
    ASSUME NEW c \in Members
    PROVE  /\ Effect(c) \/ EffectUnconfirmed(c) => Applies(c)
           /\ SaveOutbox(c) => Announces(c)
           /\ MarkProcessed(c) => Marks(c)
           /\ StatementFails(c) => Announces(c) \/ Marks(c) \/ UNCHANGED tables
           /\ Assign(c) \/ Crash(c) \/ Poll(c) \/ Commit(c) \/ Skip(c) \/ EffectRefused(c) \/ Begin(c)
                => UNCHANGED tables
<1>1. ASSUME Effect(c) PROVE Applies(c)
    BY <1>1 DEF Effect, Applies
<1>2. ASSUME EffectUnconfirmed(c) PROVE Applies(c)
    BY <1>2, Zenon DEF EffectUnconfirmed, Applies
<1>3. ASSUME SaveOutbox(c) PROVE Announces(c)
    BY <1>3 DEF SaveOutbox, Announces
<1>4. ASSUME MarkProcessed(c) PROVE Marks(c)
    BY <1>4, Zenon DEF MarkProcessed, Marks
<1>5. ASSUME StatementFails(c) PROVE Announces(c) \/ Marks(c) \/ UNCHANGED tables
    BY <1>5, Zenon DEF StatementFails, Announces, Marks
<1>6. ASSUME Assign(c) \/ Crash(c) \/ Poll(c) \/ Commit(c) \/ Skip(c) \/ EffectRefused(c) \/ Begin(c)
      PROVE  UNCHANGED tables
    BY <1>6, Zenon DEF Assign, Crash, Poll, Commit, Skip, EffectRefused, Begin
<1> QED BY <1>1, <1>2, <1>3, <1>4, <1>5, <1>6

\* What each action does to the history of errors.
LEMMA Histories ==
    ASSUME NEW c \in Members
    PROVE  /\ EffectRefused(c) => failed' = failed \cup {cur[c]} /\ refused' = refused \cup {Event(c)}
           /\ EffectUnconfirmed(c) \/ StatementFails(c)
                => failed' = failed \cup {cur[c]} /\ refused' = refused
           /\ Assign(c) \/ Crash(c) \/ Poll(c) \/ Commit(c) \/ Skip(c) \/ MarkProcessed(c) \/ Begin(c)
              \/ Effect(c) \/ SaveOutbox(c) => failed' = failed /\ refused' = refused
<1>1. EffectRefused(c) => failed' = failed \cup {cur[c]} /\ refused' = refused \cup {Event(c)}
    BY Zenon DEF EffectRefused
<1>2. EffectUnconfirmed(c) \/ StatementFails(c) => failed' = failed \cup {cur[c]} /\ refused' = refused
    BY Zenon DEF EffectUnconfirmed, StatementFails, HandlerError
<1>3. ASSUME Assign(c) \/ Crash(c) \/ Poll(c) \/ Commit(c) \/ Skip(c) \/ MarkProcessed(c) \/ Begin(c)
             \/ Effect(c) \/ SaveOutbox(c)
      PROVE  UNCHANGED history
    BY <1>3, Zenon DEF Assign, Crash, Poll, Commit, Skip, MarkProcessed, Handled, Begin, Effect, SaveOutbox
<1>4. UNCHANGED history => failed' = failed /\ refused' = refused
    BY DEF history
<1> QED BY <1>1, <1>2, <1>3, <1>4

\* Who has the partition, and the faults.
LEMMA Owners ==
    ASSUME NEW c \in Members
    PROVE  /\ Assign(c) => /\ owner' = c
                           /\ \/ owner = NoMember /\ faults' = faults
                              \/ owner # NoMember /\ Fault
                           /\ committed' = committed
           /\ Crash(c) => /\ Fault
                          /\ owner' = IF owner = c THEN NoMember ELSE owner
                          /\ committed' = committed
           /\ EffectUnconfirmed(c) \/ StatementFails(c) => Fault
           /\ Poll(c) \/ Commit(c) \/ Skip(c) \/ EffectRefused(c) \/ MarkProcessed(c) \/ Begin(c)
              \/ Effect(c) \/ SaveOutbox(c) => faults' = faults
           /\ Poll(c) \/ Commit(c) => owner' = owner
           /\ Poll(c) => committed' = committed
<1>1. Assign(c) => /\ owner' = c
                   /\ \/ owner = NoMember /\ faults' = faults
                      \/ owner # NoMember /\ Fault
                   /\ committed' = committed
    BY DEF Assign, Fault
<1>2. Crash(c) => /\ Fault
                  /\ owner' = IF owner = c THEN NoMember ELSE owner
                  /\ committed' = committed
    BY DEF Crash, Fault
<1>3. EffectUnconfirmed(c) \/ StatementFails(c) => Fault
    BY Zenon DEF EffectUnconfirmed, StatementFails
<1>4. Poll(c) => faults' = faults /\ UNCHANGED group
    BY DEF Poll
<1>5. Commit(c) => faults' = faults /\ owner' = owner
    BY DEF Commit
<1>6. Begin(c) \/ Effect(c) \/ SaveOutbox(c) => faults' = faults
    BY DEF Begin, Effect, SaveOutbox
<1>7. Skip(c) => faults' = faults
    BY DEF Skip, Handled
<1>8. MarkProcessed(c) => faults' = faults
    BY DEF MarkProcessed, Handled
<1>9. EffectRefused(c) => faults' = faults
    BY DEF EffectRefused
<1>10. UNCHANGED group => owner' = owner /\ committed' = committed
    BY DEF group
<1> QED BY <1>1, <1>2, <1>3, <1>4, <1>5, <1>6, <1>7, <1>8, <1>9, <1>10

\* The tables, the group and the members keep their types in every step.
LEMMA TypeStep ==
    ASSUME IsPartition, TypeOK, [Next]_vars
    PROVE  IsPartition' /\ TypeOK'
<1>0. BagsOK
    BY TypeParts
<1>a. RestOK
    BY TypeParts
<1>b. topic' = topic /\ Events' = Events
    BY DEF Next, vars, Events
<1>1. BagsOK'
    <2>1. CASE UNCHANGED tables
        BY <1>0, <1>b, <2>1 DEF BagsOK, tables
    <2>2. ASSUME NEW c \in Members, Applies(c) PROVE BagsOK'
        <3>1. Event(c) \in Events
            BY <2>2, Located DEF Applies, Handling
        <3>2. IsABag(effects)
            BY <1>0 DEF BagsOK
        <3>3. IsABag(effects') /\ BagToSet(effects') = BagToSet(effects) \cup {Event(c)}
            BY <2>2, <3>2, BagAdd, Zenon DEF Applies
        <3>4. outbox' = outbox
            BY <2>2 DEF Applies
        <3> QED BY <1>0, <1>b, <3>1, <3>3, <3>4 DEF BagsOK
    <2>3. ASSUME NEW c \in Members, Announces(c) PROVE BagsOK'
        <3>1. Emitted(c) \in [event : Events, type : {"FundsReserved", "FundsDeposited"}]
            BY <2>3, Located DEF Announces, Handling
        <3>2. IsABag(outbox)
            BY <1>0 DEF BagsOK
        <3>3. IsABag(outbox') /\ BagToSet(outbox') = BagToSet(outbox) \cup {Emitted(c)}
            BY <2>3, <3>2, BagAdd, Zenon DEF Announces
        <3>4. effects' = effects
            BY <2>3 DEF Announces
        <3> QED BY <1>0, <1>b, <3>1, <3>3, <3>4 DEF BagsOK
    <2>4. ASSUME NEW c \in Members, Marks(c) PROVE BagsOK'
        BY <1>0, <1>b, <2>4 DEF BagsOK, Marks
    <2>5. UNCHANGED vars => UNCHANGED tables
        BY DEF vars, tables
    <2> QED BY <2>1, <2>2, <2>3, <2>4, <2>5, StepKinds, Tables
<1>2. processed' \subseteq Events
    <2>1. processed \subseteq Events
        BY <1>a DEF RestOK
    <2>2. ASSUME NEW c \in Members, Marks(c) PROVE processed' \subseteq Events
        <3>1. Event(c) \in Events
            BY <2>2, Located DEF Marks, Handling
        <3> QED BY <2>1, <2>2, <3>1 DEF Marks
    <2>3. UNCHANGED vars \/ UNCHANGED tables => processed' = processed
        BY DEF vars, tables
    <2>4. \A c \in Members : Applies(c) \/ Announces(c) => processed' = processed
        BY DEF Applies, Announces
    <2> QED BY <2>1, <2>2, <2>3, <2>4, StepKinds, Tables
<1>3. failed' \subseteq DOMAIN topic /\ refused' \subseteq Events
    <2>1. failed \subseteq DOMAIN topic /\ refused \subseteq Events
        BY <1>a DEF RestOK
    <2>2. ASSUME NEW c \in Members, EffectRefused(c) \/ EffectUnconfirmed(c) \/ StatementFails(c)
          PROVE  cur[c] \in DOMAIN topic /\ Event(c) \in Events
        <3>1. pc[c] \in Handling
            BY <2>2, Positions DEF Finishes
        <3> QED BY <3>1, Located
    <2>3. UNCHANGED vars => failed' = failed /\ refused' = refused
        BY DEF vars
    <2> QED BY <2>1, <2>2, <2>3, StepKinds, Histories
<1>4. owner' \in Members \cup {NoMember} /\ faults' \in 0..MaxFaults
    <2>1. owner \in Members \cup {NoMember} /\ faults \in 0..MaxFaults
        BY <1>a DEF RestOK
    <2>2. Fault => faults' \in 0..MaxFaults
        BY <2>1, SagaAssumption DEF Fault
    <2>3. UNCHANGED vars => owner' = owner /\ faults' = faults
        BY DEF vars
    <2>4. \A c \in Members : Finishes(c) => owner' = owner
        BY DEF Finishes
    <2>5. \A c \in Members : \A s : Continues(c, s) => owner' = owner
        BY DEF Continues
    <2>6. owner' \in Members \cup {NoMember}
        BY <2>1, <2>3, <2>4, <2>5, StepKinds, Positions, Owners
    <2>7. faults' \in 0..MaxFaults
        BY <2>1, <2>2, <2>3, StepKinds, Owners
    <2> QED BY <2>6, <2>7
<1>5. committed' \in 0..Len(topic)
    <2>1. committed \in 0..Len(topic)
        BY <1>a DEF RestOK
    <2>2. ASSUME NEW c \in Members, Commit(c) PROVE committed' \in 0..Len(topic)
        <3>1. marked[c] \in 0..Len(topic)
            BY TypeParts DEF MembersOK
        <3>2. committed' = marked[c] \/ committed' = committed
            BY <2>2 DEF Commit
        <3> QED BY <2>1, <3>1, <3>2
    <2>3. UNCHANGED vars => committed' = committed
        BY DEF vars
    <2>4. \A c \in Members : Finishes(c) => committed' = committed
        BY DEF Finishes
    <2>5. \A c \in Members : \A s : Continues(c, s) => committed' = committed
        BY DEF Continues
    <2> QED BY <2>1, <2>2, <2>3, <2>4, <2>5, StepKinds, Positions, Owners
<1>6. RestOK'
    BY <1>a, <1>b, <1>2, <1>3, <1>4, <1>5 DEF RestOK
<1>7. MembersOK'
    BY MembersStep
<1>8. TypeOK'
    BY <1>1, <1>6, <1>7, Zenon DEF TypeOK, MembersOK, BagsOK, RestOK
<1> QED BY <1>b, <1>8 DEF IsPartition

-----------------------------------------------------------------------------
(* What the steps mean for the effects and announcements of an event.      *)

\* All members but c are where they were.
Elsewhere(c) ==
    /\ topic' = topic
    /\ \A d \in Members : d # c => pc'[d] = pc[d] /\ cur'[d] = cur[d]

\* The wallet operation takes effect, and the handler goes on or fails.
ApplyStep(c) ==
    /\ Applies(c) /\ Elsewhere(c) /\ owner' = owner
    /\ \/ pc'[c] = "outbox" /\ cur'[c] = cur[c] /\ faults' = faults
       \/ pc'[c] \in {"handle", "commit"} /\ faults' = faults + 1

\* The outbox event is saved, and the handler goes on or fails.
AnnounceStep(c) ==
    /\ Announces(c) /\ Elsewhere(c) /\ owner' = owner
    /\ \/ pc'[c] = "processed" /\ cur'[c] = cur[c] /\ faults' = faults
       \/ pc'[c] \in {"handle", "commit"} /\ faults' = faults + 1

\* The event is marked as processed, and the handler returns.
MarkStep(c) ==
    /\ Marks(c) /\ Elsewhere(c) /\ owner' = owner
    /\ pc'[c] \in {"handle", "commit"}
    /\ faults' \in {faults, faults + 1}

\* The tables do not change.  A member leaves an event that it has applied
\* only by a fault, and passes IsProcessed only with one that is not marked.
PlainStep(c) ==
    /\ UNCHANGED tables /\ Elsewhere(c) /\ owner' = owner
    /\ pc'[c] \in {"poll", "handle", "commit", "effect"}
    /\ pc'[c] = "effect" => Event(c) \notin processed /\ cur'[c] = cur[c]
    /\ \/ faults' = faults + 1
       \/ /\ faults' = faults
          /\ pc[c] \notin {"outbox", "processed"}
          /\ c = owner \/ pc[c] # "poll"

\* The member loses everything, the partition included.
CrashStep(c) ==
    /\ UNCHANGED tables /\ Elsewhere(c)
    /\ pc'[c] = "poll"
    /\ owner' = IF owner = c THEN NoMember ELSE owner
    /\ faults' = faults + 1

\* The member gets the partition.
AssignStep(c) ==
    /\ UNCHANGED tables /\ topic' = topic /\ pc' = pc /\ cur' = cur
    /\ owner' = c
    /\ \/ owner = NoMember /\ faults' = faults
       \/ owner # NoMember /\ faults' = faults + 1

\* Every step is one of these.
LEMMA MemberKinds ==
    ASSUME IsPartition, TypeOK, [Next]_vars
    PROVE  \/ UNCHANGED vars
           \/ \E c \in Members : \/ ApplyStep(c) \/ AnnounceStep(c) \/ MarkStep(c)
                                 \/ PlainStep(c) \/ CrashStep(c) \/ AssignStep(c)
<1>0. pc \in [Members -> PCs] /\ cur \in [Members -> 0..Len(topic)]
    BY TypeParts DEF MembersOK
<1>a. SUFFICES ASSUME NEW c \in Members, topic' = topic,
                      \/ Assign(c) \/ Crash(c) \/ Poll(c) \/ Commit(c)
                      \/ Skip(c) \/ EffectRefused(c) \/ EffectUnconfirmed(c)
                      \/ MarkProcessed(c) \/ StatementFails(c)
                      \/ Begin(c) \/ Effect(c) \/ SaveOutbox(c)
               PROVE  \/ ApplyStep(c) \/ AnnounceStep(c) \/ MarkStep(c)
                      \/ PlainStep(c) \/ CrashStep(c) \/ AssignStep(c)
    BY StepKinds
<1>b. Finishes(c) => Elsewhere(c) /\ pc'[c] \in {"handle", "commit"} /\ owner' = owner
    BY <1>a, NextRecordStep DEF Finishes, Elsewhere
<1>c. \A s \in PCs : Continues(c, s) => Elsewhere(c) /\ pc'[c] = s /\ cur'[c] = cur[c] /\ owner' = owner
    BY <1>0, <1>a DEF Continues, Elsewhere
<1>d. Fault => faults' = faults + 1
    BY DEF Fault
<1>e. {"effect", "outbox", "processed"} \subseteq PCs
    BY DEF PCs
<1>1. CASE Assign(c)
    <2>1. pc' = pc /\ cur' = cur
        BY <1>1 DEF Assign, Fault
    <2> QED BY <1>1, <1>a, <1>d, <2>1, Tables, Owners DEF AssignStep
<1>2. CASE Crash(c)
    <2>1. pc' = [pc EXCEPT ![c] = "poll"] /\ cur' = cur
        BY <1>2 DEF Crash, Fault
    <2>2. Elsewhere(c) /\ pc'[c] = "poll"
        BY <1>0, <1>a, <2>1 DEF Elsewhere
    <2> QED BY <1>2, <1>d, <2>2, Tables, Owners DEF CrashStep
<1>3. CASE Poll(c)
    <2>1. pc[c] = "poll" /\ owner = c /\ pc' = [pc EXCEPT ![c] = "handle"]
          /\ cur' = [cur EXCEPT ![c] = next[c] + 1]
        BY <1>3 DEF Poll
    <2>2. Elsewhere(c) /\ pc'[c] = "handle"
        BY <1>0, <1>a, <2>1 DEF Elsewhere
    <2> QED BY <1>3, <2>1, <2>2, Tables, Owners DEF PlainStep
<1>4. CASE Commit(c)
    <2>1. pc[c] = "commit" /\ pc' = [pc EXCEPT ![c] = "poll"] /\ cur' = cur
        BY <1>4 DEF Commit
    <2>2. Elsewhere(c) /\ pc'[c] = "poll"
        BY <1>0, <1>a, <2>1 DEF Elsewhere
    <2> QED BY <1>4, <2>1, <2>2, Tables, Owners DEF PlainStep
<1>5. CASE Skip(c) \/ EffectRefused(c)
    <2>1. pc[c] \in {"handle", "effect"}
        BY <1>5, Zenon DEF Skip, EffectRefused
    <2>2. Finishes(c) /\ faults' = faults /\ UNCHANGED tables
        BY <1>5, Positions, Owners, Tables
    <2> QED BY <1>b, <2>1, <2>2 DEF PlainStep
<1>6. CASE EffectUnconfirmed(c)
    <2>1. Finishes(c) /\ Fault /\ Applies(c)
        BY <1>6, Positions, Owners, Tables
    <2> QED BY <1>b, <1>d, <2>1 DEF ApplyStep
<1>7. CASE MarkProcessed(c)
    <2>1. Finishes(c) /\ faults' = faults /\ Marks(c)
        BY <1>7, Positions, Owners, Tables
    <2> QED BY <1>b, <2>1 DEF MarkStep
<1>8. CASE StatementFails(c)
    <2>1. Finishes(c) /\ Fault /\ (Announces(c) \/ Marks(c) \/ UNCHANGED tables)
        BY <1>8, Positions, Owners, Tables
    <2> QED BY <1>b, <1>d, <2>1 DEF AnnounceStep, MarkStep, PlainStep
<1>9. CASE Begin(c)
    <2>1. pc[c] = "handle" /\ Event(c) \notin processed
        BY <1>9 DEF Begin
    <2>2. Continues(c, "effect") /\ faults' = faults /\ UNCHANGED tables
        BY <1>9, Positions, Owners, Tables
    <2> QED BY <1>c, <1>e, <2>1, <2>2 DEF PlainStep
<1>10. CASE Effect(c)
    <2>1. Continues(c, "outbox") /\ faults' = faults /\ Applies(c)
        BY <1>10, Positions, Owners, Tables
    <2> QED BY <1>c, <1>e, <2>1 DEF ApplyStep
<1>11. CASE SaveOutbox(c)
    <2>1. Continues(c, "processed") /\ faults' = faults /\ Announces(c)
        BY <1>11, Positions, Owners, Tables
    <2> QED BY <1>c, <1>e, <2>1 DEF AnnounceStep
<1> QED BY <1>a, <1>1, <1>2, <1>3, <1>4, <1>5, <1>6, <1>7, <1>8, <1>9, <1>10, <1>11

\* Sets of members can be counted.
LEMMA CountMembers ==
    ASSUME NEW P \in SUBSET Members, NEW Q \in SUBSET Members
    PROVE  /\ Cardinality(P) \in Nat /\ Cardinality(Q) \in Nat
           /\ P \subseteq Q => Cardinality(P) <= Cardinality(Q)
           /\ \A c \in Members : /\ c \notin P /\ P \cup {c} \subseteq Q => Cardinality(P) + 1 <= Cardinality(Q)
                                 /\ P \ {c} \subseteq Q => Cardinality(P) <= Cardinality(Q) + 1
BY SagaAssumption, CountSubsets

\* The events of the other members stay, and those of a member that stays.
LEMMA EventsStay ==
    ASSUME NEW c \in Members, topic' = topic
    PROVE  cur'[c] = cur[c] => Event(c)' = Event(c)
BY DEF Event

\* The wallet operation adds one row of its event, outbox.Save one outbox
\* event of it, and no other statement adds any.
LEMMA Counts ==
    ASSUME TypeOK
    PROVE  /\ \A e : Rows(e) \in Nat /\ EmittedRows(e) \in Nat
           /\ \A c \in Members : Applies(c) =>
                /\ \A e : EmittedRows(e)' = EmittedRows(e)
                /\ \A e : e # Event(c) => Rows(e)' = Rows(e)
                /\ \A e : e = Event(c) => Rows(e)' = Rows(e) + 1
           /\ \A c \in Members : Announces(c) =>
                /\ \A e : Rows(e)' = Rows(e)
                /\ \A e : e # Event(c) => EmittedRows(e)' = EmittedRows(e)
                /\ \A e : e = Event(c) => EmittedRows(e)' = EmittedRows(e) + 1
           /\ UNCHANGED <<effects, outbox>> =>
                \A e : Rows(e)' = Rows(e) /\ EmittedRows(e)' = EmittedRows(e)
<1>0. IsABag(effects) /\ IsABag(outbox)
    BY TypeParts DEF BagsOK
<1>a. \A x : Copies(x, effects) \in Nat /\ Copies(x, outbox) \in Nat
    BY <1>0, BagAdd
<1>1. \A e : Rows(e) \in Nat /\ EmittedRows(e) \in Nat
    BY <1>a DEF Rows, EmittedRows
<1>2. ASSUME NEW c \in Members, Applies(c), NEW e
      PROVE  /\ EmittedRows(e)' = EmittedRows(e)
             /\ e # Event(c) => Rows(e)' = Rows(e)
             /\ e = Event(c) => Rows(e)' = Rows(e) + 1
    <2>1. effects' = effects (+) SetToBag({Event(c)}) /\ outbox' = outbox
        BY <1>2 DEF Applies
    <2>2. EmittedRows(e)' = EmittedRows(e)
        BY <2>1 DEF EmittedRows
    <2>3. /\ e # Event(c) => Copies(e, effects') = Copies(e, effects)
          /\ e = Event(c) => Copies(e, effects') = Copies(e, effects) + 1
        BY <1>0, <2>1, BagAdd
    <2> QED BY <2>2, <2>3 DEF Rows
<1>3. ASSUME NEW c \in Members, Announces(c), NEW e
      PROVE  /\ Rows(e)' = Rows(e)
             /\ e # Event(c) => EmittedRows(e)' = EmittedRows(e)
             /\ e = Event(c) => EmittedRows(e)' = EmittedRows(e) + 1
    <2>1. outbox' = outbox (+) SetToBag({Emitted(c)}) /\ effects' = effects
        BY <1>3 DEF Announces
    <2>2. Rows(e)' = Rows(e)
        BY <2>1 DEF Rows
    <2> DEFINE r == [event |-> e, type |-> "FundsReserved"]
               d == [event |-> e, type |-> "FundsDeposited"]
    <2>3. r # d /\ (Emitted(c) = r \/ Emitted(c) = d <=> e = Event(c))
        BY DEF Emitted, OutboxTypeOf
    <2> HIDE DEF r, d
    <2>4. \A x : /\ x # Emitted(c) => Copies(x, outbox') = Copies(x, outbox)
                 /\ x = Emitted(c) => Copies(x, outbox') = Copies(x, outbox) + 1
        BY <1>0, <2>1, BagAdd
    <2>5. EmittedRows(e) = Copies(r, outbox) + Copies(d, outbox)
        BY DEF EmittedRows, r, d
    <2>6. EmittedRows(e)' = Copies(r, outbox') + Copies(d, outbox')
        BY DEF EmittedRows, r, d
    <2>7. e # Event(c) => EmittedRows(e)' = EmittedRows(e)
        BY <2>3, <2>4, <2>5, <2>6
    <2>8. e = Event(c) => EmittedRows(e)' = EmittedRows(e) + 1
        BY <1>a, <2>3, <2>4, <2>5, <2>6
    <2> QED BY <2>2, <2>7, <2>8
<1>4. UNCHANGED <<effects, outbox>> => \A e : Rows(e)' = Rows(e) /\ EmittedRows(e)' = EmittedRows(e)
    BY DEF Rows, EmittedRows
<1> QED BY <1>1, <1>2, <1>3, <1>4

\* Rows and outbox events are never taken back.
LEMMA CountsGrow ==
    ASSUME IsPartition, TypeOK, [Next]_vars
    PROVE  \A e : Rows(e)' >= Rows(e) /\ EmittedRows(e)' >= EmittedRows(e)
<1>1. TAKE e
<1>2. Rows(e) \in Nat /\ EmittedRows(e) \in Nat
    BY Counts
<1>3. CASE UNCHANGED <<effects, outbox>>
    BY <1>2, <1>3, Counts
<1>4. ASSUME NEW c \in Members, Applies(c) PROVE Rows(e)' >= Rows(e) /\ EmittedRows(e)' >= EmittedRows(e)
    BY <1>2, <1>4, Counts
<1>5. ASSUME NEW c \in Members, Announces(c) PROVE Rows(e)' >= Rows(e) /\ EmittedRows(e)' >= EmittedRows(e)
    BY <1>2, <1>5, Counts
<1>6. UNCHANGED vars \/ UNCHANGED tables \/ (\E c \in Members : Marks(c)) => UNCHANGED <<effects, outbox>>
    BY DEF vars, tables, Marks
<1> QED BY <1>3, <1>4, <1>5, <1>6, StepKinds, Tables

-----------------------------------------------------------------------------
(* The invariant is inductive.                                             *)

\* A member that stays where it is.
LEMMA Staying ==
    ASSUME NEW d \in Members, topic' = topic, pc'[d] = pc[d], cur'[d] = cur[d]
    PROVE  \A e : /\ InFlight(d, e)' <=> InFlight(d, e)
                  /\ d \in Announcing(e)' <=> d \in Announcing(e)
BY DEF InFlight, Announcing, Event

\* What is past a statement of the handler is past it after every step, and
\* an event is marked by a member that is past both.
LEMMA DoneStep ==
    ASSUME IsPartition, TypeOK, DoneInv, [Next]_vars
    PROVE  DoneInv'
<1> DEFINE At(d, e) == InFlight(d, e) => Rows(e) >= 1 /\ (pc[d] = "processed" => EmittedRows(e) >= 1)
           Done(e) == Rows(e) >= 1 /\ EmittedRows(e) >= 1
<1>a. \A e : /\ Rows(e) \in Nat /\ EmittedRows(e) \in Nat
             /\ Rows(e)' >= Rows(e) /\ EmittedRows(e)' >= EmittedRows(e)
    BY Counts, CountsGrow
<1>b. \A e : Rows(e)' \in Nat /\ EmittedRows(e)' \in Nat
    <2>1. TypeOK'
        BY TypeStep
    <2>2. IsABag(effects') /\ IsABag(outbox')
        BY <2>1, Zenon DEF TypeOK
    <2>3. \A x : Copies(x, effects') \in Nat /\ Copies(x, outbox') \in Nat
        BY <2>2, BagAdd
    <2> QED BY <2>3 DEF Rows, EmittedRows
<1>c. \A e : /\ Rows(e) >= 1 => Rows(e)' >= 1
             /\ EmittedRows(e) >= 1 => EmittedRows(e)' >= 1
    BY <1>a, <1>b
<1>d. Events' = Events /\ topic' = topic
    BY DEF Next, vars, Events
<1>1. \A e \in processed : Done(e)'
    BY <1>c DEF DoneInv, ProcessedIsDone
<1>2. ASSUME NEW d \in Members, NEW e \in Events, pc'[d] = pc[d], cur'[d] = cur[d] PROVE At(d, e)'
    <2>1. At(d, e)
        BY DEF DoneInv
    <2>2. InFlight(d, e)' <=> InFlight(d, e)
        BY <1>2, <1>d, Staying
    <2> QED BY <1>2, <1>c, <2>1, <2>2
<1>3. SUFFICES (\A d \in Members : \A e \in Events : At(d, e)') /\ \A e \in processed' : Done(e)'
    BY <1>d DEF DoneInv, ProcessedIsDone
<1>4. CASE UNCHANGED vars
    <2>1. processed' = processed /\ pc' = pc /\ cur' = cur
        BY <1>4 DEF vars
    <2> QED BY <1>1, <1>2, <2>1
<1>5. ASSUME NEW c \in Members, Elsewhere(c), pc'[c] \notin {"outbox", "processed"}
      PROVE  \A d \in Members : \A e \in Events : At(d, e)'
    <2>1. \A e \in Events : At(c, e)'
        BY <1>5 DEF InFlight
    <2>2. \A d \in Members \ {c} : pc'[d] = pc[d] /\ cur'[d] = cur[d]
        BY <1>5 DEF Elsewhere
    <2> QED BY <1>2, <2>1, <2>2
<1>6. ASSUME NEW c \in Members, ApplyStep(c)
      PROVE  (\A d \in Members : \A e \in Events : At(d, e)') /\ \A e \in processed' : Done(e)'
    <2>0. Applies(c) /\ Elsewhere(c) /\ processed' = processed
        BY <1>6 DEF ApplyStep, Applies
    <2>1. CASE pc'[c] = "outbox" /\ cur'[c] = cur[c]
        <3>1. ASSUME NEW e \in Events PROVE At(c, e)'
            <4>1. InFlight(c, e)' => e = Event(c)
                BY <1>d, <2>1 DEF InFlight, Event
            <4>2. e = Event(c) => Rows(e)' = Rows(e) + 1
                BY <2>0, Counts
            <4> QED BY <1>a, <2>1, <4>1, <4>2
        <3>2. \A d \in Members \ {c} : pc'[d] = pc[d] /\ cur'[d] = cur[d]
            BY <2>0 DEF Elsewhere
        <3> QED BY <1>1, <1>2, <2>0, <3>1, <3>2
    <2>2. CASE pc'[c] \in {"handle", "commit"}
        BY <1>1, <1>5, <2>0, <2>2
    <2> QED BY <1>6, <2>1, <2>2 DEF ApplyStep
<1>7. ASSUME NEW c \in Members, AnnounceStep(c)
      PROVE  (\A d \in Members : \A e \in Events : At(d, e)') /\ \A e \in processed' : Done(e)'
    <2>0. Announces(c) /\ Elsewhere(c) /\ processed' = processed /\ pc[c] = "outbox"
        BY <1>7 DEF AnnounceStep, Announces
    <2>1. CASE pc'[c] = "processed" /\ cur'[c] = cur[c]
        <3>1. ASSUME NEW e \in Events PROVE At(c, e)'
            <4>1. InFlight(c, e)' => e = Event(c) /\ InFlight(c, e)
                BY <1>d, <2>0, <2>1 DEF InFlight, Event
            <4>2. e = Event(c) => EmittedRows(e)' = EmittedRows(e) + 1
                BY <2>0, Counts
            <4>3. InFlight(c, e) => Rows(e)' >= 1
                BY <1>c DEF DoneInv
            <4> QED BY <1>a, <2>1, <4>1, <4>2, <4>3
        <3>2. \A d \in Members \ {c} : pc'[d] = pc[d] /\ cur'[d] = cur[d]
            BY <2>0 DEF Elsewhere
        <3> QED BY <1>1, <1>2, <2>0, <3>1, <3>2
    <2>2. CASE pc'[c] \in {"handle", "commit"}
        BY <1>1, <1>5, <2>0, <2>2
    <2> QED BY <1>7, <2>1, <2>2 DEF AnnounceStep
<1>8. ASSUME NEW c \in Members, MarkStep(c)
      PROVE  (\A d \in Members : \A e \in Events : At(d, e)') /\ \A e \in processed' : Done(e)'
    <2>0. /\ Elsewhere(c) /\ processed' = processed \cup {Event(c)}
          /\ pc[c] = "processed" /\ pc'[c] \in {"handle", "commit"}
        BY <1>8 DEF MarkStep, Marks
    <2>1. Event(c) \in Events /\ InFlight(c, Event(c))
        BY <2>0, Located DEF Handling, InFlight
    <2>2. Rows(Event(c)) >= 1 /\ EmittedRows(Event(c)) >= 1
        BY <2>0, <2>1 DEF DoneInv
    <2>3. \A e : e = Event(c) => Done(e)'
        BY <1>c, <2>2
    <2> QED BY <1>1, <1>5, <2>0, <2>3
<1>9. ASSUME NEW c \in Members, PlainStep(c) \/ CrashStep(c)
      PROVE  (\A d \in Members : \A e \in Events : At(d, e)') /\ \A e \in processed' : Done(e)'
    <2>1. Elsewhere(c) /\ processed' = processed /\ pc'[c] \notin {"outbox", "processed"}
        BY <1>9 DEF PlainStep, CrashStep, tables
    <2> QED BY <1>1, <1>5, <2>1
<1>10. ASSUME NEW c \in Members, AssignStep(c)
       PROVE  (\A d \in Members : \A e \in Events : At(d, e)') /\ \A e \in processed' : Done(e)'
    <2>1. processed' = processed /\ pc' = pc /\ cur' = cur
        BY <1>10 DEF AssignStep, tables
    <2> QED BY <1>1, <1>2, <2>1
<1> QED BY <1>4, <1>6, <1>7, <1>8, <1>9, <1>10, MemberKinds

\* Every outbox event has its row, and every member about to save one its own.
LEMMA AnnouncedStep ==
    ASSUME IsPartition, TypeOK, AnnouncedInv, [Next]_vars
    PROVE  AnnouncedInv'
<1>a. Events' = Events /\ topic' = topic
    BY DEF Next, vars, Events
<1>b. SUFFICES ASSUME NEW e \in Events
               PROVE  EmittedRows(e)' + Cardinality(Announcing(e)') <= Rows(e)'
    BY <1>a DEF AnnouncedInv
<1> DEFINE P == Announcing(e)
           Q == Announcing(e)'
           m == EmittedRows(e)
           n == Rows(e)
<1>c. P \in SUBSET Members /\ Q \in SUBSET Members
    BY DEF Announcing
<1>d. m \in Nat /\ n \in Nat /\ m + Cardinality(P) <= n
    BY Counts DEF AnnouncedInv
<1>e. Cardinality(P) \in Nat /\ Cardinality(Q) \in Nat
    BY <1>c, CountMembers
<1> HIDE DEF m, n
<1>1. ASSUME EmittedRows(e)' = m, Rows(e)' = n, Q \subseteq P
      PROVE  EmittedRows(e)' + Cardinality(Q) <= Rows(e)'
    <2>1. Cardinality(Q) <= Cardinality(P)
        BY <1>1, <1>c, CountMembers
    <2> HIDE DEF P, Q
    <2> QED BY <1>1, <1>d, <1>e, <2>1
<1>2. ASSUME NEW c \in Members, Elsewhere(c), pc'[c] # "outbox" PROVE Q \subseteq P \ {c}
    BY <1>2, Staying DEF Elsewhere, Announcing
<1>3. CASE UNCHANGED vars
    <2>1. effects' = effects /\ outbox' = outbox /\ pc' = pc /\ cur' = cur
        BY <1>3 DEF vars
    <2>2. EmittedRows(e)' = m /\ Rows(e)' = n
        BY <2>1, Counts DEF m, n
    <2>3. Q \subseteq P
        BY <1>a, <2>1 DEF Announcing, Event
    <2> QED BY <1>1, <2>2, <2>3
<1>4. ASSUME NEW c \in Members, ApplyStep(c) PROVE EmittedRows(e)' + Cardinality(Q) <= Rows(e)'
    <2>0. Applies(c) /\ Elsewhere(c)
        BY <1>4 DEF ApplyStep
    <2>1. EmittedRows(e)' = m
        BY <2>0, Counts DEF m
    <2>2. Q \ {c} \subseteq P
        BY <2>0, Staying DEF Elsewhere, Announcing
    <2>3. CASE e = Event(c)
        <3>1. Rows(e)' = n + 1
            BY <2>0, <2>3, Counts DEF n
        <3>2. Cardinality(Q) <= Cardinality(P) + 1
            BY <1>c, <2>2, CountMembers
        <3> HIDE DEF P, Q
        <3> QED BY <1>d, <1>e, <2>1, <3>1, <3>2
    <2>4. CASE e # Event(c)
        <3>1. Rows(e)' = n
            BY <2>0, <2>4, Counts DEF n
        <3>2. c \notin Q
            <4>1. pc'[c] = "outbox" => cur'[c] = cur[c]
                BY <1>4 DEF ApplyStep
            <4> QED BY <1>a, <2>4, <4>1 DEF Announcing, Event
        <3>3. Q \subseteq P
            BY <2>2, <3>2
        <3> QED BY <1>1, <2>1, <3>1, <3>3
    <2> QED BY <2>3, <2>4
<1>5. ASSUME NEW c \in Members, AnnounceStep(c) PROVE EmittedRows(e)' + Cardinality(Q) <= Rows(e)'
    <2>0. Announces(c) /\ Elsewhere(c) /\ pc[c] = "outbox" /\ pc'[c] # "outbox"
        BY <1>5 DEF AnnounceStep, Announces
    <2>1. Rows(e)' = n
        BY <2>0, Counts DEF n
    <2>2. Q \subseteq P \ {c}
        BY <1>2, <2>0
    <2>3. CASE e = Event(c)
        <3>1. EmittedRows(e)' = m + 1
            BY <2>0, <2>3, Counts DEF m
        <3>2. c \in P
            BY <2>0, <2>3 DEF Announcing
        <3>3. c \notin Q /\ Q \cup {c} \subseteq P
            BY <2>2, <3>2
        <3>4. Cardinality(Q) + 1 <= Cardinality(P)
            BY <1>c, <3>3, CountMembers
        <3> HIDE DEF P, Q
        <3> QED BY <1>d, <1>e, <2>1, <3>1, <3>4
    <2>4. CASE e # Event(c)
        <3>1. EmittedRows(e)' = m
            BY <2>0, <2>4, Counts DEF m
        <3> QED BY <1>1, <2>1, <2>2, <3>1
    <2> QED BY <2>3, <2>4
<1>6. ASSUME NEW c \in Members, MarkStep(c) \/ PlainStep(c) \/ CrashStep(c)
      PROVE  EmittedRows(e)' + Cardinality(Q) <= Rows(e)'
    <2>1. Elsewhere(c) /\ pc'[c] # "outbox" /\ UNCHANGED <<effects, outbox>>
        BY <1>6 DEF MarkStep, PlainStep, CrashStep, Marks, tables
    <2>2. EmittedRows(e)' = m /\ Rows(e)' = n
        BY <2>1, Counts DEF m, n
    <2>3. Q \subseteq P
        BY <1>2, <2>1
    <2> QED BY <1>1, <2>2, <2>3
<1>7. ASSUME NEW c \in Members, AssignStep(c) PROVE EmittedRows(e)' + Cardinality(Q) <= Rows(e)'
    <2>1. effects' = effects /\ outbox' = outbox /\ pc' = pc /\ cur' = cur
        BY <1>7 DEF AssignStep, tables
    <2>2. EmittedRows(e)' = m /\ Rows(e)' = n
        BY <2>1, Counts DEF m, n
    <2>3. Q \subseteq P
        BY <1>a, <2>1 DEF Announcing, Event
    <2> QED BY <1>1, <2>2, <2>3
<1> QED BY <1>3, <1>4, <1>5, <1>6, <1>7, MemberKinds

\* A member becomes able to apply an event only by a fault, or as the first
\* owner after another one.
LEMMA EffectsStep ==
    ASSUME IsPartition, TypeOK, NEW e, EffectsOf(e), [Next]_vars
    PROVE  EffectsOf(e)'
<1>a. Events' = Events /\ topic' = topic
    BY DEF Next, vars, Events
<1>b. SUFFICES Rows(e)' + Cardinality(Appliers(e)') + Unowned(e)' <= 1 + faults'
    BY DEF EffectsOf
<1> DEFINE P == Appliers(e)
           Q == Appliers(e)'
           n == Rows(e)
           u == Unowned(e)
           v == Unowned(e)'
<1>c. P \in SUBSET Members /\ Q \in SUBSET Members
    BY DEF Appliers
<1>d. /\ n \in Nat /\ n + Cardinality(P) + u <= 1 + faults
      /\ u \in {0, 1} /\ v \in {0, 1}
    BY Counts DEF EffectsOf, Unowned
<1>e. Cardinality(P) \in Nat /\ Cardinality(Q) \in Nat
    BY <1>c, CountMembers
<1>f. faults \in Nat
    BY TypeParts, SagaAssumption DEF RestOK
<1> HIDE DEF n
<1>g. ASSUME processed' = processed, owner' = owner PROVE v = u
    BY <1>g DEF Unowned
<1>h. ASSUME NEW d \in Members, pc'[d] = pc[d], cur'[d] = cur[d],
             (e \in processed) <=> (e \in processed'), d = owner' => d = owner
      PROVE  d \in Q => d \in P
    <2>1. InFlight(d, e)' <=> InFlight(d, e)
        BY <1>a, <1>h, Staying
    <2>2. Event(d)' = Event(d)
        BY <1>a, <1>h DEF Event
    <2> QED BY <1>h, <2>1, <2>2 DEF Appliers, Pending
<1>1. ASSUME Rows(e)' = n, Q \subseteq P, v <= u, faults' \in {faults, faults + 1}
      PROVE  Rows(e)' + Cardinality(Q) + v <= 1 + faults'
    <2>1. Cardinality(Q) <= Cardinality(P)
        BY <1>1, <1>c, CountMembers
    <2> HIDE DEF P, Q, u, v
    <2> QED BY <1>1, <1>d, <1>e, <1>f, <2>1
<1>2. ASSUME Rows(e)' = n, NEW c \in Members, Q \ {c} \subseteq P, v <= u, faults' = faults + 1
      PROVE  Rows(e)' + Cardinality(Q) + v <= 1 + faults'
    <2>1. Cardinality(Q) <= Cardinality(P) + 1
        BY <1>2, <1>c, CountMembers
    <2> HIDE DEF P, Q, u, v
    <2> QED BY <1>2, <1>d, <1>e, <1>f, <2>1
<1>3. CASE UNCHANGED vars
    <2>1. /\ effects' = effects /\ outbox' = outbox /\ processed' = processed
          /\ pc' = pc /\ cur' = cur /\ owner' = owner /\ faults' = faults
        BY <1>3 DEF vars
    <2>2. Rows(e)' = n /\ v = u
        BY <1>g, <2>1, Counts DEF n
    <2>3. Q \subseteq P
        BY <1>c, <1>h, <2>1
    <2> QED BY <1>1, <1>d, <2>1, <2>2, <2>3
<1>4. ASSUME NEW c \in Members, ApplyStep(c)
      PROVE  Rows(e)' + Cardinality(Q) + v <= 1 + faults'
    <2>0. Applies(c) /\ Elsewhere(c) /\ owner' = owner /\ processed' = processed /\ pc[c] = "effect"
        BY <1>4 DEF ApplyStep, Applies
    <2>1. v = u
        BY <1>g, <2>0
    <2>2. Q \ {c} \subseteq P
        BY <1>c, <1>h, <2>0 DEF Elsewhere
    <2>3. c \in Q => c \in P
        <3>1. CASE e \in processed
            BY <2>0, <3>1, <1>4 DEF Appliers, Pending, ApplyStep
        <3>2. CASE e \notin processed
            BY <2>0, <3>2 DEF Appliers, Pending, InFlight
        <3> QED BY <3>1, <3>2
    <2>4. CASE e # Event(c)
        <3>1. Rows(e)' = n
            BY <2>0, <2>4, Counts DEF n
        <3>2. faults' \in {faults, faults + 1}
            BY <1>4 DEF ApplyStep
        <3>3. Q \subseteq P
            BY <2>2, <2>3
        <3> QED BY <1>1, <1>d, <2>1, <3>1, <3>2, <3>3
    <2>5. CASE e = Event(c)
        <3>1. Rows(e)' = n + 1
            BY <2>0, <2>5, Counts DEF n
        <3>2. CASE faults' = faults + 1
            <4>1. Cardinality(Q) <= Cardinality(P)
                BY <1>c, <2>2, <2>3, CountMembers
            <4> HIDE DEF P, Q, u, v
            <4> QED BY <1>d, <1>e, <1>f, <2>1, <3>1, <3>2, <4>1
        <3>3. CASE pc'[c] = "outbox" /\ cur'[c] = cur[c] /\ faults' = faults
            <4>1. c \in P
                BY <2>0, <2>5 DEF Appliers, Pending, InFlight
            <4>2. c \notin Q
                <5>1. InFlight(c, e)'
                    BY <1>a, <2>5, <3>3 DEF InFlight, Event
                <5> QED BY <3>3, <5>1 DEF Appliers, Pending
            <4>3. Q \cup {c} \subseteq P
                BY <2>2, <4>1
            <4>4. Cardinality(Q) + 1 <= Cardinality(P)
                BY <1>c, <4>2, <4>3, CountMembers
            <4> HIDE DEF P, Q, u, v
            <4> QED BY <1>d, <1>e, <1>f, <2>1, <3>1, <3>3, <4>4
        <3> QED BY <1>4, <3>2, <3>3 DEF ApplyStep
    <2> QED BY <2>4, <2>5
<1>5. ASSUME NEW c \in Members, AnnounceStep(c)
      PROVE  Rows(e)' + Cardinality(Q) + v <= 1 + faults'
    <2>0. /\ Announces(c) /\ Elsewhere(c) /\ owner' = owner /\ processed' = processed /\ pc[c] = "outbox"
        BY <1>5 DEF AnnounceStep, Announces
    <2>1. v = u /\ Rows(e)' = n
        BY <1>g, <2>0, Counts DEF n
    <2>2. Q \ {c} \subseteq P
        BY <1>c, <1>h, <2>0 DEF Elsewhere
    <2>3. CASE faults' = faults + 1
        BY <1>2, <1>d, <2>1, <2>2, <2>3
    <2>4. CASE pc'[c] = "processed" /\ cur'[c] = cur[c] /\ faults' = faults
        <3>1. InFlight(c, e)' <=> InFlight(c, e)
            BY <1>a, <2>0, <2>4 DEF InFlight, Event
        <3>2. c \in Q => c \in P
            BY <2>0, <2>4, <3>1 DEF Appliers, Pending
        <3> QED BY <1>1, <1>d, <2>1, <2>2, <2>4, <3>2
    <2> QED BY <1>5, <2>3, <2>4 DEF AnnounceStep
<1>6. ASSUME NEW c \in Members, MarkStep(c)
      PROVE  Rows(e)' + Cardinality(Q) + v <= 1 + faults'
    <2>0. /\ Marks(c) /\ Elsewhere(c) /\ owner' = owner /\ pc[c] = "processed"
          /\ processed' = processed \cup {Event(c)} /\ UNCHANGED <<effects, outbox>>
          /\ pc'[c] \in {"handle", "commit"} /\ faults' \in {faults, faults + 1}
        BY <1>6 DEF MarkStep, Marks
    <2>1. Rows(e)' = n
        BY <2>0, Counts DEF n
    <2>2. v <= u
        BY <2>0 DEF Unowned
    <2>3. CASE e = Event(c) /\ e \notin processed
        <3>1. ASSUME NEW d \in Members, d \in Q PROVE d \in P
            <4>1. pc'[d] = "effect" /\ d # c
                BY <2>0, <2>3, <3>1 DEF Appliers, Pending
            <4>2. pc[d] = "effect"
                BY <2>0, <4>1 DEF Elsewhere
            <4> QED BY <2>3, <4>2 DEF Appliers, Pending, InFlight
        <3> QED BY <1>1, <1>c, <2>0, <2>1, <2>2, <3>1
    <2>4. CASE e # Event(c) \/ e \in processed
        <3>1. (e \in processed) <=> (e \in processed')
            BY <2>0, <2>4
        <3>2. Q \ {c} \subseteq P
            BY <1>c, <1>h, <2>0, <3>1 DEF Elsewhere
        <3>3. c \in Q => c \in P
            <4>1. CASE e \in processed
                BY <2>0, <3>1, <4>1 DEF Appliers, Pending
            <4>2. CASE e \notin processed
                BY <2>0, <2>4, <3>1, <4>2 DEF Appliers, Pending, InFlight
            <4> QED BY <4>1, <4>2
        <3> QED BY <1>1, <2>0, <2>1, <2>2, <3>2, <3>3
    <2> QED BY <2>3, <2>4
<1>7. ASSUME NEW c \in Members, PlainStep(c)
      PROVE  Rows(e)' + Cardinality(Q) + v <= 1 + faults'
    <2>0. /\ Elsewhere(c) /\ owner' = owner /\ processed' = processed /\ UNCHANGED <<effects, outbox>>
          /\ pc'[c] \in {"poll", "handle", "commit", "effect"}
          /\ pc'[c] = "effect" => Event(c) \notin processed /\ cur'[c] = cur[c]
        BY <1>7 DEF PlainStep, tables
    <2>1. v = u /\ Rows(e)' = n
        BY <1>g, <2>0, Counts DEF n
    <2>2. Q \ {c} \subseteq P
        BY <1>c, <1>h, <2>0 DEF Elsewhere
    <2>3. CASE faults' = faults + 1
        BY <1>2, <1>d, <2>1, <2>2, <2>3
    <2>4. CASE /\ faults' = faults
               /\ pc[c] \notin {"outbox", "processed"}
               /\ c = owner \/ pc[c] # "poll"
        <3>1. c \in Q => c \in P
            <4>1. CASE e \in processed
                <5>1. c \notin Q
                    BY <1>a, <2>0, <4>1 DEF Appliers, Pending, Event
                <5> QED BY <5>1
            <4>2. CASE e \notin processed
                BY <2>4, <4>2 DEF Appliers, Pending, InFlight
            <4> QED BY <4>1, <4>2
        <3> QED BY <1>1, <1>d, <2>1, <2>2, <2>4, <3>1
    <2> QED BY <1>7, <2>3, <2>4 DEF PlainStep
<1>8. ASSUME NEW c \in Members, CrashStep(c)
      PROVE  Rows(e)' + Cardinality(Q) + v <= 1 + faults'
    <2>0. /\ Elsewhere(c) /\ processed' = processed /\ UNCHANGED <<effects, outbox>>
          /\ pc'[c] = "poll" /\ owner' = (IF owner = c THEN NoMember ELSE owner) /\ faults' = faults + 1
        BY <1>8 DEF CrashStep, tables
    <2>1. Rows(e)' = n
        BY <2>0, Counts DEF n
    <2>2. c # owner' /\ \A d \in Members : d = owner' => d = owner
        BY <2>0, SagaAssumption
    <2>3. c \notin Q
        BY <2>0, <2>2 DEF Appliers, Pending
    <2>4. Q \subseteq P
        BY <1>c, <1>h, <2>0, <2>2, <2>3 DEF Elsewhere
    <2>5. Cardinality(Q) <= Cardinality(P)
        BY <1>c, <2>4, CountMembers
    <2>6. v <= u + 1
        BY <1>d
    <2> HIDE DEF P, Q, u, v
    <2> QED BY <1>d, <1>e, <1>f, <2>0, <2>1, <2>5, <2>6
<1>9. ASSUME NEW c \in Members, AssignStep(c)
      PROVE  Rows(e)' + Cardinality(Q) + v <= 1 + faults'
    <2>0. /\ effects' = effects /\ outbox' = outbox /\ processed' = processed
          /\ pc' = pc /\ cur' = cur /\ owner' = c
        BY <1>9 DEF AssignStep, tables
    <2>1. Rows(e)' = n /\ v = 0
        BY <2>0, Counts, SagaAssumption DEF n, Unowned
    <2>2. Q \ {c} \subseteq P
        BY <1>c, <1>h, <2>0
    <2>3. CASE faults' = faults + 1
        BY <1>2, <1>d, <2>1, <2>2, <2>3
    <2>4. CASE owner = NoMember /\ faults' = faults
        <3>1. CASE e \in processed
            <4>1. c \in Q => c \in P
                BY <1>a, <2>0, <3>1 DEF Appliers, Pending, Event
            <4> QED BY <1>1, <1>d, <2>1, <2>2, <2>4, <4>1
        <3>2. CASE e \notin processed
            <4>1. u = 1
                BY <2>4, <3>2 DEF Unowned
            <4>2. Cardinality(Q) <= Cardinality(P) + 1
                BY <1>c, <2>2, CountMembers
            <4> HIDE DEF P, Q, u, v
            <4> QED BY <1>d, <1>e, <1>f, <2>1, <2>4, <4>1, <4>2
        <3> QED BY <3>1, <3>2
    <2> QED BY <1>9, <2>3, <2>4 DEF AssignStep
<1> QED BY <1>3, <1>4, <1>5, <1>6, <1>7, <1>8, <1>9, MemberKinds

\* A member that is done with a record has it accounted for: it was marked as
\* processed, is none of the saga's, or its handler returned an error.
LEMMA FinishedIsAccounted ==
    ASSUME NEW c \in Members, topic' = topic,
           Skip(c) \/ EffectRefused(c) \/ EffectUnconfirmed(c) \/ MarkProcessed(c) \/ StatementFails(c)
    PROVE  \A i : i = cur[c] => Accounted(i)'
<1>1. CASE EffectRefused(c) \/ EffectUnconfirmed(c) \/ StatementFails(c)
    <2>1. cur[c] \in failed'
        BY <1>1, Histories
    <2> QED BY <2>1 DEF Accounted
<1>2. CASE MarkProcessed(c)
    <2>1. Event(c) \in processed'
        BY <1>2, Tables DEF Marks
    <2> QED BY <2>1 DEF Accounted, Event
<1>3. CASE Skip(c)
    <2>1. Event(c) \in processed \/ Type(c) \notin SagaTypes
        BY <1>3 DEF Skip
    <2>2. processed' = processed
        BY <1>3, Tables DEF tables
    <2> QED BY <2>1, <2>2 DEF Accounted, Event, Type
<1> QED BY <1>1, <1>2, <1>3

\* What is accounted for stays so, and one record more makes one offset more.
LEMMA PassedGrows ==
    ASSUME IsPartition, TypeOK, [Next]_vars
    PROVE  /\ Passed \subseteq Passed'
           /\ 0 \in Passed'
           /\ \A k \in 0..Len(topic) : k - 1 \in Passed /\ Accounted(k)' => k \in Passed'
<1>1. topic' = topic
    BY DEF Next, vars
<1>2. UNCHANGED vars => failed' = failed /\ processed' = processed
    BY DEF vars
<1>3. failed \subseteq failed'
    BY <1>2, StepKinds, Histories
<1>4. UNCHANGED tables => processed' = processed
    BY DEF tables
<1>5. \A c \in Members : Applies(c) \/ Announces(c) \/ Marks(c) => processed \subseteq processed'
    BY DEF Applies, Announces, Marks
<1>6. processed \subseteq processed'
    BY <1>2, <1>4, <1>5, StepKinds, Tables
<1>7. \A i : Accounted(i) => Accounted(i)'
    BY <1>1, <1>3, <1>6 DEF Accounted
<1>8. Len(topic) \in Nat
    BY Located
<1>9. ASSUME NEW k \in 0..Len(topic), k - 1 \in Passed, Accounted(k)' PROVE k \in Passed'
    <2>1. \A i \in 1..(k - 1) : Accounted(i)
        BY <1>9 DEF Passed
    <2>2. ASSUME NEW i \in 1..k PROVE Accounted(i)'
        <3>1. CASE i = k
            BY <1>9, <3>1
        <3>2. CASE i # k
            <4>1. i \in 1..(k - 1)
                BY <1>8, <3>2
            <4> QED BY <1>7, <2>1, <4>1
        <3> QED BY <3>1, <3>2
    <2> QED BY <1>1, <2>2 DEF Passed
<1> QED BY <1>1, <1>7, <1>8, <1>9 DEF Passed

\* No offset passes a record that is not accounted for, in any step.
LEMMA OffsetStep ==
    ASSUME IsPartition, TypeOK, OffsetInv, [Next]_vars
    PROVE  OffsetInv'
<1> DEFINE OK(c) ==
        /\ marked[c] \in Passed
        /\ pc[c] \in Handling => cur[c] - 1 \in Passed
        /\ pc[c] = "commit" => last[c] \in Passed
        /\ owner = c /\ pc[c] = "poll" => next[c] \in Passed
        /\ owner = c /\ pc[c] # "poll" => next[c] = last[c] \/ next[c] \in Passed
<1>0. committed \in Passed /\ \A c \in Members : OK(c)
    BY DEF OffsetInv
<1>m. /\ pc \in [Members -> PCs] /\ next \in [Members -> 0..Len(topic)]
      /\ cur \in [Members -> 0..Len(topic)] /\ last \in [Members -> 0..Len(topic)]
      /\ marked \in [Members -> 0..Len(topic)]
    BY TypeParts DEF MembersOK
<1>a. Passed \subseteq Passed' /\ 0 \in Passed' /\ Len(topic) \in Nat
    BY PassedGrows, Located
<1>b. SUFFICES committed' \in Passed' /\ \A d \in Members : OK(d)'
    BY DEF OffsetInv
<1>c. committed' = committed => committed' \in Passed'
    BY <1>0, <1>a
<1>d. ASSUME NEW d \in Members, pc'[d] = pc[d], cur'[d] = cur[d], last'[d] = last[d], next'[d] = next[d],
             marked'[d] = marked[d] \/ marked'[d] = 0, owner' = d => owner = d
      PROVE  OK(d)'
    <2>1. OK(d)
        BY <1>0
    <2> QED BY <1>a, <1>d, <2>1
<1>1. CASE UNCHANGED vars
    <2>1. UNCHANGED <<committed, owner, pc, cur, last, next, marked>>
        BY <1>1 DEF vars
    <2> QED BY <1>c, <1>d, <2>1
<1>2. ASSUME NEW c \in Members, Finishes(c), topic' = topic,
             Skip(c) \/ EffectRefused(c) \/ EffectUnconfirmed(c) \/ MarkProcessed(c) \/ StatementFails(c)
      PROVE  committed' \in Passed' /\ \A d \in Members : OK(d)'
    <2>0. /\ \/ cur'[c] = cur[c] + 1 /\ pc'[c] = "handle"
             \/ cur'[c] = cur[c] /\ cur[c] = last[c] /\ pc'[c] = "commit"
          /\ \A d \in Members : d # c => pc'[d] = pc[d] /\ cur'[d] = cur[d]
        BY <1>2, NextRecordStep DEF Finishes
    <2>1. pc[c] \in Handling /\ owner' = owner /\ committed' = committed /\ next' = next /\ last' = last
        BY <1>2 DEF Finishes
    <2>2. \A d \in Members : marked'[d] = marked[d] \/ (d = c /\ marked'[d] = cur[d])
        BY <1>2, <1>m DEF Finishes
    <2>3. cur[c] \in Passed'
        <3>1. PICK k : k = cur[c]
            OBVIOUS
        <3>2. k \in 0..Len(topic) /\ k - 1 \in Passed
            BY <1>0, <1>m, <2>1, <3>1
        <3>3. Accounted(k)'
            BY <1>2, <3>1, FinishedIsAccounted
        <3> QED BY <3>1, <3>2, <3>3, PassedGrows
    <2>4. OK(c)'
        <3>1. OK(c)
            BY <1>0
        <3>2. marked'[c] \in Passed'
            BY <1>a, <2>2, <2>3, <3>1
        <3>3. CASE cur'[c] = cur[c] + 1 /\ pc'[c] = "handle"
            <4>1. cur'[c] - 1 = cur[c]
                BY <1>m, <1>a, <3>3
            <4>2. owner = c => next[c] = last[c] \/ next[c] \in Passed'
                BY <1>a, <2>1, <3>1 DEF Handling
            <4> QED BY <2>1, <2>3, <3>2, <3>3, <4>1, <4>2
        <3>4. CASE cur'[c] = cur[c] /\ cur[c] = last[c] /\ pc'[c] = "commit"
            <4>1. owner = c => next[c] = last[c] \/ next[c] \in Passed'
                BY <1>a, <2>1, <3>1 DEF Handling
            <4> QED BY <2>1, <2>3, <3>2, <3>4, <4>1 DEF Handling
        <3> QED BY <2>0, <3>3, <3>4
    <2>5. \A d \in Members : d # c => OK(d)'
        BY <1>d, <2>0, <2>1, <2>2
    <2> QED BY <1>c, <2>1, <2>4, <2>5
<1>3. ASSUME NEW c \in Members, NEW s \in Handling, Continues(c, s)
      PROVE  committed' \in Passed' /\ \A d \in Members : OK(d)'
    <2>1. /\ pc[c] \in Handling /\ UNCHANGED <<owner, committed, next, cur, last, marked>>
          /\ pc'[c] \in Handling /\ \A d \in Members : d # c => pc'[d] = pc[d]
        BY <1>3, <1>m DEF Continues
    <2>2. OK(c)'
        <3>1. OK(c)
            BY <1>0
        <3> QED BY <1>a, <2>1, <3>1 DEF Handling
    <2> QED BY <1>c, <1>d, <2>1, <2>2
<1>4. ASSUME NEW c \in Members, Assign(c) PROVE committed' \in Passed' /\ \A d \in Members : OK(d)'
    <2>1. /\ next' = [next EXCEPT ![c] = committed] /\ marked' = [d \in Members |-> 0]
          /\ UNCHANGED <<pc, cur, last, committed>> /\ owner' = c
        BY <1>4 DEF Assign, Fault
    <2>2. /\ next'[c] = committed /\ \A d \in Members : d # c => next'[d] = next[d]
          /\ \A d \in Members : marked'[d] = 0
        BY <1>m, <2>1
    <2>3. OK(c)'
        <3>1. OK(c)
            BY <1>0
        <3> QED BY <1>0, <1>a, <2>1, <2>2, <3>1
    <2> QED BY <1>c, <1>d, <2>1, <2>2, <2>3
<1>5. ASSUME NEW c \in Members, Crash(c) PROVE committed' \in Passed' /\ \A d \in Members : OK(d)'
    <2>1. /\ pc' = [pc EXCEPT ![c] = "poll"] /\ marked' = [marked EXCEPT ![c] = 0]
          /\ UNCHANGED <<next, cur, last, committed>>
          /\ owner' = IF owner = c THEN NoMember ELSE owner
        BY <1>5 DEF Crash, Fault
    <2>2. /\ pc'[c] = "poll" /\ marked'[c] = 0
          /\ \A d \in Members : d # c => pc'[d] = pc[d] /\ marked'[d] = marked[d]
        BY <1>m, <2>1
    <2>3. owner' # c /\ \A d \in Members : owner' = d => owner = d
        BY <2>1, SagaAssumption
    <2>4. OK(c)'
        BY <1>a, <2>2, <2>3 DEF Handling
    <2> QED BY <1>c, <1>d, <2>1, <2>2, <2>3, <2>4
<1>6. ASSUME NEW c \in Members, Poll(c) PROVE committed' \in Passed' /\ \A d \in Members : OK(d)'
    <2>1. PICK n \in (next[c] + 1)..Len(topic) :
              last' = [last EXCEPT ![c] = n] /\ next' = [next EXCEPT ![c] = n]
        BY <1>6 DEF Poll
    <2>2. /\ cur' = [cur EXCEPT ![c] = next[c] + 1] /\ pc' = [pc EXCEPT ![c] = "handle"] /\ marked' = marked
          /\ pc[c] = "poll" /\ owner = c
        BY <1>6 DEF Poll
    <2>3. owner' = owner /\ committed' = committed
        BY <1>6, Owners
    <2>4. /\ pc'[c] = "handle" /\ cur'[c] = next[c] + 1 /\ last'[c] = n /\ next'[c] = n
          /\ \A d \in Members : d # c =>
                pc'[d] = pc[d] /\ cur'[d] = cur[d] /\ last'[d] = last[d] /\ next'[d] = next[d]
        BY <1>m, <2>1, <2>2
    <2>5. OK(c)'
        <3>1. OK(c)
            BY <1>0
        <3>2. cur'[c] - 1 = next[c]
            BY <1>m, <1>a, <2>4
        <3> QED BY <1>a, <2>2, <2>3, <2>4, <3>1, <3>2
    <2> QED BY <1>c, <1>d, <2>2, <2>3, <2>4, <2>5
<1>7. ASSUME NEW c \in Members, Commit(c) PROVE committed' \in Passed' /\ \A d \in Members : OK(d)'
    <2>1. /\ pc[c] = "commit" /\ pc' = [pc EXCEPT ![c] = "poll"]
          /\ UNCHANGED <<next, cur, last, marked, owner>>
          /\ committed' \in {committed, marked[c]}
        BY <1>7 DEF Commit
    <2>2. pc'[c] = "poll" /\ \A d \in Members : d # c => pc'[d] = pc[d]
        BY <1>m, <2>1
    <2>3. OK(c)
        BY <1>0
    <2>4. OK(c)'
        BY <1>a, <2>1, <2>2, <2>3 DEF Handling
    <2>5. committed' \in Passed'
        BY <1>0, <1>a, <2>1, <2>3
    <2> QED BY <1>d, <2>1, <2>2, <2>4, <2>5
<1>8. {"effect", "outbox", "processed"} \subseteq Handling
    BY DEF Handling
<1> QED BY <1>1, <1>2, <1>3, <1>4, <1>5, <1>6, <1>7, <1>8, StepKinds, Positions

-----------------------------------------------------------------------------
(* A partition that is still written to.                                   *)

\* The topic grows at its end, the group does nothing, and another consumer
\* may have had a fault.
Outside ==
    /\ IsPartition' /\ Len(topic) <= Len(topic')
    /\ \A i \in DOMAIN topic : topic'[i] = topic[i]
    /\ \A i \in DOMAIN topic' : topic'[i].type \in RecordTypes
    /\ faults' \in {faults, faults + 1} /\ faults' <= MaxFaults
    /\ UNCHANGED <<owner, committed, effects, outbox, processed, failed, refused,
                   pc, next, cur, last, marked>>

\* Types still hold after such a step: a longer topic has the offsets and the
\* events of the shorter one.
LEMMA OutsideType ==
    ASSUME IsPartition, TypeOK, Outside
    PROVE  TypeOK'
<1>0. MembersOK
    BY TypeParts
<1>a. BagsOK
    BY TypeParts
<1>b. RestOK
    BY TypeParts
<1>c. /\ Len(topic) \in Nat /\ Len(topic') \in Nat /\ Len(topic) <= Len(topic')
      /\ DOMAIN topic = 1..Len(topic) /\ DOMAIN topic' = 1..Len(topic')
    BY DEF Outside, IsPartition
<1>d. 0..Len(topic) \subseteq 0..Len(topic') /\ DOMAIN topic \subseteq DOMAIN topic'
    BY <1>c
<1>e. Events \subseteq Events'
    <2>1. ASSUME NEW i \in DOMAIN topic PROVE topic[i].event \in Events'
        BY <1>d DEF Events, Outside
    <2> QED BY <2>1 DEF Events
<1>1. MembersOK'
    <2>1. ASSUME NEW f \in [Members -> 0..Len(topic)] PROVE f \in [Members -> 0..Len(topic')]
        BY <1>d
    <2>2. next' = next /\ cur' = cur /\ last' = last /\ marked' = marked /\ pc' = pc
        BY DEF Outside
    <2> QED BY <1>0, <2>1, <2>2 DEF MembersOK
<1>2. BagsOK'
    <2>1. effects' = effects /\ outbox' = outbox
        BY DEF Outside
    <2>2. BagToSet(effects) \subseteq Events'
        BY <1>a, <1>e DEF BagsOK
    <2>3. [event : Events, type : {"FundsReserved", "FundsDeposited"}]
            \subseteq [event : Events', type : {"FundsReserved", "FundsDeposited"}]
        BY <1>e
    <2>4. BagToSet(outbox) \subseteq [event : Events', type : {"FundsReserved", "FundsDeposited"}]
        BY <1>a, <2>3 DEF BagsOK
    <2> QED BY <1>a, <2>1, <2>2, <2>4 DEF BagsOK
<1>3. RestOK'
    <2>1. /\ owner' = owner /\ committed' = committed /\ processed' = processed
          /\ failed' = failed /\ refused' = refused
        BY DEF Outside
    <2>2. faults' \in 0..MaxFaults
        BY <1>b, SagaAssumption DEF RestOK, Outside
    <2>3. \A i \in DOMAIN topic' : topic'[i].type \in RecordTypes
        BY DEF Outside
    <2>4. committed \in 0..Len(topic') /\ failed \subseteq DOMAIN topic'
        BY <1>b, <1>d DEF RestOK
    <2>5. processed \subseteq Events' /\ refused \subseteq Events'
        BY <1>b, <1>e DEF RestOK
    <2> QED BY <1>b, <2>1, <2>2, <2>3, <2>4, <2>5 DEF RestOK
<1> QED BY <1>1, <1>2, <1>3, Zenon DEF TypeOK, MembersOK, BagsOK, RestOK

\* No member becomes able to apply an event by it.
LEMMA OutsideEffects ==
    ASSUME IsPartition, TypeOK, Outside, NEW e, EffectsOf(e)
    PROVE  EffectsOf(e)'
<1>1. /\ effects' = effects /\ processed' = processed /\ owner' = owner
      /\ pc' = pc /\ cur' = cur /\ faults' \in {faults, faults + 1}
    BY DEF Outside
<1>2. ASSUME NEW c \in Members, pc[c] \in Handling PROVE Event(c)' = Event(c)
    <2>1. cur[c] \in DOMAIN topic
        BY <1>2, Located
    <2> QED BY <1>1, <2>1 DEF Event, Outside
<1>3. ASSUME NEW c \in Members PROVE Pending(c, e)' <=> Pending(c, e)
    <2>1. InFlight(c, e)' <=> InFlight(c, e)
        BY <1>1, <1>2 DEF InFlight, Handling
    <2>2. (pc[c] = "effect" /\ Event(c) = e)' <=> (pc[c] = "effect" /\ Event(c) = e)
        BY <1>1, <1>2 DEF Handling
    <2> QED BY <1>1, <2>1, <2>2 DEF Pending
<1>4. Appliers(e)' = Appliers(e)
    BY <1>3 DEF Appliers
<1>5. Rows(e)' = Rows(e) /\ Unowned(e)' = Unowned(e)
    BY <1>1 DEF Rows, Unowned
<1>6. Rows(e) \in Nat /\ Unowned(e) \in {0, 1} /\ faults \in Nat
    BY Counts, TypeParts, SagaAssumption DEF Unowned, RestOK
<1>7. Appliers(e) \in SUBSET Members
    BY DEF Appliers
<1>8. Cardinality(Appliers(e)) \in Nat
    BY <1>7, CountMembers
<1>9. Cardinality(Appliers(e)') = Cardinality(Appliers(e))
    BY <1>4
<1>10. Rows(e) + Cardinality(Appliers(e)) + Unowned(e) <= 1 + faults
    BY DEF EffectsOf
<1>11. Rows(e)' + Cardinality(Appliers(e)') + Unowned(e)' <= 1 + faults'
    BY <1>1, <1>5, <1>6, <1>8, <1>9, <1>10
<1> QED BY <1>11 DEF EffectsOf

\* A step of the group has one fault at most.
LEMMA FaultsGrow ==
    ASSUME TypeOK, [Next]_vars
    PROVE  faults' \in {faults, faults + 1} /\ faults' <= MaxFaults
<1>0. faults \in Nat /\ faults <= MaxFaults
    BY TypeParts, SagaAssumption DEF RestOK
<1>1. CASE Fault
    BY <1>0, <1>1, SagaAssumption DEF Fault
<1>2. CASE faults' = faults
    BY <1>0, <1>2
<1>3. UNCHANGED vars => faults' = faults
    BY DEF vars
<1> QED BY <1>1, <1>2, <1>3, StepKinds, Owners

\* What EffectsOf says of the rows of an event.
LEMMA EffectsBound ==
    ASSUME TypeOK, NEW e, EffectsOf(e)
    PROVE  Rows(e) \in Nat /\ Rows(e) <= 1 + faults
<1>1. Rows(e) \in Nat
    BY Counts
<1>2. Appliers(e) \in SUBSET Members /\ Unowned(e) \in {0, 1}
    BY DEF Appliers, Unowned
<1>3. Cardinality(Appliers(e)) \in Nat
    BY <1>2, CountMembers
<1>4. faults \in Int
    BY TypeParts DEF RestOK
<1> QED BY <1>1, <1>2, <1>3, <1>4 DEF EffectsOf

-----------------------------------------------------------------------------
(* The theorems.                                                           *)

\* The tables are empty and nobody has read anything at first.
LEMMA GroupStarts ==
    ASSUME IsPartition, \A i \in DOMAIN topic : topic[i].type \in RecordTypes, GroupInit
    PROVE  TypeOK /\ DoneInv /\ AnnouncedInv /\ EffectsInv /\ OffsetInv
<1>0. Len(topic) \in Nat /\ \A i \in DOMAIN topic : topic[i].type \in RecordTypes
    BY DEF IsPartition
<1>a. /\ owner = NoMember /\ committed = 0 /\ processed = {} /\ failed = {} /\ refused = {} /\ faults = 0
      /\ pc = [c \in Members |-> "poll"] /\ next = [c \in Members |-> 0] /\ cur = [c \in Members |-> 0]
      /\ last = [c \in Members |-> 0] /\ marked = [c \in Members |-> 0]
    BY DEF GroupInit
<1>b. effects = EmptyBag /\ outbox = EmptyBag
    BY DEF GroupInit
<1>c. IsABag(EmptyBag) /\ BagToSet(EmptyBag) = {} /\ \A x : Copies(x, EmptyBag) = 0
    BY DEF IsABag, BagToSet, EmptyBag, SetToBag, Copies, BagIn
<1>1. MembersOK
    BY <1>0, <1>a DEF MembersOK, PCs
<1>2. BagsOK
    BY <1>b, <1>c DEF BagsOK
<1>3. RestOK
    BY <1>0, <1>a, SagaAssumption DEF RestOK
<1>4. TypeOK
    BY <1>1, <1>2, <1>3, TypeParts
<1>5. \A e : Rows(e) = 0 /\ EmittedRows(e) = 0
    BY <1>b, <1>c DEF Rows, EmittedRows
<1>6. DoneInv
    BY <1>a DEF DoneInv, ProcessedIsDone, InFlight
<1>7. AnnouncedInv
    <2>1. \A e : Announcing(e) = {}
        BY <1>a DEF Announcing
    <2> QED BY <1>5, <2>1, FS_EmptySet DEF AnnouncedInv
<1>8. EffectsInv
    <2>1. \A e : Appliers(e) = {} /\ Unowned(e) = 1
        BY <1>a, SagaAssumption DEF Appliers, Pending, Unowned
    <2> QED BY <1>5, <1>a, <2>1, FS_EmptySet DEF EffectsInv, EffectsOf
<1>9. OffsetInv
    <2>1. 0 \in Passed
        BY <1>0 DEF Passed
    <2> QED BY <1>a, <2>1, SagaAssumption DEF OffsetInv, Handling
<1> QED BY <1>4, <1>6, <1>7, <1>8, <1>9

\* The invariant holds at first.
LEMMA InvInit == Init => IInv
<1> HAVE Init
<1> DEFINE R == [event : {Feed[i].event : i \in DOMAIN Feed}, type : RecordTypes]
<1>1. topic = Feed /\ GroupInit
    BY DEF Init
<1>2. Feed \in Seq(R)
    BY SagaAssumption
<1>3. \A r \in R : r.type \in RecordTypes
    OBVIOUS
<1> HIDE DEF R
<1>4. Len(Feed) \in Nat /\ DOMAIN Feed = 1..Len(Feed) /\ \A i \in DOMAIN Feed : Feed[i] \in R
    BY <1>2
<1>5. IsPartition /\ \A i \in DOMAIN topic : topic[i].type \in RecordTypes
    BY <1>1, <1>3, <1>4 DEF IsPartition
<1> QED BY <1>1, <1>5, GroupStarts DEF IInv

\* Every step preserves the invariant.
LEMMA InvStep == IInv /\ [Next]_vars => IInv'
<1> SUFFICES ASSUME IInv, [Next]_vars PROVE IInv'
    OBVIOUS
<1>0. topic = Feed /\ TypeOK /\ DoneInv /\ AnnouncedInv /\ EffectsInv /\ OffsetInv
    BY DEF IInv
<1>a. topic' = topic
    BY DEF Next, vars
<1>b. IsPartition
    BY <1>0, SagaAssumption DEF IsPartition
<1>1. (topic = Feed)' /\ TypeOK'
    BY <1>0, <1>a, <1>b, TypeStep
<1>2. DoneInv'
    BY <1>0, <1>b, DoneStep
<1>3. AnnouncedInv'
    BY <1>0, <1>b, AnnouncedStep
<1>4. EffectsInv'
    BY <1>0, <1>b, EffectsStep DEF EffectsInv
<1>5. OffsetInv'
    BY <1>0, <1>b, OffsetStep
<1> QED BY <1>1, <1>2, <1>3, <1>4, <1>5 DEF IInv

\* The invariant holds throughout.
LEMMA InvHolds == Spec => []IInv
BY InvInit, InvStep, PTL DEF Spec

\* The tables, the offsets and the members have their types.
THEOREM TypeCorrect == Spec => []TypeOK
<1>1. IInv => TypeOK
    BY DEF IInv
<1> QED BY <1>1, InvHolds, PTL

\* An event is in processed_events only with its effect on the wallet and its
\* outbox event, whichever member handled it and whatever failed.
THEOREM ProcessedMeansDone == Spec => []ProcessedIsDone
<1>1. IInv => ProcessedIsDone
    BY DEF IInv, DoneInv
<1> QED BY <1>1, InvHolds, PTL

\* The outbox announces no reservation or deposit that the wallet has not.
THEOREM AnnouncementsAreReal == Spec => []AnnouncedIsReal
<1>1. IInv => AnnouncedIsReal
    <2> SUFFICES ASSUME IInv, NEW e \in Events PROVE EmittedRows(e) <= Rows(e)
        BY DEF AnnouncedIsReal
    <2>1. TypeOK /\ EmittedRows(e) + Cardinality(Announcing(e)) <= Rows(e)
        BY DEF IInv, AnnouncedInv
    <2>2. Rows(e) \in Nat /\ EmittedRows(e) \in Nat
        BY <2>1, Counts
    <2>3. Announcing(e) \in SUBSET Members
        BY DEF Announcing
    <2>4. Cardinality(Announcing(e)) \in Nat
        BY <2>3, CountMembers
    <2> QED BY <2>1, <2>2, <2>4
<1> QED BY <1>1, InvHolds, PTL

\* An event takes effect once, and once more at most for each failed call,
\* crash or rebalance.
THEOREM EffectsBounded == Spec => []ExtraEffectsNeedFaults
<1>1. IInv => ExtraEffectsNeedFaults
    BY EffectsBound DEF IInv, EffectsInv, ExtraEffectsNeedFaults
<1> QED BY <1>1, InvHolds, PTL

\* The committed offset passes no record that was neither handled nor reported
\* as an error.
THEOREM CommitsAccounted == Spec => []CommittedIsAccounted
<1>1. IInv => CommittedIsAccounted
    BY DEF IInv, OffsetInv, Passed, Accounted, CommittedIsAccounted
<1> QED BY <1>1, InvHolds, PTL

=============================================================================
