------------------------- MODULE TransferSagaProofs -------------------------
(***************************************************************************)
(* Theorems about TransactionService, for any number of processes,         *)
(* transactions and idempotency keys, and about the transfer saga that     *)
(* extends it, for any number of consumers and of faults as well.          *)
(***************************************************************************)
EXTENDS TransferSaga, NatRecursion, FiniteSetTheorems, TLAPS

-----------------------------------------------------------------------------
(* The inductive invariant.                                                *)

\* The transaction of the call of p is in the table.
Saved(p) == call[p].tx \in Txs /\ status[call[p].tx] # "none"

\* What a call knows of its transaction at each step.  A transaction that is
\* not saved yet belongs to one call alone.
CallInv ==
    \A p \in Procs :
        /\ pc[p] = "lookup" => call[p].op = "InitiateTransfer"
        /\ pc[p] \in {"fraud", "save"} =>
            /\ call[p].op = "InitiateTransfer"
            /\ call[p].tx \in Txs
            /\ status[call[p].tx] = "none"
            /\ \A q \in Procs : q # p => call[q].tx # call[p].tx
        /\ pc[p] = "find" =>
            call[p].op # "InitiateTransfer" /\ (call[p].tx = NoTx \/ Saved(p))
        /\ pc[p] = "update" =>
            call[p].op \in {"CompleteTransaction", "FailTransaction"} /\ Saved(p)
        /\ pc[p] = "outbox" =>
            /\ call[p].op # "GetTransaction" /\ Saved(p)
            /\ IF call[p].op = "InitiateTransfer"
               THEN key[call[p].tx] = call[p].key
               ELSE status[call[p].tx] \in Terminal
        /\ pc[p] = "idle" /\ reply[p] = "ok" /\ call[p].op = "InitiateTransfer" =>
            Saved(p) /\ key[call[p].tx] = call[p].key

\* The call of p is about to announce a transfer.
Announcing(p) == pc[p] = "outbox" /\ call[p].op = "InitiateTransfer"

\* A transfer is announced by one call, and was not announced before.
StartInv ==
    \A p \in Procs : Announcing(p) =>
        /\ ~HasEvent("TransactionInitiated", call[p].tx)
        /\ \A q \in Procs : Announcing(q) /\ call[q].tx = call[p].tx => q = p

\* The TransactionInitiated events are about different transactions.
InitiatedDistinct ==
    \A i, j \in DOMAIN outbox :
        /\ outbox[i].type = "TransactionInitiated"
        /\ outbox[j].type = "TransactionInitiated"
        /\ outbox[i].tx = outbox[j].tx
        => i = j

\* The tables agree with each other.
TableInv == OneTransactionPerKey /\ EventsFollowState /\ InitiatedDistinct

IInv == TypeOK /\ TableInv /\ CallInv /\ StartInv /\ AcksAnnounced

-----------------------------------------------------------------------------
(* Type correctness.                                                       *)

USE TransactionAssumption

\* The event of p is at the end of the outbox, after the events of before.
Grown(p) ==
    /\ Len(outbox) \in Nat /\ DOMAIN outbox = 1..Len(outbox)
    /\ DOMAIN outbox' = 1..(Len(outbox) + 1)
    /\ outbox'[Len(outbox) + 1] = OutboxEvent(p)
    /\ \A i \in DOMAIN outbox : outbox'[i] = outbox[i]

\* What the outbox holds are events about transactions.
LEMMA EventsAreEvents ==
    ASSUME TypeOK PROVE \A i \in DOMAIN outbox : outbox[i] \in OutboxEvents
BY DEF TypeOK

\* outbox.Save adds its event at the end and leaves the others.
LEMMA OutboxGrows ==
    ASSUME TypeOK, NEW p \in Procs, SaveOutbox(p) PROVE Grown(p)
BY DEF TypeOK, SaveOutbox, Grown

\* The tables and the calls keep their types in every step.
LEMMA TypeStep == IInv /\ [Next]_vars => TypeOK'
<1> SUFFICES ASSUME IInv, [Next]_vars PROVE TypeOK'
    OBVIOUS
<1>0. TypeOK /\ CallInv
    BY DEF IInv, TableInv
<1>1. CASE UNCHANGED vars
    BY <1>0, <1>1 DEF TypeOK, Calls, Ops, PCs, Terminal, vars
<1>2. ASSUME NEW p \in Procs, BeginInitiate(p) PROVE TypeOK'
    <2>1. CASE NewTransaction(p, NoKey)
        BY <1>0, <1>2, <2>1 DEF TypeOK, Calls, Ops, PCs, Terminal, BeginInitiate,
           tables, NewTransaction, Goto
    <2>2. ASSUME NEW k \in Keys,
               call' = [call EXCEPT ![p] = [op |-> "InitiateTransfer", key |-> k, tx |-> NoTx]],
               Goto(p, "lookup")
        PROVE TypeOK'
        BY <1>0, <1>2, <2>2 DEF TypeOK, Calls, Ops, PCs, Terminal, BeginInitiate,
           tables, Goto
    <2> QED
        BY <1>2, <2>1, <2>2 DEF BeginInitiate
<1>3. ASSUME NEW p \in Procs, InvalidTransfer(p) PROVE TypeOK'
    BY <1>0, <1>3 DEF TypeOK, Calls, Ops, PCs, Terminal, InvalidTransfer, ReturnError,
       NoCall, tables
<1>4. ASSUME NEW p \in Procs, LookupHit(p) PROVE TypeOK'
    BY <1>0, <1>4, SMTT(30) DEF TypeOK, Calls, Ops, PCs, Terminal, LookupHit, ReturnOk, tables
<1>5. ASSUME NEW p \in Procs, LookupMiss(p) PROVE TypeOK'
    BY <1>0, <1>5 DEF TypeOK, Calls, Ops, PCs, Terminal, LookupMiss, NewTransaction,
       Goto, tables
<1>6. ASSUME NEW p \in Procs, FraudPasses(p) PROVE TypeOK'
    BY <1>0, <1>6 DEF TypeOK, Calls, Ops, PCs, Terminal, FraudPasses, Goto, tables
<1>7. ASSUME NEW p \in Procs, FraudRejects(p) PROVE TypeOK'
    BY <1>0, <1>7 DEF TypeOK, Calls, Ops, PCs, Terminal, FraudRejects, ReturnError,
       NoCall, tables
<1>8. ASSUME NEW p \in Procs, Save(p) PROVE TypeOK'
    <2>1. CASE Goto(p, "outbox") /\ UNCHANGED call
        BY <1>0, <1>8, <2>1 DEF TypeOK, Calls, Ops, PCs, Terminal, Save, SavedRow,
           Goto
    <2>2. CASE ReturnError(p)
        BY <1>0, <1>8, <2>2 DEF TypeOK, Calls, Ops, PCs, Terminal, Save, SavedRow,
           ReturnError, NoCall
    <2> QED
        BY <1>8, <2>1, <2>2 DEF Save
<1>9. ASSUME NEW p \in Procs, SaveConflict(p) PROVE TypeOK'
    BY <1>0, <1>9 DEF TypeOK, Calls, Ops, PCs, Terminal, SaveConflict, ReturnError,
       NoCall, tables
<1>10. ASSUME NEW p \in Procs, BeginOnTransaction(p) PROVE TypeOK'
    BY <1>0, <1>10 DEF TypeOK, Calls, Ops, PCs, Terminal, BeginOnTransaction, Goto,
       tables, Ops
<1>11. ASSUME NEW p \in Procs, FindRefused(p) PROVE TypeOK'
    BY <1>0, <1>11 DEF TypeOK, Calls, Ops, PCs, Terminal, FindRefused, ReturnError,
       NoCall, tables
<1>12. ASSUME NEW p \in Procs, GetTransaction(p) PROVE TypeOK'
    BY <1>0, <1>12 DEF TypeOK, Calls, Ops, PCs, Terminal, GetTransaction, ReturnOk,
       tables
<1>13. ASSUME NEW p \in Procs, FindPending(p) PROVE TypeOK'
    BY <1>0, <1>13 DEF TypeOK, Calls, Ops, PCs, Terminal, FindPending, Goto, tables,
       Ops
<1>14. ASSUME NEW p \in Procs, Update(p) PROVE TypeOK'
    <2>1. CASE Goto(p, "outbox") /\ UNCHANGED call
        BY <1>0, <1>14, <2>1 DEF TypeOK, Calls, Ops, PCs, Terminal, Update, Goto,
           StatusOf, Terminal
    <2>2. CASE ReturnError(p)
        BY <1>0, <1>14, <2>2 DEF TypeOK, Calls, Ops, PCs, Terminal, Update,
           ReturnError, NoCall, StatusOf, Terminal
    <2> QED
        BY <1>14, <2>1, <2>2 DEF Update
<1>15. ASSUME NEW p \in Procs, SaveOutbox(p) PROVE TypeOK'
    <2>1. OutboxEvent(p) \in OutboxEvents
        BY <1>0, <1>15 DEF TypeOK, CallInv, Saved, SaveOutbox, OutboxEvent,
           OutboxEvents, EventTypes, EventTypeOf, Calls, Ops
    <2>2. CASE ReturnOk(p) /\ UNCHANGED call
        BY <1>0, <1>15, <2>1, <2>2 DEF TypeOK, Calls, Ops, PCs, Terminal, SaveOutbox,
           ReturnOk
    <2>3. CASE ReturnError(p)
        BY <1>0, <1>15, <2>1, <2>3 DEF TypeOK, Calls, Ops, PCs, Terminal, SaveOutbox,
           ReturnError, NoCall
    <2> QED
        BY <1>15, <2>2, <2>3 DEF SaveOutbox
<1>16. ASSUME NEW p \in Procs, Abort(p) PROVE TypeOK'
    BY <1>0, <1>16 DEF TypeOK, Calls, Ops, PCs, Terminal, Abort, ReturnError, NoCall,
       tables
<1> QED
    BY <1>1, <1>2, <1>3, <1>4, <1>5, <1>6, <1>7, <1>8, <1>9, <1>10, <1>11, <1>12,
       <1>13, <1>14, <1>15, <1>16 DEF Next

\* Every step keeps what the calls know of their transactions.
LEMMA CallStep == IInv /\ [Next]_vars => CallInv'
<1> SUFFICES ASSUME IInv, [Next]_vars PROVE CallInv'
    OBVIOUS
<1>0. TypeOK /\ CallInv
    BY DEF IInv, TableInv
<1>1. CASE UNCHANGED vars
    BY <1>0, <1>1 DEF TypeOK, CallInv, Saved, Calls, vars
<1>2. ASSUME NEW p \in Procs, BeginInitiate(p) PROVE CallInv'
    <2>1. CASE NewTransaction(p, NoKey)
        BY <1>0, <1>2, <2>1 DEF TypeOK, CallInv, Saved, Calls, BeginInitiate, tables,
           NewTransaction, Goto
    <2>2. ASSUME NEW k \in Keys,
               call' = [call EXCEPT ![p] = [op |-> "InitiateTransfer", key |-> k, tx |-> NoTx]],
               Goto(p, "lookup")
        PROVE CallInv'
        BY <1>0, <1>2, <2>2 DEF TypeOK, CallInv, Saved, Calls, BeginInitiate, tables,
           Goto
    <2> QED
        BY <1>2, <2>1, <2>2 DEF BeginInitiate
<1>3. ASSUME NEW p \in Procs, InvalidTransfer(p) PROVE CallInv'
    BY <1>0, <1>3 DEF TypeOK, CallInv, Saved, Calls, InvalidTransfer, ReturnError,
       NoCall, tables
<1>4. ASSUME NEW p \in Procs, LookupHit(p) PROVE CallInv'
    BY <1>0, <1>4 DEF TypeOK, CallInv, Saved, Calls, LookupHit, ReturnOk, tables
<1>5. ASSUME NEW p \in Procs, LookupMiss(p) PROVE CallInv'
    BY <1>0, <1>5 DEF TypeOK, CallInv, Saved, Calls, LookupMiss, NewTransaction, Goto,
       tables
<1>6. ASSUME NEW p \in Procs, FraudPasses(p) PROVE CallInv'
    BY <1>0, <1>6 DEF TypeOK, CallInv, Saved, Calls, FraudPasses, Goto, tables
<1>7. ASSUME NEW p \in Procs, FraudRejects(p) PROVE CallInv'
    BY <1>0, <1>7 DEF TypeOK, CallInv, Saved, Calls, FraudRejects, ReturnError,
       NoCall, tables
<1>8. ASSUME NEW p \in Procs, Save(p) PROVE CallInv'
    <2>1. CASE Goto(p, "outbox") /\ UNCHANGED call
        BY <1>0, <1>8, <2>1 DEF TypeOK, CallInv, Saved, Calls, Save, SavedRow, Goto
    <2>2. CASE ReturnError(p)
        BY <1>0, <1>8, <2>2 DEF TypeOK, CallInv, Saved, Calls, Save, SavedRow,
           ReturnError, NoCall
    <2> QED
        BY <1>8, <2>1, <2>2 DEF Save
<1>9. ASSUME NEW p \in Procs, SaveConflict(p) PROVE CallInv'
    BY <1>0, <1>9 DEF TypeOK, CallInv, Saved, Calls, SaveConflict, ReturnError,
       NoCall, tables
<1>10. ASSUME NEW p \in Procs, BeginOnTransaction(p) PROVE CallInv'
    BY <1>0, <1>10 DEF TypeOK, CallInv, Saved, Calls, BeginOnTransaction, Goto,
       tables, Ops
<1>11. ASSUME NEW p \in Procs, FindRefused(p) PROVE CallInv'
    BY <1>0, <1>11 DEF TypeOK, CallInv, Saved, Calls, FindRefused, ReturnError,
       NoCall, tables
<1>12. ASSUME NEW p \in Procs, GetTransaction(p) PROVE CallInv'
    BY <1>0, <1>12 DEF TypeOK, CallInv, Saved, Calls, GetTransaction, ReturnOk, tables
<1>13. ASSUME NEW p \in Procs, FindPending(p) PROVE CallInv'
    BY <1>0, <1>13 DEF TypeOK, CallInv, Saved, Calls, FindPending, Goto, tables, Ops
<1>14. ASSUME NEW p \in Procs, Update(p) PROVE CallInv'
    <2>1. CASE Goto(p, "outbox") /\ UNCHANGED call
        BY <1>0, <1>14, <2>1 DEF TypeOK, CallInv, Saved, Calls, Update, Goto,
           StatusOf, Terminal
    <2>2. CASE ReturnError(p)
        BY <1>0, <1>14, <2>2 DEF TypeOK, CallInv, Saved, Calls, Update, ReturnError,
           NoCall, StatusOf, Terminal
    <2> QED
        BY <1>14, <2>1, <2>2 DEF Update
<1>15. ASSUME NEW p \in Procs, SaveOutbox(p) PROVE CallInv'
    <2>1. CASE ReturnOk(p) /\ UNCHANGED call
        BY <1>0, <1>15, <2>1 DEF TypeOK, CallInv, Saved, Calls, SaveOutbox, ReturnOk
    <2>2. CASE ReturnError(p)
        BY <1>0, <1>15, <2>2 DEF TypeOK, CallInv, Saved, Calls, SaveOutbox,
           ReturnError, NoCall
    <2> QED
        BY <1>15, <2>1, <2>2 DEF SaveOutbox
<1>16. ASSUME NEW p \in Procs, Abort(p) PROVE CallInv'
    BY <1>0, <1>16 DEF TypeOK, CallInv, Saved, Calls, Abort, ReturnError, NoCall,
       tables
<1> QED
    BY <1>1, <1>2, <1>3, <1>4, <1>5, <1>6, <1>7, <1>8, <1>9, <1>10, <1>11, <1>12,
       <1>13, <1>14, <1>15, <1>16 DEF Next

\* A transfer is announced by one call only.
LEMMA StartStep == IInv /\ [Next]_vars => StartInv'
<1> SUFFICES ASSUME IInv, [Next]_vars PROVE StartInv'
    OBVIOUS
<1>0. TypeOK /\ CallInv /\ StartInv /\ EventsFollowState
    BY DEF IInv, TableInv
<1>1. CASE UNCHANGED vars
    BY <1>0, <1>1 DEF TypeOK, CallInv, Saved, Calls, StartInv, Announcing, HasEvent,
       vars
<1>2. ASSUME NEW p \in Procs, BeginInitiate(p) PROVE StartInv'
    <2>1. CASE NewTransaction(p, NoKey)
        BY <1>0, <1>2, <2>1 DEF TypeOK, CallInv, Saved, Calls, StartInv, Announcing,
           HasEvent, BeginInitiate, tables, NewTransaction, Goto
    <2>2. ASSUME NEW k \in Keys,
               call' = [call EXCEPT ![p] = [op |-> "InitiateTransfer", key |-> k, tx |-> NoTx]],
               Goto(p, "lookup")
        PROVE StartInv'
        BY <1>0, <1>2, <2>2 DEF TypeOK, CallInv, Saved, Calls, StartInv, Announcing,
           HasEvent, BeginInitiate, tables, Goto
    <2> QED
        BY <1>2, <2>1, <2>2 DEF BeginInitiate
<1>3. ASSUME NEW p \in Procs, InvalidTransfer(p) PROVE StartInv'
    BY <1>0, <1>3 DEF TypeOK, CallInv, Saved, Calls, StartInv, Announcing, HasEvent,
       InvalidTransfer, ReturnError, NoCall, tables
<1>4. ASSUME NEW p \in Procs, LookupHit(p) PROVE StartInv'
    BY <1>0, <1>4 DEF TypeOK, CallInv, Saved, Calls, StartInv, Announcing, HasEvent,
       LookupHit, ReturnOk, tables
<1>5. ASSUME NEW p \in Procs, LookupMiss(p) PROVE StartInv'
    BY <1>0, <1>5 DEF TypeOK, CallInv, Saved, Calls, StartInv, Announcing, HasEvent,
       LookupMiss, NewTransaction, Goto, tables
<1>6. ASSUME NEW p \in Procs, FraudPasses(p) PROVE StartInv'
    BY <1>0, <1>6 DEF TypeOK, CallInv, Saved, Calls, StartInv, Announcing, HasEvent,
       FraudPasses, Goto, tables
<1>7. ASSUME NEW p \in Procs, FraudRejects(p) PROVE StartInv'
    BY <1>0, <1>7 DEF TypeOK, CallInv, Saved, Calls, StartInv, Announcing, HasEvent,
       FraudRejects, ReturnError, NoCall, tables
<1>8. ASSUME NEW p \in Procs, Save(p) PROVE StartInv'
    <2>1. CASE Goto(p, "outbox") /\ UNCHANGED call
        BY <1>0, <1>8, <2>1 DEF TypeOK, CallInv, Saved, Calls, StartInv, Announcing,
           HasEvent, EventsFollowState, Save, SavedRow, Goto
    <2>2. CASE ReturnError(p)
        BY <1>0, <1>8, <2>2 DEF TypeOK, CallInv, Saved, Calls, StartInv, Announcing,
           HasEvent, EventsFollowState, Save, SavedRow, ReturnError, NoCall
    <2> QED
        BY <1>8, <2>1, <2>2 DEF Save
<1>9. ASSUME NEW p \in Procs, SaveConflict(p) PROVE StartInv'
    BY <1>0, <1>9 DEF TypeOK, CallInv, Saved, Calls, StartInv, Announcing, HasEvent,
       SaveConflict, ReturnError, NoCall, tables
<1>10. ASSUME NEW p \in Procs, BeginOnTransaction(p) PROVE StartInv'
    BY <1>0, <1>10 DEF TypeOK, CallInv, Saved, Calls, StartInv, Announcing, HasEvent,
       BeginOnTransaction, Goto, tables, Ops
<1>11. ASSUME NEW p \in Procs, FindRefused(p) PROVE StartInv'
    BY <1>0, <1>11 DEF TypeOK, CallInv, Saved, Calls, StartInv, Announcing, HasEvent,
       FindRefused, ReturnError, NoCall, tables
<1>12. ASSUME NEW p \in Procs, GetTransaction(p) PROVE StartInv'
    BY <1>0, <1>12 DEF TypeOK, CallInv, Saved, Calls, StartInv, Announcing, HasEvent,
       GetTransaction, ReturnOk, tables
<1>13. ASSUME NEW p \in Procs, FindPending(p) PROVE StartInv'
    BY <1>0, <1>13 DEF TypeOK, CallInv, Saved, Calls, StartInv, Announcing, HasEvent,
       FindPending, Goto, tables, Ops
<1>14. ASSUME NEW p \in Procs, Update(p) PROVE StartInv'
    <2>1. CASE Goto(p, "outbox") /\ UNCHANGED call
        BY <1>0, <1>14, <2>1 DEF TypeOK, CallInv, Saved, Calls, StartInv, Announcing,
           HasEvent, Update, Goto, StatusOf, Terminal
    <2>2. CASE ReturnError(p)
        BY <1>0, <1>14, <2>2 DEF TypeOK, CallInv, Saved, Calls, StartInv, Announcing,
           HasEvent, Update, ReturnError, NoCall, StatusOf, Terminal
    <2> QED
        BY <1>14, <2>1, <2>2 DEF Update
<1>15. ASSUME NEW p \in Procs, SaveOutbox(p) PROVE StartInv'
    <2>1. Grown(p)
        BY <1>0, <1>15, OutboxGrows
    <2>2. CASE ReturnOk(p) /\ UNCHANGED call
        BY <1>0, <1>15, <2>1, <2>2 DEF TypeOK, CallInv, Saved, Calls, StartInv,
           Announcing, HasEvent, EventTypeOf, OutboxEvent, Grown, Ops, SaveOutbox, ReturnOk
    <2>3. CASE ReturnError(p)
        BY <1>0, <1>15, <2>1, <2>3 DEF TypeOK, CallInv, Saved, Calls, StartInv,
           Announcing, HasEvent, EventTypeOf, OutboxEvent, Grown, Ops, SaveOutbox,
           ReturnError, NoCall
    <2> QED
        BY <1>15, <2>2, <2>3 DEF SaveOutbox
<1>16. ASSUME NEW p \in Procs, Abort(p) PROVE StartInv'
    BY <1>0, <1>16 DEF TypeOK, CallInv, Saved, Calls, StartInv, Announcing, HasEvent,
       Abort, ReturnError, NoCall, tables
<1> QED
    BY <1>1, <1>2, <1>3, <1>4, <1>5, <1>6, <1>7, <1>8, <1>9, <1>10, <1>11, <1>12,
       <1>13, <1>14, <1>15, <1>16 DEF Next

\* An acknowledged decision stays announced.
LEMMA AckStep == IInv /\ [Next]_vars => AcksAnnounced'
<1> SUFFICES ASSUME IInv, [Next]_vars PROVE AcksAnnounced'
    OBVIOUS
<1>0. TypeOK /\ CallInv /\ AcksAnnounced
    BY DEF IInv, TableInv
<1>1. CASE UNCHANGED vars
    BY <1>0, <1>1 DEF TypeOK, CallInv, Saved, Calls, AcksAnnounced, HasEvent, vars
<1>2. ASSUME NEW p \in Procs, BeginInitiate(p) PROVE AcksAnnounced'
    <2>1. CASE NewTransaction(p, NoKey)
        BY <1>0, <1>2, <2>1 DEF TypeOK, CallInv, Saved, Calls, AcksAnnounced,
           HasEvent, BeginInitiate, tables, NewTransaction, Goto
    <2>2. ASSUME NEW k \in Keys,
               call' = [call EXCEPT ![p] = [op |-> "InitiateTransfer", key |-> k, tx |-> NoTx]],
               Goto(p, "lookup")
        PROVE AcksAnnounced'
        BY <1>0, <1>2, <2>2 DEF TypeOK, CallInv, Saved, Calls, AcksAnnounced,
           HasEvent, BeginInitiate, tables, Goto
    <2> QED
        BY <1>2, <2>1, <2>2 DEF BeginInitiate
<1>3. ASSUME NEW p \in Procs, InvalidTransfer(p) PROVE AcksAnnounced'
    BY <1>0, <1>3 DEF TypeOK, CallInv, Saved, Calls, AcksAnnounced, HasEvent,
       InvalidTransfer, ReturnError, NoCall, tables
<1>4. ASSUME NEW p \in Procs, LookupHit(p) PROVE AcksAnnounced'
    BY <1>0, <1>4 DEF TypeOK, CallInv, Saved, Calls, AcksAnnounced, HasEvent,
       LookupHit, ReturnOk, tables
<1>5. ASSUME NEW p \in Procs, LookupMiss(p) PROVE AcksAnnounced'
    BY <1>0, <1>5 DEF TypeOK, CallInv, Saved, Calls, AcksAnnounced, HasEvent,
       LookupMiss, NewTransaction, Goto, tables
<1>6. ASSUME NEW p \in Procs, FraudPasses(p) PROVE AcksAnnounced'
    BY <1>0, <1>6 DEF TypeOK, CallInv, Saved, Calls, AcksAnnounced, HasEvent,
       FraudPasses, Goto, tables
<1>7. ASSUME NEW p \in Procs, FraudRejects(p) PROVE AcksAnnounced'
    BY <1>0, <1>7 DEF TypeOK, CallInv, Saved, Calls, AcksAnnounced, HasEvent,
       FraudRejects, ReturnError, NoCall, tables
<1>8. ASSUME NEW p \in Procs, Save(p) PROVE AcksAnnounced'
    <2>1. CASE Goto(p, "outbox") /\ UNCHANGED call
        BY <1>0, <1>8, <2>1 DEF TypeOK, CallInv, Saved, Calls, AcksAnnounced,
           HasEvent, Save, SavedRow, Goto
    <2>2. CASE ReturnError(p)
        BY <1>0, <1>8, <2>2 DEF TypeOK, CallInv, Saved, Calls, AcksAnnounced,
           HasEvent, Save, SavedRow, ReturnError, NoCall
    <2> QED
        BY <1>8, <2>1, <2>2 DEF Save
<1>9. ASSUME NEW p \in Procs, SaveConflict(p) PROVE AcksAnnounced'
    BY <1>0, <1>9 DEF TypeOK, CallInv, Saved, Calls, AcksAnnounced, HasEvent,
       SaveConflict, ReturnError, NoCall, tables
<1>10. ASSUME NEW p \in Procs, BeginOnTransaction(p) PROVE AcksAnnounced'
    BY <1>0, <1>10 DEF TypeOK, CallInv, Saved, Calls, AcksAnnounced, HasEvent,
       BeginOnTransaction, Goto, tables, Ops
<1>11. ASSUME NEW p \in Procs, FindRefused(p) PROVE AcksAnnounced'
    BY <1>0, <1>11 DEF TypeOK, CallInv, Saved, Calls, AcksAnnounced, HasEvent,
       FindRefused, ReturnError, NoCall, tables
<1>12. ASSUME NEW p \in Procs, GetTransaction(p) PROVE AcksAnnounced'
    BY <1>0, <1>12 DEF TypeOK, CallInv, Saved, Calls, AcksAnnounced, HasEvent,
       GetTransaction, ReturnOk, tables
<1>13. ASSUME NEW p \in Procs, FindPending(p) PROVE AcksAnnounced'
    BY <1>0, <1>13 DEF TypeOK, CallInv, Saved, Calls, AcksAnnounced, HasEvent,
       FindPending, Goto, tables, Ops
<1>14. ASSUME NEW p \in Procs, Update(p) PROVE AcksAnnounced'
    <2>1. CASE Goto(p, "outbox") /\ UNCHANGED call
        BY <1>0, <1>14, <2>1 DEF TypeOK, CallInv, Saved, Calls, AcksAnnounced,
           HasEvent, Update, Goto, StatusOf, Terminal
    <2>2. CASE ReturnError(p)
        BY <1>0, <1>14, <2>2 DEF TypeOK, CallInv, Saved, Calls, AcksAnnounced,
           HasEvent, Update, ReturnError, NoCall, StatusOf, Terminal
    <2> QED
        BY <1>14, <2>1, <2>2 DEF Update
<1>15. ASSUME NEW p \in Procs, SaveOutbox(p) PROVE AcksAnnounced'
    <2>1. Grown(p)
        BY <1>0, <1>15, OutboxGrows
    <2>2. \A type, t : HasEvent(type, t) => HasEvent(type, t)'
        BY <2>1 DEF HasEvent, Grown
    <2>3. ASSUME UNCHANGED call PROVE HasEvent(EventTypeOf(call[p].op), call[p].tx)'
        BY <2>1, <2>3, Len(outbox) + 1 \in DOMAIN outbox' DEF HasEvent, Grown, OutboxEvent, EventTypeOf
    <2>4. CASE ReturnOk(p) /\ UNCHANGED call
        BY <1>0, <1>15, <2>2, <2>3, <2>4 DEF TypeOK, AcksAnnounced, SaveOutbox, ReturnOk, EventTypeOf
    <2>5. CASE ReturnError(p)
        BY <1>0, <1>15, <2>2, <2>5 DEF TypeOK, AcksAnnounced, SaveOutbox, ReturnError, NoCall
    <2> QED
        BY <1>15, <2>4, <2>5 DEF SaveOutbox
<1>16. ASSUME NEW p \in Procs, Abort(p) PROVE AcksAnnounced'
    BY <1>0, <1>16 DEF TypeOK, CallInv, Saved, Calls, AcksAnnounced, HasEvent, Abort,
       ReturnError, NoCall, tables
<1> QED
    BY <1>1, <1>2, <1>3, <1>4, <1>5, <1>6, <1>7, <1>8, <1>9, <1>10, <1>11, <1>12,
       <1>13, <1>14, <1>15, <1>16 DEF Next

\* The tables keep agreeing with each other.
LEMMA TableStep == IInv /\ [Next]_vars => TableInv'
<1> SUFFICES ASSUME IInv, [Next]_vars PROVE TableInv'
    OBVIOUS
<1>0. /\ TypeOK /\ CallInv /\ StartInv
      /\ OneTransactionPerKey /\ EventsFollowState /\ InitiatedDistinct
    BY DEF IInv, TableInv
<1>1. CASE UNCHANGED tables
    BY <1>0, <1>1 DEF tables, TableInv, OneTransactionPerKey, EventsFollowState, InitiatedDistinct
<1>2. ASSUME NEW p \in Procs, Save(p) PROVE TableInv'
    <2>1. /\ call[p].tx \in Txs /\ status[call[p].tx] = "none"
          /\ UNCHANGED outbox
        BY <1>0, <1>2 DEF CallInv, Save
    <2>2. OneTransactionPerKey'
        BY <1>0, <1>2, <2>1 DEF TypeOK, OneTransactionPerKey, Save, SavedRow, KeyTaken
    <2>3. EventsFollowState' /\ InitiatedDistinct'
        BY <1>0, <1>2, <2>1 DEF TypeOK, EventsFollowState, InitiatedDistinct, Save, SavedRow, OutboxEvents, Terminal
    <2> QED
        BY <2>2, <2>3 DEF TableInv
<1>3. ASSUME NEW p \in Procs, Update(p) PROVE TableInv'
    <2>1. Saved(p) /\ UNCHANGED <<key, outbox>>
        BY <1>0, <1>3 DEF CallInv, Update
    <2>2. OneTransactionPerKey' /\ InitiatedDistinct'
        BY <1>0, <1>3, <2>1 DEF TypeOK, Saved, OneTransactionPerKey, InitiatedDistinct, Update
    <2>3. EventsFollowState'
        BY <1>0, <1>3, <2>1 DEF TypeOK, Saved, EventsFollowState, Update, StatusOf, Terminal, OutboxEvents
    <2> QED
        BY <2>2, <2>3 DEF TableInv
<1>4. ASSUME NEW p \in Procs, SaveOutbox(p) PROVE TableInv'
    <2>1. Grown(p)
        BY <1>0, <1>4, OutboxGrows
    <2>2. UNCHANGED <<status, key>> /\ pc[p] = "outbox"
        BY <1>4 DEF SaveOutbox
    <2>3. OneTransactionPerKey'
        BY <1>0, <2>2 DEF OneTransactionPerKey
    <2>4. /\ OutboxEvent(p).tx = call[p].tx
          /\ OutboxEvent(p).type = "TransactionInitiated" <=> call[p].op = "InitiateTransfer"
        BY <1>0, <2>2 DEF TypeOK, CallInv, OutboxEvent, EventTypeOf, Calls, Ops
    <2>5. EventsFollowState'
        BY <1>0, <2>1, <2>2, <2>4 DEF CallInv, Saved, EventsFollowState, Grown
    <2>6. ASSUME NEW i \in DOMAIN outbox, outbox[i].type = "TransactionInitiated",
                 call[p].op = "InitiateTransfer"
          PROVE  outbox[i].tx # call[p].tx
        <3>1. outbox[i] = [type |-> outbox[i].type, tx |-> outbox[i].tx]
            BY <1>0, EventsAreEvents DEF OutboxEvents
        <3> QED
            BY <1>0, <2>2, <2>6, <3>1 DEF StartInv, Announcing, HasEvent
    <2>7. InitiatedDistinct'
        BY <1>0, <2>1, <2>4, <2>6 DEF InitiatedDistinct, Grown
    <2> QED
        BY <2>3, <2>5, <2>7 DEF TableInv
<1> QED
    BY <1>1, <1>2, <1>3, <1>4
       DEF Next, vars, tables, BeginInitiate, InvalidTransfer, LookupHit, LookupMiss, FraudPasses,
           FraudRejects, SaveConflict, BeginOnTransaction, FindRefused, GetTransaction,
           FindPending, Abort

-----------------------------------------------------------------------------
(* The theorems.                                                           *)

\* The empty tables and idle processes of Init satisfy the invariant.
LEMMA InitIInv == Init => IInv
BY DEF Init, IInv, TypeOK, TableInv, OneTransactionPerKey, EventsFollowState, InitiatedDistinct,
       CallInv, StartInv, Announcing, AcksAnnounced, NoCall, Calls, Ops, PCs, Terminal

\* Every step preserves the invariant.
LEMMA StepIInv == IInv /\ [Next]_vars => IInv'
BY TypeStep, CallStep, StartStep, AckStep, TableStep DEF IInv

\* The inductive invariant holds in every state of every behaviour.
LEMMA IInvHolds == Spec => []IInv
BY InitIInv, StepIInv, PTL DEF Spec

\* TypeOK is an invariant: the tables and the calls keep their types, and no
\* operation makes a transaction COMPENSATED.
THEOREM TypeCorrect == Spec => []TypeOK
BY IInvHolds, PTL DEF IInv

\* InitiateTransfer makes one transaction for an idempotency key, however
\* many calls with the key overlap, miss in the lookup or fail half way.
THEOREM KeysAreUnique == Spec => []OneTransactionPerKey
BY IInvHolds, PTL DEF IInv, TableInv

\* Successful replies for one idempotency key name the same transaction.
THEOREM IdempotentReplies == Spec => []RepliesAgree
<1>1. IInv => RepliesAgree
    BY DEF IInv, TableInv, CallInv, Saved, OneTransactionPerKey, RepliesAgree
<1> QED
    BY IInvHolds, <1>1, PTL

\* The events of the outbox are about saved transactions, and those that
\* announce a decision are about decided ones.
THEOREM EventsAreTrue == Spec => []EventsFollowState
BY IInvHolds, PTL DEF IInv, TableInv

\* A transfer, and the transfers of one idempotency key, are announced by
\* one TransactionInitiated event.
THEOREM SagasStartOnce == Spec => []StartedOnce
<1>1. ASSUME IInv PROVE StartedOnce
    <2>1. \A i \in DOMAIN outbox : outbox[i].tx \in Txs
        BY <1>1, EventsAreEvents DEF IInv, OutboxEvents
    <2> QED
        BY <1>1, <2>1 DEF IInv, TableInv, OneTransactionPerKey, EventsFollowState,
                          InitiatedDistinct, StartedOnce
<1> QED
    BY IInvHolds, <1>1, PTL

\* CompleteTransaction and FailTransaction report success only when their
\* event is in the outbox.
THEOREM AcknowledgedIsAnnounced == Spec => []AcksAnnounced
BY IInvHolds, PTL DEF IInv

\* A decided transaction is never pending again, and keeps its key.
THEOREM DecisionsLast == Spec => DecidedStaysDecided
<1> DEFINE Kept == \A t \in Txs :
        /\ status[t] # "none" => status'[t] # "none" /\ key'[t] = key[t]
        /\ status[t] \in Terminal => status'[t] \in Terminal
<1>1. ASSUME IInv, [Next]_vars PROVE [Kept]_<<status, key>>
    <2>0. TypeOK /\ CallInv
        BY <1>1 DEF IInv
    <2>1. ASSUME NEW p \in Procs, Save(p) PROVE Kept
        BY <2>0, <2>1 DEF TypeOK, CallInv, Save, SavedRow, Terminal
    <2>2. ASSUME NEW p \in Procs, Update(p) PROVE Kept
        BY <2>0, <2>2 DEF TypeOK, CallInv, Saved, Update, StatusOf, Terminal
    <2>3. CASE UNCHANGED <<status, key>>
        BY <2>3
    <2> QED
        BY <1>1, <2>1, <2>2, <2>3
           DEF Next, vars, tables, BeginInitiate, InvalidTransfer, LookupHit, LookupMiss,
               FraudPasses, FraudRejects, SaveConflict, BeginOnTransaction, FindRefused,
               GetTransaction, FindPending, SaveOutbox, Abort
<1> QED
    BY IInvHolds, <1>1, PTL DEF Spec, DecidedStaysDecided

-----------------------------------------------------------------------------
(* The transfer saga: its inductive invariant.                             *)

\* The lemmas about the wallet's consumer group, for the topic as it is here.
WalletP == INSTANCE SagaConsumerProofs WITH
    Feed <- <<>>, topic <- Records, outbox <- walletOutbox, pc <- walletpc

\* What is in the topic are rows of outbox_events.
LogInv == log \in Seq(Nat) /\ \A i \in DOMAIN log : log[i] \in DOMAIN outbox

WalletInv == WalletP!TypeOK /\ WalletP!EffectsInv

\* The reader of the partition is one of the instances, and an instance that
\* is busy is at a record of the topic.
InstancesOK ==
    /\ reader \in Senders /\ sendNext \in 0..Len(log)
    /\ sending \in [Senders -> 0..Len(log)] /\ sendLast \in [Senders -> 0..Len(log)]
    /\ notifypc \in [Senders -> Notification!PCs]
    /\ \A c \in Senders : notifypc[c] # "idle" => sending[c] > 0

\* c may notify event i without a fault: it is past IsProcessed with it, or,
\* while i is not marked, has the partition or handles records.
MaySend(c, i) ==
    IF i \in notified
    THEN notifypc[c] = "send" /\ log[sending[c]] = i
    ELSE (c = reader \/ notifypc[c] # "idle") /\ ~ (notifypc[c] = "mark" /\ log[sending[c]] = i)

MaySenders(i) == {c \in Senders : MaySend(c, i)}

SentOf(i) == Wallet!Copies(i, sent) + Cardinality(MaySenders(i)) <= 1 + faults

\* Only one instance may notify an event first; a fault may let one more.
NotifyInv ==
    /\ IsABag(sent) /\ BagToSet(sent) \subseteq DOMAIN outbox
    /\ InstancesOK
    /\ \A i : SentOf(i)

SagaInv == IInv /\ LogInv /\ WalletInv /\ NotifyInv

-----------------------------------------------------------------------------
(* The wallet's consumer group.                                            *)

\* What the group assumes of its constants, for a topic that is empty at
\* first.
LEMMA WalletConstants ==
    /\ WalletP!IsFiniteSet(Members) /\ NoMember \notin Members
    /\ <<>> \in Seq([event : {<<>>[i].event : i \in DOMAIN <<>>}, type : WalletP!RecordTypes])
    /\ \A i, j \in DOMAIN <<>> : <<>>[i].event = <<>>[j].event => <<>>[i] = <<>>[j]
    /\ MaxFaults \in Nat
BY TransferAssumption DEF IsFiniteSet, WalletP!IsFiniteSet

\* The topic as the consumers see it.
RecordsOK ==
    /\ WalletP!IsPartition /\ Len(Records) = Len(log) /\ DOMAIN Records = DOMAIN log
    /\ Len(log) \in Nat /\ DOMAIN log = 1..Len(log)
    /\ \A i \in DOMAIN log : /\ Records[i] = [event |-> log[i], type |-> outbox[log[i]].type]
                             /\ Records[i].type \in WalletP!RecordTypes

\* Its records are those of the rows.
LEMMA RecordsFacts == TypeOK /\ LogInv => RecordsOK
<1> HAVE TypeOK /\ LogInv
<1>1. Len(log) \in Nat /\ DOMAIN log = 1..Len(log)
    BY DEF LogInv
<1>2. DOMAIN Records = 1..Len(log) /\ Len(Records) = Len(log)
    BY <1>1 DEF Records
<1>3. \A i \in DOMAIN log : Records[i] = [event |-> log[i], type |-> outbox[log[i]].type]
    BY DEF Records
<1>4. \A i \in DOMAIN log : outbox[log[i]].type \in EventTypes
    BY EventsAreEvents DEF LogInv, OutboxEvents
<1>5. EventTypes \subseteq WalletP!RecordTypes
    BY DEF EventTypes, WalletP!RecordTypes, WalletP!SagaTypes
<1> QED BY <1>1, <1>2, <1>3, <1>4, <1>5 DEF WalletP!IsPartition, RecordsOK

\* A step that leaves the group alone: rows are added to the table, records to
\* the topic, or the notification service has a fault.
Quiet ==
    /\ \A i \in DOMAIN outbox : i \in DOMAIN outbox' /\ outbox'[i] = outbox[i]
    /\ Len(log) <= Len(log') /\ \A i \in DOMAIN log : log'[i] = log[i]
    /\ faults' \in {faults, faults + 1} /\ faults' <= MaxFaults
    /\ UNCHANGED walletVars

\* Such a step is outside the group.
LEMMA QuietIsOutside ==
    ASSUME TypeOK, LogInv, TypeOK', LogInv', Quiet
    PROVE  WalletP!Outside
<1>1. RecordsOK
    BY RecordsFacts
<1>2. RecordsOK'
    BY RecordsFacts, PTL
<1>3. \A i \in DOMAIN log : Records'[i] = Records[i]
    <2> TAKE i \in DOMAIN log
    <2>1. i \in DOMAIN log' /\ log'[i] = log[i] /\ outbox'[log[i]] = outbox[log[i]]
        BY <1>1, <1>2 DEF Quiet, LogInv, RecordsOK
    <2> QED BY <1>1, <1>2, <2>1 DEF RecordsOK
<1>4. Len(Records) <= Len(Records') /\ DOMAIN Records = DOMAIN log /\ DOMAIN Records' = DOMAIN log'
    BY <1>1, <1>2 DEF Quiet, RecordsOK
<1>5. WalletP!IsPartition' /\ \A i \in DOMAIN Records' : Records'[i].type \in WalletP!RecordTypes
    BY <1>2 DEF RecordsOK
<1>6. /\ faults' \in {faults, faults + 1} /\ faults' <= MaxFaults
      /\ UNCHANGED <<owner, committed, effects, walletOutbox, processed, failed, refused,
                     walletpc, next, cur, last, marked>>
    BY DEF Quiet, walletVars
<1> QED BY <1>3, <1>4, <1>5, <1>6, Zenon DEF WalletP!Outside

\* Nothing that is outside the group disturbs what is known of it.
LEMMA QuietKeepsWallet ==
    ASSUME TypeOK, LogInv, TypeOK', LogInv', Quiet, WalletInv
    PROVE  WalletInv'
<1>1. WalletP!IsPartition /\ WalletP!TypeOK /\ WalletP!Outside
    BY RecordsFacts, QuietIsOutside DEF RecordsOK, WalletInv
<1>2. WalletP!TypeOK'
    BY <1>1, WalletConstants, WalletP!OutsideType
<1>3. ASSUME NEW e PROVE WalletP!EffectsOf(e)'
    <2>1. WalletP!EffectsOf(e)
        BY DEF WalletInv, WalletP!EffectsInv
    <2> QED BY <1>1, <2>1, WalletConstants, WalletP!OutsideEffects
<1> QED BY <1>2, <1>3 DEF WalletInv, WalletP!EffectsInv

\* One more copy in a bag is the same for all the modules that say it.
LEMMA SameBags ==
    ASSUME NEW B, NEW x
    PROVE  /\ Wallet!(+)(B, Wallet!SetToBag({x})) = B (+) SetToBag({x})
           /\ WalletP!(+)(B, WalletP!SetToBag({x})) = B (+) SetToBag({x})
           /\ Notification!(+)(B, Notification!SetToBag({x})) = B (+) SetToBag({x})
BY DEF (+), SetToBag, Wallet!(+), Wallet!SetToBag, WalletP!(+), WalletP!SetToBag,
       Notification!(+), Notification!SetToBag

\* A step of the group is one of the module that its lemmas are about.
LEMMA GroupSteps ==
    ASSUME Wallet!GroupNext, UNCHANGED Records
    PROVE  [WalletP!Next]_(WalletP!vars)
<1>0. PICK c \in Members :
          \/ Wallet!Run(c) \/ Wallet!EffectUnconfirmed(c) \/ Wallet!StatementFails(c)
          \/ Wallet!Assign(c) \/ Wallet!Crash(c)
    BY DEF Wallet!GroupNext
<1>a. Wallet!Event(c) = WalletP!Event(c)
    BY DEF Wallet!Event, WalletP!Event
<1>b. Wallet!Emitted(c) = WalletP!Emitted(c)
    BY DEF Wallet!Event, WalletP!Event, Wallet!Type, WalletP!Type, Wallet!Emitted, WalletP!Emitted,
           Wallet!OutboxTypeOf, WalletP!OutboxTypeOf
<1>c. Wallet!(+)(effects, Wallet!SetToBag({Wallet!Event(c)}))
        = WalletP!(+)(effects, WalletP!SetToBag({WalletP!Event(c)}))
    BY <1>a, SameBags
<1>d. Wallet!(+)(walletOutbox, Wallet!SetToBag({Wallet!Emitted(c)}))
        = WalletP!(+)(walletOutbox, WalletP!SetToBag({WalletP!Emitted(c)}))
    BY <1>b, SameBags
<1>1. Wallet!Poll(c) => WalletP!Poll(c)
    BY DEF Wallet!Poll, WalletP!Poll, Wallet!group, WalletP!group, Wallet!tables, WalletP!tables,
           Wallet!history, WalletP!history
<1>2. Wallet!Commit(c) => WalletP!Commit(c)
    BY DEF Wallet!Commit, WalletP!Commit, Wallet!tables, WalletP!tables, Wallet!history,
           WalletP!history
<1>3. Wallet!Assign(c) => WalletP!Assign(c)
    BY DEF Wallet!Assign, WalletP!Assign, Wallet!Fault, WalletP!Fault, Wallet!tables, WalletP!tables,
           Wallet!history, WalletP!history
<1>4. Wallet!Crash(c) => WalletP!Crash(c)
    BY DEF Wallet!Crash, WalletP!Crash, Wallet!Fault, WalletP!Fault, Wallet!tables, WalletP!tables,
           Wallet!history, WalletP!history
<1>5. Wallet!Skip(c) => WalletP!Skip(c)
    BY DEF Wallet!Skip, WalletP!Skip, Wallet!Handled, WalletP!Handled, Wallet!NextRecord,
           WalletP!NextRecord, Wallet!Event, WalletP!Event, Wallet!Type, WalletP!Type,
           Wallet!SagaTypes, WalletP!SagaTypes, Wallet!group, WalletP!group, Wallet!tables,
           WalletP!tables, Wallet!history, WalletP!history
<1>6. Wallet!Begin(c) => WalletP!Begin(c)
    BY DEF Wallet!Begin, WalletP!Begin, Wallet!Event, WalletP!Event, Wallet!Type, WalletP!Type,
           Wallet!SagaTypes, WalletP!SagaTypes, Wallet!group, WalletP!group, Wallet!tables,
           WalletP!tables, Wallet!history, WalletP!history
<1>7. Wallet!Effect(c) => WalletP!Effect(c)
    BY <1>a, <1>c, <1>d DEF Wallet!Effect, WalletP!Effect, Wallet!group, WalletP!group, Wallet!history,
           WalletP!history
<1>8. Wallet!EffectRefused(c) => WalletP!EffectRefused(c)
    BY DEF Wallet!EffectRefused, WalletP!EffectRefused, Wallet!NextRecord, WalletP!NextRecord,
           Wallet!Event, WalletP!Event, Wallet!group, WalletP!group, Wallet!tables, WalletP!tables
<1>9. Wallet!EffectUnconfirmed(c) => WalletP!EffectUnconfirmed(c)
    BY <1>a, <1>c, <1>d DEF Wallet!EffectUnconfirmed, WalletP!EffectUnconfirmed, Wallet!HandlerError,
           WalletP!HandlerError, Wallet!NextRecord, WalletP!NextRecord, Wallet!Fault, WalletP!Fault,
           Wallet!group, WalletP!group
<1>10. Wallet!SaveOutbox(c) => WalletP!SaveOutbox(c)
    BY <1>a, <1>c, <1>d DEF Wallet!SaveOutbox, WalletP!SaveOutbox, Wallet!group, WalletP!group, Wallet!history,
           WalletP!history
<1>11. Wallet!MarkProcessed(c) => WalletP!MarkProcessed(c)
    BY DEF Wallet!MarkProcessed, WalletP!MarkProcessed, Wallet!Handled, WalletP!Handled,
           Wallet!NextRecord, WalletP!NextRecord, Wallet!Event, WalletP!Event, Wallet!group,
           WalletP!group, Wallet!history, WalletP!history
<1>12. Wallet!StatementFails(c) => WalletP!StatementFails(c)
    BY <1>a, <1>c, <1>d DEF Wallet!StatementFails, WalletP!StatementFails, Wallet!HandlerError, WalletP!HandlerError,
           Wallet!NextRecord, WalletP!NextRecord, Wallet!Fault, WalletP!Fault, Wallet!group,
           WalletP!group, Wallet!tables, WalletP!tables
<1>13. WalletP!GroupNext
    BY <1>0, <1>1, <1>2, <1>3, <1>4, <1>5, <1>6, <1>7, <1>8, <1>9, <1>10, <1>11, <1>12
       DEF Wallet!Run, WalletP!Run, WalletP!GroupNext
<1> QED BY <1>13 DEF WalletP!Next

\* The steps of the group keep what is known of it, and one has one fault at
\* most.
LEMMA GroupKeepsWallet ==
    ASSUME TypeOK, LogInv, WalletInv, Wallet!GroupNext, UNCHANGED Records
    PROVE  WalletInv' /\ faults' \in {faults, faults + 1} /\ faults' <= MaxFaults
<1>1. WalletP!IsPartition /\ WalletP!TypeOK /\ [WalletP!Next]_(WalletP!vars)
    BY RecordsFacts, GroupSteps DEF RecordsOK, WalletInv
<1>2. WalletP!TypeOK'
    BY <1>1, WalletConstants, WalletP!TypeStep
<1>3. ASSUME NEW e PROVE WalletP!EffectsOf(e)'
    <2>1. WalletP!EffectsOf(e)
        BY DEF WalletInv, WalletP!EffectsInv
    <2> QED BY <1>1, <2>1, WalletConstants, WalletP!EffectsStep
<1>4. faults' \in {faults, faults + 1} /\ faults' <= MaxFaults
    BY <1>1, WalletConstants, WalletP!FaultsGrow
<1> QED BY <1>2, <1>3, <1>4 DEF WalletInv, WalletP!EffectsInv

-----------------------------------------------------------------------------
(* The notifications.                                                      *)

\* The operators on bags are the same in all modules.
LEMMA SameCopies ==
    ASSUME NEW B
    PROVE  /\ IsABag(B) <=> WalletP!IsABag(B)
           /\ BagToSet(B) = WalletP!BagToSet(B)
           /\ \A x : Wallet!Copies(x, B) = WalletP!Copies(x, B)
           /\ \A x : BagIn(x, B) <=> x \in BagToSet(B)
BY DEF IsABag, BagToSet, BagIn, Wallet!BagIn, Wallet!BagToSet, WalletP!IsABag,
       WalletP!BagToSet, WalletP!BagIn, Wallet!Copies, WalletP!Copies

\* One more notification about an event.
LEMMA SentOnceMore ==
    ASSUME IsABag(sent), NEW x, sent' = Notification!(+)(sent, Notification!SetToBag({x}))
    PROVE  /\ IsABag(sent') /\ BagToSet(sent') = BagToSet(sent) \cup {x}
           /\ \A y : y # x => Wallet!Copies(y, sent') = Wallet!Copies(y, sent)
           /\ Wallet!Copies(x, sent') = Wallet!Copies(x, sent) + 1
<1> DEFINE s == WalletP!(+)(sent, WalletP!SetToBag({x}))
<1>1. sent' = s
    BY SameBags
<1>2. WalletP!IsABag(sent)
    BY SameCopies
<1>3. /\ WalletP!IsABag(s) /\ WalletP!BagToSet(s) = WalletP!BagToSet(sent) \cup {x}
      /\ \A y : y # x => WalletP!Copies(y, s) = WalletP!Copies(y, sent)
      /\ WalletP!Copies(x, s) = WalletP!Copies(x, sent) + 1
    BY <1>2, WalletConstants, WalletP!BagAdd
<1> HIDE DEF s
<1> QED BY <1>1, <1>3, SameCopies

\* The copies of an event in a bag can be counted.
LEMMA CopiesAreNat ==
    ASSUME NEW B, IsABag(B) PROVE \A x : Wallet!Copies(x, B) \in Nat
BY DEF IsABag, Wallet!Copies, Wallet!BagIn, Wallet!BagToSet

\* Sets of instances can be counted.
LEMMA CountSenders ==
    ASSUME NEW P \in SUBSET Senders, NEW Q \in SUBSET Senders
    PROVE  /\ Cardinality(P) \in Nat /\ Cardinality(Q) \in Nat
           /\ P \subseteq Q => Cardinality(P) <= Cardinality(Q)
           /\ \A c \in Senders : /\ c \notin P /\ P \cup {c} \subseteq Q => Cardinality(P) + 1 <= Cardinality(Q)
                                 /\ P \ {c} \subseteq Q => Cardinality(P) <= Cardinality(Q) + 1
BY TransferAssumption, CountSubsets

\* A step that leaves the notification service alone.
LEMMA QuietKeepsNotify ==
    ASSUME LogInv, NotifyInv, faults \in Nat, faults' \in {faults, faults + 1},
           \A i \in DOMAIN outbox : i \in DOMAIN outbox',
           Len(log') \in Nat, Len(log) <= Len(log'), \A i \in DOMAIN log : log'[i] = log[i],
           UNCHANGED notifyVars
    PROVE  NotifyInv'
<1>1. /\ sent' = sent /\ notified' = notified /\ reader' = reader /\ sendNext' = sendNext
      /\ sending' = sending /\ sendLast' = sendLast /\ notifypc' = notifypc
    BY DEF notifyVars
<1>2. \A c \in Senders : notifypc[c] # "idle" => log'[sending[c]] = log[sending[c]]
    BY DEF LogInv, NotifyInv, InstancesOK
<1>3. ASSUME NEW i PROVE SentOf(i)'
    <2>1. ASSUME NEW c \in Senders PROVE MaySend(c, i)' <=> MaySend(c, i)
        BY <1>1, <1>2 DEF MaySend
    <2>2. MaySenders(i)' = MaySenders(i)
        BY <2>1 DEF MaySenders
    <2>3. Wallet!Copies(i, sent) \in Nat /\ Cardinality(MaySenders(i)) \in Nat
        BY CopiesAreNat, CountSenders DEF NotifyInv, MaySenders
    <2>4. SentOf(i)
        BY DEF NotifyInv
    <2>5. Wallet!Copies(i, sent)' = Wallet!Copies(i, sent)
        BY <1>1 DEF Wallet!Copies, Wallet!BagIn, Wallet!BagToSet
    <2> DEFINE n == Cardinality(MaySenders(i))
    <2>6. SentOf(i)' <=> Wallet!Copies(i, sent) + n <= 1 + faults'
        BY <2>2, <2>5 DEF SentOf
    <2>7. n \in Nat /\ Wallet!Copies(i, sent) + n <= 1 + faults
        BY <2>3, <2>4 DEF SentOf
    <2> HIDE DEF n
    <2> QED BY <2>3, <2>6, <2>7
<1>4. IsABag(sent)' /\ BagToSet(sent)' \subseteq (DOMAIN outbox)'
    <2>1. IsABag(sent)' <=> IsABag(sent)
        BY <1>1 DEF IsABag
    <2>2. BagToSet(sent)' = BagToSet(sent)
        BY <1>1 DEF BagToSet
    <2> QED BY <2>1, <2>2 DEF NotifyInv
<1>5. InstancesOK'
    <2>1. InstancesOK /\ Len(log) \in Nat
        BY DEF NotifyInv, LogInv
    <2>2. 0..Len(log) \subseteq 0..Len(log')
        BY <2>1
    <2> QED BY <1>1, <2>1, <2>2 DEF InstancesOK
<1> QED BY <1>3, <1>4, <1>5 DEF NotifyInv

\* The event that an instance is at.
LEMMA HandledEvent ==
    ASSUME RecordsOK, LogInv, InstancesOK, NEW c \in Senders, notifypc[c] # "idle"
    PROVE  /\ sending[c] \in DOMAIN log /\ Notification!Event(c) = log[sending[c]]
           /\ log[sending[c]] \in DOMAIN outbox
<1>1. sending[c] \in DOMAIN log
    BY DEF RecordsOK, InstancesOK
<1>2. Records[sending[c]] = [event |-> log[sending[c]], type |-> outbox[log[sending[c]]].type]
    BY <1>1 DEF RecordsOK
<1> QED BY <1>1, <1>2 DEF Notification!Event, LogInv

-----------------------------------------------------------------------------
(* The kinds of steps of an instance of the notification service.          *)

\* The other instances stay where they are.
OthersStay(c) ==
    \A d \in Senders : d # c => notifypc'[d] = notifypc[d] /\ sending'[d] = sending[d]

\* One more notification.
SendStep(c) ==
    /\ notifypc[c] = "send" /\ reader' = reader /\ notified' = notified
    /\ sent' = Notification!(+)(sent, Notification!SetToBag({log[sending[c]]}))
    /\ \/ notifypc'[c] = "mark" /\ sending'[c] = sending[c] /\ faults' = faults
       \/ notifypc'[c] \in {"check", "idle"} /\ faults' = faults + 1
    /\ OthersStay(c)

\* The event is marked.
MarkStep(c) ==
    /\ notifypc[c] = "mark" /\ reader' = reader /\ sent' = sent
    /\ notified' = notified \cup {log[sending[c]]}
    /\ notifypc'[c] \in {"check", "idle"} /\ faults' \in {faults, faults + 1}
    /\ OthersStay(c)

\* The instance polls, goes on, or reports an error.
PlainStep(c) ==
    /\ reader' = reader /\ sent' = sent /\ notified' = notified
    /\ \/ notifypc'[c] \in {"check", "idle"}
       \/ notifypc'[c] = "send" /\ sending'[c] = sending[c] /\ log[sending[c]] \notin notified
    /\ \/ faults' = faults + 1
       \/ faults' = faults /\ notifypc[c] # "mark" /\ (c = reader \/ notifypc[c] # "idle")
    /\ OthersStay(c)

\* The partition moves, or an instance stops.
MoveStep ==
    /\ sent' = sent /\ notified' = notified /\ faults' = faults + 1
    /\ \A d \in Senders : \/ notifypc'[d] = notifypc[d] /\ sending'[d] = sending[d]
                          \/ notifypc'[d] = "idle"

\* What NextRecord does to the instance.
LEMMA SendersNext ==
    ASSUME InstancesOK, Len(log) \in Nat, NEW c \in Senders, Notification!NextRecord(c)
    PROVE  /\ notifypc'[c] \in {"check", "idle"} /\ OthersStay(c)
           /\ notifypc' \in [Senders -> Notification!PCs]
           /\ sending' \in [Senders -> 0..Len(log)] /\ sendLast' \in [Senders -> 0..Len(log)]
           /\ \A d \in Senders : notifypc'[d] # "idle" => sending'[d] > 0
<1>0. /\ sending \in [Senders -> 0..Len(log)] /\ sendLast \in [Senders -> 0..Len(log)]
      /\ notifypc \in [Senders -> Notification!PCs]
      /\ \A d \in Senders : notifypc[d] # "idle" => sending[d] > 0
    BY DEF InstancesOK
<1>1. CASE sending[c] < sendLast[c]
    <2>1. /\ sending' = [sending EXCEPT ![c] = sending[c] + 1] /\ sendLast' = sendLast
          /\ notifypc' = [notifypc EXCEPT ![c] = "check"]
        BY <1>1 DEF Notification!NextRecord
    <2>2. sending[c] + 1 \in 0..Len(log) /\ sending[c] + 1 > 0
        BY <1>0, <1>1
    <2> QED BY <1>0, <2>1, <2>2 DEF OthersStay, Notification!PCs
<1>2. CASE ~ (sending[c] < sendLast[c])
    <2>1. /\ sending' = [sending EXCEPT ![c] = 0] /\ sendLast' = [sendLast EXCEPT ![c] = 0]
          /\ notifypc' = [notifypc EXCEPT ![c] = "idle"]
        BY <1>2 DEF Notification!NextRecord, Notification!Return
    <2> QED BY <1>0, <2>1 DEF OthersStay, Notification!PCs
<1> QED BY <1>1, <1>2

\* Every step is of one of these kinds and keeps the types.
LEMMA NotifyKinds ==
    ASSUME RecordsOK, LogInv, InstancesOK, UNCHANGED <<outbox, log>>, Notification!ServiceNext
    PROVE  /\ InstancesOK'
           /\ \/ \E c \in Senders : SendStep(c) \/ MarkStep(c) \/ PlainStep(c)
              \/ MoveStep
<1>0. /\ reader \in Senders /\ sendNext \in 0..Len(log)
      /\ sending \in [Senders -> 0..Len(log)] /\ sendLast \in [Senders -> 0..Len(log)]
      /\ notifypc \in [Senders -> Notification!PCs]
      /\ \A d \in Senders : notifypc[d] # "idle" => sending[d] > 0
    BY DEF InstancesOK
<1>a. Len(log) \in Nat /\ Len(Records) = Len(log) /\ log' = log
    BY DEF RecordsOK
<1>b. PICK c \in Senders : \/ Notification!Run(c) \/ Notification!CallFails(c)
                           \/ Notification!Rebalance(c) \/ Notification!Restart(c)
    BY DEF Notification!ServiceNext
<1>c. {"idle", "check", "send", "mark"} = Notification!PCs
    BY DEF Notification!PCs
<1>d. ASSUME reader' \in Senders, sendNext' \in 0..Len(log),
             sending' \in [Senders -> 0..Len(log)], sendLast' \in [Senders -> 0..Len(log)],
             notifypc' \in [Senders -> Notification!PCs],
             \A d \in Senders : notifypc'[d] # "idle" => sending'[d] > 0
      PROVE  InstancesOK'
    BY <1>a, <1>d DEF InstancesOK
<1>e. ASSUME NEW s \in {"send", "mark"}, notifypc[c] # "idle", sending' = sending, sendLast' = sendLast,
             notifypc' = [notifypc EXCEPT ![c] = s], reader' = reader, sendNext' = sendNext
      PROVE  InstancesOK' /\ notifypc'[c] = s /\ sending'[c] = sending[c] /\ OthersStay(c)
    BY <1>0, <1>c, <1>d, <1>e DEF OthersStay
<1>f. ASSUME Notification!NextRecord(c), reader' = reader, sendNext' = sendNext
      PROVE  InstancesOK' /\ notifypc'[c] \in {"check", "idle"} /\ OthersStay(c)
    BY <1>0, <1>a, <1>d, <1>f, SendersNext
<1>g. Notification!Committable \subseteq 0..Len(log)
    BY <1>0, <1>a DEF Notification!Committable
<1>1. CASE Notification!Poll(c)
    <2>1. /\ notifypc[c] = "idle" /\ reader = c /\ sent' = sent /\ notified' = notified
          /\ reader' = reader /\ faults' = faults
          /\ notifypc' = [notifypc EXCEPT ![c] = "check"]
          /\ sending' = [sending EXCEPT ![c] = sendNext + 1]
        BY <1>1 DEF Notification!Poll, Notification!tables
    <2>2. PICK n \in (sendNext + 1)..Len(log) :
              sendNext' = n /\ sendLast' = [sendLast EXCEPT ![c] = n]
        BY <1>1, <1>a DEF Notification!Poll
    <2>3. n \in 0..Len(log) /\ sendNext + 1 \in 0..Len(log) /\ sendNext + 1 > 0
        BY <1>0, <1>a, <2>2
    <2>4. InstancesOK' /\ OthersStay(c) /\ notifypc'[c] = "check"
        BY <1>0, <1>c, <1>d, <2>1, <2>2, <2>3 DEF OthersStay
    <2> QED BY <2>1, <2>4 DEF PlainStep
<1>2. CASE Notification!Skip(c)
    <2>1. /\ notifypc[c] = "check" /\ Notification!NextRecord(c) /\ reader' = reader
          /\ sendNext' = sendNext /\ sent' = sent /\ notified' = notified /\ faults' = faults
        BY <1>2 DEF Notification!Skip, Notification!tables
    <2> QED BY <1>f, <2>1 DEF PlainStep
<1>3. CASE Notification!Begin(c)
    <2>1. /\ notifypc[c] = "check" /\ Notification!Event(c) \notin notified
          /\ notifypc' = [notifypc EXCEPT ![c] = "send"] /\ sending' = sending
          /\ sendLast' = sendLast /\ reader' = reader /\ sendNext' = sendNext
          /\ sent' = sent /\ notified' = notified /\ faults' = faults
        BY <1>3 DEF Notification!Begin, Notification!tables
    <2>2. log[sending[c]] \notin notified
        BY <2>1, HandledEvent
    <2> QED BY <1>e, <2>1, <2>2 DEF PlainStep
<1>4. CASE Notification!Send(c)
    <2>1. /\ notifypc[c] = "send" /\ notifypc' = [notifypc EXCEPT ![c] = "mark"] /\ sending' = sending
          /\ sendLast' = sendLast /\ reader' = reader /\ sendNext' = sendNext
          /\ sent' = Notification!(+)(sent, Notification!SetToBag({Notification!Event(c)}))
          /\ notified' = notified /\ faults' = faults
        BY <1>4 DEF Notification!Send
    <2>2. Notification!Event(c) = log[sending[c]]
        BY <2>1, HandledEvent
    <2> QED BY <1>e, <2>1, <2>2 DEF SendStep
<1>5. CASE Notification!MarkProcessed(c)
    <2>1. /\ notifypc[c] = "mark" /\ Notification!NextRecord(c) /\ reader' = reader
          /\ sendNext' = sendNext /\ sent' = sent /\ faults' = faults
          /\ notified' = notified \cup {Notification!Event(c)}
        BY <1>5 DEF Notification!MarkProcessed
    <2>2. Notification!Event(c) = log[sending[c]]
        BY <2>1, HandledEvent
    <2> QED BY <1>f, <2>1, <2>2 DEF MarkStep
<1>6. CASE Notification!CallFails(c)
    <2>1. /\ notifypc[c] # "idle" /\ Notification!NextRecord(c) /\ reader' = reader
          /\ sendNext' = sendNext /\ faults' = faults + 1
        BY <1>6 DEF Notification!CallFails, Notification!Fault
    <2>2. Notification!Event(c) = log[sending[c]]
        BY <2>1, HandledEvent
    <2>3. \/ sent' = sent /\ notified' = notified
          \/ /\ notifypc[c] = "send" /\ notified' = notified
             /\ sent' = Notification!(+)(sent, Notification!SetToBag({log[sending[c]]}))
          \/ /\ notifypc[c] = "mark" /\ sent' = sent
             /\ notified' = notified \cup {log[sending[c]]}
        BY <1>6, <2>2 DEF Notification!CallFails, Notification!tables
    <2> QED BY <1>f, <2>1, <2>3 DEF PlainStep, SendStep, MarkStep
<1>7. CASE Notification!Rebalance(c)
    <2>1. /\ faults' = faults + 1 /\ sent' = sent /\ notified' = notified /\ reader' = c
          /\ sendNext' \in Notification!Committable
          /\ sending' = sending /\ sendLast' = sendLast /\ notifypc' = notifypc
        BY <1>7 DEF Notification!Rebalance, Notification!Fault, Notification!tables
    <2> QED BY <1>0, <1>d, <1>g, <2>1 DEF MoveStep
<1>8. CASE Notification!Restart(c)
    <2>1. /\ faults' = faults + 1 /\ sent' = sent /\ notified' = notified
          /\ reader' \in Senders /\ sendNext' \in 0..Len(log)
          /\ sending' = [sending EXCEPT ![c] = 0] /\ sendLast' = [sendLast EXCEPT ![c] = 0]
          /\ notifypc' = [notifypc EXCEPT ![c] = "idle"]
        BY <1>0, <1>8, <1>g DEF Notification!Restart, Notification!Fault, Notification!tables,
           Notification!Return
    <2> QED BY <1>0, <1>a, <1>c, <1>d, <2>1 DEF MoveStep
<1> QED BY <1>b, <1>1, <1>2, <1>3, <1>4, <1>5, <1>6, <1>7, <1>8 DEF Notification!Run

\* A step of the notification service sends an event that it may send, or has
\* a fault.
LEMMA NotifyStep ==
    ASSUME RecordsOK, LogInv, NotifyInv, faults \in Nat, UNCHANGED <<outbox, log>>,
           Notification!ServiceNext
    PROVE  NotifyInv'
<1>0. IsABag(sent) /\ BagToSet(sent) \subseteq DOMAIN outbox /\ InstancesOK
    BY DEF NotifyInv
<1>a. InstancesOK'
    BY <1>0, NotifyKinds
<1>b. outbox' = outbox /\ log' = log
    OBVIOUS
<1>c. /\ IsABag(sent)' <=> IsABag(sent')
      /\ BagToSet(sent)' = BagToSet(sent')
    BY DEF IsABag, BagToSet
<1>d. SUFFICES ASSUME NEW i
               PROVE  /\ IsABag(sent') /\ BagToSet(sent') \subseteq DOMAIN outbox
                      /\ Wallet!Copies(i, sent') + Cardinality(MaySenders(i)') <= 1 + faults'
    <2>1. \A i : SentOf(i)' <=> Wallet!Copies(i, sent') + Cardinality(MaySenders(i)') <= 1 + faults'
        BY DEF SentOf, Wallet!Copies, Wallet!BagIn, Wallet!BagToSet
    <2>2. \A i : SentOf(i)'
        BY <1>d, <2>1
    <2>3. IsABag(sent') /\ BagToSet(sent') \subseteq DOMAIN outbox
        BY <1>d
    <2> QED BY <1>a, <1>b, <1>c, <2>2, <2>3 DEF NotifyInv
<1> DEFINE P == MaySenders(i)
           Q == MaySenders(i)'
           m == Wallet!Copies(i, sent)
           n == Wallet!Copies(i, sent')
<1>e. P \in SUBSET Senders /\ Q \in SUBSET Senders
    BY DEF MaySenders
<1>f. Cardinality(P) \in Nat /\ Cardinality(Q) \in Nat
    BY <1>e, CountSenders
<1>g. m \in Nat /\ m + Cardinality(P) <= 1 + faults
    BY <1>0, CopiesAreNat DEF NotifyInv, SentOf
<1>h. sent' = sent => n = m /\ IsABag(sent') /\ BagToSet(sent') \subseteq DOMAIN outbox
    BY <1>0
<1> HIDE DEF m, n
<1>i. ASSUME n = m, Q \subseteq P, faults' \in {faults, faults + 1}
      PROVE  n + Cardinality(Q) <= 1 + faults'
    <2>1. Cardinality(Q) <= Cardinality(P)
        BY <1>e, <1>i, CountSenders
    <2> HIDE DEF P, Q
    <2> QED BY <1>f, <1>g, <1>i, <2>1
<1>j. ASSUME n = m, NEW c \in Senders, Q \ {c} \subseteq P, faults' = faults + 1
      PROVE  n + Cardinality(Q) <= 1 + faults'
    <2>1. Cardinality(Q) <= Cardinality(P) + 1
        BY <1>e, <1>j, CountSenders
    <2> HIDE DEF P, Q
    <2> QED BY <1>f, <1>g, <1>j, <2>1
<1>k. ASSUME NEW d \in Senders, notifypc'[d] = notifypc[d], sending'[d] = sending[d],
             (i \in notified') <=> (i \in notified), d = reader' => d = reader
      PROVE  d \in Q => d \in P
    BY <1>b, <1>k DEF MaySenders, MaySend
<1>1. ASSUME NEW c \in Senders, SendStep(c)
      PROVE  /\ IsABag(sent') /\ BagToSet(sent') \subseteq DOMAIN outbox
             /\ n + Cardinality(Q) <= 1 + faults'
    <2>0. /\ notifypc[c] = "send" /\ reader' = reader /\ notified' = notified
          /\ sent' = Notification!(+)(sent, Notification!SetToBag({log[sending[c]]}))
          /\ OthersStay(c)
        BY <1>1 DEF SendStep
    <2>1. log[sending[c]] \in DOMAIN outbox
        BY <1>0, <2>0, HandledEvent
    <2>2. /\ IsABag(sent') /\ BagToSet(sent') \subseteq DOMAIN outbox
          /\ i # log[sending[c]] => n = m
          /\ i = log[sending[c]] => n = m + 1
        BY <1>0, <2>0, <2>1, SentOnceMore DEF m, n
    <2>3. Q \ {c} \subseteq P
        BY <1>e, <1>k, <2>0 DEF OthersStay
    <2>4. CASE notifypc'[c] = "mark" /\ sending'[c] = sending[c] /\ faults' = faults
        <3>1. CASE i # log[sending[c]]
            <4>1. c \in Q => c \in P
                BY <1>b, <2>0, <2>4, <3>1 DEF MaySenders, MaySend
            <4>2. Q \subseteq P
                BY <2>3, <4>1
            <4> QED BY <1>i, <2>2, <2>4, <3>1, <4>2
        <3>2. CASE i = log[sending[c]]
            <4>1. c \in P /\ c \notin Q
                BY <1>b, <2>0, <2>4, <3>2 DEF MaySenders, MaySend
            <4>2. Q \cup {c} \subseteq P
                BY <2>3, <4>1
            <4>3. Cardinality(Q) + 1 <= Cardinality(P)
                BY <1>e, <4>1, <4>2, CountSenders
            <4> HIDE DEF P, Q
            <4>4. n + Cardinality(Q) <= 1 + faults'
                BY <1>f, <1>g, <2>2, <2>4, <3>2, <4>3
            <4> QED BY <2>2, <4>4
        <3> QED BY <3>1, <3>2
    <2>5. CASE notifypc'[c] \in {"check", "idle"} /\ faults' = faults + 1
        <3>1. CASE i # log[sending[c]]
            BY <1>j, <2>2, <2>3, <2>5, <3>1
        <3>2. CASE i = log[sending[c]]
            <4>1. c \in P
                BY <2>0, <3>2 DEF MaySenders, MaySend
            <4>2. Cardinality(Q) <= Cardinality(P)
                BY <1>e, <2>3, <4>1, CountSenders
            <4> HIDE DEF P, Q
            <4>3. n + Cardinality(Q) <= 1 + faults'
                BY <1>f, <1>g, <2>2, <2>5, <3>2, <4>2
            <4> QED BY <2>2, <4>3
        <3> QED BY <3>1, <3>2
    <2> QED BY <1>1, <2>4, <2>5 DEF SendStep
<1>2. ASSUME NEW c \in Senders, MarkStep(c)
      PROVE  sent' = sent /\ n + Cardinality(Q) <= 1 + faults'
    <2>0. /\ notifypc[c] = "mark" /\ reader' = reader /\ sent' = sent
          /\ notified' = notified \cup {log[sending[c]]}
          /\ notifypc'[c] \in {"check", "idle"} /\ faults' \in {faults, faults + 1}
          /\ OthersStay(c)
        BY <1>2 DEF MarkStep
    <2>1. Q \subseteq P
        <3> SUFFICES ASSUME NEW d \in Senders, d \in Q PROVE d \in P
            BY <1>e
        <3>1. CASE i \in notified
            <4>1. d # c
                BY <2>0, <3>1 DEF MaySenders, MaySend
            <4> QED BY <1>k, <2>0, <3>1, <4>1 DEF OthersStay
        <3>2. CASE i \notin notified /\ i = log[sending[c]]
            <4>1. notifypc'[d] = "send" /\ d # c
                BY <1>b, <2>0, <3>2 DEF MaySenders, MaySend
            <4>2. notifypc[d] = "send"
                BY <2>0, <4>1 DEF OthersStay
            <4> QED BY <3>2, <4>2 DEF MaySenders, MaySend
        <3>3. CASE i \notin notified /\ i # log[sending[c]]
            <4>1. CASE d = c
                BY <2>0, <3>3, <4>1 DEF MaySenders, MaySend
            <4>2. CASE d # c
                BY <1>k, <2>0, <3>3, <4>2 DEF OthersStay
            <4> QED BY <4>1, <4>2
        <3> QED BY <3>1, <3>2, <3>3
    <2> QED BY <1>h, <1>i, <2>0, <2>1
<1>3. ASSUME NEW c \in Senders, PlainStep(c)
      PROVE  sent' = sent /\ n + Cardinality(Q) <= 1 + faults'
    <2>0. /\ reader' = reader /\ sent' = sent /\ notified' = notified /\ OthersStay(c)
          /\ \/ notifypc'[c] \in {"check", "idle"}
             \/ notifypc'[c] = "send" /\ sending'[c] = sending[c] /\ log[sending[c]] \notin notified
        BY <1>3 DEF PlainStep
    <2>1. Q \ {c} \subseteq P
        BY <1>e, <1>k, <2>0 DEF OthersStay
    <2>2. CASE faults' = faults + 1
        BY <1>h, <1>j, <2>0, <2>1, <2>2
    <2>3. CASE faults' = faults /\ notifypc[c] # "mark" /\ (c = reader \/ notifypc[c] # "idle")
        <3>1. c \in Q => c \in P
            <4>1. CASE i \in notified
                BY <1>b, <2>0, <4>1 DEF MaySenders, MaySend
            <4>2. CASE i \notin notified
                BY <2>3, <4>2 DEF MaySenders, MaySend
            <4> QED BY <4>1, <4>2
        <3>2. Q \subseteq P
            BY <2>1, <3>1
        <3> QED BY <1>h, <1>i, <2>0, <2>3, <3>2
    <2> QED BY <1>3, <2>2, <2>3 DEF PlainStep
<1>4. ASSUME MoveStep
      PROVE  sent' = sent /\ n + Cardinality(Q) <= 1 + faults'
    <2>0. /\ sent' = sent /\ notified' = notified /\ faults' = faults + 1
          /\ \A d \in Senders : \/ notifypc'[d] = notifypc[d] /\ sending'[d] = sending[d]
                                \/ notifypc'[d] = "idle"
        BY <1>4 DEF MoveStep
    <2>1. reader' \in Senders
        BY <1>a DEF InstancesOK
    <2>2. Q \ {reader'} \subseteq P
        <3> SUFFICES ASSUME NEW d \in Senders, d \in Q, d # reader' PROVE d \in P
            BY <1>e
        <3>1. notifypc'[d] # "idle"
            BY DEF MaySenders, MaySend
        <3> QED BY <1>k, <2>0, <3>1
    <2>3. PICK r \in Senders : Q \ {r} \subseteq P
        BY <2>1, <2>2
    <2> QED BY <1>h, <1>j, <2>0, <2>3
<1>5. /\ IsABag(sent') /\ BagToSet(sent') \subseteq DOMAIN outbox
      /\ n + Cardinality(Q) <= 1 + faults'
    BY <1>0, <1>h, <1>1, <1>2, <1>3, <1>4, NotifyKinds
<1> QED BY <1>5 DEF n

\* A step of the service has one fault at most.
LEMMA NotifyFaults ==
    ASSUME faults \in Nat, faults <= MaxFaults, Notification!ServiceNext
    PROVE  faults' \in {faults, faults + 1} /\ faults' <= MaxFaults
<1>0. PICK c \in Senders : \/ Notification!Run(c) \/ Notification!CallFails(c)
                           \/ Notification!Rebalance(c) \/ Notification!Restart(c)
    BY DEF Notification!ServiceNext
<1>1. CASE Notification!Run(c)
    BY <1>1 DEF Notification!Run, Notification!Poll, Notification!Skip, Notification!Begin,
       Notification!Send, Notification!MarkProcessed
<1>2. CASE Notification!CallFails(c) \/ Notification!Rebalance(c) \/ Notification!Restart(c)
    <2>1. Notification!Fault
        BY <1>2 DEF Notification!CallFails, Notification!Rebalance, Notification!Restart
    <2> QED BY <2>1, TransferAssumption DEF Notification!Fault
<1> QED BY <1>0, <1>1, <1>2

-----------------------------------------------------------------------------
(* The invariant of the saga is inductive.                                 *)

\* The rows of outbox_events are never changed.
LEMMA RowsStay ==
    ASSUME TypeOK, [Next]_vars
    PROVE  \A i \in DOMAIN outbox : i \in DOMAIN outbox' /\ outbox'[i] = outbox[i]
<1>1. ASSUME NEW p \in Procs, SaveOutbox(p)
      PROVE  \A i \in DOMAIN outbox : i \in DOMAIN outbox' /\ outbox'[i] = outbox[i]
    BY <1>1, OutboxGrows DEF Grown
<1>2. CASE outbox' = outbox
    BY <1>2
<1> QED
    BY <1>1, <1>2 DEF Next, vars, tables, BeginInitiate, InvalidTransfer, LookupHit, LookupMiss,
       FraudPasses, FraudRejects, Save, SaveConflict, BeginOnTransaction, FindRefused,
       GetTransaction, FindPending, Update, Abort

\* Nothing is published, applied or notified at first.
LEMMA SagaInvInit == SagaInit => SagaInv
<1> HAVE SagaInit
<1>0. Init /\ log = <<>> /\ Wallet!GroupInit /\ Notification!ServiceInit
    BY DEF SagaInit
<1>1. IInv
    BY <1>0, InitIInv
<1>2. LogInv
    BY <1>0 DEF LogInv
<1>3. WalletP!IsPartition /\ \A i \in DOMAIN Records : Records[i].type \in WalletP!RecordTypes
    BY <1>1, <1>2, RecordsFacts DEF RecordsOK, IInv
<1>4. WalletP!GroupInit
    <2>1. Wallet!EmptyBag = WalletP!EmptyBag
        BY DEF Wallet!EmptyBag, WalletP!EmptyBag, Wallet!SetToBag, WalletP!SetToBag
    <2> QED BY <1>0, <2>1 DEF Wallet!GroupInit, WalletP!GroupInit
<1>5. WalletInv
    BY <1>3, <1>4, WalletConstants, WalletP!GroupStarts DEF WalletInv
<1>6. NotifyInv
    <2>1. /\ sent = <<>> /\ notified = {} /\ reader = CHOOSE c \in Senders : TRUE
          /\ sendNext = 0 /\ sending = [c \in Senders |-> 0] /\ sendLast = [c \in Senders |-> 0]
          /\ notifypc = [c \in Senders |-> "idle"]
        BY <1>0 DEF Notification!ServiceInit, Notification!EmptyBag, Notification!SetToBag
    <2>2. IsABag(sent) /\ BagToSet(sent) = {} /\ \A i : Wallet!Copies(i, sent) = 0
        BY <2>1 DEF IsABag, BagToSet, Wallet!Copies, Wallet!BagIn, Wallet!BagToSet
    <2>3. reader \in Senders
        BY <2>1, TransferAssumption
    <2>4. InstancesOK
        BY <1>0, <2>1, <2>3 DEF InstancesOK, Notification!PCs
    <2>5. faults = 0
        BY <1>0 DEF Wallet!GroupInit
    <2>6. \A i : SentOf(i)
        <3> TAKE i
        <3>1. MaySenders(i) \subseteq {reader}
            BY <2>1 DEF MaySenders, MaySend
        <3>2. Cardinality({reader}) = 1 /\ IsFiniteSet({reader})
            BY FS_Singleton
        <3>3. Cardinality(MaySenders(i)) <= 1 /\ Cardinality(MaySenders(i)) \in Nat
            BY <3>1, <3>2, FS_Subset, FS_CardinalityType
        <3> QED BY <2>2, <2>5, <3>3 DEF SentOf
    <2> QED BY <2>2, <2>4, <2>6 DEF NotifyInv
<1> QED BY <1>1, <1>2, <1>5, <1>6 DEF SagaInv

\* Every step of a service, the worker or a consumer preserves it.
LEMMA SagaInvStep == SagaInv /\ [SagaNext]_sagaVars => SagaInv'
<1> SUFFICES ASSUME SagaInv, [SagaNext]_sagaVars PROVE SagaInv'
    OBVIOUS
<1>0. IInv /\ TypeOK /\ LogInv /\ WalletInv /\ NotifyInv /\ RecordsOK
    BY RecordsFacts DEF SagaInv, IInv
<1>a. faults \in Nat /\ faults <= MaxFaults
    <2>1. faults \in 0..MaxFaults
        BY <1>0 DEF WalletInv, WalletP!TypeOK
    <2> QED BY <2>1, TransferAssumption
<1>b. Len(log) \in Nat /\ Len(log) <= Len(log)
    BY <1>0 DEF RecordsOK
<1>c. ASSUME IInv', LogInv', Quiet, UNCHANGED notifyVars PROVE SagaInv'
    <2>1. TypeOK' /\ Len(log') \in Nat
        BY <1>c DEF IInv, LogInv
    <2>2. WalletInv'
        BY <1>0, <1>c, <2>1, QuietKeepsWallet
    <2>3. NotifyInv'
        BY <1>0, <1>a, <1>c, <2>1, QuietKeepsNotify DEF Quiet
    <2> QED BY <1>c, <2>2, <2>3 DEF SagaInv
<1>d. ASSUME UNCHANGED vars PROVE IInv'
    BY <1>0, <1>d, StepIInv
<1>e. ASSUME [Next]_vars, log' = log PROVE LogInv'
    BY <1>0, <1>e, RowsStay DEF LogInv
<1>f. ASSUME UNCHANGED vars PROVE outbox' = outbox /\ [Next]_vars
    BY <1>f DEF vars
<1>1. CASE TransactionStep \/ UNCHANGED sagaVars
    <2>1. [Next]_vars /\ UNCHANGED <<log, walletVars, notifyVars, faults>>
        BY <1>1 DEF TransactionStep, sagaVars
    <2>2. IInv' /\ LogInv'
        BY <1>0, <1>e, <2>1, StepIInv
    <2>3. Quiet
        BY <1>0, <1>a, <1>b, <2>1, RowsStay DEF Quiet
    <2> QED BY <1>c, <2>1, <2>2, <2>3
<1>2. ASSUME UNCHANGED <<vars, walletVars, notifyVars, faults>>, NEW r \in DOMAIN outbox,
             log' = Append(log, r)
      PROVE  SagaInv'
    <2>0. outbox' = outbox /\ r \in Nat
        BY <1>0, <1>2, <1>f DEF TypeOK
    <2>1. /\ log' \in Seq(Nat) /\ Len(log') = Len(log) + 1
          /\ \A i \in DOMAIN log : log'[i] = log[i]
          /\ \A i \in DOMAIN log' : i \in DOMAIN log \/ log'[i] = r
        BY <1>0, <1>2, <2>0 DEF LogInv
    <2>2. LogInv'
        BY <1>0, <2>0, <2>1 DEF LogInv
    <2>3. Quiet
        BY <1>a, <1>b, <1>2, <2>0, <2>1 DEF Quiet
    <2> QED BY <1>c, <1>d, <1>2, <2>2, <2>3
<1>3. CASE PublishFirst \/ PublishAgain
    <2>1. UNCHANGED <<vars, walletVars, notifyVars, faults>>
        BY <1>3 DEF PublishFirst, PublishAgain
    <2>2. \E r : Worker!Publish(r)
        BY <1>3 DEF PublishFirst, PublishAgain
    <2>3. PICK r : Contains([i \in DOMAIN outbox |-> i], r) /\ log' = Append(log, r)
        BY <2>2 DEF Worker!Publish, Worker!Contains, Contains
    <2>4. r \in DOMAIN outbox
        BY <2>3 DEF Contains
    <2> QED BY <1>2, <2>1, <2>3, <2>4
<1>4. CASE WalletStep
    <2>1. Wallet!GroupNext /\ UNCHANGED <<vars, log, notifyVars>>
        BY <1>4 DEF WalletStep
    <2>2. outbox' = outbox /\ UNCHANGED Records
        BY <1>f, <2>1 DEF Records
    <2>3. WalletInv' /\ faults' \in {faults, faults + 1}
        BY <1>0, <2>1, <2>2, GroupKeepsWallet
    <2>4. NotifyInv'
        BY <1>0, <1>a, <1>b, <2>1, <2>2, <2>3, QuietKeepsNotify
    <2> QED BY <1>d, <1>e, <1>f, <2>1, <2>3, <2>4 DEF SagaInv
<1>5. CASE NotificationStep
    <2>1. Notification!ServiceNext /\ UNCHANGED <<vars, log, walletVars>>
        BY <1>5 DEF NotificationStep
    <2>2. outbox' = outbox /\ log' = log /\ IInv' /\ LogInv' /\ TypeOK'
        BY <1>d, <1>e, <1>f, <2>1 DEF IInv
    <2>3. NotifyInv'
        BY <1>0, <1>a, <2>1, <2>2, NotifyStep
    <2>4. Quiet
        BY <1>a, <1>b, <2>1, <2>2, NotifyFaults DEF Quiet
    <2>5. WalletInv'
        BY <1>0, <2>2, <2>4, QuietKeepsWallet
    <2> QED BY <2>2, <2>3, <2>5 DEF SagaInv
<1> QED BY <1>1, <1>3, <1>4, <1>5 DEF SagaNext

\* What reaches a wallet or a user was decided by the transaction service, at
\* most one event reserves for a transaction, and an event takes effect and
\* is notified at most once more than there were faults.
THEOREM SagaEffectsExplained == SagaSpec => []EffectsExplained
<1>1. ASSUME SagaInv PROVE EffectsExplained
    <2>0. IInv /\ TypeOK /\ LogInv /\ WalletInv /\ NotifyInv /\ RecordsOK
        BY <1>1, RecordsFacts DEF SagaInv, IInv
    <2>1. BagToSet(effects) \subseteq DOMAIN outbox
        <3>1. BagToSet(effects) \subseteq WalletP!Events
            BY <2>0, SameCopies DEF WalletInv, WalletP!TypeOK
        <3>2. WalletP!Events \subseteq DOMAIN outbox
            BY <2>0 DEF WalletP!Events, RecordsOK, LogInv
        <3> QED BY <3>1, <3>2
    <2>2. BagToSet(sent) \subseteq DOMAIN outbox
        BY <2>0 DEF NotifyInv
    <2>3. ASSUME NEW i \in DOMAIN outbox
          PROVE  /\ status[outbox[i].tx] # "none"
                 /\ outbox[i].type # "TransactionInitiated" => status[outbox[i].tx] \in Terminal
        BY <2>0 DEF IInv, TableInv, EventsFollowState
    <2>4. ASSUME NEW i \in DOMAIN outbox, NEW j \in DOMAIN outbox,
                 outbox[i].type = "TransactionInitiated", outbox[j].type = "TransactionInitiated",
                 outbox[i].tx = outbox[j].tx
          PROVE  i = j
        BY <2>0, <2>4 DEF IInv, TableInv, InitiatedDistinct
    <2>5. ASSUME NEW i PROVE Wallet!Copies(i, effects) <= 1 + faults
        <3>1. WalletP!TypeOK /\ WalletP!EffectsOf(i)
            BY <2>0 DEF WalletInv, WalletP!EffectsInv
        <3>2. WalletP!Rows(i) <= 1 + faults
            BY <3>1, WalletConstants, WalletP!EffectsBound
        <3> QED BY <3>2, SameCopies DEF WalletP!Rows
    <2>6. ASSUME NEW i PROVE Wallet!Copies(i, sent) <= 1 + faults
        <3>1. IsABag(sent) /\ SentOf(i)
            BY <2>0 DEF NotifyInv
        <3>2. Wallet!Copies(i, sent) \in Nat /\ Cardinality(MaySenders(i)) \in Nat
            BY <3>1, CopiesAreNat, CountSenders DEF MaySenders
        <3>3. faults \in Int
            BY <2>0 DEF WalletInv, WalletP!TypeOK
        <3> QED BY <3>1, <3>2, <3>3 DEF SentOf
    <2> QED BY <2>1, <2>2, <2>3, <2>4, <2>5, <2>6 DEF EffectsExplained, Reserves, Credits
<1>2. SagaSpec => []SagaInv
    BY SagaInvInit, SagaInvStep, PTL DEF SagaSpec
<1> QED BY <1>1, <1>2, PTL

=============================================================================
