---------------------------- MODULE QueryService ----------------------------
(***************************************************************************)
(* The read model: QueryService.HandleEvent (services/query/internal/      *)
(* application/query_service.go) keeping balance_projections,              *)
(* statement_entries and user_stats (adapters/outbound/postgres/repos.go)  *)
(* from the events of a topic.  Every repository method is one step.       *)
(*                                                                         *)
(* The consumer loop and the group are those of SagaConsumer; what counts  *)
(* here is that records come in order, and again from an earlier one after *)
(* a restart or rebalance, while the member that had the partition before  *)
(* may still go on with the records that it has polled.  Reads of the      *)
(* projections change nothing and are left out.                            *)
(***************************************************************************)
EXTENDS Integers, Sequences, FiniteSetsExt

CONSTANTS
    Members,    \* consumers of the group
    Topic,      \* the records, with the fields that the handlers decode (a field
                \* that the payload lacks is decoded as its zero value); the same
                \* event may come twice
    MaxFaults   \* bound: failed statements and rebalances

Wallets == {Topic[i].wallet : i \in DOMAIN Topic}
Users == {Topic[i].user : i \in DOMAIN Topic}
Events == {Topic[i].event : i \in DOMAIN Topic}
Types == {"WalletCreated", "FundsDeposited", "FundsWithdrawn", "TransactionCompleted"}
Movements == {"FundsDeposited", "FundsWithdrawn"}

ASSUME QueryAssumption ==
    /\ Topic \in Seq({Topic[i] : i \in DOMAIN Topic})
    /\ \A i \in DOMAIN Topic : Topic[i].amount \in Nat /\ Topic[i].version \in Nat
    /\ \A i, j \in DOMAIN Topic : Topic[i].event = Topic[j].event => Topic[i] = Topic[j]
    \* A wallet is created by one event: the first version of its log.
    /\ \A i, j \in DOMAIN Topic :
           /\ Topic[i].type = "WalletCreated" /\ Topic[j].type = "WalletCreated"
           /\ Topic[i].wallet = Topic[j].wallet
           => Topic[i].event = Topic[j].event
    /\ MaxFaults \in Nat

VARIABLES
    balances,   \* balance_projections; NoRow when a wallet has none
    statement,  \* statement_entries: a set of [entry, amount], one per entry
    stats,      \* user_stats; a user without a row counts as zeroes
    processed,  \* query_processed_events
    owner,      \* the member the partition is assigned to
    polled,     \* the last record that each member has polled
    pos,        \* the record it handles, or has handled last
    pc,         \* where it is
    read,       \* the row it has read, as it will write it
    faults,     \* faults so far
    torn        \* history: a change to the projections was cut off from its
                \* mark, overlapped with another, or started from a failed read

tables == <<balances, statement, stats, processed>>
vars == <<balances, statement, stats, processed, owner, polled, pos, pc, read,
          faults, torn>>

NoRow == [balance |-> 0, version |-> -1]
NewRow == [balance |-> 0, version |-> 0]
ZeroStats == [transactions |-> 0, deposits |-> 0]

Init ==
    /\ balances = [w \in Wallets |-> NoRow]
    /\ statement = {}
    /\ stats = [u \in Users |-> ZeroStats]
    /\ processed = {}
    /\ owner \in Members
    /\ polled = [c \in Members |-> 0]
    /\ pos = [c \in Members |-> 0]
    /\ pc = [c \in Members |-> "idle"]
    /\ read = [c \in Members |-> NoRow]
    /\ faults = 0
    /\ torn = FALSE

Fault == faults < MaxFaults /\ faults' = faults + 1

Record(c) == Topic[pos[c]]

Goto(c, step) == pc' = [pc EXCEPT ![c] = step]

-----------------------------------------------------------------------------
(* Delivery.                                                               *)

\* The owner polls some of the records that follow.
Poll(c) ==
    /\ owner = c
    /\ pc[c] = "idle" /\ pos[c] = polled[c]
    /\ \E i \in (polled[c] + 1)..Len(Topic) : polled' = [polled EXCEPT ![c] = i]
    /\ UNCHANGED <<tables, owner, pos, pc, read, faults, torn>>

\* EachRecord hands it one after the other, whether or not it still has the
\* partition.
Deliver(c) ==
    /\ pc[c] = "idle" /\ pos[c] < polled[c]
    /\ pos' = [pos EXCEPT ![c] = @ + 1]
    /\ Goto(c, "check")
    /\ UNCHANGED <<tables, owner, polled, read, faults, torn>>

\* The records that may have been committed: a record is not before its
\* handler has returned.
Committable == IF pc[owner] = "idle" THEN 0..pos[owner] ELSE 0..(pos[owner] - 1)

ContinueAfter(c, i) ==
    /\ pos' = [pos EXCEPT ![c] = i]
    /\ polled' = [polled EXCEPT ![c] = i]

\* A member that is through with its poll gets the partition, or gets it back
\* after a restart, and continues after the committed offset.
Rebalance(c) ==
    /\ pc[c] = "idle" /\ pos[c] = polled[c]
    /\ Fault
    /\ owner' = c
    /\ \E i \in Committable : ContinueAfter(c, i)
    /\ UNCHANGED <<tables, pc, read, torn>>

\* The member dies in the middle of its poll.  If it has the partition it
\* continues after the committed offset when it is started again.
Crash(c) ==
    /\ pc[c] # "idle" \/ pos[c] < polled[c]
    /\ Fault
    /\ Goto(c, "idle")
    /\ \E i \in (IF owner = c THEN Committable ELSE {pos[c]}) : ContinueAfter(c, i)
    /\ read' = [read EXCEPT ![c] = NoRow]
    /\ torn' = (torn \/ pc[c] \in {"append", "mark"})
    /\ UNCHANGED <<tables, owner>>

-----------------------------------------------------------------------------
(* HandleEvent.                                                            *)

\* Mutant: an event that none of the handlers is for is marked as well.
SkipMarking(c) ==
    /\ pc[c] = "check"
    /\ Record(c).event \in processed \/ Record(c).type \notin Types
    /\ processed' = processed \cup {Record(c).event}
    /\ Goto(c, "idle")
    /\ UNCHANGED <<balances, statement, stats, owner, polled, pos, read, faults, torn>>

\* The event was processed before, or none of the handlers is for its type.
Skip(c) ==
    /\ pc[c] = "check"
    /\ Record(c).event \in processed \/ Record(c).type \notin Types
    /\ Goto(c, "idle")
    /\ UNCHANGED <<tables, owner, polled, pos, read, faults, torn>>

\* Another member is past its check.
OtherAtWork(c) == \E d \in Members \ {c} : pc[d] \notin {"idle", "check"}

\* Mutant: query_processed_events is not consulted.
BeginUnchecked(c) ==
    /\ pc[c] = "check"
    /\ Record(c).type \in Types
    /\ Goto(c, "read")
    /\ torn' = (torn \/ OtherAtWork(c))
    /\ UNCHANGED <<tables, owner, polled, pos, read, faults>>

Begin(c) ==
    /\ pc[c] = "check"
    /\ Record(c).event \notin processed /\ Record(c).type \in Types
    /\ Goto(c, "read")
    /\ torn' = (torn \/ OtherAtWork(c))
    /\ UNCHANGED <<tables, owner, polled, pos, read, faults>>

\* handleWalletCreated reads nothing: it writes an empty balance.
WalletCreated(c) ==
    /\ pc[c] = "read" /\ Record(c).type = "WalletCreated"
    /\ read' = [read EXCEPT ![c] = NewRow]
    /\ Goto(c, "upsert")
    /\ UNCHANGED <<tables, owner, polled, pos, faults, torn>>

\* handleFundsDeposited and handleFundsWithdrawn change the row in memory,
\* and take over the version of the event.
ReadBalance(c) ==
    /\ pc[c] = "read" /\ Record(c).type \in Movements
    /\ LET row == balances[Record(c).wallet]
           amount == IF Record(c).type = "FundsDeposited" THEN Record(c).amount
                                                          ELSE -Record(c).amount
       IN  IF row = NoRow
           THEN Goto(c, "idle") /\ UNCHANGED read
           ELSE /\ read' = [read EXCEPT ![c] =
                        [balance |-> row.balance + amount, version |-> Record(c).version]]
                /\ Goto(c, "upsert")
    /\ UNCHANGED <<tables, owner, polled, pos, faults, torn>>

\* handleTransactionCompleted does so with the user's row; when the read
\* fails it starts from zeroes.
ReadStats(c) ==
    /\ pc[c] = "read" /\ Record(c).type = "TransactionCompleted"
    /\ \E row \in {stats[Record(c).user], ZeroStats} :
        /\ IF row = stats[Record(c).user] THEN UNCHANGED <<faults, torn>>
                                          ELSE Fault /\ torn' = TRUE
        /\ read' = [read EXCEPT ![c] = [transactions |-> row.transactions + 1,
                                        deposits |-> row.deposits + Record(c).amount]]
    /\ Goto(c, "upsert")
    /\ UNCHANGED <<tables, owner, polled, pos>>

WriteRow(c) ==
    IF Record(c).type = "TransactionCompleted"
    THEN stats' = [stats EXCEPT ![Record(c).user] = read[c]] /\ UNCHANGED balances
    ELSE balances' = [balances EXCEPT ![Record(c).wallet] = read[c]] /\ UNCHANGED stats

\* Mutant: a movement is marked processed without its statement entry.
UpsertWithoutEntry(c) ==
    /\ pc[c] = "upsert"
    /\ WriteRow(c)
    /\ read' = [read EXCEPT ![c] = NoRow]
    /\ Goto(c, "mark")
    /\ UNCHANGED <<statement, processed, owner, polled, pos, faults, torn>>

\* Upsert overwrites the row, whatever it is by now.  A movement goes on
\* with its statement entry.
Upsert(c) ==
    /\ pc[c] = "upsert"
    /\ WriteRow(c)
    /\ read' = [read EXCEPT ![c] = NoRow]
    /\ Goto(c, IF Record(c).type \in Movements THEN "append" ELSE "mark")
    /\ UNCHANGED <<statement, processed, owner, polled, pos, faults, torn>>

\* statement.Append: ON CONFLICT DO NOTHING on the event id of the payload.
AppendedEntry(c) ==
    IF \E s \in statement : s.entry = Record(c).entry
    THEN statement
    ELSE statement \cup {[entry |-> Record(c).entry, amount |-> Record(c).amount]}

AppendEntry(c) ==
    /\ pc[c] = "append"
    /\ statement' = AppendedEntry(c)
    /\ Goto(c, "mark")
    /\ UNCHANGED <<balances, stats, processed, owner, polled, pos, read, faults, torn>>

MarkProcessed(c) ==
    /\ pc[c] = "mark"
    /\ processed' = processed \cup {Record(c).event}
    /\ Goto(c, "idle")
    /\ UNCHANGED <<balances, statement, stats, owner, polled, pos, read, faults, torn>>

\* A statement fails, with or without its effect, and HandleEvent returns
\* the error: the consumer loop goes on with the next record.
StatementFails(c) ==
    /\ pc[c] # "idle"
    /\ pc[c] = "read" => Record(c).type \in Movements
    /\ Fault
    /\ \/ UNCHANGED tables /\ torn' = (torn \/ pc[c] \in {"append", "mark"})
       \/ /\ pc[c] = "upsert"
          /\ WriteRow(c)
          /\ torn' = TRUE
          /\ UNCHANGED <<statement, processed>>
       \/ /\ pc[c] = "append"
          /\ statement' = AppendedEntry(c)
          /\ torn' = TRUE
          /\ UNCHANGED <<balances, stats, processed>>
       \/ /\ pc[c] = "mark"
          /\ processed' = processed \cup {Record(c).event}
          /\ UNCHANGED <<balances, statement, stats, torn>>
    /\ Goto(c, "idle")
    /\ read' = [read EXCEPT ![c] = NoRow]
    /\ UNCHANGED <<owner, polled, pos>>

Next ==
    \E c \in Members :
        \/ Poll(c) \/ Deliver(c) \/ Rebalance(c) \/ Crash(c)
        \/ Skip(c) \/ Begin(c) \/ WalletCreated(c) \/ ReadBalance(c) \/ ReadStats(c)
        \/ Upsert(c) \/ AppendEntry(c) \/ MarkProcessed(c) \/ StatementFails(c)

Spec == Init /\ [][Next]_vars

-----------------------------------------------------------------------------
(* Properties.                                                             *)

\* The first record of its event.
IsFirst(n) == \A m \in 1..(n - 1) : Topic[m].event # Topic[n].event

\* What the events in E come to, for a wallet and for a user: the sum of what
\* their first records add.
RecordsOf(E) == {Topic[i] : i \in {j \in DOMAIN Topic : Topic[j].event \in E}}

MovementsOf(E, w) == {r \in RecordsOf(E) : r.type \in Movements /\ r.wallet = w}

Counts(E, n) == n \in DOMAIN Topic /\ IsFirst(n) /\ Topic[n].event \in E

SumOf(terms) ==
    LET sum[n \in Nat] == IF n = 0 THEN 0 ELSE sum[n - 1] + terms[n]
    IN  sum[Len(Topic)]

BalanceOf(E, w) == SumOf([n \in Nat |->
    CASE Counts(E, n) /\ Topic[n].wallet = w /\ Topic[n].type = "FundsDeposited" -> Topic[n].amount
      [] Counts(E, n) /\ Topic[n].wallet = w /\ Topic[n].type = "FundsWithdrawn" -> -Topic[n].amount
      [] OTHER -> 0])

Completes(E, u, n) ==
    Counts(E, n) /\ Topic[n].type = "TransactionCompleted" /\ Topic[n].user = u

StatsOf(E, u) ==
    [transactions |-> SumOf([n \in Nat |-> IF Completes(E, u, n) THEN 1 ELSE 0]),
     deposits |-> SumOf([n \in Nat |-> IF Completes(E, u, n) THEN Topic[n].amount ELSE 0])]

\* The tables and the members keep their types.
TypeOK ==
    /\ \A w \in Wallets : balances[w].balance \in Int /\ balances[w].version \in Nat \cup {-1}
    /\ \A s \in statement : \E i \in DOMAIN Topic :
           s.entry = Topic[i].entry /\ Topic[i].type \in Movements
    /\ \A u \in Users : stats[u].transactions \in Nat /\ stats[u].deposits \in Nat
    /\ processed \subseteq {r.event : r \in {q \in RecordsOf(Events) : q.type \in Types}}
    /\ owner \in Members
    /\ polled \in [Members -> 0..Len(Topic)]
    /\ \A c \in Members : pos[c] \in 0..polled[c]
    /\ pc \in [Members -> {"idle", "check", "read", "upsert", "append", "mark"}]
    /\ faults \in 0..MaxFaults
    /\ torn \in BOOLEAN

\* However often a movement is handled again, after a crash between two
\* statements or by a second member, statement.Append leaves one entry with
\* its id, and HandleEvent has not marked it before.  (Movements whose payload
\* has no event_id share the nil id, and with it that one entry.)
StatementIsIdempotent ==
    /\ \A s, t \in statement : s.entry = t.entry => s = t
    /\ \A r \in RecordsOf(processed) : r.type \in Movements => \E s \in statement : s.entry = r.entry

\* The balances and the statistics are not idempotent by themselves: they
\* rest on query_processed_events, which HandleEvent reads before and writes
\* after them.  That is enough as long as no handler was cut off between its
\* upsert and its mark, no two were at work at once and no failed read was
\* taken for an empty row.  Up to then, whatever else failed, was delivered or
\* published again or was skipped, each of the projections is exactly what the
\* processed events come to, save for the event that is being written.
ExactUnlessTorn ==
    ~ torn /\ (\A c \in Members : pc[c] \notin {"append", "mark"}) =>
        /\ \A w \in Wallets : balances[w] # NoRow => balances[w].balance = BalanceOf(processed, w)
        /\ \A u \in Users : stats[u] = StatsOf(processed, u)
        /\ {s.entry : s \in statement} =
               {r.entry : r \in {q \in RecordsOf(processed) : q.type \in Movements}}

=============================================================================
