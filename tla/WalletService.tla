--------------------------- MODULE WalletService ---------------------------
(***************************************************************************)
(* The wallet service: concurrent calls of WalletService (application/     *)
(* wallet_service.go) on an event store and a snapshot store in PostgreSQL *)
(* (adapters/outbound/postgres/event_store.go).                            *)
(*                                                                         *)
(* A process of Procs is a goroutine that serves one call at a time, of    *)
(* any replica.  A step is the work between two points at which the others *)
(* can be seen: each SQL statement is one step, with the local work that   *)
(* follows it.  The INSERT and the COMMIT of AppendEvents are one step:    *)
(* the row is invisible before the commit, and an insert of the same key   *)
(* waits for the outcome.                                                  *)
(***************************************************************************)
EXTENDS WalletDomain

CONSTANTS
    Procs,              \* concurrent calls
    Amounts,            \* amounts a request carries
    SnapshotInterval,   \* domain.SnapshotInterval (50 in the code)
    MaxVersion          \* bound: no new call once a wallet has this many events

ASSUME ServiceAssumption ==
    /\ Amounts \subseteq Int64s
    /\ SnapshotInterval \in Nat \ {0}
    /\ MaxVersion \in Nat

VARIABLES
    log,    \* wallet_events: log[w][v] is the row with key (w, v)
    snap,   \* wallet_snapshots: snap[w], ZeroWallet when there is no row
    pc,     \* where each call is
    call,   \* its operation and arguments
    wal,    \* its *domain.Wallet
    reply   \* how the last call of the process ended: "ok", or "failed" for
            \* every error code; "none" while a call is running

vars == <<log, snap, pc, call, wal, reply>>

Calls == [op : Commands \cup {"CreateWallet", "GetBalance"}, wallet : Wallets \cup {NoWallet},
          amount : Int64s, since : Nat]
Events == [type : EventTypes, amount : Int64s, by : Procs]
PCs == {"idle", "loadSnapshot", "loadEvents", "readVersion", "insert", "snapshot"}
Replies == {"none", "ok", "failed"}

NoCall == [op |-> "GetBalance", wallet |-> NoWallet, amount |-> 0, since |-> 0]

\* The one event in wallet.Changes() of the call of p.
Change(p) == [type |-> EventTypeOf(call[p].op), amount |-> call[p].amount, by |-> p]

Init ==
    /\ log = [w \in Wallets |-> [v \in {} |-> {}]]
    /\ snap = [w \in Wallets |-> ZeroWallet]
    /\ pc = [p \in Procs |-> "idle"]
    /\ call = [p \in Procs |-> NoCall]
    /\ wal = [p \in Procs |-> ZeroWallet]
    /\ reply = [p \in Procs |-> "none"]

\* The call of p returns success with what it computed.
ReturnOk(p) ==
    /\ pc' = [pc EXCEPT ![p] = "idle"]
    /\ reply' = [reply EXCEPT ![p] = "ok"]

\* The call of p returns an error; its locals are gone.
ReturnError(p) ==
    /\ pc' = [pc EXCEPT ![p] = "idle"]
    /\ reply' = [reply EXCEPT ![p] = "failed"]
    /\ call' = [call EXCEPT ![p] = NoCall]
    /\ wal' = [wal EXCEPT ![p] = ZeroWallet]

Goto(p, step) ==
    /\ pc' = [pc EXCEPT ![p] = step]
    /\ reply' = [reply EXCEPT ![p] = "none"]

-----------------------------------------------------------------------------
(* The start of a call.  "since" records, for the properties only, how     *)
(* many events the wallet had when the call was made.                      *)

\* Amounts are checked by the command; those of the saga are positive,
\* because NewTransaction refuses the others.
AmountsOf(op) ==
    IF op \in {"Deposit", "Withdraw"} THEN Amounts ELSE {a \in Amounts : a > 0}

Begin(p) ==
    /\ pc[p] = "idle"
    /\ \E w \in Wallets, op \in Commands \cup {"GetBalance"} :
         \E a \in (IF op = "GetBalance" THEN {0} ELSE AmountsOf(op)) :
            /\ op = "GetBalance" \/ LastVersion(log[w]) < MaxVersion
            /\ call' = [call EXCEPT ![p] = [op |-> op, wallet |-> w, amount |-> a,
                                            since |-> LastVersion(log[w])]]
    /\ Goto(p, "loadSnapshot")
    /\ wal' = [wal EXCEPT ![p] = ZeroWallet]
    /\ UNCHANGED <<log, snap>>

\* CreateWallet: uuid.New gives an id no row and no other call has.
CreateWallet(p) ==
    /\ pc[p] = "idle"
    /\ MaxVersion > 0
    /\ \E w \in Wallets :
        /\ DOMAIN log[w] = {}
        /\ \A q \in Procs : pc[q] # "idle" => ~(call[q].op = "CreateWallet" /\ call[q].wallet = w)
        /\ call' = [call EXCEPT ![p] = [op |-> "CreateWallet", wallet |-> w, amount |-> 0,
                                        since |-> 0]]
        /\ wal' = [wal EXCEPT ![p] =
                Apply(ZeroWallet, w, 1, [type |-> "WalletCreated", amount |-> 0, by |-> p])]
    /\ Goto(p, "readVersion")
    /\ UNCHANGED <<log, snap>>

\* NewWallet refuses an empty currency before anything is read.
CreateWalletInvalid(p) ==
    /\ pc[p] = "idle"
    /\ ReturnError(p)
    /\ UNCHANGED <<log, snap>>

-----------------------------------------------------------------------------
(* load: the snapshot, then the events after it.                           *)

\* Mutant: the version of the snapshot is not used, so that all the events
\* are applied on top of it.
LoadSnapshotWithoutVersion(p) ==
    /\ pc[p] = "loadSnapshot"
    /\ \E s \in {snap[call[p].wallet], ZeroWallet} :
        wal' = [wal EXCEPT ![p] = [s EXCEPT !.version = 0]]
    /\ Goto(p, "loadEvents")
    /\ UNCHANGED <<log, snap, call>>

\* Any error of LoadSnapshot, "no snapshot" included, means a replay from
\* the first event.
LoadSnapshot(p) ==
    /\ pc[p] = "loadSnapshot"
    /\ \E s \in {snap[call[p].wallet], ZeroWallet} : wal' = [wal EXCEPT ![p] = s]
    /\ Goto(p, "loadEvents")
    /\ UNCHANGED <<log, snap, call>>

\* load does not find the wallet.
NotFound(p) ==
    /\ pc[p] = "loadEvents"
    /\ wal[p].version = 0
    /\ DOMAIN log[call[p].wallet] = {}
    /\ ReturnError(p)
    /\ UNCHANGED <<log, snap>>

\* load finds the wallet, and this is the wallet it returns.
Found(p) ==
    /\ pc[p] = "loadEvents"
    /\ wal[p].version > 0 \/ DOMAIN log[call[p].wallet] # {}

Loaded(p) == Reconstitute(call[p].wallet, log[call[p].wallet], wal[p])

GetBalance(p) ==
    /\ Found(p)
    /\ call[p].op = "GetBalance"
    /\ wal' = [wal EXCEPT ![p] = Loaded(p)]
    /\ ReturnOk(p)
    /\ UNCHANGED <<log, snap, call>>

\* The command is refused: invalid amount or insufficient funds.
Reject(p) ==
    /\ Found(p)
    /\ call[p].op \in Commands
    /\ ~Accepts(call[p].op, Loaded(p), call[p].amount)
    /\ ReturnError(p)
    /\ UNCHANGED <<log, snap>>

\* The command is accepted: its event is applied to the loaded wallet and
\* remembered in the wallet's changes.
Accept(p) ==
    /\ Found(p)
    /\ call[p].op \in Commands
    /\ Accepts(call[p].op, Loaded(p), call[p].amount)
    /\ wal' = [wal EXCEPT ![p] =
            Apply(Loaded(p), Loaded(p).id, Loaded(p).version + 1, Change(p))]
    /\ Goto(p, "readVersion")
    /\ UNCHANGED <<log, snap, call>>

-----------------------------------------------------------------------------
(* AppendEvents with expectedVersion = wal[p].version - 1, in a READ       *)
(* COMMITTED transaction: the version read may be stale at the INSERT.     *)

ReadVersion(p) ==
    /\ pc[p] = "readVersion"
    /\ LastVersion(log[call[p].wallet]) = wal[p].version - 1
    /\ Goto(p, "insert")
    /\ UNCHANGED <<log, snap, call, wal>>

Conflict(p) ==
    /\ pc[p] = "readVersion"
    /\ LastVersion(log[call[p].wallet]) # wal[p].version - 1
    /\ ReturnError(p)
    /\ UNCHANGED <<log, snap>>

\* Mutant: the rows are numbered from the version after the change.
InsertRowOneTooHigh(p) ==
    log' = [log EXCEPT ![wal[p].id] =
            [v \in DOMAIN @ \cup {wal[p].version + 1} |->
                IF v = wal[p].version + 1 THEN Change(p) ELSE @[v]]]

\* The row of the change, under the ID of the loaded wallet, joins the table.
InsertRow(p) ==
    log' = [log EXCEPT ![wal[p].id] =
            [v \in DOMAIN @ \cup {wal[p].version} |->
                IF v = wal[p].version THEN Change(p) ELSE @[v]]]

\* Mutant: no UNIQUE (wallet_id, version), the later row wins.
InsertOverwriting(p) ==
    /\ pc[p] = "insert"
    /\ InsertRow(p)
    /\ ReturnOk(p)
    /\ UNCHANGED <<snap, call, wal>>

\* Mutant: ON CONFLICT DO NOTHING, a row that is already there is a success.
InsertIgnoringConflict(p) ==
    /\ pc[p] = "insert"
    /\ IF wal[p].version \in DOMAIN log[wal[p].id] THEN log' = log ELSE InsertRow(p)
    /\ ReturnOk(p)
    /\ UNCHANGED <<snap, call, wal>>

\* maybeSnapshot.
MaybeSnapshot(p) ==
    IF wal[p].version % SnapshotInterval = 0 THEN Goto(p, "snapshot") ELSE ReturnOk(p)

\* INSERT and COMMIT succeed; UNIQUE (wallet_id, version) has let the row in.
\* CreateWallet takes no snapshot.
Insert(p) ==
    /\ pc[p] = "insert"
    /\ wal[p].version \notin DOMAIN log[wal[p].id]
    /\ InsertRow(p)
    /\ IF call[p].op = "CreateWallet" THEN ReturnOk(p) ELSE MaybeSnapshot(p)
    /\ UNCHANGED <<snap, call, wal>>

\* The row is committed, but the answer to COMMIT is lost.
InsertUnconfirmed(p) ==
    /\ pc[p] = "insert"
    /\ wal[p].version \notin DOMAIN log[wal[p].id]
    /\ InsertRow(p)
    /\ ReturnError(p)
    /\ UNCHANGED snap

\* A concurrent append of the same version came first: the unique index
\* fails the INSERT, which is reported as an internal error.
UniqueViolation(p) ==
    /\ pc[p] = "insert"
    /\ wal[p].version \in DOMAIN log[wal[p].id]
    /\ ReturnError(p)
    /\ UNCHANGED <<log, snap>>

\* Mutant: the reservations are not written to the snapshot.
SaveSnapshotWithoutReserved(p) ==
    /\ pc[p] = "snapshot"
    /\ snap' = [snap EXCEPT ![wal[p].id] = [wal[p] EXCEPT !.reserved = 0]]
    /\ ReturnOk(p)
    /\ UNCHANGED <<log, call, wal>>

\* SaveSnapshot overwrites whatever snapshot the wallet has, a newer one
\* included.  Its answer may be lost.
SaveSnapshot(p) ==
    /\ pc[p] = "snapshot"
    /\ snap' = [snap EXCEPT ![wal[p].id] = wal[p]]
    /\ ReturnError(p) \/ (ReturnOk(p) /\ UNCHANGED <<call, wal>>)
    /\ UNCHANGED log

\* A statement fails, the context is cancelled or the service crashes: the
\* open transaction is rolled back, and the caller sees an error.
Abort(p) ==
    /\ pc[p] # "idle"
    /\ ReturnError(p)
    /\ UNCHANGED <<log, snap>>

-----------------------------------------------------------------------------
Next ==
    \E p \in Procs :
        \/ Begin(p) \/ CreateWallet(p) \/ CreateWalletInvalid(p)
        \/ LoadSnapshot(p) \/ NotFound(p)
        \/ GetBalance(p) \/ Reject(p) \/ Accept(p)
        \/ ReadVersion(p) \/ Conflict(p)
        \/ Insert(p) \/ InsertUnconfirmed(p) \/ UniqueViolation(p)
        \/ SaveSnapshot(p) \/ Abort(p)

Spec == Init /\ [][Next]_vars

-----------------------------------------------------------------------------
(* Properties.                                                             *)

\* The wallet as all its events make it, after version v.
History(w) == Replay(w, log[w], ZeroWallet)

\* Types of the tables and of the state of the calls.
TypeOK ==
    /\ \A w \in Wallets :
        /\ log[w] \in [DOMAIN log[w] -> Events]
        /\ DOMAIN log[w] \subseteq Nat /\ LastVersion(log[w]) \in Nat
    /\ DOMAIN log = Wallets
    /\ snap \in [Wallets -> WalletState]
    /\ pc \in [Procs -> PCs]
    /\ call \in [Procs -> Calls]
    /\ wal \in [Procs -> WalletState]
    /\ reply \in [Procs -> Replies]

\* Whatever the interleaving of appends, the versions of a wallet are 1, 2,
\* 3, ... without a gap, and the first event and no other is WalletCreated:
\* load and the expected-version check rely on it.
LogGapless ==
    \A w \in Wallets :
        /\ DOMAIN log[w] = 1..LastVersion(log[w])
        /\ \A v \in DOMAIN log[w] : log[w][v].type = "WalletCreated" <=> v = 1

\* No lost update: every withdrawal and every reservation in the table was
\* covered by the funds available after all the events before it, although
\* the command was checked against a wallet loaded earlier, perhaps from a
\* snapshot, while others appended.
DebitsCovered ==
    \A w \in Wallets : \A v \in DOMAIN log[w] :
        log[w][v].type \in {"FundsWithdrawn", "FundsReserved"} =>
            log[w][v].amount <= AvailableBalance(History(w)[v - 1])

\* A snapshot, however late it was written and whatever it overwrote, is the
\* wallet after the first snap[w].version events.
SnapshotsFaithful ==
    \A w \in Wallets :
        /\ snap[w].version <= LastVersion(log[w])
        /\ snap[w] = History(w)[snap[w].version]

\* A call that loaded its wallet holds the wallet after a prefix of the
\* events that has at least the events of before the call, with its change.
LoadsFaithful ==
    \A p \in Procs : pc[p] \in {"readVersion", "insert"} =>
        \E v \in call[p].since..LastVersion(log[call[p].wallet]) :
            wal[p] = Apply(History(call[p].wallet)[v], call[p].wallet, v + 1, Change(p))

\* The version and balance in a successful reply are those the event log has
\* at that version, and an acknowledged change is in the table.
AcksDurable ==
    \A p \in Procs : pc[p] = "idle" /\ reply[p] = "ok" =>
        /\ wal[p].version \in call[p].since..LastVersion(log[call[p].wallet])
        /\ wal[p] = History(call[p].wallet)[wal[p].version]
        /\ call[p].op # "GetBalance" => log[call[p].wallet][wal[p].version] = Change(p)

\* Rows of wallet_events are never changed or removed by any step, two
\* racing appends of one version included.
AppendOnly ==
    [][\A w \in Wallets :
        /\ DOMAIN log[w] \subseteq DOMAIN log'[w]
        /\ \A v \in DOMAIN log[w] : log'[w][v] = log[w][v]]_log

\* The service behaves as an account that each command changes atomically.
Ledger == INSTANCE WalletLedger
            WITH ledger <- [w \in Wallets |-> Reconstitute(w, log[w], ZeroWallet)]

\* Every committed event is a step of the atomic ledger: the service is
\* serialisable, in the order of the versions.
ImplementsLedger == Ledger!Spec

=============================================================================
