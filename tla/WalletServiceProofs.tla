------------------------ MODULE WalletServiceProofs ------------------------
(***************************************************************************)
(* The wallet service is type correct, keeps a gapless log, never loses an *)
(* update and implements the atomic ledger, for any number of processes    *)
(* and wallets and every snapshot interval.  The wallet aggregate comes    *)
(* first: for every event log, applying an event keeps a wallet within its *)
(* types, Reconstitute is the recursion its loop describes and does not    *)
(* depend on later events, and starting from a faithful snapshot gives     *)
(* what a replay of all the events gives.                                  *)
(***************************************************************************)
EXTENDS WalletService, NatRecursion

-----------------------------------------------------------------------------
(* The aggregate.                                                          *)


\* The rows of one wallet: versions are naturals, events are well-formed.
IsRows(rows) ==
    /\ DOMAIN rows \subseteq Nat
    /\ \A v \in DOMAIN rows : rows[v].type \in EventTypes /\ rows[v].amount \in Int64s

\* int64 arithmetic stays within int64.
LEMMA Int64Type ==
    ASSUME NEW x \in Int
    PROVE  Int64(x) \in Int64s
<1> DEFINE m == 2 * (MaxInt64 + 1)
           y == x + MaxInt64 + 1
<1>1. MaxInt64 \in Nat  BY DomainAssumption
<1>2. m \in Int /\ m > 0 /\ y \in Int  BY <1>1
<1>3. y % m \in 0..(m - 1)
  <2> HIDE DEF m, y
  <2> QED BY <1>2
<1>4. (y % m) - (MaxInt64 + 1) \in -(MaxInt64 + 1)..MaxInt64  BY <1>1, <1>3
<1> QED BY <1>4 DEF Int64, Int64s

\* The zero wallet is a wallet state.
LEMMA ZeroWalletType == ZeroWallet \in WalletState
BY DomainAssumption DEF ZeroWallet, WalletState, Int64s

\* The available balance is an int64.
LEMMA AvailableType ==
    ASSUME NEW s \in WalletState
    PROVE  AvailableBalance(s) \in Int64s
<1>1. MaxInt64 \in Nat  BY DomainAssumption
<1>2. s.balance \in Int64s /\ s.reserved \in Int64s  BY DEF WalletState
<1>3. s.balance - s.reserved \in Int  BY <1>1, <1>2 DEF Int64s
<1> QED BY <1>3, Int64Type DEF AvailableBalance

\* Applying an event of any type to a wallet gives a wallet.
LEMMA ApplyType ==
    ASSUME NEW s \in WalletState, NEW w \in Wallets \cup {NoWallet}, NEW v \in Nat, NEW e,
           e.type \in EventTypes, e.amount \in Int64s
    PROVE  Apply(s, w, v, e) \in WalletState
<1>1. MaxInt64 \in Nat  BY DomainAssumption
<1>2. Int64s \subseteq Int  BY <1>1 DEF Int64s
<1>3. s.balance \in Int /\ s.reserved \in Int /\ e.amount \in Int  BY <1>2 DEF WalletState
<1>4. /\ Int64(s.balance + e.amount) \in Int64s
      /\ Int64(s.balance - e.amount) \in Int64s
      /\ Int64(s.reserved + e.amount) \in Int64s
      /\ Int64(s.reserved - e.amount) \in Int64s
  BY <1>3, Int64Type
<1>5. ApplyEvent(s, w, e) \in WalletState
  BY <1>4 DEF ApplyEvent, WalletState, EventTypes
<1> QED BY <1>5 DEF Apply, WalletState

\* The loop of Wallet.Reconstitute: replaying up to version v applies the row
\* with version v, if there is one, to the wallet after the rows before it.
LEMMA ReplayUnfold ==
    ASSUME NEW w \in Wallets, NEW rows, IsRows(rows), NEW start \in WalletState
    PROVE  /\ Replay(w, rows, start) \in [Nat -> WalletState]
           /\ \A v \in Nat : Replay(w, rows, start)[v] =
                IF v <= start.version THEN start
                ELSE IF v \in DOMAIN rows
                     THEN Apply(Replay(w, rows, start)[v - 1], w, v, rows[v])
                     ELSE Replay(w, rows, start)[v - 1]
<1> DEFINE Step(v, s) == IF v <= start.version THEN start
                         ELSE IF v \in DOMAIN rows THEN Apply(s, w, v, rows[v])
                         ELSE s
           Body(f) == [v \in Nat |-> Step(v, f[v - 1])]
           g == [x \in Nat \X WalletState |-> Step(x[1] + 1, x[2])]
<1>1. start.version \in Nat  BY DEF WalletState
<1>2. ASSUME NEW v \in Nat, NEW s \in WalletState PROVE Step(v, s) \in WalletState
  BY ApplyType DEF IsRows
<1>3. g \in [Nat \X WalletState -> WalletState]
  <2> HIDE DEF Step
  <2> QED BY <1>2
<1>4. \A n \in Nat : \A s \in WalletState : g[<<n, s>>] = Step(n + 1, s)
  <2> HIDE DEF Step
  <2> QED OBVIOUS
<1>5. PICK f : IsRecursion(f, WalletState, start, g)
  <2> HIDE DEF g
  <2>1. g \in RecursionSteps(WalletState)  BY <1>3 DEF RecursionSteps
  <2> QED BY <2>1, PrimitiveRecursion
<1>. /\ f \in [Nat -> WalletState] /\ f[0] = start
     /\ \A n \in Nat : f[n + 1] = g[<<n, f[n]>>]
  <2> HIDE DEF g
  <2> QED BY <1>5 DEF IsRecursion
<1>6. ASSUME NEW v \in Nat PROVE f[v] = Step(v, f[v - 1])
  <2>1. CASE v = 0
    BY <1>1, <2>1
  <2>2. CASE v # 0
    <3>1. v - 1 \in Nat /\ (v - 1) + 1 = v  BY <2>2
    <3> HIDE DEF Step, g
    <3>2. f[(v - 1) + 1] = g[<<v - 1, f[v - 1]>>]  BY <3>1
    <3> QED BY <1>4, <3>1, <3>2
  <2> QED BY <2>1, <2>2
<1>7. f = Body(f)
  <2> HIDE DEF Step
  <2> QED BY <1>6
<1>8. Replay(w, rows, start) = CHOOSE h : h = Body(h)
  BY DEF Replay
<1> DEFINE r == Replay(w, rows, start)
<1>9. r = Body(r)
  <2> HIDE DEF Body
  <2> QED BY <1>7, <1>8
<1>10. \A v \in Nat : r[v] = Step(v, r[v - 1])
  <2> HIDE DEF r, Step
  <2> QED BY <1>9
<1>11. r \in [Nat -> WalletState]
  <2> DEFINE A == {n \in Nat : r[n] \in WalletState}
  <2> HIDE DEF r
  <2>1. 0 \in A  BY <1>1, <1>10
  <2>2. ASSUME NEW n \in Nat, n \in A PROVE n + 1 \in A
    <3>1. r[n + 1] = Step(n + 1, r[n])  BY <1>10, (n + 1) - 1 = n
    <3> HIDE DEF Step
    <3> QED BY <1>2, <2>2, <3>1
  <2>3. \A n \in Nat : n \in A
    <3> HIDE DEF A
    <3> QED BY <2>1, <2>2, SetInduction
  <2>4. \A n \in Nat : r[n] \in WalletState  BY <2>3
  <2>5. r = [v \in Nat |-> Step(v, r[v - 1])]  BY <1>9
  <2> HIDE DEF Step
  <2> QED BY <2>4, <2>5
<1> QED BY <1>10, <1>11

\* Rows that are added later do not change what the wallet was: two tables
\* with the same rows up to version n replay alike up to n.
LEMMA ReplayPrefix ==
    ASSUME NEW w \in Wallets, NEW start \in WalletState, NEW n \in Nat,
           NEW rows, IsRows(rows), NEW more, IsRows(more),
           \A v \in 1..n : v \in DOMAIN rows <=> v \in DOMAIN more,
           \A v \in 1..n : v \in DOMAIN rows => rows[v] = more[v]
    PROVE  \A v \in 0..n : Replay(w, rows, start)[v] = Replay(w, more, start)[v]
<1> DEFINE r == Replay(w, rows, start)
           m == Replay(w, more, start)
           A == {v \in Nat : v <= n => r[v] = m[v]}
<1>0. start.version \in Nat  BY DEF WalletState
<1>1. /\ \A v \in Nat : r[v] = IF v <= start.version THEN start
                               ELSE IF v \in DOMAIN rows THEN Apply(r[v - 1], w, v, rows[v])
                               ELSE r[v - 1]
      /\ \A v \in Nat : m[v] = IF v <= start.version THEN start
                               ELSE IF v \in DOMAIN more THEN Apply(m[v - 1], w, v, more[v])
                               ELSE m[v - 1]
  BY ReplayUnfold
<1> HIDE DEF r, m
<1>2. 0 \in A  BY <1>0, <1>1
<1>3. ASSUME NEW v \in Nat, v \in A PROVE v + 1 \in A
  <2> SUFFICES ASSUME v + 1 <= n PROVE r[v + 1] = m[v + 1]  OBVIOUS
  <2>1. r[v] = m[v] /\ (v + 1) - 1 = v /\ v + 1 \in 1..n  BY <1>3
  <2>2. r[v + 1] = IF v + 1 <= start.version THEN start
                   ELSE IF v + 1 \in DOMAIN rows THEN Apply(r[v], w, v + 1, rows[v + 1])
                   ELSE r[v]
    BY <1>1, <2>1
  <2>3. m[v + 1] = IF v + 1 <= start.version THEN start
                   ELSE IF v + 1 \in DOMAIN more THEN Apply(m[v], w, v + 1, more[v + 1])
                   ELSE m[v]
    BY <1>1, <2>1
  <2>4. /\ v + 1 \in DOMAIN rows <=> v + 1 \in DOMAIN more
        /\ v + 1 \in DOMAIN rows => rows[v + 1] = more[v + 1]
    BY <2>1
  <2>5. CASE v + 1 \in DOMAIN rows  BY <2>1, <2>2, <2>3, <2>4, <2>5
  <2>6. CASE v + 1 \notin DOMAIN rows  BY <2>1, <2>2, <2>3, <2>4, <2>6
  <2> QED BY <2>5, <2>6
<1>4. \A v \in Nat : v \in A
  <2> HIDE DEF A
  <2> QED BY <1>2, <1>3, SetInduction
<1> QED BY <1>4 DEF r, m

\* Replaying from a snapshot: if the start is the wallet after the rows up to
\* its version, replaying the later rows gives what a full replay gives.
LEMMA ReplayFromSnapshot ==
    ASSUME NEW w \in Wallets, NEW rows, IsRows(rows), NEW start \in WalletState,
           start = Replay(w, rows, ZeroWallet)[start.version]
    PROVE  \A v \in Nat : v >= start.version =>
                Replay(w, rows, start)[v] = Replay(w, rows, ZeroWallet)[v]
<1> DEFINE r == Replay(w, rows, start)
           z == Replay(w, rows, ZeroWallet)
           A == {v \in Nat : v >= start.version => r[v] = z[v]}
<1>0. start.version \in Nat /\ ZeroWallet \in WalletState /\ ZeroWallet.version = 0
  BY ZeroWalletType DEF WalletState, ZeroWallet
<1>1. /\ \A v \in Nat : r[v] = IF v <= start.version THEN start
                               ELSE IF v \in DOMAIN rows THEN Apply(r[v - 1], w, v, rows[v])
                               ELSE r[v - 1]
      /\ \A v \in Nat : z[v] = IF v <= 0 THEN ZeroWallet
                               ELSE IF v \in DOMAIN rows THEN Apply(z[v - 1], w, v, rows[v])
                               ELSE z[v - 1]
  BY ReplayUnfold, <1>0
<1>2. start = z[start.version]  OBVIOUS
<1> HIDE DEF r, z
<1>3. r[start.version] = start  BY <1>0, <1>1
<1>4. 0 \in A  BY <1>0, <1>2, <1>3
<1>5. ASSUME NEW v \in Nat, v \in A PROVE v + 1 \in A
  <2> SUFFICES ASSUME v + 1 >= start.version PROVE r[v + 1] = z[v + 1]  OBVIOUS
  <2>1. CASE v + 1 = start.version  BY <1>2, <1>3, <2>1
  <2>2. CASE v + 1 > start.version
    <3>1. r[v] = z[v] /\ (v + 1) - 1 = v  BY <1>0, <1>5, <2>2
    <3>2. r[v + 1] = IF v + 1 \in DOMAIN rows THEN Apply(r[v], w, v + 1, rows[v + 1])
                     ELSE r[v]
      BY <1>0, <1>1, <2>2, <3>1
    <3>3. z[v + 1] = IF v + 1 \in DOMAIN rows THEN Apply(z[v], w, v + 1, rows[v + 1])
                     ELSE z[v]
      BY <1>1, <3>1
    <3> QED BY <3>1, <3>2, <3>3
  <2> QED BY <1>0, <2>1, <2>2
<1>6. \A v \in Nat : v \in A
  <2> HIDE DEF A
  <2> QED BY <1>4, <1>5, SetInduction
<1> QED BY <1>6 DEF r, z

-----------------------------------------------------------------------------
(* The inductive invariant.                                                *)

\* The rows of each wallet make it the wallet of that id and version.
HistoryIdentity ==
    \A w \in Wallets : \A v \in DOMAIN log[w] :
        History(w)[v].id = w /\ History(w)[v].version = v

\* p holds its change, made on the wallet as it was after some version v that
\* the log has reached: an acceptable command there, or the first event.
Prepared(p) ==
    \E v \in call[p].since..LastVersion(log[call[p].wallet]) :
        /\ wal[p] = Apply(History(call[p].wallet)[v], call[p].wallet, v + 1, Change(p))
        /\ \/ call[p].op = "CreateWallet" /\ v = 0
           \/ /\ call[p].op \in Commands /\ v >= 1
              /\ Accepts(call[p].op, History(call[p].wallet)[v], call[p].amount)

\* The wallet p holds is the one the log has at that version.
Current(p) ==
    /\ wal[p].version \in call[p].since..LastVersion(log[call[p].wallet])
    /\ wal[p] = History(call[p].wallet)[wal[p].version]

\* The change of p is in the log.
Committed(p) ==
    /\ wal[p].version \in DOMAIN log[call[p].wallet]
    /\ log[call[p].wallet][wal[p].version] = Change(p)

\* What holds of the call of p, step by step.
ProcOK(p) ==
    /\ pc[p] # "idle" \/ reply[p] = "ok" => call[p].wallet \in Wallets
    /\ call[p].op \in Commands => call[p].amount \in Amounts
    /\ pc[p] \in {"loadSnapshot", "loadEvents"} =>
            /\ call[p].op # "CreateWallet"
            /\ call[p].since <= LastVersion(log[call[p].wallet])
    /\ pc[p] = "loadEvents" =>
            /\ wal[p].version <= LastVersion(log[call[p].wallet])
            /\ wal[p] = History(call[p].wallet)[wal[p].version]
    /\ pc[p] \in {"readVersion", "insert"} => Prepared(p)
    /\ pc[p] = "snapshot" => Current(p) /\ Committed(p)
    /\ pc[p] = "idle" /\ reply[p] = "ok" =>
            Current(p) /\ (call[p].op # "GetBalance" => Committed(p))

\* The inductive invariant: DebitsCovered alone is not inductive, because the
\* event that Insert adds was checked several steps earlier.
IInv ==
    /\ TypeOK
    /\ LogGapless
    /\ HistoryIdentity
    /\ DebitsCovered
    /\ SnapshotsFaithful
    /\ \A p \in Procs : ProcOK(p)

\* A step that leaves what the log has: rows, and the wallets they make.
Grows ==
    \A w \in Wallets :
        /\ LastVersion(log[w]) <= LastVersion(log'[w])
        /\ \A v \in DOMAIN log[w] : v \in DOMAIN log'[w] /\ log'[w][v] = log[w][v]
        /\ \A v \in 0..LastVersion(log[w]) : History(w)'[v] = History(w)[v]

-----------------------------------------------------------------------------
\* The largest version of a gapless table.
LEMMA LastVersionOfInterval ==
    ASSUME NEW rows, NEW n \in Nat, DOMAIN rows = 1..n
    PROVE  LastVersion(rows) = n
<1> DEFINE S == DOMAIN rows \cup {0}
<1>1. n \in S /\ \A y \in S : n >= y  OBVIOUS
<1>2. \A x \in S : (\A y \in S : x >= y) => x = n
  <2> SUFFICES ASSUME NEW x \in S, \A y \in S : x >= y PROVE x = n  OBVIOUS
  <2>1. x >= n /\ n >= x /\ x \in Int  BY <1>1
  <2> QED BY <2>1
<1> HIDE DEF S
<1>3. Max(S) = n  BY <1>1, <1>2 DEF Max
<1> QED BY <1>3 DEF LastVersion, S

\* In a type-correct state the last version is a natural, and the rows
\* are what the replay lemmas ask for.
LEMMA LogFacts ==
    ASSUME TypeOK, NEW w \in Wallets
    PROVE  /\ IsRows(log[w])
           /\ LastVersion(log[w]) \in Nat
           /\ History(w) \in [Nat -> WalletState]
           /\ History(w)[0] = ZeroWallet
<1>1. IsRows(log[w])  BY DEF TypeOK, IsRows, Events
<1>2. LastVersion(log[w]) \in Nat
  BY DEF TypeOK
<1>3. ZeroWallet \in WalletState /\ ZeroWallet.version = 0
  BY ZeroWalletType DEF ZeroWallet
<1>4. History(w) \in [Nat -> WalletState]  BY <1>1, <1>3, ReplayUnfold DEF History
<1>5. History(w)[0] = ZeroWallet  BY <1>1, <1>3, ReplayUnfold DEF History
<1> QED BY <1>1, <1>2, <1>4, <1>5

\* The same facts of the next state.
LEMMA LogFactsNext ==
    ASSUME TypeOK', NEW w \in Wallets
    PROVE  /\ IsRows(log'[w])
           /\ LastVersion(log'[w]) \in Nat
           /\ History(w)' \in [Nat -> WalletState]
           /\ History(w)'[0] = ZeroWallet
<1>1. IsRows(log'[w])  BY DEF TypeOK, IsRows, Events
<1>2. LastVersion(log'[w]) \in Nat  BY DEF TypeOK
<1>3. ZeroWallet \in WalletState /\ ZeroWallet.version = 0
  BY ZeroWalletType DEF ZeroWallet
<1>4. History(w)' \in [Nat -> WalletState]  BY <1>1, <1>3, ReplayUnfold DEF History
<1>5. History(w)'[0] = ZeroWallet  BY <1>1, <1>3, ReplayUnfold DEF History
<1> QED BY <1>1, <1>2, <1>4, <1>5

\* An event that is not WalletCreated keeps the id of the wallet.
LEMMA ApplyFields ==
    ASSUME NEW s \in WalletState, NEW w, NEW v \in Nat, NEW e, e.type \in EventTypes
    PROVE  /\ Apply(s, w, v, e).version = v
           /\ e.type = "WalletCreated" => Apply(s, w, v, e).id = w
           /\ e.type # "WalletCreated" => Apply(s, w, v, e).id = s.id
           /\ Apply(s, s.id, v, e) = Apply(s, w, v, e) \/ e.type = "WalletCreated"
BY DEF Apply, ApplyEvent, WalletState, EventTypes

\* The change of a call is an event.
LEMMA ChangeType ==
    ASSUME TypeOK, NEW p \in Procs, call[p].op # "GetBalance"
    PROVE  /\ Change(p) \in Events
           /\ Change(p).type \in EventTypes /\ Change(p).amount \in Int64s
           /\ Change(p).type = "WalletCreated" <=> call[p].op = "CreateWallet"
           /\ Change(p).type \in {"FundsWithdrawn", "FundsReserved"}
                 <=> call[p].op \in {"Withdraw", "Reserve"}
<1>1. /\ call[p].op \in Commands \cup {"CreateWallet"}
      /\ call[p].amount \in Int64s
  BY DEF TypeOK, Calls
<1> QED BY <1>1 DEF Change, EventTypeOf, Commands, Events, EventTypes

\* What a call knows stays true while the others extend the log.
LEMMA ProcStable ==
    ASSUME TypeOK, TypeOK', Grows, NEW p \in Procs, ProcOK(p),
           pc'[p] = pc[p], call'[p] = call[p], wal'[p] = wal[p], reply'[p] = reply[p]
    PROVE  ProcOK(p)'
<1> DEFINE w == call[p].wallet
<1>0. Change(p)' = Change(p)  BY DEF Change
<1>1. CASE w \notin Wallets
  BY <1>1 DEF ProcOK, TypeOK, PCs
<1>2. CASE w \in Wallets
  <2>1. /\ LastVersion(log[w]) \in Nat /\ LastVersion(log'[w]) \in Nat
        /\ LastVersion(log[w]) <= LastVersion(log'[w])
        /\ \A v \in DOMAIN log[w] : v \in DOMAIN log'[w] /\ log'[w][v] = log[w][v]
        /\ \A v \in 0..LastVersion(log[w]) : History(w)'[v] = History(w)[v]
        /\ call[p].since \in Nat /\ wal[p].version \in Nat
    BY <1>2 DEF Grows, TypeOK, Calls, WalletState
  <2>2. Prepared(p) => Prepared(p)'
    <3> SUFFICES ASSUME Prepared(p) PROVE Prepared(p)'  OBVIOUS
    <3>1. PICK v \in call[p].since..LastVersion(log[w]) :
              /\ wal[p] = Apply(History(w)[v], w, v + 1, Change(p))
              /\ \/ call[p].op = "CreateWallet" /\ v = 0
                 \/ /\ call[p].op \in Commands /\ v >= 1
                    /\ Accepts(call[p].op, History(w)[v], call[p].amount)
      BY DEF Prepared
    <3>2. /\ v \in call[p].since..LastVersion(log'[w]) /\ v \in 0..LastVersion(log[w])
          /\ History(w)'[v] = History(w)[v]
      BY <2>1
    <3> QED BY <1>0, <3>1, <3>2 DEF Prepared
  <2>3. Current(p) => Current(p)'
    BY <2>1 DEF Current
  <2>4. Committed(p) => Committed(p)'
    BY <1>0, <2>1 DEF Committed
  <2>5. /\ wal[p].version <= LastVersion(log[w]) /\ wal[p] = History(w)[wal[p].version]
        => /\ wal[p].version <= LastVersion(log'[w])
           /\ wal[p] = History(w)'[wal[p].version]
    BY <2>1
  <2>6. call[p].since <= LastVersion(log[w]) => call[p].since <= LastVersion(log'[w])
    BY <2>1
  <2> QED BY <2>2, <2>3, <2>4, <2>5, <2>6 DEF ProcOK
<1> QED BY <1>1, <1>2

\* What a committed INSERT of p does: its row is version n + 1 of wallet w,
\* the replay of that row is the wallet p holds, nothing else changes, and
\* the command is acceptable on the wallet as it is now.
Appended(p, w, n) ==
    /\ w \in Wallets /\ n \in Nat
    /\ wal[p].id = w /\ wal[p].version = n + 1 /\ call[p].since <= n
    /\ DOMAIN log' = Wallets /\ \A u \in Wallets \ {w} : log'[u] = log[u]
    /\ DOMAIN log[w] = 1..n /\ DOMAIN log'[w] = 1..(n + 1)
    /\ \A v \in 1..n : log'[w][v] = log[w][v]
    /\ log'[w][n + 1] = Change(p) /\ Change(p) \in Events
    /\ log'[w] \in [DOMAIN log'[w] -> Events]
    /\ LastVersion(log'[w]) = n + 1
    /\ \A v \in 0..n : History(w)'[v] = History(w)[v]
    /\ History(w)'[n + 1] = wal[p]
    /\ wal[p] = Apply(History(w)[n], w, n + 1, Change(p))
    /\ \/ call[p].op = "CreateWallet" /\ n = 0
       \/ /\ call[p].op \in Commands /\ n >= 1
          /\ Accepts(call[p].op, History(w)[n], call[p].amount)

\* INSERT appends to the wallet of the call, and only if it is next in line.
LEMMA InsertEffect ==
    ASSUME IInv, NEW p \in Procs, pc[p] = "insert",
           wal[p].version \notin DOMAIN log[wal[p].id], InsertRow(p),
           NEW w, w = call[p].wallet, NEW n, n = LastVersion(log[w])
    PROVE  Appended(p, w, n)
<1>1. w \in Wallets  BY DEF IInv, ProcOK
<1>2. /\ IsRows(log[w]) /\ n \in Nat
      /\ History(w) \in [Nat -> WalletState] /\ History(w)[0] = ZeroWallet
  BY <1>1, LogFacts DEF IInv
<1>3. DOMAIN log[w] = 1..n  BY <1>1 DEF IInv, LogGapless
<1>4. PICK v \in call[p].since..n :
          /\ wal[p] = Apply(History(w)[v], w, v + 1, Change(p))
          /\ \/ call[p].op = "CreateWallet" /\ v = 0
             \/ /\ call[p].op \in Commands /\ v >= 1
                /\ Accepts(call[p].op, History(w)[v], call[p].amount)
  <2>1. Prepared(p)  BY DEF IInv, ProcOK
  <2> QED BY <2>1 DEF Prepared
<1>5. call[p].since \in Nat /\ v \in Nat /\ v <= n
  BY <1>2 DEF IInv, TypeOK, Calls
<1>6. /\ Change(p) \in Events /\ Change(p).type \in EventTypes
      /\ Change(p).type = "WalletCreated" <=> call[p].op = "CreateWallet"
  <2>1. call[p].op # "GetBalance"  BY <1>4 DEF Commands
  <2> QED BY <2>1, ChangeType DEF IInv
<1>7. wal[p].version = v + 1 /\ wal[p].id = w
  <2>1. History(w)[v] \in WalletState  BY <1>2, <1>5
  <2>2. wal[p].version = v + 1  BY <1>4, <1>5, <1>6, <2>1, ApplyFields
  <2>3. CASE call[p].op = "CreateWallet"
    BY <1>4, <1>5, <1>6, <2>1, <2>3, ApplyFields
  <2>4. CASE call[p].op # "CreateWallet"
    <3>1. v \in DOMAIN log[w]  BY <1>3, <1>4, <1>5, <2>4
    <3>2. History(w)[v].id = w  BY <1>1, <3>1 DEF IInv, HistoryIdentity
    <3> QED BY <1>4, <1>5, <1>6, <2>1, <2>4, <3>2, ApplyFields
  <2> QED BY <2>2, <2>3, <2>4
<1>8. v = n
  BY <1>2, <1>3, <1>5, <1>7
<1>9. /\ DOMAIN log' = Wallets /\ \A u \in Wallets \ {w} : log'[u] = log[u]
      /\ log'[w] = [x \in DOMAIN log[w] \cup {n + 1} |->
                        IF x = n + 1 THEN Change(p) ELSE log[w][x]]
  BY <1>1, <1>7, <1>8 DEF InsertRow, IInv, TypeOK
<1>10. DOMAIN log'[w] = 1..(n + 1)  BY <1>2, <1>3, <1>9
<1>11. /\ \A x \in 1..n : log'[w][x] = log[w][x]
       /\ log'[w][n + 1] = Change(p)
  BY <1>2, <1>3, <1>9
<1>12. log'[w] \in [DOMAIN log'[w] -> Events]
  BY <1>1, <1>6, <1>9 DEF IInv, TypeOK
<1>13. LastVersion(log'[w]) = n + 1  BY <1>2, <1>10, LastVersionOfInterval
<1>14. IsRows(log'[w])
  <2>1. \A x \in DOMAIN log'[w] : log'[w][x] \in Events  BY <1>12
  <2> QED BY <1>2, <1>10, <2>1 DEF IsRows, Events
<1>15. ZeroWallet \in WalletState /\ ZeroWallet.version = 0
  BY ZeroWalletType DEF ZeroWallet
<1>16. \A x \in 0..n : History(w)'[x] = History(w)[x]
  <2>1. /\ \A x \in 1..n : x \in DOMAIN log[w] <=> x \in DOMAIN log'[w]
        /\ \A x \in 1..n : x \in DOMAIN log[w] => log[w][x] = log'[w][x]
    BY <1>2, <1>3, <1>10, <1>11
  <2>2. \A x \in 0..n : Replay(w, log[w], ZeroWallet)[x] = Replay(w, log'[w], ZeroWallet)[x]
    BY <1>1, <1>2, <1>14, <1>15, <2>1, ReplayPrefix
  <2> QED BY <2>2 DEF History
<1>17. History(w)'[n + 1] = wal[p]
  <2>1. History(w)'[n + 1] = Apply(History(w)'[(n + 1) - 1], w, n + 1, log'[w][n + 1])
    <3>1. /\ n + 1 \in Nat /\ ~(n + 1 <= ZeroWallet.version) /\ n + 1 \in DOMAIN log'[w]
      BY <1>2, <1>10, <1>15
    <3> QED BY <1>1, <1>14, <1>15, <3>1, ReplayUnfold DEF History
  <2>2. History(w)'[(n + 1) - 1] = History(w)[n]
    <3>1. (n + 1) - 1 = n /\ n \in 0..n  BY <1>2
    <3> QED BY <1>16, <3>1
  <2> QED BY <1>4, <1>8, <1>11, <2>1, <2>2
<1>18. /\ wal[p] = Apply(History(w)[n], w, n + 1, Change(p))
       /\ \/ call[p].op = "CreateWallet" /\ n = 0
          \/ /\ call[p].op \in Commands /\ n >= 1
             /\ Accepts(call[p].op, History(w)[n], call[p].amount)
       /\ call[p].since <= n /\ wal[p].version = n + 1
  BY <1>4, <1>5, <1>7, <1>8
<1> QED BY <1>1, <1>2, <1>3, <1>6, <1>7, <1>9, <1>10, <1>11, <1>12, <1>13, <1>16, <1>17, <1>18
    DEF Appended

\* The empty tables satisfy the invariant.
LEMMA InitIInv == Init => IInv
<1> SUFFICES ASSUME Init PROVE IInv  OBVIOUS
<1>1. \A w \in Wallets : DOMAIN log[w] = {} /\ LastVersion(log[w]) = 0
  <2> TAKE w \in Wallets
  <2>1. DOMAIN log[w] = {} /\ DOMAIN log[w] = 1..0  BY DEF Init
  <2> QED BY <2>1, LastVersionOfInterval
<1>2. TypeOK
  <2>1. \A w \in Wallets : log[w] \in [DOMAIN log[w] -> Events]  BY DEF Init
  <2>2. NoCall \in Calls
    BY DomainAssumption DEF NoCall, Calls, Int64s
  <2> QED BY <1>1, <2>1, <2>2, ZeroWalletType DEF Init, TypeOK, PCs, Replies
<1>3. LogGapless /\ HistoryIdentity /\ DebitsCovered
  <2>1. LogGapless
    <3>1. 1..0 = {}  OBVIOUS
    <3> QED BY <1>1, <3>1 DEF LogGapless
  <2>2. HistoryIdentity  BY <1>1 DEF HistoryIdentity
  <2>3. DebitsCovered  BY <1>1 DEF DebitsCovered
  <2> QED BY <2>1, <2>2, <2>3
<1>4. SnapshotsFaithful
  <2> SUFFICES ASSUME NEW w \in Wallets
               PROVE snap[w].version <= LastVersion(log[w])
                     /\ snap[w] = History(w)[snap[w].version]
    BY DEF SnapshotsFaithful
  <2>1. History(w)[0] = ZeroWallet  BY <1>2, LogFacts
  <2>2. snap[w] = ZeroWallet /\ ZeroWallet.version = 0  BY DEF Init, ZeroWallet
  <2> QED BY <1>1, <2>1, <2>2
<1>5. ASSUME NEW p \in Procs PROVE ProcOK(p)
  <2>1. pc[p] = "idle" /\ reply[p] = "none" /\ call[p].op = "GetBalance"
    BY DEF Init, NoCall
  <2> QED BY <2>1 DEF ProcOK, Commands
<1> QED BY <1>2, <1>3, <1>4, <1>5 DEF IInv

-----------------------------------------------------------------------------
\* Only process p moves.
OnlyProc(p) ==
    \A q \in Procs \ {p} :
        pc'[q] = pc[q] /\ call'[q] = call[q] /\ wal'[q] = wal[q] /\ reply'[q] = reply[q]

\* A step of p that writes no event keeps the invariant if it keeps p's part.
LEMMA QuietStep ==
    ASSUME IInv, log' = log, TypeOK', SnapshotsFaithful', NEW p \in Procs, OnlyProc(p),
           ProcOK(p)'
    PROVE  IInv'
<1>1. \A w \in Wallets : History(w)' = History(w) /\ LastVersion(log'[w]) = LastVersion(log[w])
  BY DEF History
<1>2. LogGapless' /\ HistoryIdentity' /\ DebitsCovered'
  BY <1>1 DEF IInv, LogGapless, HistoryIdentity, DebitsCovered
<1>3. Grows
  <2>1. \A w \in Wallets : LastVersion(log[w]) \in Nat  BY DEF IInv, TypeOK
  <2> QED BY <1>1, <2>1 DEF Grows
<1>4. ASSUME NEW q \in Procs PROVE ProcOK(q)'
  <2>1. CASE q = p  BY <2>1
  <2>2. CASE q # p
    <3>1. pc'[q] = pc[q] /\ call'[q] = call[q] /\ wal'[q] = wal[q] /\ reply'[q] = reply[q]
      BY <2>2 DEF OnlyProc
    <3> QED BY <1>3, <3>1, ProcStable DEF IInv
  <2> QED BY <2>1, <2>2
<1> QED BY <1>2, <1>4 DEF IInv

\* Snapshots stay faithful when neither table changes.
LEMMA SnapshotsUnchanged ==
    ASSUME SnapshotsFaithful, log' = log, snap' = snap
    PROVE  SnapshotsFaithful'
BY DEF SnapshotsFaithful, History

\* Every way a call ends with an error, before anything is written.
LEMMA ErrorStep ==
    ASSUME IInv, NEW p \in Procs, ReturnError(p), log' = log, snap' = snap
    PROVE  IInv'
<1>1. /\ pc' = [pc EXCEPT ![p] = "idle"] /\ reply' = [reply EXCEPT ![p] = "failed"]
      /\ call' = [call EXCEPT ![p] = NoCall] /\ wal' = [wal EXCEPT ![p] = ZeroWallet]
  BY DEF ReturnError
<1>2. TypeOK'
  <2>1. NoCall \in Calls  BY DomainAssumption DEF NoCall, Calls, Int64s
  <2> QED BY <1>1, <2>1, ZeroWalletType DEF IInv, TypeOK, PCs, Replies
<1>3. OnlyProc(p)  BY <1>1 DEF OnlyProc, IInv, TypeOK
<1>4. ProcOK(p)'
  <2>1. pc'[p] = "idle" /\ reply'[p] = "failed" /\ call'[p].op = "GetBalance"
    BY <1>1 DEF IInv, TypeOK, NoCall
  <2> QED BY <2>1 DEF ProcOK, Commands
<1>5. SnapshotsFaithful'  BY SnapshotsUnchanged DEF IInv
<1> QED BY <1>2, <1>3, <1>4, <1>5, QuietStep

\* What load returns: the wallet after all the events, under its own id.
LEMMA LoadedIsCurrent ==
    ASSUME IInv, NEW p \in Procs, Found(p),
           NEW w, w = call[p].wallet, NEW n, n = LastVersion(log[w])
    PROVE  /\ w \in Wallets /\ n \in Nat /\ n >= 1 /\ call[p].since \in 0..n
           /\ History(w) \in [Nat -> WalletState]
           /\ Loaded(p) = History(w)[n]
           /\ Loaded(p).id = w /\ Loaded(p).version = n
<1>0. /\ pc[p] = "loadEvents"
      /\ wal[p].version > 0 \/ DOMAIN log[w] # {}
  BY DEF Found
<1>1. /\ w \in Wallets /\ call[p].since <= n
      /\ wal[p].version <= n /\ wal[p] = History(w)[wal[p].version]
  BY <1>0 DEF IInv, ProcOK
<1>2. IsRows(log[w]) /\ n \in Nat /\ History(w) \in [Nat -> WalletState]
  BY <1>1, LogFacts DEF IInv
<1>3. wal[p] \in WalletState /\ wal[p].version \in Nat /\ call[p].since \in Nat
  BY DEF IInv, TypeOK, WalletState, Calls
<1>4. DOMAIN log[w] = 1..n  BY <1>1 DEF IInv, LogGapless
<1>5. n >= 1  BY <1>0, <1>1, <1>2, <1>3, <1>4
<1>6. Loaded(p) = History(w)[n]
  <2>1. wal[p] = Replay(w, log[w], ZeroWallet)[wal[p].version]  BY <1>1 DEF History
  <2>2. Replay(w, log[w], wal[p])[n] = Replay(w, log[w], ZeroWallet)[n]
    BY <1>1, <1>2, <1>3, <2>1, ReplayFromSnapshot
  <2> QED BY <2>2 DEF Loaded, Reconstitute, History
<1>7. History(w)[n].id = w /\ History(w)[n].version = n
  <2>1. n \in DOMAIN log[w]  BY <1>2, <1>4, <1>5
  <2> QED BY <1>1, <2>1 DEF IInv, HistoryIdentity
<1> QED BY <1>1, <1>2, <1>3, <1>5, <1>6, <1>7

-----------------------------------------------------------------------------
(* One lemma per action that is not an error return.                       *)

\* The start of a call on an existing wallet.
LEMMA BeginStep == ASSUME IInv, NEW p \in Procs, Begin(p) PROVE IInv'
<1>0. PICK w \in Wallets, op \in Commands \cup {"GetBalance"} :
        \E a \in (IF op = "GetBalance" THEN {0} ELSE AmountsOf(op)) :
          call' = [call EXCEPT ![p] = [op |-> op, wallet |-> w, amount |-> a,
                                       since |-> LastVersion(log[w])]]
  BY DEF Begin
<1>1. PICK a \in (IF op = "GetBalance" THEN {0} ELSE AmountsOf(op)) :
        call' = [call EXCEPT ![p] = [op |-> op, wallet |-> w, amount |-> a,
                                     since |-> LastVersion(log[w])]]
  BY <1>0
<1>2. /\ pc' = [pc EXCEPT ![p] = "loadSnapshot"] /\ reply' = [reply EXCEPT ![p] = "none"]
      /\ wal' = [wal EXCEPT ![p] = ZeroWallet] /\ log' = log /\ snap' = snap
  BY DEF Begin, Goto
<1>3. op \in Commands => a \in Amounts
  BY DEF AmountsOf, Commands
<1>4. LastVersion(log[w]) \in Nat  BY DEF IInv, TypeOK
<1>5. a \in Int64s
  BY <1>3, ServiceAssumption, DomainAssumption DEF Int64s
<1>6. TypeOK'
  <2>1. [op |-> op, wallet |-> w, amount |-> a, since |-> LastVersion(log[w])] \in Calls
    BY <1>4, <1>5 DEF Calls
  <2> QED BY <1>1, <1>2, <2>1, ZeroWalletType DEF IInv, TypeOK, PCs, Replies
<1>7. OnlyProc(p)  BY <1>1, <1>2 DEF OnlyProc, IInv, TypeOK
<1>8. ProcOK(p)'
  <2>1. /\ pc'[p] = "loadSnapshot"
        /\ call'[p].op = op /\ call'[p].wallet = w /\ call'[p].amount = a
        /\ call'[p].since = LastVersion(log[w])
    BY <1>1, <1>2 DEF IInv, TypeOK
  <2> QED BY <1>2, <1>3, <1>4, <2>1 DEF ProcOK, Commands
<1>9. SnapshotsFaithful'  BY <1>2, SnapshotsUnchanged DEF IInv
<1> QED BY <1>2, <1>6, <1>7, <1>8, <1>9, QuietStep

\* A new wallet, not written yet.
LEMMA CreateWalletStep == ASSUME IInv, NEW p \in Procs, CreateWallet(p) PROVE IInv'
<1> DEFINE e == [type |-> "WalletCreated", amount |-> 0, by |-> p]
<1>1. PICK w \in Wallets :
        /\ call' = [call EXCEPT ![p] = [op |-> "CreateWallet", wallet |-> w, amount |-> 0,
                                        since |-> 0]]
        /\ wal' = [wal EXCEPT ![p] = Apply(ZeroWallet, w, 1, e)]
  BY DEF CreateWallet
<1>2. /\ pc' = [pc EXCEPT ![p] = "readVersion"] /\ reply' = [reply EXCEPT ![p] = "none"]
      /\ log' = log /\ snap' = snap
  BY DEF CreateWallet, Goto
<1>3. 0 \in Int64s  BY DomainAssumption DEF Int64s
<1>4. Apply(ZeroWallet, w, 1, e) \in WalletState
  BY <1>3, ZeroWalletType, ApplyType DEF EventTypes
<1>5. TypeOK'
  <2>1. [op |-> "CreateWallet", wallet |-> w, amount |-> 0, since |-> 0] \in Calls
    BY <1>3 DEF Calls
  <2> QED BY <1>1, <1>2, <1>4, <2>1 DEF IInv, TypeOK, PCs, Replies
<1>6. OnlyProc(p)  BY <1>1, <1>2 DEF OnlyProc, IInv, TypeOK
<1>7. /\ pc'[p] = "readVersion" /\ call'[p].op = "CreateWallet" /\ call'[p].wallet = w
      /\ call'[p].amount = 0 /\ call'[p].since = 0 /\ wal'[p] = Apply(ZeroWallet, w, 1, e)
  BY <1>1, <1>2 DEF IInv, TypeOK
<1>8. Prepared(p)'
  <2>1. LastVersion(log'[w]) \in Nat /\ History(w)'[0] = ZeroWallet
    BY <1>5, LogFactsNext
  <2>2. Change(p)' = e  BY <1>7 DEF Change, EventTypeOf
  <2>3. 0 \in call'[p].since..LastVersion(log'[w]) /\ 0 + 1 = 1  BY <1>7, <2>1
  <2> QED BY <1>7, <2>1, <2>2, <2>3 DEF Prepared
<1>9. ProcOK(p)'
  BY <1>7, <1>8 DEF ProcOK, Commands
<1>10. SnapshotsFaithful'  BY <1>2, SnapshotsUnchanged DEF IInv
<1> QED BY <1>2, <1>5, <1>6, <1>9, <1>10, QuietStep

\* The snapshot, or nothing, to start the replay from.
LEMMA LoadSnapshotStep == ASSUME IInv, NEW p \in Procs, LoadSnapshot(p) PROVE IInv'
<1> DEFINE w == call[p].wallet
<1>1. PICK s \in {snap[w], ZeroWallet} : wal' = [wal EXCEPT ![p] = s]
  BY DEF LoadSnapshot
<1>2. /\ pc' = [pc EXCEPT ![p] = "loadEvents"] /\ reply' = [reply EXCEPT ![p] = "none"]
      /\ log' = log /\ snap' = snap /\ call' = call /\ pc[p] = "loadSnapshot"
  BY DEF LoadSnapshot, Goto
<1>3. w \in Wallets  BY <1>2 DEF IInv, ProcOK
<1>4. s \in WalletState  BY <1>1, <1>3, ZeroWalletType DEF IInv, TypeOK
<1>5. s.version <= LastVersion(log[w]) /\ s = History(w)[s.version]
  <2>1. LastVersion(log[w]) \in Nat /\ History(w)[0] = ZeroWallet /\ ZeroWallet.version = 0
    BY <1>3, LogFacts DEF IInv, ZeroWallet
  <2>2. snap[w].version <= LastVersion(log[w]) /\ snap[w] = History(w)[snap[w].version]
    BY <1>3 DEF IInv, SnapshotsFaithful
  <2> QED BY <1>1, <2>1, <2>2
<1>6. TypeOK'  BY <1>1, <1>2, <1>4 DEF IInv, TypeOK, PCs, Replies
<1>7. OnlyProc(p)  BY <1>1, <1>2 DEF OnlyProc, IInv, TypeOK
<1>8. pc'[p] = "loadEvents" /\ wal'[p] = s /\ History(w)' = History(w)
  BY <1>1, <1>2 DEF IInv, TypeOK, History
<1>9. ProcOK(p)'
  <2>1. /\ call[p].op # "CreateWallet" /\ call[p].since <= LastVersion(log[w])
        /\ call[p].op \in Commands => call[p].amount \in Amounts
    BY <1>2 DEF IInv, ProcOK
  <2> QED BY <1>2, <1>3, <1>5, <1>8, <2>1 DEF ProcOK
<1>10. SnapshotsFaithful'  BY <1>2, SnapshotsUnchanged DEF IInv
<1> QED BY <1>2, <1>6, <1>7, <1>9, <1>10, QuietStep

\* A read: the reply is the wallet after all its events.
LEMMA GetBalanceStep == ASSUME IInv, NEW p \in Procs, GetBalance(p) PROVE IInv'
<1> DEFINE w == call[p].wallet
           n == LastVersion(log[w])
<1>1. /\ pc' = [pc EXCEPT ![p] = "idle"] /\ reply' = [reply EXCEPT ![p] = "ok"]
      /\ wal' = [wal EXCEPT ![p] = Loaded(p)] /\ Found(p) /\ call[p].op = "GetBalance"
      /\ log' = log /\ snap' = snap /\ call' = call
  BY DEF GetBalance, ReturnOk
<1>2. /\ w \in Wallets /\ n \in Nat /\ n >= 1 /\ call[p].since \in 0..n
      /\ History(w) \in [Nat -> WalletState]
      /\ Loaded(p) = History(w)[n] /\ Loaded(p).version = n
  BY <1>1, LoadedIsCurrent
<1>3. Loaded(p) \in WalletState  BY <1>2
<1>4. TypeOK'  BY <1>1, <1>3 DEF IInv, TypeOK, PCs, Replies
<1>5. OnlyProc(p)  BY <1>1 DEF OnlyProc, IInv, TypeOK
<1>6. pc'[p] = "idle" /\ wal'[p] = Loaded(p) /\ History(w)' = History(w)
  BY <1>1 DEF IInv, TypeOK, History
<1>7. Current(p)'
  BY <1>1, <1>2, <1>6 DEF Current
<1>8. ProcOK(p)'
  BY <1>1, <1>2, <1>6, <1>7 DEF ProcOK, Commands
<1>9. SnapshotsFaithful'  BY <1>1, SnapshotsUnchanged DEF IInv
<1> QED BY <1>1, <1>4, <1>5, <1>8, <1>9, QuietStep

\* An accepted command: the change is made on the current wallet.
LEMMA AcceptStep == ASSUME IInv, NEW p \in Procs, Accept(p) PROVE IInv'
<1> DEFINE w == call[p].wallet
           n == LastVersion(log[w])
           s == Apply(History(w)[n], w, n + 1, Change(p))
<1>1. /\ pc' = [pc EXCEPT ![p] = "readVersion"] /\ reply' = [reply EXCEPT ![p] = "none"]
      /\ wal' = [wal EXCEPT ![p] =
                    Apply(Loaded(p), Loaded(p).id, Loaded(p).version + 1, Change(p))]
      /\ Found(p) /\ call[p].op \in Commands
      /\ Accepts(call[p].op, Loaded(p), call[p].amount)
      /\ log' = log /\ snap' = snap /\ call' = call
  BY DEF Accept, Goto
<1>2. /\ w \in Wallets /\ n \in Nat /\ n >= 1 /\ call[p].since \in 0..n
      /\ History(w) \in [Nat -> WalletState]
      /\ Loaded(p) = History(w)[n] /\ Loaded(p).id = w /\ Loaded(p).version = n
  BY <1>1, LoadedIsCurrent
<1>3. Change(p).type \in EventTypes /\ Change(p).amount \in Int64s
  <2>1. call[p].op # "GetBalance"  BY <1>1 DEF Commands
  <2> QED BY <2>1, ChangeType DEF IInv
<1>4. s \in WalletState
  <2>1. History(w)[n] \in WalletState /\ n + 1 \in Nat  BY <1>2
  <2> QED BY <1>2, <1>3, <2>1, ApplyType
<1>5. wal' = [wal EXCEPT ![p] = s]  BY <1>1, <1>2
<1> HIDE DEF s
<1>6. TypeOK'  BY <1>1, <1>4, <1>5 DEF IInv, TypeOK, PCs, Replies
<1>7. OnlyProc(p)  BY <1>1, <1>5 DEF OnlyProc, IInv, TypeOK
<1>8. /\ pc'[p] = "readVersion" /\ wal'[p] = s /\ History(w)' = History(w)
      /\ Change(p)' = Change(p)
  BY <1>1, <1>5 DEF IInv, TypeOK, History, Change
<1>9. Prepared(p)'
  <2>1. /\ n \in call'[p].since..LastVersion(log'[w])
        /\ wal'[p] = Apply(History(w)'[n], w, n + 1, Change(p)')
        /\ call'[p].op \in Commands /\ n >= 1
        /\ Accepts(call'[p].op, History(w)'[n], call'[p].amount)
    BY <1>1, <1>2, <1>8 DEF s
  <2> QED BY <1>1, <2>1 DEF Prepared
<1>10. ProcOK(p)'
  <2>1. call[p].amount \in Amounts  BY <1>1 DEF IInv, ProcOK
  <2> QED BY <1>1, <1>2, <1>8, <1>9, <2>1 DEF ProcOK
<1>11. SnapshotsFaithful'  BY <1>1, SnapshotsUnchanged DEF IInv
<1> QED BY <1>1, <1>6, <1>7, <1>10, <1>11, QuietStep

\* The expected-version check passes.
LEMMA ReadVersionStep == ASSUME IInv, NEW p \in Procs, ReadVersion(p) PROVE IInv'
<1>1. /\ pc' = [pc EXCEPT ![p] = "insert"] /\ reply' = [reply EXCEPT ![p] = "none"]
      /\ log' = log /\ snap' = snap /\ call' = call /\ wal' = wal
      /\ pc[p] = "readVersion"
  BY DEF ReadVersion, Goto
<1>2. TypeOK'  BY <1>1 DEF IInv, TypeOK, PCs, Replies
<1>3. OnlyProc(p)  BY <1>1 DEF OnlyProc, IInv, TypeOK
<1>4. Prepared(p)'
  <2>1. Prepared(p)  BY <1>1 DEF IInv, ProcOK
  <2> QED BY <1>1, <2>1 DEF Prepared, History, Change
<1>5. ProcOK(p)'
  <2>1. /\ pc'[p] = "insert" /\ call[p].wallet \in Wallets
        /\ call[p].op \in Commands => call[p].amount \in Amounts
    BY <1>1 DEF IInv, TypeOK, ProcOK
  <2> QED BY <1>1, <1>4, <2>1 DEF ProcOK
<1>6. SnapshotsFaithful'  BY <1>1, SnapshotsUnchanged DEF IInv
<1> QED BY <1>1, <1>2, <1>3, <1>5, <1>6, QuietStep

\* A snapshot is written: the wallet p holds is one the log has.
LEMMA SaveSnapshotStep == ASSUME IInv, NEW p \in Procs, SaveSnapshot(p) PROVE IInv'
<1> DEFINE w == call[p].wallet
<1>1. /\ pc[p] = "snapshot" /\ log' = log
      /\ snap' = [snap EXCEPT ![wal[p].id] = wal[p]]
      /\ ReturnError(p) \/ (ReturnOk(p) /\ UNCHANGED <<call, wal>>)
  BY DEF SaveSnapshot
<1>2. /\ w \in Wallets /\ Current(p) /\ Committed(p)
      /\ call[p].op \in Commands => call[p].amount \in Amounts
  BY <1>1 DEF IInv, ProcOK
<1>3. wal[p].id = w
  <2>1. wal[p].version \in DOMAIN log[w] /\ wal[p] = History(w)[wal[p].version]
    BY <1>2 DEF Current, Committed
  <2> QED BY <1>2, <2>1 DEF IInv, HistoryIdentity
<1>4. snap' = [snap EXCEPT ![w] = wal[p]] /\ wal[p] \in WalletState
  BY <1>1, <1>3 DEF IInv, TypeOK
<1>5. SnapshotsFaithful'
  <2> SUFFICES ASSUME NEW u \in Wallets
               PROVE  snap'[u].version <= LastVersion(log'[u])
                      /\ snap'[u] = History(u)'[snap'[u].version]
    BY DEF SnapshotsFaithful
  <2>1. History(u)' = History(u) /\ LastVersion(log'[u]) = LastVersion(log[u])
    BY <1>1 DEF History
  <2>2. CASE u = w
    <3>1. snap'[u] = wal[p]  BY <1>2, <1>4, <2>2 DEF IInv, TypeOK
    <3>2. wal[p].version <= LastVersion(log[w]) /\ wal[p] = History(w)[wal[p].version]
      <4>1. call[p].since \in Nat /\ LastVersion(log[w]) \in Nat
        BY <1>2 DEF IInv, TypeOK, Calls
      <4> QED BY <1>2, <4>1 DEF Current
    <3> QED BY <2>1, <2>2, <3>1, <3>2
  <2>3. CASE u # w
    <3>1. snap'[u] = snap[u]  BY <1>4, <2>3 DEF IInv, TypeOK
    <3> QED BY <2>1, <3>1 DEF IInv, SnapshotsFaithful
  <2> QED BY <2>2, <2>3
<1>6. CASE ReturnError(p)
  <2>1. /\ pc' = [pc EXCEPT ![p] = "idle"] /\ reply' = [reply EXCEPT ![p] = "failed"]
        /\ call' = [call EXCEPT ![p] = NoCall] /\ wal' = [wal EXCEPT ![p] = ZeroWallet]
    BY <1>6 DEF ReturnError
  <2>2. NoCall \in Calls  BY DomainAssumption DEF NoCall, Calls, Int64s
  <2>3. TypeOK'
    BY <1>1, <1>4, <2>1, <2>2, ZeroWalletType DEF IInv, TypeOK, PCs, Replies
  <2>4. OnlyProc(p)  BY <2>1 DEF OnlyProc, IInv, TypeOK
  <2>5. ProcOK(p)'
    <3>1. pc'[p] = "idle" /\ reply'[p] = "failed" /\ call'[p].op = "GetBalance"
      BY <2>1 DEF IInv, TypeOK, NoCall
    <3> QED BY <3>1 DEF ProcOK, Commands
  <2> QED BY <1>1, <1>5, <2>3, <2>4, <2>5, QuietStep
<1>7. CASE ReturnOk(p) /\ UNCHANGED <<call, wal>>
  <2>1. /\ pc' = [pc EXCEPT ![p] = "idle"] /\ reply' = [reply EXCEPT ![p] = "ok"]
        /\ call' = call /\ wal' = wal
    BY <1>7 DEF ReturnOk
  <2>2. TypeOK'  BY <1>1, <1>4, <2>1 DEF IInv, TypeOK, PCs, Replies
  <2>3. OnlyProc(p)  BY <2>1 DEF OnlyProc, IInv, TypeOK
  <2>4. Current(p)' /\ Committed(p)'
    BY <1>1, <1>2, <2>1 DEF Current, Committed, Change, History
  <2>5. pc'[p] = "idle"  BY <2>1 DEF IInv, TypeOK
  <2>6. ProcOK(p)'
    BY <1>2, <2>1, <2>4, <2>5 DEF ProcOK
  <2> QED BY <1>1, <1>5, <2>2, <2>3, <2>6, QuietStep
<1> QED BY <1>1, <1>6, <1>7

\* The tables after an INSERT: a gapless log in which the new debit, if it is
\* one, is covered, and in which everything known of the old log still holds.
LEMMA InsertKeepsTables ==
    ASSUME IInv, NEW p \in Procs, pc[p] = "insert", snap' = snap,
           wal[p].version \notin DOMAIN log[wal[p].id], InsertRow(p)
    PROVE  Grows /\ LogGapless' /\ HistoryIdentity' /\ DebitsCovered' /\ SnapshotsFaithful'
<1>w. PICK w : w = call[p].wallet  OBVIOUS
<1>n. PICK n : n = LastVersion(log[w])  OBVIOUS
<1>a. Appended(p, w, n)  BY <1>w, <1>n, InsertEffect
<1>1. /\ w \in Wallets /\ n \in Nat
      /\ wal[p].id = w /\ wal[p].version = n + 1
      /\ \A u \in Wallets \ {w} : log'[u] = log[u]
      /\ DOMAIN log[w] = 1..n /\ DOMAIN log'[w] = 1..(n + 1)
      /\ \A v \in 1..n : log'[w][v] = log[w][v]
      /\ log'[w][n + 1] = Change(p)
      /\ LastVersion(log'[w]) = n + 1
      /\ \A v \in 0..n : History(w)'[v] = History(w)[v]
      /\ History(w)'[n + 1] = wal[p]
      /\ \/ call[p].op = "CreateWallet" /\ n = 0
         \/ /\ call[p].op \in Commands /\ n >= 1
            /\ Accepts(call[p].op, History(w)[n], call[p].amount)
  BY <1>a DEF Appended
<1>2. \A u \in Wallets \ {w} :
        History(u)' = History(u) /\ LastVersion(log'[u]) = LastVersion(log[u])
  BY <1>1 DEF History
<1>3. \A u \in Wallets : LastVersion(log[u]) \in Nat  BY DEF IInv, TypeOK
<1>4. /\ Change(p).type = "WalletCreated" <=> call[p].op = "CreateWallet"
      /\ Change(p).type \in {"FundsWithdrawn", "FundsReserved"}
             <=> call[p].op \in {"Withdraw", "Reserve"}
      /\ Change(p).amount = call[p].amount
  <2>1. call[p].op # "GetBalance"  BY <1>1 DEF Commands
  <2> QED BY <2>1, ChangeType DEF IInv, Change
<1>5. Grows
  <2> SUFFICES ASSUME NEW u \in Wallets
               PROVE  /\ LastVersion(log[u]) <= LastVersion(log'[u])
                      /\ \A v \in DOMAIN log[u] : v \in DOMAIN log'[u] /\ log'[u][v] = log[u][v]
                      /\ \A v \in 0..LastVersion(log[u]) : History(u)'[v] = History(u)[v]
    BY DEF Grows
  <2>1. CASE u = w
    <3>1. n = LastVersion(log[u])  BY <1>n, <2>1
    <3>2. LastVersion(log[u]) <= LastVersion(log'[u])  BY <1>1, <2>1, <3>1
    <3>3. \A v \in DOMAIN log[u] : v \in DOMAIN log'[u] /\ log'[u][v] = log[u][v]
      <4> TAKE v \in DOMAIN log[u]
      <4>1. v \in 1..n /\ v \in 1..(n + 1)  BY <1>1, <2>1
      <4> QED BY <1>1, <2>1, <4>1
    <3>4. \A v \in 0..LastVersion(log[u]) : History(u)'[v] = History(u)[v]
      BY <1>1, <2>1, <3>1
    <3> QED BY <3>2, <3>3, <3>4
  <2>2. CASE u # w
    BY <1>1, <1>2, <1>3, <2>2
  <2> QED BY <2>1, <2>2
<1>6. LogGapless'
  <2> SUFFICES ASSUME NEW u \in Wallets
               PROVE  /\ DOMAIN log'[u] = 1..LastVersion(log'[u])
                      /\ \A v \in DOMAIN log'[u] : log'[u][v].type = "WalletCreated" <=> v = 1
    BY DEF LogGapless
  <2>1. CASE u = w
    <3>1. ASSUME NEW v \in 1..(n + 1)
          PROVE  log'[w][v].type = "WalletCreated" <=> v = 1
      <4>1. CASE v = n + 1
        <5>1. call[p].op = "CreateWallet" <=> n = 0  BY <1>1 DEF Commands
        <5> QED BY <1>1, <1>4, <4>1, <5>1
      <4>2. CASE v # n + 1
        <5>1. v \in 1..n  BY <1>1, <4>2
        <5> QED BY <1>1, <5>1 DEF IInv, LogGapless
      <4> QED BY <4>1, <4>2
    <3> QED BY <1>1, <2>1, <3>1
  <2>2. CASE u # w
    BY <1>1, <1>2, <2>2 DEF IInv, LogGapless
  <2> QED BY <2>1, <2>2
<1>7. HistoryIdentity'
  <2> SUFFICES ASSUME NEW u \in Wallets, NEW v \in DOMAIN log'[u]
               PROVE  History(u)'[v].id = u /\ History(u)'[v].version = v
    BY DEF HistoryIdentity
  <2>1. CASE u = w /\ v = n + 1  BY <1>1, <2>1
  <2>2. CASE u = w /\ v # n + 1
    <3>1. v \in DOMAIN log[w] /\ v \in 0..n  BY <1>1, <2>2
    <3> QED BY <1>1, <2>2, <3>1 DEF IInv, HistoryIdentity
  <2>3. CASE u # w
    BY <1>1, <1>2, <2>3 DEF IInv, HistoryIdentity
  <2> QED BY <2>1, <2>2, <2>3
<1>8. DebitsCovered'
  <2> SUFFICES ASSUME NEW u \in Wallets, NEW v \in DOMAIN log'[u],
                      log'[u][v].type \in {"FundsWithdrawn", "FundsReserved"}
               PROVE  log'[u][v].amount <= AvailableBalance(History(u)'[v - 1])
    BY DEF DebitsCovered
  <2>1. CASE u = w /\ v = n + 1
    <3>1. call[p].op \in {"Withdraw", "Reserve"}  BY <1>1, <1>4, <2>1
    <3>2. AvailableBalance(History(w)[n]) >= call[p].amount
      BY <1>1, <3>1 DEF Accepts
    <3>3. History(w)'[v - 1] = History(w)[n]
      <4>1. v - 1 = n /\ n \in 0..n  BY <1>1, <2>1
      <4> QED BY <1>1, <4>1
    <3>4. log'[u][v].amount = call[p].amount  BY <1>1, <1>4, <2>1
    <3>5. AvailableBalance(History(w)[n]) \in Int /\ call[p].amount \in Int
      <4>1. History(w)[n] \in WalletState  BY <1>1, LogFacts DEF IInv
      <4>2. Int64s \subseteq Int  BY DomainAssumption DEF Int64s
      <4>4. AvailableBalance(History(w)[n]) \in Int64s  BY <4>1, AvailableType
      <4>5. call[p].amount \in Int64s  BY DEF IInv, TypeOK, Calls
      <4> QED BY <4>2, <4>4, <4>5
    <3> QED BY <2>1, <3>2, <3>3, <3>4, <3>5
  <2>2. CASE u = w /\ v # n + 1
    <3>1. v \in DOMAIN log[w] /\ v \in 1..n /\ v - 1 \in 0..n  BY <1>1, <2>2
    <3>2. log'[w][v] = log[w][v] /\ History(w)'[v - 1] = History(w)[v - 1]
      BY <1>1, <3>1
    <3> QED BY <1>1, <2>2, <3>1, <3>2 DEF IInv, DebitsCovered
  <2>3. CASE u # w
    BY <1>1, <1>2, <2>3 DEF IInv, DebitsCovered
  <2> QED BY <2>1, <2>2, <2>3
<1>9. SnapshotsFaithful'
  <2> SUFFICES ASSUME NEW u \in Wallets
               PROVE  snap[u].version <= LastVersion(log'[u])
                      /\ snap[u] = History(u)'[snap[u].version]
    BY DEF SnapshotsFaithful
  <2>1. /\ snap[u].version <= LastVersion(log[u]) /\ snap[u] = History(u)[snap[u].version]
        /\ snap[u].version \in Nat
    BY DEF IInv, SnapshotsFaithful, TypeOK, WalletState
  <2>2. /\ LastVersion(log[u]) <= LastVersion(log'[u])
        /\ \A v \in 0..LastVersion(log[u]) : History(u)'[v] = History(u)[v]
    BY <1>5 DEF Grows
  <2>3. LastVersion(log'[u]) \in Nat  BY <1>1, <1>2, <1>3
  <2> QED BY <1>3, <2>1, <2>2, <2>3
<1> QED BY <1>5, <1>6, <1>7, <1>8, <1>9

\* An INSERT keeps the invariant, whatever the caller is told.
LEMMA InsertStep ==
    ASSUME IInv, NEW p \in Procs, Insert(p) \/ InsertUnconfirmed(p)
    PROVE  IInv'
<1>w. PICK w : w = call[p].wallet  OBVIOUS
<1>n. PICK n : n = LastVersion(log[w])  OBVIOUS
<1>0. /\ pc[p] = "insert" /\ wal[p].version \notin DOMAIN log[wal[p].id]
      /\ InsertRow(p) /\ snap' = snap
  BY DEF Insert, InsertUnconfirmed
<1>a. Appended(p, w, n)  BY <1>w, <1>n, <1>0, InsertEffect
<1>1. /\ w \in Wallets /\ n \in Nat /\ wal[p].version = n + 1 /\ call[p].since <= n
      /\ DOMAIN log' = Wallets /\ \A u \in Wallets \ {w} : log'[u] = log[u]
      /\ DOMAIN log'[w] = 1..(n + 1) /\ log'[w][n + 1] = Change(p)
      /\ log'[w] \in [DOMAIN log'[w] -> Events]
      /\ LastVersion(log'[w]) = n + 1
      /\ History(w)'[n + 1] = wal[p]
  BY <1>a DEF Appended
<1>2. Grows /\ LogGapless' /\ HistoryIdentity' /\ DebitsCovered' /\ SnapshotsFaithful'
  BY <1>0, InsertKeepsTables
<1>3. \/ /\ pc' = [pc EXCEPT ![p] = "snapshot"] /\ reply' = [reply EXCEPT ![p] = "none"]
         /\ call' = call /\ wal' = wal
      \/ /\ pc' = [pc EXCEPT ![p] = "idle"] /\ reply' = [reply EXCEPT ![p] = "ok"]
         /\ call' = call /\ wal' = wal
      \/ /\ pc' = [pc EXCEPT ![p] = "idle"] /\ reply' = [reply EXCEPT ![p] = "failed"]
         /\ call' = [call EXCEPT ![p] = NoCall] /\ wal' = [wal EXCEPT ![p] = ZeroWallet]
  BY DEF Insert, MaybeSnapshot, InsertUnconfirmed, Goto, ReturnOk, ReturnError
<1>4. TypeOK'
  <2>1. /\ pc' \in [Procs -> PCs] /\ reply' \in [Procs -> Replies]
        /\ call' \in [Procs -> Calls] /\ wal' \in [Procs -> WalletState]
    <3>1. NoCall \in Calls  BY DomainAssumption DEF NoCall, Calls, Int64s
    <3> QED BY <1>3, <3>1, ZeroWalletType DEF IInv, TypeOK, PCs, Replies
  <2>2. ASSUME NEW u \in Wallets
        PROVE  /\ log'[u] \in [DOMAIN log'[u] -> Events]
               /\ DOMAIN log'[u] \subseteq Nat /\ LastVersion(log'[u]) \in Nat
    <3>1. CASE u = w  BY <1>1, <3>1
    <3>2. CASE u # w
      <4>1. log'[u] = log[u]  BY <1>1, <3>2
      <4> QED BY <4>1 DEF IInv, TypeOK
    <3> QED BY <3>1, <3>2
  <2> QED BY <1>0, <1>1, <2>1, <2>2 DEF IInv, TypeOK
<1>5. OnlyProc(p)  BY <1>3 DEF OnlyProc, IInv, TypeOK
<1>6. ASSUME call' = call, wal' = wal PROVE Current(p)' /\ Committed(p)'
  <2>1. call[p].since \in Nat  BY DEF IInv, TypeOK, Calls
  <2>2. n + 1 \in call[p].since..LastVersion(log'[w]) /\ n + 1 \in DOMAIN log'[w]
    BY <1>1, <2>1
  <2>3. Change(p)' = Change(p)  BY <1>6 DEF Change
  <2> QED BY <1>w, <1>1, <1>6, <2>2, <2>3 DEF Current, Committed
<1>7. ProcOK(p)'
  <2>1. CASE /\ pc' = [pc EXCEPT ![p] = "snapshot"] /\ reply' = [reply EXCEPT ![p] = "none"]
             /\ call' = call /\ wal' = wal
    <3>1. pc'[p] = "snapshot"  BY <2>1 DEF IInv, TypeOK
    <3>2. call[p].op \in Commands => call[p].amount \in Amounts  BY DEF IInv, ProcOK
    <3> QED BY <1>w, <1>1, <1>6, <2>1, <3>1, <3>2 DEF ProcOK
  <2>2. CASE /\ pc' = [pc EXCEPT ![p] = "idle"] /\ reply' = [reply EXCEPT ![p] = "ok"]
             /\ call' = call /\ wal' = wal
    <3>1. pc'[p] = "idle"  BY <2>2 DEF IInv, TypeOK
    <3>2. call[p].op \in Commands => call[p].amount \in Amounts  BY DEF IInv, ProcOK
    <3> QED BY <1>w, <1>1, <1>6, <2>2, <3>1, <3>2 DEF ProcOK
  <2>3. CASE /\ pc' = [pc EXCEPT ![p] = "idle"] /\ reply' = [reply EXCEPT ![p] = "failed"]
             /\ call' = [call EXCEPT ![p] = NoCall] /\ wal' = [wal EXCEPT ![p] = ZeroWallet]
    <3>1. pc'[p] = "idle" /\ reply'[p] = "failed" /\ call'[p].op = "GetBalance"
      BY <2>3 DEF IInv, TypeOK, NoCall
    <3> QED BY <3>1 DEF ProcOK, Commands
  <2> QED BY <1>3, <2>1, <2>2, <2>3
<1>8. ASSUME NEW q \in Procs PROVE ProcOK(q)'
  <2>1. CASE q = p  BY <1>7, <2>1
  <2>2. CASE q # p
    <3>1. pc'[q] = pc[q] /\ call'[q] = call[q] /\ wal'[q] = wal[q] /\ reply'[q] = reply[q]
      BY <1>5, <2>2 DEF OnlyProc
    <3> QED BY <1>2, <1>4, <3>1, ProcStable DEF IInv
  <2> QED BY <2>1, <2>2
<1> QED BY <1>2, <1>4, <1>8 DEF IInv

\* The invariant is inductive.
LEMMA NextIInv == IInv /\ [Next]_vars => IInv'
<1> SUFFICES ASSUME IInv, [Next]_vars PROVE IInv'  OBVIOUS
<1>1. CASE UNCHANGED vars
  BY <1>1 DEF vars, IInv, TypeOK, LogGapless, HistoryIdentity, DebitsCovered,
              SnapshotsFaithful, ProcOK, Prepared, Current, Committed, History, Change
<1>2. ASSUME NEW p \in Procs,
             \/ CreateWalletInvalid(p) \/ NotFound(p) \/ Reject(p) \/ Conflict(p)
             \/ UniqueViolation(p) \/ Abort(p)
      PROVE  IInv'
  <2>1. ReturnError(p) /\ log' = log /\ snap' = snap
    BY <1>2 DEF CreateWalletInvalid, NotFound, Reject, Conflict, UniqueViolation, Abort
  <2> QED BY <2>1, ErrorStep
<1>3. CASE Next
  BY <1>2, <1>3, BeginStep, CreateWalletStep, LoadSnapshotStep, GetBalanceStep, AcceptStep,
     ReadVersionStep, InsertStep, SaveSnapshotStep DEF Next
<1> QED BY <1>1, <1>3

-----------------------------------------------------------------------------
\* The invariant holds in every reachable state.
LEMMA Invariance == Spec => []IInv
BY InitIInv, NextIInv, PTL DEF Spec

\* Balances stay int64s, versions naturals and tables well-formed: the
\* columns of wallet_events and wallet_snapshots always have their types.
THEOREM TypeCorrect == Spec => []TypeOK
<1>1. IInv => TypeOK  BY DEF IInv
<1> QED BY <1>1, Invariance, PTL

\* AppendEvents under any interleaving leaves versions 1, 2, 3, ... that begin
\* with WalletCreated.
THEOREM LogIsGapless == Spec => []LogGapless
<1>1. IInv => LogGapless  BY DEF IInv
<1> QED BY <1>1, Invariance, PTL

\* No lost update: every withdrawal and reservation that was ever committed
\* was covered by the events before it.
THEOREM NoLostUpdate == Spec => []DebitsCovered
<1>1. IInv => DebitsCovered  BY DEF IInv
<1> QED BY <1>1, Invariance, PTL

\* A snapshot is always the replay of the events up to its version, also when
\* a late SaveSnapshot overwrites a newer one.
THEOREM SnapshotsAreReplays == Spec => []SnapshotsFaithful
<1>1. IInv => SnapshotsFaithful  BY DEF IInv
<1> QED BY <1>1, Invariance, PTL

\* What a successful call reports is in the log, at the version it reports.
THEOREM AcknowledgedIsDurable == Spec => []AcksDurable
<1>1. IInv => AcksDurable
  <2> SUFFICES ASSUME IInv, NEW p \in Procs, pc[p] = "idle", reply[p] = "ok"
               PROVE  /\ wal[p].version \in call[p].since..LastVersion(log[call[p].wallet])
                      /\ wal[p] = History(call[p].wallet)[wal[p].version]
                      /\ call[p].op # "GetBalance" =>
                            log[call[p].wallet][wal[p].version] = Change(p)
    BY DEF AcksDurable
  <2>1. Current(p) /\ (call[p].op # "GetBalance" => Committed(p))  BY DEF IInv, ProcOK
  <2> QED BY <2>1 DEF Current, Committed
<1> QED BY <1>1, Invariance, PTL

\* A call that has loaded its wallet holds a wallet of the log, not older than
\* the call itself, with its change applied.
THEOREM LoadsAreReplays == Spec => []LoadsFaithful
<1>1. IInv => LoadsFaithful
  <2> SUFFICES ASSUME IInv, NEW p \in Procs, pc[p] \in {"readVersion", "insert"}
               PROVE  \E v \in call[p].since..LastVersion(log[call[p].wallet]) :
                        wal[p] = Apply(History(call[p].wallet)[v], call[p].wallet, v + 1,
                                       Change(p))
    BY DEF LoadsFaithful
  <2>1. Prepared(p)  BY DEF IInv, ProcOK
  <2> QED BY <2>1 DEF Prepared
<1> QED BY <1>1, Invariance, PTL

-----------------------------------------------------------------------------
\* The steps that do not insert leave the log alone.
LEMMA LogUnchanged ==
    ASSUME [Next]_vars, \A p \in Procs : ~Insert(p) /\ ~InsertUnconfirmed(p)
    PROVE  log' = log
BY DEF Next, vars, Begin, CreateWallet, CreateWalletInvalid, LoadSnapshot, NotFound,
       GetBalance, Reject, Accept, ReadVersion, Conflict, UniqueViolation, SaveSnapshot, Abort

\* Rows of wallet_events are immutable: a step can only add one.
THEOREM LogIsAppendOnly == Spec => AppendOnly
<1> DEFINE A == \A w \in Wallets :
                  /\ DOMAIN log[w] \subseteq DOMAIN log'[w]
                  /\ \A v \in DOMAIN log[w] : log'[w][v] = log[w][v]
<1>1. IInv /\ [Next]_vars => [A]_log
  <2> SUFFICES ASSUME IInv, [Next]_vars PROVE A \/ log' = log  OBVIOUS
  <2>1. CASE \A p \in Procs : ~Insert(p) /\ ~InsertUnconfirmed(p)
    BY <2>1, LogUnchanged
  <2>2. ASSUME NEW p \in Procs, Insert(p) \/ InsertUnconfirmed(p) PROVE A
    <3>1. /\ pc[p] = "insert" /\ wal[p].version \notin DOMAIN log[wal[p].id]
          /\ InsertRow(p) /\ snap' = snap
      BY <2>2 DEF Insert, InsertUnconfirmed
    <3>2. Grows  BY <3>1, InsertKeepsTables
    <3> QED BY <3>2 DEF Grows
  <2> QED BY <2>1, <2>2
<1> QED BY <1>1, Invariance, PTL DEF Spec, AppendOnly

-----------------------------------------------------------------------------
\* The ledger that the event log stands for.
LedgerOfLog == [w \in Wallets |-> Reconstitute(w, log[w], ZeroWallet)]

\* The ledger's wallets and commands are those of the service.
LEMMA LedgerDomain ==
    /\ Ledger!ZeroWallet = ZeroWallet
    /\ Ledger!Commands = Commands
    /\ \A op : Ledger!EventTypeOf(op) = EventTypeOf(op)
    /\ \A op, s, a : Ledger!Accepts(op, s, a) <=> Accepts(op, s, a)
    /\ \A s, w, v, e : Ledger!Apply(s, w, v, e) = Apply(s, w, v, e)
<1>1. Ledger!ZeroWallet = ZeroWallet  BY DEF Ledger!ZeroWallet, ZeroWallet
<1>2. Ledger!Commands = Commands  BY DEF Ledger!Commands, Commands
<1>3. \A op : Ledger!EventTypeOf(op) = EventTypeOf(op)
  BY DEF Ledger!EventTypeOf, EventTypeOf
<1>4. \A x : Ledger!Int64(x) = Int64(x)  BY DEF Ledger!Int64, Int64
<1>5. \A op, s, a : Ledger!Accepts(op, s, a) <=> Accepts(op, s, a)
  BY <1>4 DEF Ledger!Accepts, Accepts, Ledger!AvailableBalance, AvailableBalance
<1>6. \A s, w, v, e : Ledger!Apply(s, w, v, e) = Apply(s, w, v, e)
  BY <1>4 DEF Ledger!Apply, Apply, Ledger!ApplyEvent, ApplyEvent
<1> QED BY <1>1, <1>2, <1>3, <1>5, <1>6

\* In the ledger a wallet is what all its events make it.
LEMMA LedgerIsHistory ==
    ASSUME NEW w \in Wallets
    PROVE  /\ LedgerOfLog[w] = History(w)[LastVersion(log[w])]
           /\ LedgerOfLog'[w] = History(w)'[LastVersion(log'[w])]
BY DEF LedgerOfLog, Reconstitute, History

\* An INSERT is a step of the ledger on the wallet of the call.
LEMMA InsertIsLedgerStep ==
    ASSUME IInv, NEW p \in Procs, Insert(p) \/ InsertUnconfirmed(p)
    PROVE  Ledger!Next
<1>w. PICK w : w = call[p].wallet  OBVIOUS
<1>n. PICK n : n = LastVersion(log[w])  OBVIOUS
<1>0. /\ pc[p] = "insert" /\ wal[p].version \notin DOMAIN log[wal[p].id] /\ InsertRow(p)
  BY DEF Insert, InsertUnconfirmed
<1>1. Appended(p, w, n)  BY <1>w, <1>n, <1>0, InsertEffect
<1>2. w \in Wallets /\ n \in Nat  BY <1>1 DEF Appended
<1>3. /\ LedgerOfLog[w] = History(w)[n]
      /\ LedgerOfLog'[w] = Apply(History(w)[n], w, n + 1, Change(p))
  BY <1>n, <1>1, <1>2, LedgerIsHistory DEF Appended
<1>4. LedgerOfLog' = [LedgerOfLog EXCEPT ![w] = Apply(History(w)[n], w, n + 1, Change(p))]
  <2>1. \A u \in Wallets \ {w} : log'[u] = log[u]  BY <1>1 DEF Appended
  <2>2. \A u \in Wallets \ {w} : LedgerOfLog'[u] = LedgerOfLog[u]
    BY <2>1 DEF LedgerOfLog
  <2>3. LedgerOfLog' = [u \in Wallets |-> LedgerOfLog'[u]]  BY DEF LedgerOfLog
  <2>4. LedgerOfLog = [u \in Wallets |-> LedgerOfLog[u]]  BY DEF LedgerOfLog
  <2> QED BY <1>2, <1>3, <2>2, <2>3, <2>4
<1>5. History(w)[n] \in WalletState /\ History(w)[0] = ZeroWallet
  BY <1>2, LogFacts DEF IInv
<1>6. CASE call[p].op = "CreateWallet" /\ n = 0
  <2>1. LedgerOfLog[w] = ZeroWallet  BY <1>3, <1>5, <1>6
  <2>2. Apply(ZeroWallet, w, 1, Change(p)) = [ZeroWallet EXCEPT !.id = w, !.version = 1]
    BY <1>6 DEF Apply, ApplyEvent, Change, EventTypeOf, ZeroWallet
  <2>3. LedgerOfLog' = [LedgerOfLog EXCEPT ![w] = [ZeroWallet EXCEPT !.id = w, !.version = 1]]
    <3>1. History(w)[n] = ZeroWallet /\ n + 1 = 1  BY <1>5, <1>6
    <3> QED BY <1>4, <2>2, <3>1
  <2>4. Ledger!Open(w)  BY <2>1, <2>3, LedgerDomain DEF Ledger!Open, LedgerOfLog
  <2> QED BY <1>2, <2>4 DEF Ledger!Next
<1>7. CASE /\ call[p].op \in Commands /\ n >= 1
           /\ Accepts(call[p].op, History(w)[n], call[p].amount)
  <2> DEFINE e == [type |-> EventTypeOf(call[p].op), amount |-> call[p].amount]
  <2>1. History(w)[n].id = w /\ History(w)[n].version = n
    <3>1. n \in DOMAIN log[w]  BY <1>1, <1>7 DEF Appended
    <3> QED BY <1>2, <3>1 DEF IInv, HistoryIdentity
  <2>2. call[p].amount \in Amounts  BY <1>7 DEF IInv, ProcOK
  <2>3. Apply(History(w)[n], w, n + 1, Change(p)) = Apply(History(w)[n], w, n + 1, e)
    BY DEF Apply, ApplyEvent, Change
  <2>4. LedgerOfLog' = [LedgerOfLog EXCEPT ![w] =
                            Apply(LedgerOfLog[w], w, LedgerOfLog[w].version + 1, e)]
    BY <1>3, <1>4, <2>1, <2>3
  <2>5. Ledger!Transact(w, call[p].op, call[p].amount)
    <3>1. /\ LedgerOfLog[w].id = w /\ Accepts(call[p].op, LedgerOfLog[w], call[p].amount)
      BY <1>3, <1>7, <2>1
    <3> QED BY <2>4, <3>1, LedgerDomain DEF Ledger!Transact, LedgerOfLog
  <2> QED BY <1>2, <1>7, <2>2, <2>5, LedgerDomain DEF Ledger!Next
<1> QED BY <1>1, <1>6, <1>7 DEF Appended

\* The wallet service is serialisable: every behaviour, seen through the
\* replay of its log, is one of the atomic ledger.
THEOREM ServiceImplementsLedger == Spec => ImplementsLedger
<1>1. Init => Ledger!Init
  <2> SUFFICES ASSUME Init PROVE Ledger!Init  OBVIOUS
  <2>1. IInv  BY InitIInv
  <2>2. ASSUME NEW w \in Wallets PROVE LedgerOfLog[w] = ZeroWallet
    <3>1. DOMAIN log[w] = 1..0  BY DEF Init
    <3>2. LastVersion(log[w]) = 0  BY <3>1, LastVersionOfInterval
    <3> QED BY <2>1, <3>2, LedgerIsHistory, LogFacts DEF IInv
  <2> QED BY <2>2, LedgerDomain DEF Ledger!Init, LedgerOfLog
<1>2. IInv /\ [Next]_vars => [Ledger!Next]_LedgerOfLog
  <2> SUFFICES ASSUME IInv, [Next]_vars PROVE Ledger!Next \/ LedgerOfLog' = LedgerOfLog
    OBVIOUS
  <2>1. CASE \A p \in Procs : ~Insert(p) /\ ~InsertUnconfirmed(p)
    BY <2>1, LogUnchanged DEF LedgerOfLog
  <2>2. ASSUME NEW p \in Procs, Insert(p) \/ InsertUnconfirmed(p) PROVE Ledger!Next
    BY <2>2, InsertIsLedgerStep
  <2> QED BY <2>1, <2>2
<1> QED BY <1>1, <1>2, Invariance, PTL DEF Spec, ImplementsLedger, Ledger!Spec, LedgerOfLog

=============================================================================
