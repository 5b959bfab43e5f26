---------------------------- MODULE WalletDomain ----------------------------
(***************************************************************************)
(* The wallet aggregate (services/wallet/internal/domain/wallet.go): what  *)
(* an event does to a wallet, when a command is accepted, and how a wallet *)
(* is rebuilt from the rows of wallet_events.  Pure operators, no state.   *)
(*                                                                         *)
(* The rows of one wallet are a function from versions to events.  The     *)
(* UUID of an event is abstracted to the process that made it ("by"): with *)
(* the version of the row that names the event uniquely.  UserID, Currency *)
(* and timestamps never change what a command does and are left out.       *)
(***************************************************************************)
EXTENDS Integers, FiniteSetsExt

CONSTANTS
    Wallets,    \* wallet ids
    NoWallet,   \* uuid.Nil, the ID of the zero domain.Wallet{}
    MaxInt64    \* the largest int64 (2^63 - 1 in the code)

ASSUME DomainAssumption ==
    /\ NoWallet \notin Wallets
    /\ MaxInt64 \in Nat

EventTypes ==
    {"WalletCreated", "FundsDeposited", "FundsWithdrawn", "FundsReserved", "FundsReleased"}

\* The values of Go's int64.
Int64s == -(MaxInt64 + 1)..MaxInt64

\* domain.Wallet without its pending changes.
WalletState ==
    [id : Wallets \cup {NoWallet}, balance : Int64s, reserved : Int64s, version : Nat]

\* &domain.Wallet{}: what load starts from when it has no snapshot.
ZeroWallet == [id |-> NoWallet, balance |-> 0, reserved |-> 0, version |-> 0]

\* Mutant: arithmetic that does not fit the type of the column.
Int64Unbounded(x) == x

\* int64 arithmetic wraps around.
Int64(x) == ((x + MaxInt64 + 1) % (2 * (MaxInt64 + 1))) - (MaxInt64 + 1)

AvailableBalance(s) == Int64(s.balance - s.reserved)

\* Wallet.applyEvent, for an event e of wallet w.
ApplyEvent(s, w, e) ==
    CASE e.type = "WalletCreated"  -> [s EXCEPT !.id = w]
      [] e.type = "FundsDeposited" -> [s EXCEPT !.balance = Int64(@ + e.amount)]
      [] e.type = "FundsWithdrawn" -> [s EXCEPT !.balance = Int64(@ - e.amount)]
      [] e.type = "FundsReserved"  -> [s EXCEPT !.reserved = Int64(@ + e.amount)]
      [] e.type = "FundsReleased"  -> [s EXCEPT !.reserved = Int64(@ - e.amount)]

\* Wallet.apply: the event's version becomes the wallet's.
Apply(s, w, v, e) == [ApplyEvent(s, w, e) EXCEPT !.version = v]

-----------------------------------------------------------------------------
(* Commands: Wallet.Deposit, Withdraw, Reserve and Release.                *)

\* The operations of WalletService that change an existing wallet.
Commands == {"Deposit", "Withdraw", "Reserve", "Credit", "Release"}

EventTypeOf(op) ==
    CASE op = "CreateWallet"          -> "WalletCreated"
      [] op \in {"Deposit", "Credit"} -> "FundsDeposited"
      [] op = "Withdraw"              -> "FundsWithdrawn"
      [] op = "Reserve"               -> "FundsReserved"
      [] op = "Release"               -> "FundsReleased"

\* Mutant: Withdraw is checked against the balance, reservations included.
AcceptsIgnoringReservations(op, s, amount) ==
    \/ op \in {"Deposit", "Credit"} /\ amount > 0
    \/ op = "Withdraw" /\ amount > 0 /\ s.balance >= amount
    \/ op = "Reserve" /\ AvailableBalance(s) >= amount
    \/ op = "Release"

\* The conditions under which a command on wallet s appends its event:
\* Release has none, and Reserve does not ask for a positive amount.
Accepts(op, s, amount) ==
    \/ op \in {"Deposit", "Credit"} /\ amount > 0
    \/ op = "Withdraw" /\ amount > 0 /\ AvailableBalance(s) >= amount
    \/ op = "Reserve" /\ AvailableBalance(s) >= amount
    \/ op = "Release"

-----------------------------------------------------------------------------
(* Reconstitute: applying the rows after start.version in ascending order. *)

LastVersion(rows) == Max(DOMAIN rows \cup {0})

\* Replay(w, rows, start)[v] is the wallet after the rows up to version v.
Replay(w, rows, start) ==
    LET r[v \in Nat] ==
          IF v <= start.version THEN start
          ELSE IF v \in DOMAIN rows THEN Apply(r[v - 1], w, v, rows[v])
          ELSE r[v - 1]
    IN  r

Reconstitute(w, rows, start) == Replay(w, rows, start)[LastVersion(rows)]

=============================================================================
