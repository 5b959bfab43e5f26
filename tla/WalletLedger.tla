---------------------------- MODULE WalletLedger ----------------------------
(***************************************************************************)
(* What the wallet service promises: an account per wallet that every      *)
(* operation reads and changes in one indivisible step, with no event      *)
(* store, no snapshots and no concurrent callers.  WalletService is shown  *)
(* to implement it.                                                        *)
(***************************************************************************)
EXTENDS WalletDomain

CONSTANT Amounts    \* the amounts a request may carry

VARIABLE ledger     \* ledger[w] is the current state of wallet w

Init == ledger = [w \in Wallets |-> ZeroWallet]

\* A wallet that does not exist is opened, empty.
Open(w) ==
    /\ ledger[w] = ZeroWallet
    /\ ledger' = [ledger EXCEPT ![w] = [ZeroWallet EXCEPT !.id = w, !.version = 1]]

\* An accepted command changes the wallet it was checked against.
Transact(w, op, amount) ==
    /\ ledger[w].id = w
    /\ Accepts(op, ledger[w], amount)
    /\ ledger' = [ledger EXCEPT ![w] =
            Apply(@, w, @.version + 1, [type |-> EventTypeOf(op), amount |-> amount])]

Next ==
    \E w \in Wallets :
        \/ Open(w)
        \/ \E op \in Commands, amount \in Amounts : Transact(w, op, amount)

Spec == Init /\ [][Next]_ledger

=============================================================================
