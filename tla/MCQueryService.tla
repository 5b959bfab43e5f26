--------------------------- MODULE MCQueryService ---------------------------
(***************************************************************************)
(* An instance of QueryService for TLC.                                    *)
(***************************************************************************)
EXTENDS QueryService, TLC

CONSTANTS e1, e2, e3, e4, e5, e6, w1, u1, nil

\* No payload of the outbox has an event_id: the entry is the nil id.
Rec(event, type, amount, version) ==
    [event |-> event, type |-> type, wallet |-> w1, user |-> u1,
     amount |-> amount, version |-> version, entry |-> nil]

\* A wallet with two movements, the first of them published twice, a type
\* that is none of the handlers', and two completed transfers of one user.
\* One movement has the id of its event, as in the tests of the service.
MCTopic ==
    << Rec(e1, "WalletCreated", 0, 0),
       Rec(e2, "FundsDeposited", 3, 2),
       Rec(e6, "FundsReserved", 1, 0),
       Rec(e2, "FundsDeposited", 3, 2),
       [Rec(e3, "FundsWithdrawn", 1, 3) EXCEPT !.entry = e3],
       Rec(e4, "TransactionCompleted", 2, 0),
       Rec(e5, "TransactionCompleted", 4, 0) >>

\* The members of the group are interchangeable.
Symmetry == Permutations(Members)

=============================================================================
