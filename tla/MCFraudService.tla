--------------------------- MODULE MCFraudService ---------------------------
(***************************************************************************)
(* An instance of FraudService for TLC.                                    *)
(***************************************************************************)
EXTENDS FraudService, TLC

CONSTANTS u1, r1, r2

\* Two partitions with transfers of u1, of which one is not completed and one
\* names no user.
MCFeed ==
    r1 :> << [type |-> "TransactionCompleted", user |-> u1, amount |-> 2],
             [type |-> "TransactionInitiated", user |-> u1, amount |-> 2],
             [type |-> "TransactionCompleted", user |-> u1, amount |-> 1] >>
    @@ r2 :> << [type |-> "TransactionCompleted", user |-> NilUser, amount |-> 2],
                [type |-> "TransactionCompleted", user |-> u1, amount |-> 3] >>

=============================================================================
