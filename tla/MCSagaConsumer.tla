--------------------------- MODULE MCSagaConsumer ---------------------------
(***************************************************************************)
(* Instances of SagaConsumer for TLC.                                      *)
(***************************************************************************)
EXTENDS SagaConsumer, TLC

CONSTANTS e1, e2, e3

\* A transfer whose TransactionInitiated was published twice and which was
\* completed; a TransactionFailed, which the handler ignores.
MCFeed ==
    << [event |-> e1, type |-> "TransactionInitiated"],
       [event |-> e1, type |-> "TransactionInitiated"],
       [event |-> e3, type |-> "TransactionFailed"],
       [event |-> e2, type |-> "TransactionCompleted"] >>

\* The members of the group are interchangeable.
Symmetry == Permutations(Members)

=============================================================================
