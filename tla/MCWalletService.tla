-------------------------- MODULE MCWalletService --------------------------
(***************************************************************************)
(* Instances of WalletService for TLC.                                     *)
(***************************************************************************)
EXTENDS WalletService, TLC

CONSTANTS w1, w2, p1, p2

\* The processes are interchangeable.
Symmetry == Permutations(Procs)

=============================================================================
