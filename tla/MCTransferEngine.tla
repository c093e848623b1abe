-------------------------- MODULE MCTransferEngine --------------------------
(***************************************************************************)
(* TransferEngine for TLC: the constants are given in the .cfg files.      *)
(***************************************************************************)
EXTENDS TransferEngine, TLC

(* Clients are interchangeable: no action or property names one.           *)
ClientSymmetry == Permutations(Client)

=============================================================================
