----------------------------- MODULE MCLifecycle -----------------------------
(***************************************************************************)
(* Lifecycle for TLC: the constants are given in the .cfg files.           *)
(***************************************************************************)
EXTENDS Lifecycle, TLC

(* Threads, handles and contexts are interchangeable.                      *)
Symmetry ==
  Permutations(Thread) \cup Permutations(Handle) \cup Permutations(Context)

=============================================================================
