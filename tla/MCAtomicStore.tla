--------------------------- MODULE MCAtomicStore ---------------------------
(* Small instances of AtomicStore for TLC.                                  *)
EXTENDS AtomicStore

(* Writers, run names, attempts and digests are only compared for equality. *)
Symmetry ==
  Permutations(Writers) \cup Permutations(Runs)
    \cup Permutations(Attempts) \cup Permutations(Digests)

=============================================================================
