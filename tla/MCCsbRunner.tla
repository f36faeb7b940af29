---------------------------- MODULE MCCsbRunner ----------------------------
(* Two launches of one run, on CPUs of their own, from one process or two. *)
EXTENDS CsbRunner

CONSTANTS l1, l2

OwnCpus == l1 :> {1} @@ l2 :> {2}

Symmetry == Permutations(Sessions)

=============================================================================
