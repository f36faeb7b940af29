--------------------------- MODULE MCRunnerBackend ---------------------------
(* Small instances of RunnerBackend for TLC.                                *)
EXTENDS RunnerBackend

CONSTANTS p1, p2, r1, r2

(* Every plan has a run id and a request of its own. *)
OwnRuns == p1 :> r1 @@ p2 :> r2
(* A single plan. *)
OneRun == p1 :> r1

(* Clients and keys are only compared for equality. *)
Symmetry == Permutations(Clients) \cup Permutations(Keys)

=============================================================================
