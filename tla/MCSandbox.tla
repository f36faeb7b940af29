----------------------------- MODULE MCSandbox -----------------------------
(* Two launches that compete for CPU 2. *)
EXTENDS Sandbox, TLC

CONSTANTS l1, l2

SharedCpu == l1 :> {1, 2} @@ l2 :> {2}

=============================================================================
