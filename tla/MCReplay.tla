------------------------------- MODULE MCReplay -------------------------------
(* Two routes for TLC, one of which repeats a request.                      *)
EXTENDS Replay, TLC

CONSTANTS r1, r2, a, b

TwoRoutes == r1 :> <<a, a, b>> @@ r2 :> <<b>>

=============================================================================
