----------------------------- MODULE MCScheduler -----------------------------
(* Small capacity points for TLC.                                           *)
EXTENDS Scheduler

Point(inter, warmups, measured, in_flight, waiting, max_failures,
      max_duration) ==
  [inter |-> inter, warmups |-> warmups, measured |-> measured,
   in_flight |-> in_flight, queue |-> waiting, max_failures |-> max_failures,
   max_duration |-> max_duration]

(* Closed and open loop, with and without warmups, queue and failure budget *)
SmallPlans ==
  {Point(0, 0, 3, 2, 0, 1, 1),   \* a refilled worker, the budget of one failure
   Point(0, 1, 2, 2, 0, 2, 2),   \* a budget that warmups and attempts share
   Point(1, 0, 3, 1, 1, 0, 3),   \* a full queue, unlimited failures
   Point(1, 1, 2, 1, 0, 1, 2),   \* open-loop warmups, no queue
   Point(1, 0, 2, 2, 1, 1, 2)}

=============================================================================
