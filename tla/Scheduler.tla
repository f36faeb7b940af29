------------------------------ MODULE Scheduler ------------------------------
(***************************************************************************)
(* Scheduler::run of asb-runtime/src/scheduler.rs: one capacity point.     *)
(* The scheduler thread offers the plan's attempts, first the warmups and  *)
(* then the measured ones, to at most in_flight worker threads, in closed  *)
(* loop (a free worker takes the next attempt) or in open loop (attempts   *)
(* arrive on a fixed timeline and may queue or be missed).  Workers report *)
(* over a channel, which the scheduler drains between two samples of the   *)
(* clock that all threads share.                                           *)
(*                                                                         *)
(* Times are whole units since the first sample.  An attempt is its place  *)
(* in the seeded order of its phase.                                       *)
(***************************************************************************)
EXTENDS Integers, FiniteSets, SequencesExt

CONSTANTS
  Plans,     \* the point plans explored
  Overrun,   \* bound: how far past the deadline the clock goes
  None

(* PointPlan::new; inter = 0 stands for the closed loop.                    *)
ValidPlan(p) ==
  /\ p.measured > 0
  /\ p.in_flight > 0
  /\ p.inter = 0 => p.queue = 0
  /\ p.max_duration > 0
  /\ LET longest == IF p.measured > p.warmups THEN p.measured ELSE p.warmups
     IN p.inter > 0 => p.inter * (longest - 1) <= p.max_duration

ASSUME PlansAssumption ==
  \A p \in Plans :
    /\ p \in [inter : Nat, measured : Nat, warmups : Nat, in_flight : Nat,
              queue : Nat, max_failures : Nat, max_duration : Nat]
    /\ ValidPlan(p)

StopReason == {"Completed", "FailureLimit", "DurationLimit", "Contaminated"}
Phases == {"warmup", "measured"}

(* "Failed" stands for TimedOut and Cancelled as well. *)
Outcome == {"Completed", "Failed", "InfrastructureFailure"}

ASSUME TimeAssumption == Overrun \in Nat /\ None \notin Int
ASSUME NoneAssumption == None \notin StopReason \cup Outcome \cup {"Backpressure"}

VARIABLES
  plan,       \* the point plan, fixed
  \* the scheduler thread
  pc, phase,
  started,    \* when the phase began
  now,        \* the sample this iteration works with
  next,       \* next[f]: how many attempts of phase f have arrived
  queue,      \* arrived attempts that wait for a worker
  active,     \* launched attempts whose last event has not been drained
  failures, stop, admission,
  rec,        \* rec[f]: the attempt records of phase f, in order of arrival
  \* the workers
  thread,     \* thread[i]: the worker of attempt i of this phase
  channel,    \* the events sent and not yet drained
  \* the clock
  clock,      \* its last sample
  failed      \* it was found stalled, jumping or going backwards

scheduler == <<pc, phase, started, now, next, queue, active, failures, stop,
               admission, rec>>
workers == <<thread, channel>>
vars == <<plan, scheduler, workers, clock, failed>>

Count(f) == IF f = "warmup" THEN plan.warmups ELSE plan.measured

(* The deadline of the point is max_duration after its first sample.        *)
Deadline == plan.max_duration

MaxTime == Deadline + Overrun
Time == 0 .. MaxTime

Record ==
  [scheduled : Nat, started : Time \cup {None}, finished : Time \cup {None},
   outcome : Outcome \cup {None},
   miss : StopReason \cup {"Backpressure", None}]

Event(kind, i, at, outcome) ==
  [kind |-> kind, id |-> i, at |-> at, outcome |-> outcome]

TypeOK ==
  /\ plan \in Plans
  /\ pc \in {"begin", "top", "drain", "admit", "end", "done"}
  /\ phase \in Phases
  /\ started \in Time /\ now \in Time
  /\ next \in [Phases -> Nat]
  /\ queue \in Seq(1 .. Count(phase))
  /\ active \in Nat
  /\ failures \in Nat
  /\ stop \in StopReason
  /\ admission \in (StopReason \ {"Completed"}) \cup {None}
  /\ rec \in [Phases -> Seq(Record)]
  /\ \A f \in Phases : Len(rec[f]) = next[f] /\ next[f] <= Count(f)
  /\ DOMAIN thread = 1 .. Count(phase)
  /\ \A i \in DOMAIN thread : thread[i] \in {"none", "spawned", "running", "ended"}
  /\ \A e \in ToSet(channel) :
       /\ e.kind \in {"Started", "Finished", "ClockFault"}
       /\ e.id \in 1 .. Count(phase)
  /\ clock \in Time
  /\ failed \in BOOLEAN

(* The first sample is taken; a clock that fails there rejects the point    *)
(* like one that fails at the start of a phase.                             *)
Init ==
  /\ plan \in Plans
  /\ pc = "begin"
  /\ phase = IF plan.warmups = 0 THEN "measured" ELSE "warmup"
  /\ started = 0 /\ now = 0
  /\ next = [f \in Phases |-> 0]
  /\ queue = <<>>
  /\ active = 0
  /\ failures = 0
  /\ stop = "Completed"
  /\ admission = None
  /\ rec = [f \in Phases |-> <<>>]
  /\ thread = [i \in 1 .. Count(phase) |-> "none"]
  /\ channel = <<>>
  /\ clock = 0
  /\ failed = FALSE

-----------------------------------------------------------------------------
(* CheckedClock::sample, by any thread, under its mutex.                    *)

SampleOk(t) ==
  /\ ~failed
  /\ t \in clock .. MaxTime
  /\ clock' = t
  /\ UNCHANGED failed

SampleErr == failed' = TRUE /\ UNCHANGED clock

-----------------------------------------------------------------------------
(* Records.                                                                 *)

Arrival(at) ==
  [scheduled |-> at, started |-> None, finished |-> None, outcome |-> None,
   miss |-> None]

(* The declared arrival of attempt i of a phase that began at b.            *)
Scheduled(i, b, t) == IF plan.inter = 0 THEN t ELSE b + plan.inter * (i - 1)

MutRejected(f, b, t, reason) ==
  [i \in 1 .. Count(f) |->
     IF i > next[f] THEN [Arrival(Scheduled(i, b, t)) EXCEPT !.miss = reason]
     ELSE rec[f][i]]

(* reject_remaining: what is queued and what has not arrived is missed.     *)
Rejected(f, b, t, reason) ==
  [i \in 1 .. Count(f) |->
     IF i > next[f] THEN [Arrival(Scheduled(i, b, t)) EXCEPT !.miss = reason]
     ELSE IF i \in ToSet(queue) THEN [rec[f][i] EXCEPT !.miss = reason]
     ELSE rec[f][i]]

RejectRest(b, t, reason) ==
  /\ rec' = [rec EXCEPT ![phase] = Rejected(phase, b, t, reason)]
  /\ next' = [next EXCEPT ![phase] = Count(phase)]
  /\ queue' = <<>>

MutHalt(reason) == stop' = reason /\ admission' = reason

Halt(reason) ==
  /\ stop' = reason
  /\ admission' = IF admission = None THEN reason ELSE admission

-----------------------------------------------------------------------------
(* The phases.                                                              *)

(* Admission stopped in the warmups: every measured attempt is rejected.    *)
BeginStopped ==
  LET t == IF clock < Deadline THEN clock ELSE Deadline IN
  /\ pc = "begin" /\ admission # None
  /\ RejectRest(t, t, admission)
  /\ pc' = "end"
  /\ UNCHANGED <<plan, phase, started, now, active, failures, stop, admission,
                 workers, clock, failed>>

Begin(t) ==
  /\ pc = "begin" /\ admission = None
  /\ t < Deadline
  /\ SampleOk(t)
  /\ started' = t
  /\ pc' = "top"
  /\ UNCHANGED <<plan, phase, now, next, queue, active, failures, stop,
                 admission, rec, workers>>

(* rejected_phase: the clock has failed or the deadline has passed.  The    *)
(* loop that follows finds nothing to do.                                   *)
BeginRejected ==
  /\ pc = "begin" /\ admission = None
  /\ \/ /\ SampleErr
        /\ RejectRest(clock, clock, "Contaminated")
        /\ Halt("Contaminated")
     \/ /\ \E t \in Deadline .. MaxTime : SampleOk(t)
        /\ RejectRest(Deadline, Deadline, "DurationLimit")
        /\ Halt("DurationLimit")
  /\ pc' = "top"
  /\ UNCHANGED <<plan, phase, started, now, active, failures, workers>>

MoreToDo == next[phase] < Count(phase) \/ active > 0 \/ queue # <<>>

Iterate ==
  /\ pc = "top" /\ MoreToDo
  /\ pc' = "drain"
  /\ UNCHANGED <<plan, phase, started, now, next, queue, active, failures, stop,
                 admission, rec, workers, clock, failed>>

EndPhase ==
  /\ pc = "top" /\ ~MoreToDo
  /\ IF phase = "warmup"
       THEN /\ phase' = "measured"
            /\ pc' = "begin"
            /\ thread' = [i \in 1 .. plan.measured |-> "none"]
       ELSE pc' = "end" /\ UNCHANGED <<phase, thread>>
  /\ UNCHANGED <<plan, started, now, next, queue, active, failures, stop,
                 admission, rec, channel, clock, failed>>

MutEndPoint ==
  /\ pc = "end"
  /\ \/ clock > 0 /\ UNCHANGED <<clock, failed>>
     \/ clock = 0 /\ \E t \in 1 .. MaxTime : SampleOk(t)
  /\ pc' = "done"
  /\ UNCHANGED <<plan, phase, started, now, next, queue, active, failures, stop,
                 admission, rec, workers>>

(* A clock that has never advanced is sampled until it does or fails.       *)
EndPoint ==
  /\ pc = "end"
  /\ \/ clock > 0 /\ UNCHANGED <<clock, failed, stop>>
     \/ clock = 0 /\ (\E t \in 1 .. MaxTime : SampleOk(t)) /\ UNCHANGED stop
     \/ clock = 0 /\ SampleErr /\ stop' = "Contaminated"
  /\ pc' = "done"
  /\ UNCHANGED <<plan, phase, started, now, next, queue, active, failures,
                 admission, rec, workers>>

-----------------------------------------------------------------------------
(* One iteration: drain the channel, sample the clock, admit.               *)

MutLimit(outcome, failed_so_far) ==
  IF outcome = "InfrastructureFailure" THEN "Contaminated"
  ELSE IF /\ stop # "Contaminated"
          /\ plan.max_failures # 0
          /\ failed_so_far > plan.max_failures
    THEN "FailureLimit" ELSE stop

(* observe_outcome: contamination dominates the failure limit.              *)
Observe(outcome, failed_so_far) ==
  IF outcome = "InfrastructureFailure" THEN "Contaminated"
  ELSE IF /\ stop # "Contaminated"
          /\ plan.max_failures # 0
          /\ failed_so_far >= plan.max_failures
    THEN "FailureLimit" ELSE stop

DrainStarted ==
  LET e == Head(channel) IN
  /\ pc = "drain" /\ channel # <<>> /\ e.kind = "Started"
  /\ rec' = [rec EXCEPT ![phase][e.id].started = e.at]
  /\ channel' = Tail(channel)
  /\ UNCHANGED <<plan, pc, phase, started, now, next, queue, active, failures,
                 stop, admission, thread, clock, failed>>

DrainFinished ==
  LET e == Head(channel)
      count == failures + (IF e.outcome = "Completed" THEN 0 ELSE 1) IN
  /\ pc = "drain" /\ channel # <<>> /\ e.kind = "Finished"
  /\ active' = active - 1
  /\ rec' = [rec EXCEPT ![phase][e.id].finished = e.at,
                        ![phase][e.id].outcome = e.outcome]
  /\ failures' = count
  /\ stop' = Observe(e.outcome, count)
  /\ admission' = IF admission = None /\ stop' # "Completed" THEN stop'
                  ELSE admission
  /\ channel' = Tail(channel)
  /\ UNCHANGED <<plan, pc, phase, started, now, next, queue, thread, clock,
                 failed>>

MutDrainClockFault ==
  LET e == Head(channel) IN
  /\ pc = "drain" /\ channel # <<>> /\ e.kind = "ClockFault"
  /\ rec' = [rec EXCEPT ![phase][e.id].outcome = "InfrastructureFailure"]
  /\ failures' = failures + 1
  /\ Halt("Contaminated")
  /\ channel' = Tail(channel)
  /\ UNCHANGED <<plan, pc, phase, started, now, next, queue, active, thread,
                 clock, failed>>

DrainClockFault ==
  LET e == Head(channel) IN
  /\ pc = "drain" /\ channel # <<>> /\ e.kind = "ClockFault"
  /\ active' = active - 1
  /\ rec' = [rec EXCEPT ![phase][e.id].outcome = "InfrastructureFailure"]
  /\ failures' = failures + 1
  /\ Halt("Contaminated")
  /\ channel' = Tail(channel)
  /\ UNCHANGED <<plan, pc, phase, started, now, next, queue, thread, clock,
                 failed>>

(* try_recv finds the channel empty, and the clock is sampled.              *)
Sampled(t) ==
  /\ pc = "drain" /\ channel = <<>>
  /\ now' = t
  /\ pc' = "admit"
  /\ UNCHANGED <<plan, phase, started, next, queue, active, failures, rec,
                 workers>>

Sample(t) ==
  /\ Sampled(t)
  /\ SampleOk(t)
  /\ IF t >= Deadline /\ admission = None THEN Halt("DurationLimit")
     ELSE UNCHANGED <<stop, admission>>

(* The real-time watchdog: the clock lags behind the machine's. *)
SampleWatchdog(t) ==
  /\ Sampled(t)
  /\ ~failed /\ t \in clock .. Deadline - 1
  /\ admission = None
  /\ clock' = t /\ failed' = TRUE
  /\ Halt("Contaminated")

SampleFails ==
  /\ Sampled(clock)
  /\ SampleErr
  /\ Halt("Contaminated")

Reject ==
  /\ pc = "admit" /\ admission # None
  /\ RejectRest(started, now, admission)
  /\ pc' = "top"
  /\ UNCHANGED <<plan, phase, started, now, active, failures, stop, admission,
                 workers, clock, failed>>

(* launch: attempt i, whose record is in r, gets a thread, or none can be   *)
(* spawned, which contaminates the point and ends the iteration.            *)
Launch(i, r) ==
  \/ /\ active' = active + 1
     /\ thread' = [thread EXCEPT ![i] = "spawned"]
     /\ rec' = [rec EXCEPT ![phase] = r]
     /\ UNCHANGED <<pc, failures, stop, admission>>
  \/ /\ rec' = [rec EXCEPT ![phase] =
                  [r EXCEPT ![i].finished = now,
                            ![i].outcome = "InfrastructureFailure"]]
     /\ failures' = failures + 1
     /\ Halt("Contaminated")
     /\ pc' = "top"
     /\ UNCHANGED <<active, thread>>

Idle == active < plan.in_flight

(* Arrivals are looked at once no queued attempt can be launched. *)
QueueServed == ~Idle \/ queue = <<>>

LaunchQueued ==
  /\ pc = "admit" /\ admission = None
  /\ Idle /\ queue # <<>>
  /\ Launch(Head(queue), rec[phase])
  /\ queue' = Tail(queue)
  /\ UNCHANGED <<plan, phase, started, now, next, channel, clock, failed>>

(* The next attempt is due: at once in closed loop if a worker is free, on  *)
(* its timeline in open loop.                                               *)
Due ==
  /\ next[phase] < Count(phase)
  /\ IF plan.inter = 0 THEN Idle
     ELSE Scheduled(next[phase] + 1, started, now) <= now

Offer ==
  LET i == next[phase] + 1
      r == Append(rec[phase], Arrival(Scheduled(i, started, now))) IN
  /\ pc = "admit" /\ admission = None
  /\ QueueServed
  /\ Due
  /\ next' = [next EXCEPT ![phase] = i]
  /\ \/ Idle /\ Launch(i, r) /\ UNCHANGED queue
     \/ /\ ~Idle
        /\ IF Len(queue) < plan.queue
             THEN queue' = Append(queue, i) /\ rec' = [rec EXCEPT ![phase] = r]
             ELSE /\ rec' = [rec EXCEPT ![phase] =
                               [r EXCEPT ![i].miss = "Backpressure"]]
                  /\ UNCHANGED queue
        /\ UNCHANGED <<pc, active, thread, failures, stop, admission>>
  /\ UNCHANGED <<plan, phase, started, now, channel, clock, failed>>

(* Nothing more can be admitted now: sleep for a poll. *)
Sleep ==
  /\ pc = "admit" /\ admission = None
  /\ QueueServed
  /\ ~Due
  /\ pc' = "top"
  /\ UNCHANGED <<plan, phase, started, now, next, queue, active, failures, stop,
                 admission, rec, workers, clock, failed>>

-----------------------------------------------------------------------------
(* A worker thread.                                                         *)

Send(e) == channel' = Append(channel, e)

WorkerStart(i) ==
  /\ i \in DOMAIN thread /\ thread[i] = "spawned"
  /\ \/ \E t \in Time :
          /\ SampleOk(t)
          /\ Send(Event("Started", i, t, None))
          /\ thread' = [thread EXCEPT ![i] = "running"]
     \/ /\ SampleErr
        /\ Send(Event("ClockFault", i, None, None))
        /\ thread' = [thread EXCEPT ![i] = "ended"]
  /\ UNCHANGED <<plan, scheduler>>

(* The executor returns, or panics. *)
WorkerEnd(i) ==
  /\ i \in DOMAIN thread /\ thread[i] = "running"
  /\ \/ \E t \in Time, o \in Outcome :
          SampleOk(t) /\ Send(Event("Finished", i, t, o))
     \/ SampleErr /\ Send(Event("ClockFault", i, None, None))
  /\ thread' = [thread EXCEPT ![i] = "ended"]
  /\ UNCHANGED <<plan, scheduler>>

-----------------------------------------------------------------------------

Schedule ==
  \/ BeginStopped \/ (\E t \in Time : Begin(t)) \/ BeginRejected
  \/ Iterate \/ EndPhase \/ EndPoint
  \/ DrainStarted \/ DrainFinished \/ DrainClockFault
  \/ (\E t \in Time : Sample(t) \/ SampleWatchdog(t)) \/ SampleFails
  \/ Reject \/ LaunchQueued \/ Offer \/ Sleep

Work(i) == WorkerStart(i) \/ WorkerEnd(i)

Inputs == UNION {1 .. p.measured : p \in Plans} \cup UNION {1 .. p.warmups : p \in Plans}

Next == Schedule \/ \E i \in Inputs : Work(i)

Spec == Init /\ [][Next]_vars

(* The machine runs every thread, the executor returns, and CheckedClock    *)
(* does not let the clock stand still: at some sample it advances or it is  *)
(* found stalled (the stall limit, lines 142-145).                          *)
ClockMoves == (\E t \in Time : t > clock /\ Sample(t)) \/ SampleFails

FairSpec ==
  /\ Spec
  /\ WF_vars(Schedule)
  /\ SF_vars(ClockMoves)
  /\ \A i \in Inputs : WF_vars(Work(i))

-----------------------------------------------------------------------------
(* Properties.                                                              *)

Attempted(r) == r.outcome # None
Missed(r) == r.miss # None

(* Every planned attempt of both phases is in the result of the point, and  *)
(* is either an attempt with an outcome or a missed arrival that no worker  *)
(* has seen, whose reason is backpressure or why admission first stopped:   *)
(* run_with_spawner, phase and reject_remaining.  The verdict agrees with   *)
(* the records: one infrastructure failure or one clock fault, in whatever  *)
(* order it came with limits and deadlines, contaminates the point.         *)
EveryAttemptAccounted ==
  pc = "done" =>
    \A f \in Phases :
      /\ Len(rec[f]) = Count(f)
      /\ \A i \in 1 .. Count(f) :
           LET r == rec[f][i] IN
           /\ Attempted(r) # Missed(r)
           /\ Missed(r) => /\ r.started = None
                           /\ r.miss \in {"Backpressure", admission}
           /\ r.outcome = "InfrastructureFailure" => stop = "Contaminated"
      /\ failed => stop = "Contaminated"

Live == {i \in DOMAIN thread : thread[i] \in {"spawned", "running"}}
Final == {k \in DOMAIN channel : channel[k].kind # "Started"}

(* active counts the workers that are alive or whose last event is still in *)
(* the channel, and with the queue it stays within the plan's bounds; at    *)
(* the end of a phase no event is left behind.                              *)
BoundedWork ==
  /\ TypeOK
  /\ active = Cardinality(Live) + Cardinality(Final)
  /\ active <= plan.in_flight
  /\ Len(queue) <= plan.queue
  /\ pc \in {"begin", "end", "done"} => channel = <<>>

Unsuccessful(f) ==
  {i \in DOMAIN rec[f] : rec[f][i].outcome \notin {None, "Completed"}}

(* failures is the number of recorded outcomes that are not Completed,      *)
(* warmups included, and a point whose budget is exhausted fails at most    *)
(* what was in flight more.                                                 *)
FailureBudget ==
  /\ failures = Cardinality(Unsuccessful("warmup"))
                   + Cardinality(Unsuccessful("measured"))
  /\ plan.max_failures # 0 =>
       failures <= plan.max_failures - 1 + plan.in_flight

(* Late events rewrite nothing: the reason admission first ceased, a        *)
(* contaminated stop and what is recorded of an attempt that has an outcome *)
(* or was missed stay as they are.                                          *)
Settled ==
  /\ admission # None => admission' = admission
  /\ stop = "Contaminated" => stop' = "Contaminated"
  /\ \A f \in Phases : \A i \in DOMAIN rec[f] :
       Attempted(rec[f][i]) \/ Missed(rec[f][i]) => rec'[f][i] = rec[f][i]

ReasonsAreFinal == [][Settled]_vars

(* The point ends: every admitted worker is drained and nothing is waited   *)
(* for twice.                                                               *)
PointEnds == <>(pc = "done")

=============================================================================
