--------------------------- MODULE SchedulerProofs ---------------------------
(***************************************************************************)
(* The capacity scheduler for every plan: every planned attempt is in the  *)
(* result with one fate, active counts exactly the workers whose last      *)
(* event is still to come, the failure budget is overrun by no more than   *)
(* what was in flight, and late events rewrite nothing.                    *)
(*                                                                         *)
(* The invariant follows one attempt from its arrival: queued, in a        *)
(* worker, its last event in the channel, settled.                         *)
(***************************************************************************)
EXTENDS Scheduler, FiniteSetTheorems, TLAPS

Open(r) == ~Attempted(r) /\ ~Missed(r)

(* One fate: an outcome, or a miss no worker has seen. *)
Closed(r) == Attempted(r) # Missed(r) /\ (Missed(r) => r.started = None)

Events ==
  [kind : {"Started", "Finished", "ClockFault"}, id : Nat,
   at : Time \cup {None}, outcome : Outcome \cup {None}]

Threads == {"none", "spawned", "running", "ended"}

Typed ==
  /\ TypeOK
  /\ thread \in [1 .. Count(phase) -> Threads]
  /\ channel \in Seq(Events)
  /\ \A k \in DOMAIN channel :
       /\ channel[k].id \in DOMAIN thread
       /\ channel[k].kind # "ClockFault" => channel[k].at \in Time
       /\ channel[k].kind = "Finished" => channel[k].outcome \in Outcome

(* Where the scheduler is. *)
Phased ==
  /\ phase = "warmup" => next["measured"] = 0
  /\ phase = "measured" => next["warmup"] = Count("warmup")
  /\ pc = "begin" => /\ next[phase] = 0 /\ active = 0 /\ queue = <<>> /\ channel = <<>>
                     /\ phase = "warmup" => admission = None
  /\ pc \in {"end", "done"} => /\ phase = "measured" /\ next[phase] = Count(phase)
                               /\ active = 0 /\ queue = <<>> /\ channel = <<>>
  /\ pc # "done" => (admission = None <=> stop = "Completed")

(* The records of an earlier phase are closed. *)
Past == \A f \in Phases : f # phase => \A i \in 1 .. next[f] : Closed(rec[f][i])

Queued(i) == i \in ToSet(queue)
Reported(i) == \E k \in Final : channel[k].id = i

(* The way of an attempt of this phase. *)
Tracked(i) ==
  LET r == rec[phase][i] IN
  /\ i > next[phase] => thread[i] = "none" /\ ~Queued(i)
  /\ Queued(i) => thread[i] = "none" /\ Open(r) /\ r.started = None
  /\ i <= next[phase] /\ thread[i] = "none" /\ ~Queued(i) => Closed(r)
  /\ thread[i] \in {"spawned", "running"} => Open(r)
  /\ thread[i] = "ended" => ~Missed(r) /\ (Reported(i) <=> ~Attempted(r))

(* A worker sends Started, and then its one last event. *)
Channelled ==
  /\ \A k \in DOMAIN channel :
       IF channel[k].kind = "Started"
         THEN \/ thread[channel[k].id] = "running"
              \/ \E m \in Final : m > k /\ channel[m].id = channel[k].id
         ELSE thread[channel[k].id] = "ended"
  /\ \A k, m \in Final : channel[k].id = channel[m].id => k = m

Lined == \A a, b \in DOMAIN queue : queue[a] = queue[b] => a = b

Counted ==
  /\ IsFiniteSet(Live) /\ IsFiniteSet(Final)
  /\ active = Cardinality(Live) + Cardinality(Final)
  /\ active <= plan.in_flight
  /\ Len(queue) <= plan.queue

(* What the records say of the verdict. *)
Reasoned ==
  /\ \A f \in Phases : \A i \in 1 .. next[f] :
       /\ Missed(rec[f][i]) => rec[f][i].miss \in {"Backpressure", admission}
       /\ rec[f][i].outcome = "InfrastructureFailure" => stop = "Contaminated"
  /\ failed => \/ stop = "Contaminated"
               \/ \E k \in DOMAIN channel : channel[k].kind = "ClockFault"

(* While admission goes on the budget is not exhausted, and what is in      *)
(* flight then is all that can still fail.                                  *)
Budgeted ==
  /\ \A f \in Phases : IsFiniteSet(Unsuccessful(f))
  /\ failures = Cardinality(Unsuccessful("warmup")) + Cardinality(Unsuccessful("measured"))
  /\ plan.max_failures # 0 =>
       /\ failures + active <= plan.max_failures - 1 + plan.in_flight
       /\ admission = None => failures <= plan.max_failures - 1

SchedulerInv ==
  /\ Typed
  /\ Phased
  /\ Past
  /\ \A i \in 1 .. Count(phase) : Tracked(i)
  /\ Channelled
  /\ Lined
  /\ Counted
  /\ Reasoned
  /\ Budgeted

-----------------------------------------------------------------------------
(* Basic facts about the plan, the records and the channel.                 *)

LEMMA PlanFacts ==
  ASSUME plan \in Plans
  PROVE  /\ plan.inter \in Nat /\ plan.measured \in Nat /\ plan.warmups \in Nat
         /\ plan.in_flight \in Nat /\ plan.in_flight > 0 /\ plan.queue \in Nat
         /\ plan.max_failures \in Nat /\ plan.max_duration \in Nat /\ plan.max_duration > 0
         /\ MaxTime \in Nat /\ Deadline \in Time /\ 0 \in Time /\ Time \subseteq Nat
         /\ None \notin Nat
         /\ \A f \in Phases : Count(f) \in Nat
<1>1. /\ plan \in [inter : Nat, measured : Nat, warmups : Nat, in_flight : Nat,
                    queue : Nat, max_failures : Nat, max_duration : Nat]
      /\ plan.in_flight > 0 /\ plan.max_duration > 0
  BY PlansAssumption DEF ValidPlan
<1>2. plan.max_duration \in Nat /\ Overrun \in Nat /\ None \notin Nat
  BY <1>1, TimeAssumption
<1>3. MaxTime \in Nat /\ Deadline \in Time /\ 0 \in Time /\ Time \subseteq Nat
  BY <1>2 DEF MaxTime, Deadline, Time
<1> QED
  BY <1>1, <1>2, <1>3 DEF Count

LEMMA PlanKept ==
  ASSUME UNCHANGED plan
  PROVE  /\ Time' = Time /\ Record' = Record /\ Events' = Events /\ Deadline' = Deadline
         /\ \A f \in Phases : Count(f)' = Count(f)
<1>1. Time' = Time /\ Deadline' = Deadline
  BY DEF Time, MaxTime, Deadline
<1> QED
  BY <1>1 DEF Record, Events, Count

(* A sequence with one element replaced, and without its first one. *)
LEMMA Replaced ==
  ASSUME NEW S, NEW q \in Seq(S), NEW i \in 1 .. Len(q), NEW x \in S
  PROVE  /\ [q EXCEPT ![i] = x] \in Seq(S) /\ Len([q EXCEPT ![i] = x]) = Len(q)
         /\ [q EXCEPT ![i] = x][i] = x
         /\ \A j \in 1 .. Len(q) : j # i => [q EXCEPT ![i] = x][j] = q[j]
  OBVIOUS

LEMMA Rest ==
  ASSUME NEW S, NEW q \in Seq(S), q # <<>>
  PROVE  /\ Head(q) = q[1] /\ Head(q) \in S /\ Tail(q) \in Seq(S)
         /\ Len(q) \in Nat /\ Len(q) > 0 /\ Len(Tail(q)) = Len(q) - 1
         /\ \A k \in 1 .. Len(q) - 1 : Tail(q)[k] = q[k + 1]
  OBVIOUS

LEMMA Longer ==
  ASSUME NEW S, NEW q \in Seq(S), NEW x \in S
  PROVE  /\ Append(q, x) \in Seq(S) /\ Len(q) \in Nat /\ Len(Append(q, x)) = Len(q) + 1
         /\ Append(q, x)[Len(q) + 1] = x
         /\ \A k \in 1 .. Len(q) : Append(q, x)[k] = q[k]
  OBVIOUS

LEMMA InvFacts ==
  ASSUME SchedulerInv
  PROVE  /\ plan \in Plans /\ phase \in Phases
         /\ rec \in [Phases -> Seq(Record)] /\ next \in [Phases -> Nat]
         /\ \A f \in Phases : /\ Count(f) \in Nat /\ rec[f] \in Seq(Record)
                               /\ Len(rec[f]) = next[f] /\ next[f] <= Count(f)
                               /\ DOMAIN rec[f] = 1 .. next[f]
                               /\ \A i \in 1 .. next[f] : rec[f][i] \in Record
         /\ thread \in [1 .. Count(phase) -> Threads] /\ channel \in Seq(Events)
         /\ DOMAIN channel = 1 .. Len(channel) /\ Len(channel) \in Nat
         /\ queue \in Seq(1 .. Count(phase)) /\ Len(queue) \in Nat
         /\ DOMAIN queue = 1 .. Len(queue)
         /\ active \in Nat /\ failures \in Nat /\ clock \in Time /\ now \in Time
         /\ started \in Time
<1>1. TypeOK /\ thread \in [1 .. Count(phase) -> Threads] /\ channel \in Seq(Events)
  BY DEF SchedulerInv, Typed
<1>2. plan \in Plans /\ phase \in Phases /\ \A f \in Phases : Count(f) \in Nat
  BY <1>1, PlanFacts DEF TypeOK
<1>3. /\ rec \in [Phases -> Seq(Record)] /\ next \in [Phases -> Nat]
      /\ queue \in Seq(1 .. Count(phase))
  BY <1>1 DEF TypeOK
<1>4. ASSUME NEW f \in Phases
      PROVE  /\ rec[f] \in Seq(Record) /\ Len(rec[f]) = next[f] /\ next[f] <= Count(f)
             /\ DOMAIN rec[f] = 1 .. next[f]
             /\ \A i \in 1 .. next[f] : rec[f][i] \in Record
  BY <1>1, <1>3 DEF TypeOK
<1>5. /\ active \in Nat /\ failures \in Nat /\ clock \in Time /\ now \in Time
      /\ started \in Time
  BY <1>1 DEF TypeOK
<1> QED
  BY <1>1, <1>2, <1>3, <1>4, <1>5

(* None is no reason and no outcome. *)
LEMMA NoneFacts ==
  /\ \A x \in StopReason \cup Outcome \cup {"Backpressure"} : x # None
  /\ None \notin Nat
  BY NoneAssumption, TimeAssumption

-----------------------------------------------------------------------------
(* Steps that move the scheduler thread, the clock or the verdict only.     *)

Work0 == <<plan, phase, next, queue, active, failures, rec, thread, channel>>

LEMMA QuietStep ==
  ASSUME SchedulerInv, UNCHANGED Work0, Typed', Phased',
         admission # None => admission' = admission,
         stop = "Contaminated" => stop' = "Contaminated",
         failed' => failed \/ stop' = "Contaminated"
  PROVE  SchedulerInv'
<1>1. UNCHANGED <<plan, phase, next, queue, active, failures, rec, thread, channel>>
  BY DEF Work0
<1>2. \A f : Count(f)' = Count(f)
  BY <1>1 DEF Count
<1>3. Live' = Live /\ Final' = Final /\ \A f : Unsuccessful(f)' = Unsuccessful(f)
  BY <1>1 DEF Live, Final, Unsuccessful
<1>4. Past' /\ Channelled' /\ Lined' /\ Counted'
  BY <1>1, <1>3 DEF SchedulerInv, Past, Closed, Attempted, Missed, Channelled, Lined, Counted
<1>5. ASSUME NEW i \in 1 .. Count(phase) PROVE Tracked(i)'
  <2>1. Tracked(i)
    BY DEF SchedulerInv
  <2>2. (Queued(i)' <=> Queued(i)) /\ (Reported(i)' <=> Reported(i))
    BY <1>1, <1>3 DEF Queued, Reported
  <2> QED
    BY <1>1, <2>1, <2>2 DEF Tracked, Open, Closed, Attempted, Missed
<1>6. Budgeted'
  BY <1>1, <1>3 DEF SchedulerInv, Budgeted
<1>7. Reasoned'
  BY <1>1 DEF SchedulerInv, Reasoned, Missed
<1> QED
  BY <1>1, <1>2, <1>4, <1>5, <1>6, <1>7 DEF SchedulerInv

LEMMA QuietTypes ==
  ASSUME SchedulerInv, UNCHANGED Work0,
         pc' \in {"begin", "top", "drain", "admit", "end", "done"},
         started' \in Time, now' \in Time, clock' \in Time, failed' \in BOOLEAN,
         stop' \in StopReason, admission' \in (StopReason \ {"Completed"}) \cup {None}
  PROVE  Typed'
<1>1. UNCHANGED <<plan, phase, next, queue, active, failures, rec, thread, channel>>
  BY DEF Work0
<1>2. Time' = Time /\ Record' = Record /\ Events' = Events /\ \A f \in Phases : Count(f)' = Count(f)
  BY <1>1, PlanKept
<1>3. phase \in Phases
  BY InvFacts
<1> QED
  BY <1>1, <1>2, <1>3 DEF SchedulerInv, Typed, TypeOK

-----------------------------------------------------------------------------
(* The quiet steps.                                                         *)

LEMMA HaltFacts ==
  ASSUME SchedulerInv, NEW reason \in StopReason \ {"Completed"}, Halt(reason)
  PROVE  /\ stop' = reason /\ stop' \in StopReason
         /\ admission' \in StopReason \ {"Completed"} /\ admission' # None
         /\ admission # None => admission' = admission
         /\ admission = None => admission' = reason
<1>1. admission \in (StopReason \ {"Completed"}) \cup {None}
  BY DEF SchedulerInv, Typed, TypeOK
<1> QED
  BY <1>1, NoneFacts DEF Halt

LEMMA SampleTypes ==
  ASSUME SchedulerInv, NEW t \in Nat, SampleOk(t)
  PROVE  t \in Time /\ clock' = t /\ clock' \in Time /\ failed' = failed /\ failed' \in BOOLEAN
<1>1. MaxTime \in Nat /\ clock \in Time /\ failed \in BOOLEAN
  BY PlanFacts DEF SchedulerInv, Typed, TypeOK
<1> QED
  BY <1>1 DEF SampleOk, Time

LEMMA StateTypes ==
  ASSUME SchedulerInv
  PROVE  /\ pc \in {"begin", "top", "drain", "admit", "end", "done"}
         /\ failed \in BOOLEAN /\ stop \in StopReason
         /\ admission \in (StopReason \ {"Completed"}) \cup {None}
         /\ started \in Time /\ now \in Time /\ clock \in Time /\ Time \subseteq Nat
         /\ MaxTime \in Nat /\ Deadline \in Time
  BY PlanFacts DEF SchedulerInv, Typed, TypeOK

LEMMA BeginStep ==
  ASSUME SchedulerInv, NEW t \in Time, Begin(t)
  PROVE  SchedulerInv'
<1>1. UNCHANGED Work0 /\ UNCHANGED <<phase, now, stop, admission>> /\ started' = t /\ pc' = "top"
  BY DEF Begin, Work0, workers
<1>2. clock' \in Time /\ failed' = failed
  BY StateTypes, SampleTypes DEF Begin
<1>3. Typed'
  BY <1>1, <1>2, StateTypes, QuietTypes
<1>4. Phased'
  BY <1>1 DEF SchedulerInv, Phased, Work0, Count, Begin
<1> QED
  BY <1>1, <1>2, <1>3, <1>4, QuietStep

LEMMA IterateStep ==
  ASSUME SchedulerInv, Iterate
  PROVE  SchedulerInv'
<1>1. UNCHANGED Work0 /\ UNCHANGED <<started, now, stop, admission, clock, failed>> /\ pc' = "drain"
  BY DEF Iterate, Work0, workers
<1>2. Typed'
  BY <1>1, StateTypes, QuietTypes
<1>3. Phased'
  BY <1>1 DEF SchedulerInv, Phased, Work0, Count, Iterate
<1> QED
  BY <1>1, <1>2, <1>3, QuietStep

LEMMA SleepStep ==
  ASSUME SchedulerInv, Sleep
  PROVE  SchedulerInv'
<1>1. UNCHANGED Work0 /\ UNCHANGED <<started, now, stop, admission, clock, failed>> /\ pc' = "top"
  BY DEF Sleep, Work0, workers
<1>2. Typed'
  BY <1>1, StateTypes, QuietTypes
<1>3. Phased'
  BY <1>1 DEF SchedulerInv, Phased, Work0, Count, Sleep
<1> QED
  BY <1>1, <1>2, <1>3, QuietStep

LEMMA EndPointStep ==
  ASSUME SchedulerInv, EndPoint
  PROVE  SchedulerInv'
<1>1. UNCHANGED Work0 /\ UNCHANGED <<started, now, admission>> /\ pc' = "done" /\ pc = "end"
  BY DEF EndPoint, Work0, workers
<1>2. /\ clock' \in Time /\ failed' \in BOOLEAN /\ stop' \in {stop, "Contaminated"}
      /\ failed' => failed \/ stop' = "Contaminated"
  <2>1. CASE clock > 0 /\ UNCHANGED <<clock, failed, stop>>
    BY <2>1, StateTypes
  <2>2. CASE (\E t \in 1 .. MaxTime : SampleOk(t)) /\ UNCHANGED stop
    <3>1. PICK t \in 1 .. MaxTime : SampleOk(t)
      BY <2>2
    <3>2. t \in Nat
      BY StateTypes
    <3> QED
      BY <2>2, <3>1, <3>2, SampleTypes
  <2>3. CASE SampleErr /\ stop' = "Contaminated"
    BY <2>3, StateTypes DEF SampleErr
  <2> QED
    BY <2>1, <2>2, <2>3 DEF EndPoint
<1>3. Typed'
  BY <1>1, <1>2, StateTypes, QuietTypes DEF StopReason
<1>4. Phased'
  BY <1>1 DEF SchedulerInv, Phased, Work0, Count
<1> QED
  BY <1>1, <1>2, <1>3, <1>4, QuietStep

(* The sample between two drains. *)
LEMMA SampledStep ==
  ASSUME SchedulerInv, NEW t \in Time, Sampled(t), clock' \in Time, failed' \in BOOLEAN,
         \/ UNCHANGED <<stop, admission>> /\ failed' = failed
         \/ admission = None /\ Halt("DurationLimit") /\ failed' = failed
         \/ Halt("Contaminated")
  PROVE  SchedulerInv'
<1>1. UNCHANGED Work0 /\ UNCHANGED started /\ now' = t /\ pc' = "admit" /\ pc = "drain"
  BY DEF Sampled, Work0, workers
<1>2. stop = "Completed" <=> admission = None
  BY <1>1 DEF SchedulerInv, Phased
<1>3. /\ stop' \in StopReason /\ admission' \in (StopReason \ {"Completed"}) \cup {None}
      /\ admission # None => admission' = admission
      /\ stop = "Contaminated" => stop' = "Contaminated"
      /\ failed' => failed \/ stop' = "Contaminated"
      /\ stop' = "Completed" <=> admission' = None
  BY <1>2, StateTypes, HaltFacts, NoneFacts DEF StopReason
<1>4. Typed'
  BY <1>1, <1>3, StateTypes, QuietTypes
<1>5. Phased'
  BY <1>1, <1>3 DEF SchedulerInv, Phased, Work0, Count
<1> QED
  BY <1>1, <1>3, <1>4, <1>5, QuietStep

LEMMA SampleStep ==
  ASSUME SchedulerInv, NEW t \in Time, Sample(t) \/ SampleWatchdog(t)
  PROVE  SchedulerInv'
<1>1. CASE Sample(t)
  <2>1. Sampled(t) /\ clock' \in Time /\ failed' = failed /\ failed' \in BOOLEAN
    BY <1>1, StateTypes, SampleTypes DEF Sample
  <2>2. \/ UNCHANGED <<stop, admission>>
        \/ admission = None /\ Halt("DurationLimit")
    BY <1>1 DEF Sample
  <2> QED
    BY <2>1, <2>2, SampledStep
<1>2. CASE SampleWatchdog(t)
  BY <1>2, StateTypes, SampledStep DEF SampleWatchdog
<1> QED
  BY <1>1, <1>2

LEMMA SampleFailsStep ==
  ASSUME SchedulerInv, SampleFails
  PROVE  SchedulerInv'
<1>1. clock \in Time /\ clock' = clock /\ failed' = TRUE /\ Sampled(clock)
  BY StateTypes DEF SampleFails, SampleErr
<1> QED
  BY <1>1, SampledStep DEF SampleFails

-----------------------------------------------------------------------------
(* Rejection of what is queued and of what has not arrived.                 *)

LEMMA ArrivalFacts ==
  ASSUME plan \in Plans, NEW i \in Nat \ {0}, NEW b \in Nat, NEW t \in Nat
  PROVE  /\ Scheduled(i, b, t) \in Nat
         /\ Arrival(Scheduled(i, b, t)) \in Record
         /\ Open(Arrival(Scheduled(i, b, t)))
         /\ Arrival(Scheduled(i, b, t)).started = None
         /\ \A reason \in StopReason \cup {"Backpressure"} :
              LET r == [Arrival(Scheduled(i, b, t)) EXCEPT !.miss = reason]
              IN  r \in Record /\ r.miss = reason /\ r.outcome = None /\ r.started = None
<1>1. plan.inter \in Nat /\ i - 1 \in Nat
  BY PlanFacts
<1>2. plan.inter * (i - 1) \in Nat
  BY <1>1
<1>3. Scheduled(i, b, t) \in Nat
  BY <1>1, <1>2 DEF Scheduled
<1> DEFINE a == Scheduled(i, b, t)
<1> HIDE DEF a
<1>4. a \in Nat
  BY <1>3 DEF a
<1>5. /\ Arrival(a) \in Record /\ Open(Arrival(a)) /\ Arrival(a).started = None
      /\ \A reason \in StopReason \cup {"Backpressure"} :
           LET r == [Arrival(a) EXCEPT !.miss = reason]
           IN  r \in Record /\ r.miss = reason /\ r.outcome = None /\ r.started = None
  BY <1>4 DEF Arrival, Record, Open, Attempted, Missed
<1> QED
  BY <1>3, <1>5 DEF a

LEMMA RejectFacts ==
  ASSUME SchedulerInv, NEW b \in Nat, NEW t \in Nat, NEW reason \in StopReason,
         RejectRest(b, t, reason)
  PROVE  /\ rec' \in [Phases -> Seq(Record)] /\ next' \in [Phases -> Nat]
         /\ queue' = <<>> /\ next'[phase] = Count(phase)
         /\ Len(rec'[phase]) = Count(phase)
         /\ \A f \in Phases : f # phase => rec'[f] = rec[f] /\ next'[f] = next[f]
         /\ \A i \in 1 .. Count(phase) :
              IF i > next[phase] \/ Queued(i)
                THEN /\ rec'[phase][i].miss = reason /\ rec'[phase][i].outcome = None
                     /\ rec'[phase][i].started = None
                ELSE rec'[phase][i] = rec[phase][i]
<1> DEFINE R == Rejected(phase, b, t, reason)
           n == Count(phase)
<1>1. phase \in Phases /\ n \in Nat /\ plan \in Plans
  BY InvFacts
<1>2. ASSUME NEW i \in 1 .. n
      PROVE  /\ R[i] \in Record
             /\ IF i > next[phase] \/ Queued(i)
                  THEN R[i].miss = reason /\ R[i].outcome = None /\ R[i].started = None
                  ELSE R[i] = rec[phase][i]
  <2>0. i \in Nat \ {0}
    BY <1>1
  <2>1. R[i] = IF i > next[phase] THEN [Arrival(Scheduled(i, b, t)) EXCEPT !.miss = reason]
               ELSE IF Queued(i) THEN [rec[phase][i] EXCEPT !.miss = reason]
               ELSE rec[phase][i]
    BY DEF Rejected, Queued
  <2>2. CASE i > next[phase]
    <3>1. R[i] = [Arrival(Scheduled(i, b, t)) EXCEPT !.miss = reason]
      BY <2>1, <2>2
    <3> HIDE DEF R
    <3> QED
      BY <1>1, <2>0, <2>2, <3>1, ArrivalFacts
  <2>3. CASE ~(i > next[phase])
    <3>0. i \in 1 .. next[phase]
      BY <1>1, <2>0, <2>3, InvFacts
    <3>1. rec[phase][i] \in Record
      BY <1>1, <3>0, InvFacts
    <3>2. CASE Queued(i)
      <4>1. Open(rec[phase][i]) /\ rec[phase][i].started = None
        BY <3>2 DEF SchedulerInv, Tracked
      <4>2. R[i] = [rec[phase][i] EXCEPT !.miss = reason]
        BY <2>1, <2>3, <3>2
      <4> HIDE DEF R
      <4> QED
        BY <3>1, <3>2, <4>1, <4>2 DEF Record, Open, Attempted
    <3>3. CASE ~Queued(i)
      BY <2>1, <2>3, <3>1, <3>3
    <3> QED
      BY <3>2, <3>3
  <2> QED
    BY <2>2, <2>3
<1>3. R \in Seq(Record) /\ Len(R) = n
  <2>1. R = [i \in 1 .. n |-> R[i]]
    BY DEF Rejected
  <2>2. R \in [1 .. n -> Record]
    BY <1>2, <2>1
  <2> HIDE DEF R
  <2> QED
    BY <1>1, <2>2
<1>4. rec' = [rec EXCEPT ![phase] = R] /\ next' = [next EXCEPT ![phase] = n] /\ queue' = <<>>
  BY DEF RejectRest
<1> HIDE DEF R, n
<1>5. rec'[phase] = R /\ rec' \in [Phases -> Seq(Record)] /\ next' \in [Phases -> Nat]
      /\ next'[phase] = n
      /\ \A f \in Phases : f # phase => rec'[f] = rec[f] /\ next'[f] = next[f]
  BY <1>1, <1>3, <1>4, InvFacts
<1> QED
  BY <1>2, <1>3, <1>4, <1>5 DEF n

(* The records that change had no outcome, and have none now. *)
LEMMA RejectStep ==
  ASSUME SchedulerInv, NEW b \in Nat, NEW t \in Nat, NEW reason \in StopReason \ {"Completed"},
         RejectRest(b, t, reason), UNCHANGED <<plan, phase, started, now, active, failures, workers>>,
         pc' \in {"begin", "top", "drain", "admit", "end", "done"}, Phased',
         clock' \in Time, failed' \in BOOLEAN, stop' \in StopReason,
         admission' = reason, admission # None => admission = reason,
         stop = "Contaminated" => stop' = "Contaminated",
         failed' => failed \/ stop' = "Contaminated"
  PROVE  SchedulerInv'
<1>1. /\ rec' \in [Phases -> Seq(Record)] /\ next' \in [Phases -> Nat]
      /\ queue' = <<>> /\ next'[phase] = Count(phase)
      /\ Len(rec'[phase]) = Count(phase)
      /\ \A f \in Phases : f # phase => rec'[f] = rec[f] /\ next'[f] = next[f]
  BY RejectFacts
<1>2. ASSUME NEW i \in 1 .. Count(phase)
      PROVE  IF i > next[phase] \/ Queued(i)
                THEN /\ rec'[phase][i].miss = reason /\ rec'[phase][i].outcome = None
                     /\ rec'[phase][i].started = None
                ELSE rec'[phase][i] = rec[phase][i]
  BY RejectFacts
<1>3. UNCHANGED <<thread, channel>> /\ Live' = Live /\ Final' = Final
  BY DEF workers, Live, Final
<1>4. /\ Time' = Time /\ Record' = Record /\ Events' = Events
      /\ \A f \in Phases : Count(f)' = Count(f)
  BY PlanKept
<1>5. phase \in Phases /\ Count(phase) \in Nat /\ next[phase] <= Count(phase) /\ next[phase] \in Nat
  BY InvFacts
<1>6. Typed'
  <2>1. \A f \in Phases : Len(rec'[f]) = next'[f] /\ next'[f] <= Count(f)'
    <3>1. ASSUME NEW f \in Phases, f # phase
          PROVE  Len(rec'[f]) = next'[f] /\ next'[f] <= Count(f)
      <4>1. Len(rec[f]) = next[f] /\ next[f] <= Count(f)
        BY InvFacts
      <4> QED
        BY <1>1, <3>1, <4>1
    <3>2. Len(rec'[phase]) = next'[phase] /\ next'[phase] <= Count(phase)
      BY <1>1, <1>5
    <3> QED
      BY <1>4, <3>1, <3>2
  <2>2. queue' \in Seq(1 .. Count(phase)')
    BY <1>1
  <2>3. thread' \in [1 .. Count(phase)' -> Threads] /\ channel' \in Seq(Events')
    BY <1>3, <1>4, <1>5, InvFacts
  <2>4. TypeOK'
    BY <1>1, <1>3, <1>4, <1>5, <2>1, <2>2, StateTypes DEF SchedulerInv, Typed, TypeOK
  <2> QED
    BY <1>3, <1>4, <2>3, <2>4 DEF SchedulerInv, Typed
<1>7. ASSUME NEW i \in 1 .. Count(phase) PROVE Tracked(i)'
  <2>1. Tracked(i) /\ (Reported(i)' <=> Reported(i)) /\ ~Queued(i)'
    BY <1>1, <1>3 DEF SchedulerInv, Reported, Queued, ToSet
  <2>2. reason # None
    BY NoneFacts
  <2>3. CASE i > next[phase] \/ Queued(i)
    <3>1. thread[i] = "none"
      BY <2>1, <2>3 DEF Tracked
    <3>2. /\ rec'[phase][i].miss = reason /\ rec'[phase][i].outcome = None
          /\ rec'[phase][i].started = None
      BY <1>2, <2>3
    <3> QED
      BY <1>1, <1>3, <1>5, <2>1, <2>2, <3>1, <3>2 DEF Tracked, Closed, Attempted, Missed
  <2>4. CASE ~(i > next[phase] \/ Queued(i))
    <3>1. rec'[phase][i] = rec[phase][i]
      BY <1>2, <2>4
    <3>2. i <= next[phase]
      BY <1>5, <2>4
    <3> QED
      BY <1>1, <1>3, <1>5, <2>1, <2>4, <3>1, <3>2 DEF Tracked, Closed, Open, Attempted, Missed
  <2> QED
    BY <2>3, <2>4
<1>8. Past' /\ Channelled' /\ Lined'
  <2>1. Past'
    <3>1. ASSUME NEW f \in Phases, f # phase, NEW i \in 1 .. next[f]
          PROVE  Closed(rec[f][i])
      BY <3>1 DEF SchedulerInv, Past
    <3>2. \A f \in Phases : f # phase => rec'[f] = rec[f] /\ next'[f] = next[f]
      BY <1>1
    <3> QED
      BY <3>1, <3>2 DEF Past, Closed, Attempted, Missed
  <2>2. Channelled'
    BY <1>3 DEF SchedulerInv, Channelled
  <2>3. DOMAIN queue' = {}
    BY <1>1
  <2> QED
    BY <2>1, <2>2, <2>3 DEF Lined
<1>9. Counted'
  <2>1. Len(queue') = 0
    BY <1>1
  <2>2. plan.queue \in Nat
    BY InvFacts, PlanFacts
  <2> QED
    BY <1>3, <2>1, <2>2 DEF SchedulerInv, Counted
<1>10. ASSUME NEW f \in Phases PROVE Unsuccessful(f)' = Unsuccessful(f)
  <2>1. CASE f # phase
    BY <1>1, <2>1 DEF Unsuccessful
  <2>2. CASE f = phase
    <3>1. DOMAIN rec[phase] = 1 .. next[phase] /\ DOMAIN rec'[phase] = 1 .. Count(phase)
      BY <1>1, <1>5, InvFacts
    <3>2. ASSUME NEW i \in 1 .. Count(phase)
          PROVE  IF i > next[phase] THEN rec'[phase][i].outcome = None
                 ELSE rec'[phase][i].outcome = rec[phase][i].outcome
      <4>1. CASE i > next[phase]
        BY <1>2, <4>1
      <4>2. CASE ~(i > next[phase]) /\ Queued(i)
        <5>1. rec[phase][i].outcome = None
          BY <4>2 DEF SchedulerInv, Tracked, Open, Attempted
        <5> QED
          BY <1>2, <4>2, <5>1
      <4>3. CASE ~(i > next[phase]) /\ ~Queued(i)
        BY <1>2, <4>3
      <4> QED
        BY <4>1, <4>2, <4>3
    <3>3. \A i \in 1 .. Count(phase) : i > next[phase] <=> i \notin 1 .. next[phase]
      BY <1>5
    <3>4. 1 .. next[phase] \subseteq 1 .. Count(phase)
      BY <1>5
    <3> QED
      BY <2>2, <3>1, <3>2, <3>3, <3>4 DEF Unsuccessful
  <2> QED
    BY <2>1, <2>2
<1>11. Budgeted'
  <2>1. "warmup" \in Phases /\ "measured" \in Phases /\ reason # None
    BY NoneFacts DEF Phases
  <2> QED
    BY <1>10, <2>1 DEF SchedulerInv, Budgeted
<1>12. Reasoned'
  <2>1. ASSUME NEW f \in Phases, NEW i \in 1 .. next'[f]
        PROVE  /\ Missed(rec'[f][i]) => rec'[f][i].miss \in {"Backpressure", reason}
               /\ rec'[f][i].outcome = "InfrastructureFailure" => stop' = "Contaminated"
    <3>1. CASE f # phase
      BY <1>1, <2>1, <3>1 DEF SchedulerInv, Reasoned, Missed
    <3>2. CASE f = phase
      <4>1. i \in 1 .. Count(phase)
        BY <1>1, <2>1, <3>2
      <4>2. CASE i > next[phase] \/ Queued(i)
        BY <1>2, <3>2, <4>1, <4>2, NoneFacts DEF Outcome
      <4>3. CASE ~(i > next[phase] \/ Queued(i))
        <5>1. rec'[phase][i] = rec[phase][i] /\ i \in 1 .. next[phase]
          BY <1>2, <1>5, <4>1, <4>3
        <5> QED
          BY <1>5, <3>2, <5>1 DEF SchedulerInv, Reasoned, Missed
      <4> QED
        BY <4>2, <4>3
    <3> QED
      BY <3>1, <3>2
  <2> QED
    BY <1>3, <2>1 DEF SchedulerInv, Reasoned, Missed
<1> QED
  BY <1>4, <1>5, <1>6, <1>7, <1>8, <1>9, <1>11, <1>12 DEF SchedulerInv

LEMMA RejectingStep ==
  ASSUME SchedulerInv, Reject
  PROVE  SchedulerInv'
<1>1. /\ started \in Nat /\ now \in Nat /\ admission \in StopReason \ {"Completed"}
      /\ RejectRest(started, now, admission) /\ pc' = "top"
      /\ UNCHANGED <<plan, phase, started, now, active, failures, stop, admission, workers, clock,
                      failed>>
  BY StateTypes DEF Reject
<1>2. pc = "admit" /\ phase \in Phases
  BY InvFacts DEF Reject
<1>3. Phased'
  <2>1. \A f \in Phases : f # phase => next'[f] = next[f]
    BY <1>1, RejectFacts
  <2> QED
    BY <1>1, <1>2, <2>1 DEF SchedulerInv, Phased, Phases, Count
<1> QED
  BY <1>1, <1>3, StateTypes, RejectStep

LEMMA BeginStoppedStep ==
  ASSUME SchedulerInv, BeginStopped
  PROVE  SchedulerInv'
<1>1. PICK t \in Nat : RejectRest(t, t, admission)
  <2>1. clock \in Nat /\ Deadline \in Nat
    BY StateTypes
  <2> QED
    BY <2>1 DEF BeginStopped
<1>2. /\ admission \in StopReason \ {"Completed"} /\ pc' = "end" /\ pc = "begin"
      /\ UNCHANGED <<plan, phase, started, now, active, failures, stop, admission, workers, clock,
                      failed>>
  BY StateTypes DEF BeginStopped
<1>3. phase = "measured" /\ channel = <<>> /\ active = 0
  BY <1>2, InvFacts, NoneFacts DEF SchedulerInv, Phased, Phases
<1>4. Phased'
  <2>1. /\ \A f \in Phases : f # phase => next'[f] = next[f]
        /\ next'[phase] = Count(phase) /\ queue' = <<>>
    BY <1>1, <1>2, RejectFacts
  <2>2. channel' = <<>>
    BY <1>2, <1>3 DEF workers
  <2> QED
    BY <1>2, <1>3, <2>1, <2>2 DEF SchedulerInv, Phased, Phases, Count
<1> QED
  BY <1>1, <1>2, <1>4, StateTypes, RejectStep

LEMMA BeginRejectedStep ==
  ASSUME SchedulerInv, BeginRejected
  PROVE  SchedulerInv'
<1>1. /\ admission = None /\ pc = "begin" /\ pc' = "top"
      /\ UNCHANGED <<plan, phase, started, now, active, failures, workers>>
  BY DEF BeginRejected
<1>2. stop = "Completed" /\ phase \in Phases
  BY <1>1, InvFacts DEF SchedulerInv, Phased
<1>3. PICK t \in Nat, reason \in StopReason \ {"Completed"} :
        /\ RejectRest(t, t, reason) /\ Halt(reason) /\ clock' \in Time /\ failed' \in BOOLEAN
        /\ failed' => failed \/ reason = "Contaminated"
  <2>1. CASE SampleErr /\ RejectRest(clock, clock, "Contaminated") /\ Halt("Contaminated")
    <3>1. clock \in Nat /\ clock' \in Time /\ failed' \in BOOLEAN
      BY <2>1, StateTypes DEF SampleErr
    <3>2. "Contaminated" \in StopReason \ {"Completed"}
      BY DEF StopReason
    <3> QED
      BY <2>1, <3>1, <3>2
  <2>2. CASE /\ \E t \in Deadline .. MaxTime : SampleOk(t)
             /\ RejectRest(Deadline, Deadline, "DurationLimit") /\ Halt("DurationLimit")
    <3>1. PICK t \in Deadline .. MaxTime : SampleOk(t)
      BY <2>2
    <3>2. t \in Nat /\ Deadline \in Nat
      BY StateTypes
    <3>3. clock' \in Time /\ failed' \in BOOLEAN /\ failed' = failed
      BY <3>1, <3>2, SampleTypes
    <3>4. "DurationLimit" \in StopReason \ {"Completed"}
      BY DEF StopReason
    <3> QED
      BY <2>2, <3>2, <3>3, <3>4
  <2> QED
    BY <2>1, <2>2 DEF BeginRejected
<1>4. stop' = reason /\ admission' = reason /\ reason # None
  BY <1>1, <1>3, HaltFacts, NoneFacts
<1>5. Phased'
  <2>1. \A f \in Phases : f # phase => next'[f] = next[f]
    BY <1>3, RejectFacts
  <2> QED
    BY <1>1, <1>2, <1>4, <2>1 DEF SchedulerInv, Phased, Phases, Count
<1> QED
  BY <1>1, <1>2, <1>3, <1>4, <1>5, RejectStep

-----------------------------------------------------------------------------
(* The end of a phase.                                                      *)

(* With nothing active, no event is left and every arrival is closed. *)
LEMMA NothingActive ==
  ASSUME SchedulerInv, active = 0, queue = <<>>
  PROVE  /\ Live = {} /\ channel = <<>>
         /\ \A i \in 1 .. next[phase] : Closed(rec[phase][i])
<1>1. Cardinality(Live) \in Nat /\ Cardinality(Final) \in Nat /\ IsFiniteSet(Live)
      /\ IsFiniteSet(Final) /\ 0 = Cardinality(Live) + Cardinality(Final)
  BY FS_CardinalityType DEF SchedulerInv, Counted
<1>2. Live = {} /\ Final = {}
  BY <1>1, FS_EmptySet
<1>3. ASSUME NEW k \in DOMAIN channel PROVE FALSE
  <2>1. channel[k].kind = "Started"
    BY <1>2 DEF Final
  <2>2. thread[channel[k].id] = "running" /\ channel[k].id \in DOMAIN thread
    BY <1>2, <2>1 DEF SchedulerInv, Channelled, Typed
  <2> QED
    BY <1>2, <2>2 DEF Live
<1>4. channel = <<>>
  <2>1. DOMAIN channel = 1 .. Len(channel) /\ Len(channel) \in Nat /\ channel \in Seq(Events)
    BY InvFacts
  <2>2. Len(channel) = 0
    BY <1>3, <2>1
  <2> QED
    BY <2>1, <2>2
<1>5. ASSUME NEW i \in 1 .. next[phase] PROVE Closed(rec[phase][i])
  <2>0. /\ next[phase] <= Count(phase) /\ next[phase] \in Nat /\ Count(phase) \in Nat
        /\ thread \in [1 .. Count(phase) -> Threads]
    BY InvFacts
  <2>1. i \in 1 .. Count(phase) /\ thread[i] \in Threads /\ i \in DOMAIN thread
        /\ i <= next[phase]
    BY <2>0
  <2>2. Tracked(i) /\ ~Queued(i) /\ ~Reported(i)
    BY <1>2, <2>1 DEF SchedulerInv, Queued, ToSet, Reported
  <2>3. thread[i] \in {"none", "ended"}
    BY <1>2, <2>1 DEF Live, Threads
  <2> QED
    BY <2>1, <2>2, <2>3 DEF Tracked, Closed
<1> QED
  BY <1>2, <1>4, <1>5

LEMMA EndPhaseStep ==
  ASSUME SchedulerInv, EndPhase
  PROVE  SchedulerInv'
<1>1. /\ next[phase] = Count(phase) /\ active = 0 /\ queue = <<>> /\ pc = "top"
      /\ UNCHANGED <<plan, started, now, next, queue, active, failures, stop, admission, rec,
                      channel, clock, failed>>
  <2>1. /\ next[phase] <= Count(phase) /\ next[phase] \in Nat /\ Count(phase) \in Nat
        /\ active \in Nat
    BY InvFacts
  <2> QED
    BY <2>1 DEF EndPhase, MoreToDo
<1>2. /\ Live = {} /\ channel = <<>>
      /\ \A i \in 1 .. next[phase] : Closed(rec[phase][i])
  BY <1>1, NothingActive
<1>3. CASE phase = "measured"
  <2>1. phase' = phase /\ thread' = thread /\ pc' = "end"
    BY <1>3 DEF EndPhase
  <2>2. UNCHANGED Work0
    BY <1>1, <2>1 DEF Work0
  <2>3. Typed'
    BY <1>1, <2>1, <2>2, StateTypes, QuietTypes
  <2>4. Phased'
    BY <1>1, <1>2, <1>3, <2>1 DEF SchedulerInv, Phased, Count
  <2> QED
    BY <1>1, <2>2, <2>3, <2>4, QuietStep
<1>4. CASE phase = "warmup"
  <2>1. /\ phase' = "measured" /\ pc' = "begin"
        /\ thread' = [i \in 1 .. plan.measured |-> "none"]
    BY <1>4 DEF EndPhase
  <2>2. /\ Time' = Time /\ Record' = Record /\ Events' = Events
        /\ \A f \in Phases : Count(f)' = Count(f)
    BY <1>1, PlanKept
  <2>3. /\ next["measured"] = 0 /\ Count("measured") = plan.measured /\ plan.measured \in Nat
        /\ "measured" \in Phases /\ "warmup" \in Phases
    BY <1>4, InvFacts, PlanFacts DEF SchedulerInv, Phased, Count, Phases
  <2>4. Typed'
    <3>1. thread' \in [1 .. Count(phase)' -> Threads]
      BY <1>1, <2>1 DEF Threads, Count
    <3>2. queue' \in Seq(1 .. Count(phase)') /\ channel' \in Seq(Events') /\ DOMAIN channel' = {}
      BY <1>1, <1>2
    <3>3. ToSet(channel') = {}
      BY <3>2 DEF ToSet
    <3>4. \A f \in Phases : Len(rec'[f]) = next'[f] /\ next'[f] <= Count(f)'
      BY <1>1, <2>2, InvFacts
    <3>5. DOMAIN thread' = 1 .. Count(phase)'
      BY <3>1
    <3>6. TypeOK'
      BY <1>1, <2>1, <2>2, <2>3, <3>1, <3>2, <3>3, <3>4, <3>5 DEF SchedulerInv, Typed, TypeOK, Threads
    <3> QED
      BY <3>1, <3>2, <3>6 DEF Typed
  <2>5. Phased'
    BY <1>1, <1>2, <1>4, <2>1, <2>3 DEF SchedulerInv, Phased, Count
  <2>6. Past'
    BY <1>1, <1>2, <1>4, <2>1 DEF Past, Phases, Closed, Attempted, Missed
  <2>7. ASSUME NEW i \in 1 .. Count(phase)' PROVE Tracked(i)'
    <3>1. thread'[i] = "none" /\ i > next'[phase']
      BY <1>1, <2>1, <2>3 DEF Count
    <3>2. ~Queued(i)'
      BY <1>1 DEF Queued, ToSet
    <3> QED
      BY <2>1, <2>3, <3>1, <3>2, <1>1 DEF Tracked
  <2>8. Live' = {} /\ Final' = Final /\ \A f : Unsuccessful(f)' = Unsuccessful(f)
    BY <1>1, <2>1 DEF Live, Final, Unsuccessful
  <2>9. Channelled' /\ Lined'
    <3>1. DOMAIN channel' = {} /\ Final' = {}
      BY <1>1, <1>2 DEF Final
    <3> QED
      BY <1>1, <3>1 DEF SchedulerInv, Channelled, Lined
  <2>10. Counted' /\ Budgeted' /\ Reasoned'
    BY <1>1, <1>2, <2>8 DEF SchedulerInv, Counted, Budgeted, Reasoned, Missed
  <2> QED
    BY <2>4, <2>5, <2>6, <2>7, <2>9, <2>10 DEF SchedulerInv
<1> QED
  BY <1>3, <1>4, InvFacts DEF Phases

-----------------------------------------------------------------------------
(* Draining one event.                                                      *)

LEMMA ShiftedCardinality ==
  ASSUME NEW n \in Nat, NEW T, IsFiniteSet(T), T \subseteq 2 .. n + 1
  PROVE  LET U == {k \in 1 .. n : k + 1 \in T}
         IN  IsFiniteSet(U) /\ Cardinality(U) = Cardinality(T)
<1> DEFINE U == {k \in 1 .. n : k + 1 \in T}
           g == [x \in T |-> x - 1]
<1>1. g \in [T -> U]
  OBVIOUS
<1>2. \A x, y \in T : g[x] = g[y] => x = y
  OBVIOUS
<1>3. \A u \in U : \E x \in T : g[x] = u
  <2>1. \A u \in U : u + 1 \in T /\ g[u + 1] = u
    OBVIOUS
  <2> QED
    BY <2>1
<1> HIDE DEF g
<1>4. g \in Bijection(T, U)
  BY <1>1, <1>2, <1>3 DEF Bijection, Injection, Surjection, IsInjective
<1>5. ExistsBijection(T, U)
  BY <1>4 DEF ExistsBijection
<1> QED
  BY <1>5, FS_Bijection

LEMMA DrainFacts ==
  ASSUME SchedulerInv, channel # <<>>, channel' = Tail(channel), UNCHANGED <<plan, phase, thread>>,
         NEW e, e = channel[1]
  PROVE  /\ e \in Events /\ e.id \in 1 .. Count(phase) /\ e.id \in 1 .. next[phase]
         /\ thread[e.id] \in {"running", "ended"} /\ ~Queued(e.id)
         /\ e.kind # "Started" => thread[e.id] = "ended"
         /\ rec[phase][e.id] \in Record /\ Open(rec[phase][e.id])
         /\ channel' \in Seq(Events) /\ DOMAIN channel' = 1 .. Len(channel) - 1
         /\ \A k \in 1 .. Len(channel) - 1 : channel'[k] = channel[k + 1]
         /\ Live' = Live /\ IsFiniteSet(Final')
         /\ Cardinality(Final') = IF e.kind = "Started" THEN Cardinality(Final)
                                  ELSE Cardinality(Final) - 1
         /\ \A i : Reported(i)' <=> Reported(i) /\ (e.kind = "Started" \/ i # e.id)
         /\ Channelled'
<1> DEFINE n == Len(channel) - 1
<1>1. /\ channel \in Seq(Events) /\ DOMAIN channel = 1 .. n + 1 /\ n \in Nat
      /\ channel' \in Seq(Events) /\ DOMAIN channel' = 1 .. n
      /\ \A k \in 1 .. n : channel'[k] = channel[k + 1]
  <2>1. channel \in Seq(Events)
    BY InvFacts
  <2>2. /\ Tail(channel) \in Seq(Events) /\ Len(channel) \in Nat /\ Len(channel) > 0
        /\ Len(Tail(channel)) = Len(channel) - 1
        /\ \A k \in 1 .. Len(channel) - 1 : Tail(channel)[k] = channel[k + 1]
    BY <2>1, Rest
  <2> QED
    BY <2>1, <2>2
<1> HIDE DEF n
<1>2. 1 \in DOMAIN channel /\ e \in Events
  BY <1>1
<1>3. /\ e.id \in DOMAIN thread
      /\ e.kind # "Started" => thread[e.id] = "ended"
      /\ e.kind = "Started" => \/ thread[e.id] = "running"
                               \/ \E m \in Final : m > 1 /\ channel[m].id = e.id
  BY <1>2 DEF SchedulerInv, Typed, Channelled
<1>4. Final \subseteq 1 .. n + 1 /\ \A k \in 1 .. n + 1 : k \in Final <=> channel[k].kind # "Started"
  BY <1>1 DEF Final
<1>5. e.id \in 1 .. Count(phase) /\ Tracked(e.id) /\ thread[e.id] \in Threads
  BY <1>3, InvFacts DEF SchedulerInv
<1>6. thread[e.id] \in {"running", "ended"}
  BY <1>3, <1>4 DEF SchedulerInv, Channelled, Final
<1>7. thread[e.id] = "ended" => Reported(e.id)
  BY <1>2, <1>3, <1>4, <1>1 DEF Reported
<1>8. Open(rec[phase][e.id]) /\ ~Queued(e.id) /\ ~(e.id > next[phase])
  BY <1>5, <1>6, <1>7 DEF Tracked, Open
<1>9. e.id \in 1 .. next[phase] /\ rec[phase][e.id] \in Record
  <2>1. e.id \in Nat /\ e.id >= 1 /\ next[phase] \in Nat
    BY <1>5, InvFacts
  <2>2. e.id \in 1 .. next[phase]
    BY <1>8, <2>1
  <2> QED
    BY <2>2, InvFacts
<1>10. Final' = {k \in 1 .. n : k + 1 \in Final}
  <2>1. Final' = {k \in 1 .. n : channel'[k].kind # "Started"}
    BY <1>1 DEF Final
  <2>2. \A k \in 1 .. n : k + 1 \in 1 .. n + 1
    BY <1>1
  <2> QED
    BY <1>1, <1>4, <2>1, <2>2
<1>11. /\ IsFiniteSet(Final')
       /\ Cardinality(Final') = IF e.kind = "Started" THEN Cardinality(Final)
                                ELSE Cardinality(Final) - 1
  <2> DEFINE T == Final \ {1}
  <2>1. /\ IsFiniteSet(T)
        /\ Cardinality(T) = IF 1 \in Final THEN Cardinality(Final) - 1 ELSE Cardinality(Final)
    BY FS_RemoveElement DEF SchedulerInv, Counted
  <2>2. T \subseteq 2 .. n + 1
    BY <1>1, <1>4
  <2>3. Final' = {k \in 1 .. n : k + 1 \in T}
    BY <1>1, <1>10
  <2>4. 1 \in Final <=> e.kind # "Started"
    BY <1>1, <1>4
  <2> HIDE DEF T
  <2> QED
    BY <1>1, <2>1, <2>2, <2>3, <2>4, ShiftedCardinality
<1>12. ASSUME NEW i PROVE Reported(i)' <=> Reported(i) /\ (e.kind = "Started" \/ i # e.id)
  <2>1. ASSUME Reported(i)' PROVE Reported(i) /\ (e.kind = "Started" \/ i # e.id)
    <3>1. PICK k \in Final' : channel'[k].id = i
      BY <2>1 DEF Reported
    <3>2. k \in 1 .. n /\ k + 1 \in Final /\ channel[k + 1].id = i /\ k + 1 # 1
      BY <1>1, <1>10, <3>1
    <3>3. e.kind # "Started" => i # e.id
      <4>1. e.kind # "Started" => 1 \in Final
        BY <1>1, <1>4
      <4> QED
        BY <3>2, <4>1 DEF SchedulerInv, Channelled
    <3> QED
      BY <3>2, <3>3 DEF Reported
  <2>2. ASSUME Reported(i), e.kind = "Started" \/ i # e.id PROVE Reported(i)'
    <3>1. PICK k \in Final : channel[k].id = i
      BY <2>2 DEF Reported
    <3>2. k # 1
      BY <1>4, <2>2, <3>1
    <3>3. k - 1 \in 1 .. n /\ (k - 1) + 1 = k
      BY <1>1, <1>4, <3>2
    <3>4. k - 1 \in Final' /\ channel'[k - 1].id = i
      BY <1>1, <1>10, <3>1, <3>3
    <3> QED
      BY <3>4 DEF Reported
  <2> QED
    BY <2>1, <2>2
<1>13. Channelled'
  <2>1. ASSUME NEW k \in 1 .. n
        PROVE  IF channel'[k].kind = "Started"
                 THEN \/ thread'[channel'[k].id] = "running"
                      \/ \E m \in Final' : m > k /\ channel'[m].id = channel'[k].id
                 ELSE thread'[channel'[k].id] = "ended"
    <3>1. k + 1 \in DOMAIN channel /\ channel'[k] = channel[k + 1]
      BY <1>1
    <3>2. CASE channel[k + 1].kind # "Started"
      BY <3>1, <3>2 DEF SchedulerInv, Channelled
    <3>3. CASE channel[k + 1].kind = "Started" /\ thread[channel[k + 1].id] = "running"
      BY <3>1, <3>3
    <3>4. CASE /\ channel[k + 1].kind = "Started"
               /\ \E m \in Final : m > k + 1 /\ channel[m].id = channel[k + 1].id
      <4>1. PICK m \in Final : m > k + 1 /\ channel[m].id = channel[k + 1].id
        BY <3>4
      <4>2. m - 1 \in 1 .. n /\ (m - 1) + 1 = m /\ m - 1 > k
        BY <1>1, <1>4, <4>1
      <4>3. m - 1 \in Final' /\ channel'[m - 1].id = channel'[k].id
        BY <1>1, <1>10, <3>1, <4>1, <4>2
      <4> QED
        BY <3>1, <3>4, <4>2, <4>3
    <3> QED
      BY <3>1, <3>2, <3>3, <3>4 DEF SchedulerInv, Channelled
  <2>2. ASSUME NEW k \in Final', NEW m \in Final', channel'[k].id = channel'[m].id
        PROVE  k = m
    <3>1. /\ k \in 1 .. n /\ m \in 1 .. n /\ k + 1 \in Final /\ m + 1 \in Final
          /\ channel[k + 1].id = channel[m + 1].id
      BY <1>1, <1>10, <2>2
    <3>2. k + 1 = m + 1
      BY <3>1 DEF SchedulerInv, Channelled
    <3> QED
      BY <1>1, <3>1, <3>2
  <2> QED
    BY <1>1, <2>1, <2>2 DEF Channelled
<1>14. Live' = Live
  BY DEF Live
<1> QED
  BY <1>1, <1>2, <1>3, <1>5, <1>6, <1>8, <1>9, <1>11, <1>12, <1>13, <1>14 DEF n

(* One record of this phase is replaced. *)
LEMMA WriteFacts ==
  ASSUME SchedulerInv, NEW i \in 1 .. next[phase], NEW x \in Record,
         rec' = [rec EXCEPT ![phase] = [rec[phase] EXCEPT ![i] = x]]
  PROVE  /\ rec' \in [Phases -> Seq(Record)] /\ Len(rec'[phase]) = next[phase]
         /\ rec'[phase][i] = x
         /\ \A j \in 1 .. next[phase] : j # i => rec'[phase][j] = rec[phase][j]
         /\ \A f \in Phases : f # phase => rec'[f] = rec[f]
<1>1. /\ phase \in Phases /\ rec \in [Phases -> Seq(Record)] /\ rec[phase] \in Seq(Record)
      /\ Len(rec[phase]) = next[phase]
  BY InvFacts
<1> DEFINE q == [rec[phase] EXCEPT ![i] = x]
<1>2. /\ q \in Seq(Record) /\ Len(q) = next[phase] /\ q[i] = x
      /\ \A j \in 1 .. next[phase] : j # i => q[j] = rec[phase][j]
  BY <1>1, Replaced
<1> HIDE DEF q
<1>3. rec' = [rec EXCEPT ![phase] = q]
  BY DEF q
<1> QED
  BY <1>1, <1>2, <1>3

(* The failures of a phase after one of its open records was closed. *)
LEMMA FailureCounted ==
  ASSUME SchedulerInv, NEW i \in 1 .. next[phase], NEW x \in Record,
         rec[phase][i].outcome = None, UNCHANGED <<phase, next>>,
         rec' = [rec EXCEPT ![phase] = [rec[phase] EXCEPT ![i] = x]]
  PROVE  /\ \A f \in Phases : IsFiniteSet(Unsuccessful(f)')
         /\ Cardinality(Unsuccessful("warmup")') + Cardinality(Unsuccessful("measured")')
              = failures + (IF x.outcome \in {None, "Completed"} THEN 0 ELSE 1)
<1>1. /\ Len(rec'[phase]) = next[phase] /\ rec'[phase][i] = x
      /\ \A j \in 1 .. next[phase] : j # i => rec'[phase][j] = rec[phase][j]
      /\ \A f \in Phases : f # phase => rec'[f] = rec[f]
      /\ rec' \in [Phases -> Seq(Record)]
  BY WriteFacts
<1>2. phase \in Phases /\ DOMAIN rec[phase] = 1 .. next[phase] /\ next[phase] \in Nat
  BY InvFacts
<1>3. DOMAIN rec'[phase] = 1 .. next[phase]
  BY <1>1, <1>2
<1>4. \A f \in Phases : f # phase => Unsuccessful(f)' = Unsuccessful(f)
  BY <1>1 DEF Unsuccessful
<1>5. i \notin Unsuccessful(phase)
  BY DEF Unsuccessful
<1>6. Unsuccessful(phase)' = IF x.outcome \in {None, "Completed"} THEN Unsuccessful(phase)
                             ELSE Unsuccessful(phase) \cup {i}
  BY <1>1, <1>2, <1>3 DEF Unsuccessful
<1>7. /\ \A f \in Phases : IsFiniteSet(Unsuccessful(f)) /\ Cardinality(Unsuccessful(f)) \in Nat
      /\ failures = Cardinality(Unsuccessful("warmup")) + Cardinality(Unsuccessful("measured"))
  BY FS_CardinalityType DEF SchedulerInv, Budgeted
<1>8. /\ IsFiniteSet(Unsuccessful(phase)')
      /\ Cardinality(Unsuccessful(phase)') = Cardinality(Unsuccessful(phase))
           + (IF x.outcome \in {None, "Completed"} THEN 0 ELSE 1)
  <2> DEFINE U == Unsuccessful(phase)
  <2>1. IsFiniteSet(U) /\ Cardinality(U) \in Nat /\ i \notin U
    BY <1>2, <1>5, <1>7
  <2> HIDE DEF U
  <2>2. IsFiniteSet(U \cup {i}) /\ Cardinality(U \cup {i}) = Cardinality(U) + 1
    BY <2>1, FS_AddElement
  <2>3. CASE x.outcome \in {None, "Completed"}
    BY <1>6, <2>1, <2>3 DEF U
  <2>4. CASE x.outcome \notin {None, "Completed"}
    BY <1>6, <2>2, <2>4 DEF U
  <2> QED
    BY <2>3, <2>4
<1> QED
  BY <1>2, <1>4, <1>7, <1>8 DEF Phases

(* The first event closes the record it is about, or notes its start. *)
LEMMA DrainStep ==
  ASSUME SchedulerInv, pc = "drain", channel # <<>>, channel' = Tail(channel),
         NEW e, e = channel[1],
         UNCHANGED <<plan, pc, phase, started, now, next, queue, thread, clock, failed>>,
         NEW x \in Record, x.miss = None,
         rec' = [rec EXCEPT ![phase] = [rec[phase] EXCEPT ![e.id] = x]],
         e.kind = "Started" <=> x.outcome = None,
         active' = active - (IF e.kind = "Started" THEN 0 ELSE 1),
         failures' = failures + (IF x.outcome \in {None, "Completed"} THEN 0 ELSE 1),
         stop' \in StopReason, admission' \in (StopReason \ {"Completed"}) \cup {None},
         admission # None => admission' = admission,
         stop = "Contaminated" => stop' = "Contaminated",
         admission' = None <=> stop' = "Completed",
         x.outcome = "InfrastructureFailure" \/ e.kind = "ClockFault" => stop' = "Contaminated",
         plan.max_failures # 0 /\ admission' = None /\ failures' # failures =>
           failures' <= plan.max_failures - 1
  PROVE  SchedulerInv'
<1>1. /\ e \in Events /\ e.id \in 1 .. Count(phase) /\ e.id \in 1 .. next[phase]
      /\ thread[e.id] \in {"running", "ended"} /\ ~Queued(e.id)
      /\ e.kind # "Started" => thread[e.id] = "ended"
      /\ rec[phase][e.id] \in Record /\ Open(rec[phase][e.id])
  BY DrainFacts
<1>2. /\ channel' \in Seq(Events) /\ DOMAIN channel' = 1 .. Len(channel) - 1
      /\ \A k \in 1 .. Len(channel) - 1 : channel'[k] = channel[k + 1]
      /\ Live' = Live /\ IsFiniteSet(Final')
      /\ Cardinality(Final') = IF e.kind = "Started" THEN Cardinality(Final)
                               ELSE Cardinality(Final) - 1
      /\ Channelled'
  BY DrainFacts
<1>3. \A i : Reported(i)' <=> Reported(i) /\ (e.kind = "Started" \/ i # e.id)
  BY DrainFacts
<1>4. /\ rec' \in [Phases -> Seq(Record)] /\ Len(rec'[phase]) = next[phase]
      /\ rec'[phase][e.id] = x
      /\ \A j \in 1 .. next[phase] : j # e.id => rec'[phase][j] = rec[phase][j]
      /\ \A f \in Phases : f # phase => rec'[f] = rec[f]
  BY <1>1, WriteFacts
<1>5. /\ Time' = Time /\ Record' = Record /\ Events' = Events
      /\ \A f \in Phases : Count(f)' = Count(f)
  BY PlanKept
<1>6. /\ phase \in Phases /\ Count(phase) \in Nat /\ next[phase] \in Nat /\ active \in Nat
      /\ failures \in Nat /\ next[phase] <= Count(phase)
  BY InvFacts
<1>7. Cardinality(Final) \in Nat /\ Cardinality(Final') \in Nat /\ Cardinality(Live) \in Nat
      /\ active = Cardinality(Live) + Cardinality(Final) /\ active <= plan.in_flight
      /\ IsFiniteSet(Live) /\ plan.in_flight \in Nat /\ plan.max_failures \in Nat
      /\ Len(queue) <= plan.queue
  BY <1>2, FS_CardinalityType, InvFacts, PlanFacts DEF SchedulerInv, Counted
<1>8. active' = Cardinality(Live') + Cardinality(Final') /\ active' \in Nat /\ active' <= active
  BY <1>2, <1>6, <1>7
<1>9. Counted'
  <2>1. IsFiniteSet(Live') /\ IsFiniteSet(Final') /\ Len(queue') <= plan'.queue
    BY <1>2, <1>7
  <2>2. active' <= plan'.in_flight
    BY <1>6, <1>7, <1>8
  <2> QED
    BY <1>8, <2>1, <2>2 DEF Counted
<1>10. Typed'
  <2>1. thread' \in [1 .. Count(phase)' -> Threads] /\ queue' \in Seq(1 .. Count(phase)')
    BY <1>5, <1>6, InvFacts
  <2>2. \A f \in Phases : Len(rec'[f]) = next'[f] /\ next'[f] <= Count(f)'
    BY <1>4, <1>5, InvFacts
  <2>3. ASSUME NEW k \in DOMAIN channel'
        PROVE  /\ channel'[k].id \in DOMAIN thread'
               /\ channel'[k].kind # "ClockFault" => channel'[k].at \in Time'
               /\ channel'[k].kind = "Finished" => channel'[k].outcome \in Outcome
               /\ channel'[k] \in Events
    <3>1. Len(channel) \in Nat /\ DOMAIN channel = 1 .. Len(channel) /\ channel \in Seq(Events)
      BY InvFacts
    <3>2. k + 1 \in DOMAIN channel /\ channel'[k] = channel[k + 1]
      BY <1>2, <3>1
    <3> QED
      BY <1>5, <3>1, <3>2 DEF SchedulerInv, Typed
  <2>4. \A c \in ToSet(channel') : c.kind \in {"Started", "Finished", "ClockFault"}
                                  /\ c.id \in 1 .. Count(phase)'
    BY <2>1, <2>3 DEF ToSet, Events
  <2>5. failures' \in Nat
    BY <1>6
  <2>6. TypeOK'
    BY <1>4, <1>5, <1>6, <1>8, <2>1, <2>2, <2>4, <2>5 DEF SchedulerInv, Typed, TypeOK, Threads
  <2> QED
    BY <1>2, <1>5, <2>1, <2>3, <2>6 DEF Typed
<1>11. Phased'
  BY <1>5, <1>6 DEF SchedulerInv, Phased, Phases
<1>12. Past'
  BY <1>4 DEF SchedulerInv, Past, Closed, Attempted, Missed
<1>13. ASSUME NEW i \in 1 .. Count(phase) PROVE Tracked(i)'
  <2>1. Tracked(i) /\ (Queued(i)' <=> Queued(i))
    BY DEF SchedulerInv, Queued
  <2>2. CASE i # e.id
    <3>1. i <= next[phase] => rec'[phase][i] = rec[phase][i]
      BY <1>4, <1>6, <2>2
    <3>2. Reported(i)' <=> Reported(i)
      BY <1>3, <2>2
    <3>3. i > next[phase] => thread[i] = "none" /\ ~Queued(i)
      BY <2>1 DEF Tracked
    <3>4. i > next[phase] \/ i <= next[phase]
      BY <1>6
    <3> QED
      BY <2>1, <3>1, <3>2, <3>3, <3>4 DEF Tracked, Open, Closed, Attempted, Missed
  <2>3. CASE i = e.id
    <3>1. e.kind = "Started" => (Reported(i)' <=> Reported(i))
      BY <1>3
    <3>2. e.kind # "Started" => ~Reported(i)' /\ thread[i] = "ended"
      BY <1>1, <1>3, <2>3
    <3>3. i <= next[phase] /\ ~(i > next[phase])
      BY <1>1, <1>6, <2>3
    <3> QED
      BY <1>1, <1>4, <2>1, <2>3, <3>1, <3>2, <3>3 DEF Tracked, Open, Closed, Attempted, Missed
  <2> QED
    BY <2>2, <2>3
<1>14. Lined'
  BY DEF SchedulerInv, Lined
<1>15. Reasoned'
  <2>1. ASSUME NEW f \in Phases, NEW i \in 1 .. next[f]
        PROVE  /\ Missed(rec'[f][i]) => rec'[f][i].miss \in {"Backpressure", admission'}
               /\ rec'[f][i].outcome = "InfrastructureFailure" => stop' = "Contaminated"
    <3>1. CASE f = phase /\ i = e.id
      BY <1>4, <3>1 DEF Missed
    <3>2. CASE ~(f = phase /\ i = e.id)
      <4>1. rec'[f][i] = rec[f][i]
        BY <1>4, <3>2
      <4>2. /\ Missed(rec[f][i]) => rec[f][i].miss \in {"Backpressure", admission}
            /\ rec[f][i].outcome = "InfrastructureFailure" => stop = "Contaminated"
        BY DEF SchedulerInv, Reasoned
      <4> QED
        BY <4>1, <4>2 DEF Missed
    <3> QED
      BY <3>1, <3>2
  <2>2. ASSUME failed, stop' # "Contaminated"
        PROVE  \E k \in DOMAIN channel' : channel'[k].kind = "ClockFault"
    <3>1. PICK k \in DOMAIN channel : channel[k].kind = "ClockFault"
      BY <2>2 DEF SchedulerInv, Reasoned
    <3>2. k # 1
      BY <2>2, <3>1
    <3>3. Len(channel) \in Nat /\ DOMAIN channel = 1 .. Len(channel)
      BY InvFacts
    <3>4. k - 1 \in 1 .. Len(channel) - 1 /\ (k - 1) + 1 = k
      BY <3>1, <3>2, <3>3
    <3>5. channel'[k - 1] = channel[k]
      BY <1>2, <3>4
    <3> QED
      BY <1>2, <3>1, <3>4, <3>5
  <2> QED
    BY <2>1, <2>2 DEF Reasoned
<1>16. Budgeted'
  <2>1. rec[phase][e.id].outcome = None
    BY <1>1 DEF Open, Attempted
  <2>2. /\ \A f \in Phases : IsFiniteSet(Unsuccessful(f)')
        /\ Cardinality(Unsuccessful("warmup")') + Cardinality(Unsuccessful("measured")')
             = failures'
    BY <1>1, <2>1, FailureCounted
  <2>3. plan.max_failures # 0 =>
          /\ failures + active <= plan.max_failures - 1 + plan.in_flight
          /\ admission = None => failures <= plan.max_failures - 1
    BY DEF SchedulerInv, Budgeted
  <2>4. failures' + active' <= failures + active
    <3>1. CASE e.kind = "Started"
      BY <1>6, <3>1
    <3>2. CASE e.kind # "Started"
      <4>1. active' = active - 1 /\ failures' <= failures + 1 /\ failures' \in Nat
        BY <1>6, <3>2
      <4> QED
        BY <1>6, <4>1
    <3> QED
      BY <3>1, <3>2
  <2>5. failures' + active' \in Nat /\ failures + active \in Nat
    BY <1>6, <1>8
  <2>6. plan.max_failures # 0 =>
          /\ failures' + active' <= plan.max_failures - 1 + plan.in_flight
          /\ admission' = None => failures' <= plan.max_failures - 1
    <3>1. plan.max_failures # 0 =>
            failures' + active' <= plan.max_failures - 1 + plan.in_flight
      <4>1. plan.max_failures - 1 + plan.in_flight \in Int
        BY <1>7
      <4> QED
        BY <2>3, <2>4, <2>5, <4>1
    <3>2. admission' = None => admission = None
      OBVIOUS
    <3>3. plan.max_failures # 0 /\ admission' = None => failures' <= plan.max_failures - 1
      BY <2>3, <3>2
    <3> QED
      BY <3>1, <3>3
  <2> QED
    BY <2>2, <2>6 DEF Budgeted
<1> QED
  BY <1>2, <1>5, <1>6, <1>9, <1>10, <1>11, <1>12, <1>13, <1>14, <1>15, <1>16 DEF SchedulerInv

LEMMA DrainStartedStep ==
  ASSUME SchedulerInv, DrainStarted
  PROVE  SchedulerInv'
<1>1. PICK e : e = channel[1] /\ Head(channel) = e
  <2>1. channel \in Seq(Events) /\ channel # <<>>
    BY InvFacts DEF DrainStarted
  <2> QED
    BY <2>1, Rest
<1>2. /\ pc = "drain" /\ channel # <<>> /\ e.kind = "Started" /\ channel' = Tail(channel)
      /\ rec' = [rec EXCEPT ![phase][e.id].started = e.at]
      /\ UNCHANGED <<plan, pc, phase, started, now, next, queue, active, failures, stop, admission,
                      thread, clock, failed>>
  BY <1>1 DEF DrainStarted
<1>3. /\ e.id \in 1 .. next[phase] /\ rec[phase][e.id] \in Record /\ Open(rec[phase][e.id])
  BY <1>1, <1>2, DrainFacts
<1>4. e.at \in Time
  <2>1. 1 \in DOMAIN channel
    BY <1>2, InvFacts
  <2> QED
    BY <1>1, <1>2, <2>1 DEF SchedulerInv, Typed
<1> DEFINE x == [rec[phase][e.id] EXCEPT !.started = e.at]
<1>5. x \in Record /\ x.miss = None /\ x.outcome = None
  BY <1>3, <1>4 DEF Record, Open, Attempted, Missed
<1>6. rec' = [rec EXCEPT ![phase] = [rec[phase] EXCEPT ![e.id] = x]]
  BY <1>2
<1> HIDE DEF x
<1>7. x.outcome # "InfrastructureFailure"
  BY <1>5, NoneFacts DEF Outcome
<1>8. /\ stop \in StopReason /\ admission \in (StopReason \ {"Completed"}) \cup {None}
      /\ active \in Nat /\ failures \in Nat /\ (admission = None <=> stop = "Completed")
  BY <1>2, StateTypes, InvFacts DEF SchedulerInv, Phased
<1>9. active' = active - 0 /\ failures' = failures + 0
  BY <1>2, <1>8
<1>10. /\ active' = active - (IF e.kind = "Started" THEN 0 ELSE 1)
       /\ failures' = failures + (IF x.outcome \in {None, "Completed"} THEN 0 ELSE 1)
       /\ failures' = failures /\ e.kind # "ClockFault"
  BY <1>2, <1>5, <1>9
<1>11. stop' = stop /\ admission' = admission
  BY <1>2
<1>12. /\ UNCHANGED <<plan, pc, phase, started, now, next, queue, thread, clock, failed>>
       /\ pc = "drain" /\ channel # <<>> /\ channel' = Tail(channel) /\ e = channel[1]
  BY <1>1, <1>2
<1>13. e.kind = "Started" <=> x.outcome = None
  BY <1>2, <1>5
<1>14. /\ stop' \in StopReason /\ admission' \in (StopReason \ {"Completed"}) \cup {None}
       /\ admission # None => admission' = admission
       /\ stop = "Contaminated" => stop' = "Contaminated"
       /\ admission' = None <=> stop' = "Completed"
  BY <1>8, <1>11
<1>15. x.outcome = "InfrastructureFailure" \/ e.kind = "ClockFault" => stop' = "Contaminated"
  BY <1>7, <1>10
<1>16. plan.max_failures # 0 /\ admission' = None /\ failures' # failures =>
         failures' <= plan.max_failures - 1
  BY <1>10
<1>17. active' = active - (IF e.kind = "Started" THEN 0 ELSE 1)
  BY <1>10
<1>18. failures' = failures + (IF x.outcome \in {None, "Completed"} THEN 0 ELSE 1)
  BY <1>10
<1>19. x \in Record /\ x.miss = None
  BY <1>5
<1> QED
  BY <1>6, <1>12, <1>13, <1>14, <1>15, <1>16, <1>17, <1>18, <1>19, DrainStep

LEMMA ObserveFacts ==
  ASSUME SchedulerInv, pc = "drain", NEW outcome \in Outcome, NEW count \in Nat,
         stop' = Observe(outcome, count),
         admission' = IF admission = None /\ stop' # "Completed" THEN stop' ELSE admission
  PROVE  /\ stop' \in StopReason /\ admission' \in (StopReason \ {"Completed"}) \cup {None}
         /\ admission # None => admission' = admission
         /\ stop = "Contaminated" => stop' = "Contaminated"
         /\ admission' = None <=> stop' = "Completed"
         /\ outcome = "InfrastructureFailure" => stop' = "Contaminated"
         /\ plan.max_failures # 0 /\ admission' = None => count <= plan.max_failures - 1
<1>1. /\ stop \in StopReason /\ admission \in (StopReason \ {"Completed"}) \cup {None}
      /\ (admission = None <=> stop = "Completed") /\ plan.max_failures \in Nat
  BY StateTypes, InvFacts, PlanFacts DEF SchedulerInv, Phased
<1>2. stop' \in StopReason /\ (stop # "Completed" => stop' # "Completed")
  BY <1>1 DEF Observe, StopReason
<1>3. stop' = "Completed" /\ plan.max_failures # 0 => count <= plan.max_failures - 1
  BY <1>1 DEF Observe
<1>4. /\ stop = "Contaminated" => stop' = "Contaminated"
      /\ outcome = "InfrastructureFailure" => stop' = "Contaminated"
  BY DEF Observe
<1>5. admission' = None <=> stop' = "Completed"
  BY <1>1, <1>2, NoneFacts
<1> QED
  BY <1>1, <1>2, <1>3, <1>4, <1>5

LEMMA DrainFinishedStep ==
  ASSUME SchedulerInv, DrainFinished
  PROVE  SchedulerInv'
<1>1. PICK e : e = channel[1] /\ Head(channel) = e
  <2>1. channel \in Seq(Events) /\ channel # <<>>
    BY InvFacts DEF DrainFinished
  <2> QED
    BY <2>1, Rest
<1>2. PICK count : count = failures + (IF e.outcome = "Completed" THEN 0 ELSE 1)
  OBVIOUS
<1>3. /\ pc = "drain" /\ channel # <<>> /\ e.kind = "Finished" /\ channel' = Tail(channel)
      /\ rec' = [rec EXCEPT ![phase][e.id].finished = e.at, ![phase][e.id].outcome = e.outcome]
      /\ active' = active - 1 /\ failures' = count /\ stop' = Observe(e.outcome, count)
      /\ admission' = IF admission = None /\ stop' # "Completed" THEN stop' ELSE admission
      /\ UNCHANGED <<plan, pc, phase, started, now, next, queue, thread, clock, failed>>
  BY <1>1, <1>2 DEF DrainFinished
<1>4. /\ e.id \in 1 .. next[phase] /\ rec[phase][e.id] \in Record /\ Open(rec[phase][e.id])
  BY <1>1, <1>3, DrainFacts
<1>5. e.at \in Time /\ e.outcome \in Outcome
  <2>1. 1 \in DOMAIN channel
    BY <1>3, InvFacts
  <2> QED
    BY <1>1, <1>3, <2>1 DEF SchedulerInv, Typed
<1> DEFINE x == [rec[phase][e.id] EXCEPT !.finished = e.at, !.outcome = e.outcome]
<1>6. x \in Record /\ x.miss = None /\ x.outcome = e.outcome
  BY <1>4, <1>5 DEF Record, Open, Missed
<1>7. rec' = [rec EXCEPT ![phase] = [rec[phase] EXCEPT ![e.id] = x]]
  <2>1. phase \in Phases /\ rec \in [Phases -> Seq(Record)] /\ e.id \in DOMAIN rec[phase]
    BY <1>4, InvFacts
  <2> QED
    BY <1>3, <1>4, <2>1 DEF Record
<1> HIDE DEF x
<1>8. active \in Nat /\ failures \in Nat /\ count \in Nat
  BY <1>2, InvFacts
<1>9. /\ stop' \in StopReason /\ admission' \in (StopReason \ {"Completed"}) \cup {None}
      /\ admission # None => admission' = admission
      /\ stop = "Contaminated" => stop' = "Contaminated"
      /\ admission' = None <=> stop' = "Completed"
      /\ e.outcome = "InfrastructureFailure" => stop' = "Contaminated"
      /\ plan.max_failures # 0 /\ admission' = None => count <= plan.max_failures - 1
  BY <1>3, <1>5, <1>8, ObserveFacts
<1>10. failures' = failures + (IF x.outcome \in {None, "Completed"} THEN 0 ELSE 1)
  BY <1>2, <1>3, <1>5, <1>6, NoneFacts
<1>11. x.outcome # None
  BY <1>5, <1>6, NoneFacts
<1>12. active' = active - (IF e.kind = "Started" THEN 0 ELSE 1)
  BY <1>3
<1> QED
  BY <1>1, <1>3, <1>6, <1>7, <1>9, <1>10, <1>11, <1>12, DrainStep

LEMMA DrainClockFaultStep ==
  ASSUME SchedulerInv, DrainClockFault
  PROVE  SchedulerInv'
<1>1. PICK e : e = channel[1] /\ Head(channel) = e
  <2>1. channel \in Seq(Events) /\ channel # <<>>
    BY InvFacts DEF DrainClockFault
  <2> QED
    BY <2>1, Rest
<1>2. /\ pc = "drain" /\ channel # <<>> /\ e.kind = "ClockFault" /\ channel' = Tail(channel)
      /\ rec' = [rec EXCEPT ![phase][e.id].outcome = "InfrastructureFailure"]
      /\ active' = active - 1 /\ failures' = failures + 1 /\ Halt("Contaminated")
      /\ UNCHANGED <<plan, pc, phase, started, now, next, queue, thread, clock, failed>>
  BY <1>1 DEF DrainClockFault
<1>3. /\ e.id \in 1 .. next[phase] /\ rec[phase][e.id] \in Record /\ Open(rec[phase][e.id])
  BY <1>1, <1>2, DrainFacts
<1> DEFINE x == [rec[phase][e.id] EXCEPT !.outcome = "InfrastructureFailure"]
<1>4. x \in Record /\ x.miss = None /\ x.outcome = "InfrastructureFailure"
  BY <1>3 DEF Record, Open, Missed, Outcome
<1>5. rec' = [rec EXCEPT ![phase] = [rec[phase] EXCEPT ![e.id] = x]]
  BY <1>2
<1> HIDE DEF x
<1>6. /\ stop' = "Contaminated" /\ stop' \in StopReason
      /\ admission' \in StopReason \ {"Completed"} /\ admission' # None
      /\ admission # None => admission' = admission
  BY <1>2, HaltFacts DEF StopReason
<1>7. x.outcome \notin {None, "Completed"}
  BY <1>4, NoneFacts DEF Outcome
<1> QED
  BY <1>1, <1>2, <1>4, <1>5, <1>6, <1>7, DrainStep

-----------------------------------------------------------------------------
(* A worker sends an event.                                                 *)

LEMMA SendStep ==
  ASSUME SchedulerInv, NEW i \in DOMAIN thread, thread[i] \in {"spawned", "running"},
         NEW ev \in Events, ev.id = i, Send(ev), UNCHANGED <<plan, scheduler>>,
         NEW to \in {"running", "ended"}, thread' = [thread EXCEPT ![i] = to],
         clock' \in Time, failed' \in BOOLEAN,
         ev.kind = "Started" <=> to = "running",
         ev.kind # "ClockFault" => ev.at \in Time,
         ev.kind = "Finished" => ev.outcome \in Outcome,
         failed' => failed \/ ev.kind = "ClockFault"
  PROVE  SchedulerInv'
<1>1. UNCHANGED <<plan, pc, phase, started, now, next, queue, active, failures, stop, admission, rec>>
  BY DEF scheduler
<1>2. /\ Time' = Time /\ Record' = Record /\ Events' = Events
      /\ \A f \in Phases : Count(f)' = Count(f)
  BY PlanKept
<1>3. /\ phase \in Phases /\ Count(phase) \in Nat /\ thread \in [1 .. Count(phase) -> Threads]
      /\ channel \in Seq(Events) /\ i \in 1 .. Count(phase)
  BY InvFacts
<1> DEFINE n == Len(channel)
<1>4. /\ channel' \in Seq(Events) /\ n \in Nat /\ DOMAIN channel = 1 .. n
      /\ DOMAIN channel' = 1 .. n + 1 /\ channel'[n + 1] = ev
      /\ \A k \in 1 .. n : channel'[k] = channel[k]
  <2>1. channel' = Append(channel, ev)
    BY DEF Send
  <2> QED
    BY <1>3, <2>1, Longer
<1> HIDE DEF n
<1>5. /\ thread' \in [1 .. Count(phase) -> Threads] /\ thread'[i] = to
      /\ \A j \in 1 .. Count(phase) : j # i => thread'[j] = thread[j]
  BY <1>3 DEF Threads
<1>6. Final \subseteq 1 .. n /\ \A k \in Final : thread[channel[k].id] = "ended" /\ channel[k].id # i
  BY <1>4 DEF Final, SchedulerInv, Channelled
<1>7. Final' = IF to = "running" THEN Final ELSE Final \cup {n + 1}
  <2>1. Final' = {k \in 1 .. n + 1 : channel'[k].kind # "Started"}
    BY <1>4 DEF Final
  <2>2. Final = {k \in 1 .. n : channel[k].kind # "Started"}
    BY <1>4 DEF Final
  <2>3. 1 .. n + 1 = (1 .. n) \cup {n + 1} /\ n + 1 \notin 1 .. n
    BY <1>4
  <2> QED
    BY <1>4, <2>1, <2>2, <2>3
<1>8. Live' = IF to = "running" THEN Live ELSE Live \ {i}
  <2>1. DOMAIN thread = 1 .. Count(phase) /\ DOMAIN thread' = 1 .. Count(phase)
    BY <1>3, <1>5
  <2> QED
    BY <1>3, <1>5, <2>1 DEF Live
<1>9. i \in Live /\ n + 1 \notin Final /\ IsFiniteSet(Live) /\ IsFiniteSet(Final)
      /\ active = Cardinality(Live) + Cardinality(Final)
      /\ Cardinality(Live) \in Nat /\ Cardinality(Final) \in Nat
  BY <1>4, <1>6, FS_CardinalityType DEF Live, SchedulerInv, Counted
<1>10. /\ IsFiniteSet(Live') /\ IsFiniteSet(Final')
       /\ active' = Cardinality(Live') + Cardinality(Final') /\ active > 0
  <2>1. IsFiniteSet(Live \ {i}) /\ Cardinality(Live \ {i}) = Cardinality(Live) - 1
    BY <1>9, FS_RemoveElement
  <2>2. IsFiniteSet(Final \cup {n + 1}) /\ Cardinality(Final \cup {n + 1}) = Cardinality(Final) + 1
    BY <1>9, FS_AddElement
  <2>3. Cardinality(Live \ {i}) \in Nat
    BY <2>1, FS_CardinalityType
  <2>4. active > 0
    BY <1>9, <2>1, <2>3
  <2>5. CASE to = "running"
    BY <1>1, <1>7, <1>8, <1>9, <2>4, <2>5
  <2>6. CASE to = "ended"
    BY <1>1, <1>7, <1>8, <1>9, <2>1, <2>2, <2>4, <2>6
  <2> QED
    BY <2>5, <2>6
<1>11. Counted'
  BY <1>1, <1>10 DEF SchedulerInv, Counted
<1>12. Phased'
  BY <1>1, <1>2, <1>3, <1>10 DEF SchedulerInv, Phased, Phases
<1>13. Typed'
  <2>1. ASSUME NEW k \in DOMAIN channel'
        PROVE  /\ channel'[k].id \in DOMAIN thread'
               /\ channel'[k].kind # "ClockFault" => channel'[k].at \in Time'
               /\ channel'[k].kind = "Finished" => channel'[k].outcome \in Outcome
               /\ channel'[k] \in Events
    <3>1. DOMAIN thread' = DOMAIN thread
      BY <1>3, <1>5
    <3>2. CASE k = n + 1
      BY <1>2, <1>4, <3>1, <3>2
    <3>3. CASE k # n + 1
      <4>1. k \in DOMAIN channel /\ channel'[k] = channel[k]
        BY <1>4, <3>3
      <4> QED
        BY <1>2, <1>3, <3>1, <4>1 DEF SchedulerInv, Typed
    <3> QED
      BY <3>2, <3>3
  <2>2. \A c \in ToSet(channel') : c.kind \in {"Started", "Finished", "ClockFault"}
                                  /\ c.id \in 1 .. Count(phase)'
    BY <1>1, <1>2, <1>3, <1>5, <2>1 DEF ToSet, Events
  <2>3. queue' \in Seq(1 .. Count(phase)') /\ DOMAIN thread' = 1 .. Count(phase)'
    BY <1>1, <1>2, <1>3, <1>5, InvFacts
  <2>4. \A f \in Phases : Len(rec'[f]) = next'[f] /\ next'[f] <= Count(f)'
    BY <1>1, <1>2, InvFacts
  <2>5. \A j \in DOMAIN thread' : thread'[j] \in {"none", "spawned", "running", "ended"}
    BY <1>5 DEF Threads
  <2>6. TypeOK'
    BY <1>1, <1>2, <1>3, <2>2, <2>3, <2>4, <2>5 DEF SchedulerInv, Typed, TypeOK
  <2>7. thread' \in [1 .. Count(phase)' -> Threads]
    BY <1>1, <1>2, <1>3, <1>5
  <2> QED
    BY <1>2, <1>4, <2>1, <2>6, <2>7 DEF Typed
<1>14. Past' /\ Lined'
  BY <1>1 DEF SchedulerInv, Past, Closed, Attempted, Missed, Lined
<1>15. ASSUME NEW j PROVE Reported(j)' <=> Reported(j) \/ (to = "ended" /\ j = i)
  BY <1>4, <1>6, <1>7 DEF Reported
<1>16. ASSUME NEW j \in 1 .. Count(phase) PROVE Tracked(j)'
  <2>1. Tracked(j) /\ (Queued(j)' <=> Queued(j))
    BY <1>1 DEF SchedulerInv, Queued
  <2>2. CASE j # i
    BY <1>1, <1>5, <1>15, <2>1, <2>2 DEF Tracked, Open, Closed, Attempted, Missed
  <2>3. CASE j = i
    <3>1. Open(rec[phase][i]) /\ ~Queued(i) /\ ~(i > next[phase])
      BY <2>1, <2>3 DEF Tracked
    <3> QED
      BY <1>1, <1>5, <1>15, <2>1, <2>3, <3>1 DEF Tracked, Open, Attempted, Missed
  <2> QED
    BY <2>2, <2>3
<1>17. Channelled'
  <2>1. ASSUME NEW k \in 1 .. n + 1
        PROVE  IF channel'[k].kind = "Started"
                 THEN \/ thread'[channel'[k].id] = "running"
                      \/ \E m \in Final' : m > k /\ channel'[m].id = channel'[k].id
                 ELSE thread'[channel'[k].id] = "ended"
    <3>1. CASE k = n + 1
      BY <1>4, <1>5, <3>1
    <3>2. CASE k # n + 1
      <4>1. k \in DOMAIN channel /\ channel'[k] = channel[k] /\ k \in 1 .. n
        BY <1>4, <3>2
      <4>2. channel[k].id \in 1 .. Count(phase)
        BY <1>3, <4>1 DEF SchedulerInv, Typed
      <4>3. CASE channel[k].kind # "Started"
        <5>1. thread[channel[k].id] = "ended" /\ channel[k].id # i
          BY <4>1, <4>3 DEF SchedulerInv, Channelled
        <5> QED
          BY <1>5, <4>1, <4>2, <4>3, <5>1
      <4>4. CASE channel[k].kind = "Started" /\ \E m \in Final : m > k /\ channel[m].id = channel[k].id
        <5>1. PICK m \in Final : m > k /\ channel[m].id = channel[k].id
          BY <4>4
        <5>2. m \in Final' /\ channel'[m] = channel[m]
          BY <1>4, <1>6, <1>7
        <5> QED
          BY <4>1, <4>4, <5>1, <5>2
      <4>5. CASE channel[k].kind = "Started" /\ thread[channel[k].id] = "running"
        <5>1. CASE channel[k].id # i
          BY <1>5, <4>1, <4>2, <4>5, <5>1
        <5>2. CASE channel[k].id = i
          <6>1. CASE to = "running"
            BY <1>5, <4>1, <4>5, <5>2, <6>1
          <6>2. CASE to = "ended"
            <7>1. n + 1 \in Final' /\ n + 1 > k /\ channel'[n + 1].id = channel'[k].id
              BY <1>4, <1>7, <4>1, <5>2, <6>2
            <7> QED
              BY <4>1, <4>5, <7>1
          <6> QED
            BY <6>1, <6>2
        <5> QED
          BY <5>1, <5>2
      <4> QED
        BY <4>1, <4>3, <4>4, <4>5 DEF SchedulerInv, Channelled
    <3> QED
      BY <3>1, <3>2
  <2>2. ASSUME NEW k \in Final', NEW m \in Final', channel'[k].id = channel'[m].id
        PROVE  k = m
    <3>1. CASE k \in Final /\ m \in Final
      <4>1. channel[k].id = channel[m].id
        BY <1>4, <1>6, <2>2, <3>1
      <4> QED
        BY <3>1, <4>1 DEF SchedulerInv, Channelled
    <3>2. ASSUME NEW p \in Final PROVE channel'[p].id # channel'[n + 1].id
      BY <1>4, <1>6
    <3> QED
      BY <1>7, <2>2, <3>1, <3>2
  <2> QED
    BY <1>4, <2>1, <2>2 DEF Channelled
<1>18. Reasoned'
  <2>1. ASSUME failed', stop # "Contaminated"
        PROVE  \E k \in DOMAIN channel' : channel'[k].kind = "ClockFault"
    <3>1. CASE failed
      <4>1. PICK k \in DOMAIN channel : channel[k].kind = "ClockFault"
        BY <2>1, <3>1 DEF SchedulerInv, Reasoned
      <4> QED
        BY <1>4, <4>1
    <3>2. CASE ~failed
      <4>1. n + 1 \in DOMAIN channel' /\ channel'[n + 1].kind = "ClockFault"
        BY <1>4, <2>1, <3>2
      <4> QED
        BY <4>1
    <3> QED
      BY <3>1, <3>2
  <2> QED
    BY <1>1, <2>1 DEF SchedulerInv, Reasoned, Missed
<1>19. Budgeted'
  <2>1. \A f : Unsuccessful(f)' = Unsuccessful(f)
    BY <1>1 DEF Unsuccessful
  <2> QED
    BY <1>1, <2>1 DEF SchedulerInv, Budgeted
<1> QED
  BY <1>1, <1>2, <1>3, <1>11, <1>12, <1>13, <1>14, <1>16, <1>17, <1>18, <1>19 DEF SchedulerInv

LEMMA WorkerStartStep ==
  ASSUME SchedulerInv, NEW i, WorkerStart(i)
  PROVE  SchedulerInv'
<1>1. i \in DOMAIN thread /\ thread[i] = "spawned" /\ i \in Nat /\ UNCHANGED <<plan, scheduler>>
  BY InvFacts DEF WorkerStart
<1>2. CASE /\ \E t \in Time : SampleOk(t) /\ Send(Event("Started", i, t, None))
           /\ thread' = [thread EXCEPT ![i] = "running"]
  <2>1. PICK t \in Time : SampleOk(t) /\ Send(Event("Started", i, t, None))
    BY <1>2
  <2>2. clock' \in Time /\ failed' \in BOOLEAN /\ failed' = failed
    BY <2>1, StateTypes, SampleTypes
  <2> DEFINE ev == Event("Started", i, t, None)
  <2>3. ev \in Events /\ ev.id = i /\ ev.kind = "Started" /\ ev.at \in Time
    BY <1>1 DEF Event, Events
  <2> HIDE DEF ev
  <2>4. Send(ev)
    BY <2>1 DEF ev
  <2> QED
    BY <1>1, <1>2, <2>2, <2>3, <2>4, SendStep
<1>3. CASE SampleErr /\ Send(Event("ClockFault", i, None, None)) /\ thread' = [thread EXCEPT ![i] = "ended"]
  <2> DEFINE ev == Event("ClockFault", i, None, None)
  <2>1. ev \in Events /\ ev.id = i /\ ev.kind = "ClockFault"
    BY <1>1 DEF Event, Events
  <2> HIDE DEF ev
  <2>2. Send(ev) /\ clock' \in Time /\ failed' \in BOOLEAN
    BY <1>3, StateTypes DEF ev, SampleErr
  <2> QED
    BY <1>1, <1>3, <2>1, <2>2, SendStep
<1> QED
  BY <1>2, <1>3 DEF WorkerStart

LEMMA WorkerEndStep ==
  ASSUME SchedulerInv, NEW i, WorkerEnd(i)
  PROVE  SchedulerInv'
<1>1. /\ i \in DOMAIN thread /\ thread[i] = "running" /\ i \in Nat /\ UNCHANGED <<plan, scheduler>>
      /\ thread' = [thread EXCEPT ![i] = "ended"]
  BY InvFacts DEF WorkerEnd
<1>2. CASE \E t \in Time, o \in Outcome : SampleOk(t) /\ Send(Event("Finished", i, t, o))
  <2>1. PICK t \in Time, o \in Outcome : SampleOk(t) /\ Send(Event("Finished", i, t, o))
    BY <1>2
  <2>2. clock' \in Time /\ failed' \in BOOLEAN /\ failed' = failed
    BY <2>1, StateTypes, SampleTypes
  <2> DEFINE ev == Event("Finished", i, t, o)
  <2>3. ev \in Events /\ ev.id = i /\ ev.kind = "Finished" /\ ev.at \in Time /\ ev.outcome \in Outcome
    BY <1>1 DEF Event, Events
  <2> HIDE DEF ev
  <2>4. Send(ev)
    BY <2>1 DEF ev
  <2> QED
    BY <1>1, <2>2, <2>3, <2>4, SendStep
<1>3. CASE SampleErr /\ Send(Event("ClockFault", i, None, None))
  <2> DEFINE ev == Event("ClockFault", i, None, None)
  <2>1. ev \in Events /\ ev.id = i /\ ev.kind = "ClockFault"
    BY <1>1 DEF Event, Events
  <2> HIDE DEF ev
  <2>2. Send(ev) /\ clock' \in Time /\ failed' \in BOOLEAN
    BY <1>3, StateTypes DEF ev, SampleErr
  <2> QED
    BY <1>1, <2>1, <2>2, SendStep
<1> QED
  BY <1>2, <1>3 DEF WorkerEnd

-----------------------------------------------------------------------------
(* Admission of an attempt: it gets a worker, or none can be spawned, or it *)
(* is queued, or the queue is full.                                         *)

Launched(i, r) ==
  /\ thread' = [thread EXCEPT ![i] = "spawned"]
  /\ active' = active + 1 /\ active < plan.in_flight
  /\ Open(r) /\ ~Queued(i)'
  /\ UNCHANGED <<pc, failures, stop, admission>>

Unlaunched(i, r) ==
  /\ active < plan.in_flight
  /\ r.outcome = "InfrastructureFailure" /\ r.miss = None /\ ~Queued(i)'
  /\ failures' = failures + 1 /\ Halt("Contaminated") /\ pc' = "top"
  /\ UNCHANGED <<thread, active>>

PutOff(i, r) ==
  /\ \/ Queued(i)' /\ Open(r)
     \/ ~Queued(i)' /\ r.miss = "Backpressure" /\ r.outcome = None
  /\ r.started = None
  /\ UNCHANGED <<pc, active, thread, failures, stop, admission>>

LEMMA AdmitStep ==
  ASSUME SchedulerInv, pc = "admit", admission = None,
         NEW i \in 1 .. Count(phase), thread[i] = "none",
         NEW R \in Seq(Record), rec' = [rec EXCEPT ![phase] = R], Len(R) = next'[phase],
         \/ i <= next[phase] /\ next' = next /\ Open(rec[phase][i])
         \/ i = next[phase] + 1 /\ next' = [next EXCEPT ![phase] = i],
         \A j \in 1 .. next[phase] : j # i => R[j] = rec[phase][j],
         queue' \in Seq(1 .. Count(phase)), Len(queue') <= plan.queue, Lined',
         \A j : j # i => (Queued(j)' <=> Queued(j)),
         UNCHANGED <<plan, phase, started, now, channel, clock, failed>>,
         Launched(i, R[i]) \/ Unlaunched(i, R[i]) \/ PutOff(i, R[i])
  PROVE  SchedulerInv'
<1>1. /\ Time' = Time /\ Record' = Record /\ Events' = Events
      /\ \A f \in Phases : Count(f)' = Count(f)
  BY PlanKept
<1>2. /\ phase \in Phases /\ Count(phase) \in Nat /\ thread \in [1 .. Count(phase) -> Threads]
      /\ next \in [Phases -> Nat] /\ next[phase] \in Nat /\ next[phase] <= Count(phase)
      /\ rec \in [Phases -> Seq(Record)] /\ active \in Nat /\ failures \in Nat
      /\ DOMAIN rec[phase] = 1 .. next[phase] /\ plan.in_flight \in Nat
      /\ plan.max_failures \in Nat
  BY InvFacts, PlanFacts
<1>3. /\ next' \in [Phases -> Nat] /\ next'[phase] \in Nat /\ next'[phase] <= Count(phase)
      /\ i \in 1 .. next'[phase] /\ 1 .. next'[phase] = (1 .. next[phase]) \cup {i}
      /\ \A f \in Phases : f # phase => next'[f] = next[f]
  <2>1. CASE i <= next[phase] /\ next' = next
    BY <1>2, <2>1
  <2>2. CASE i = next[phase] + 1 /\ next' = [next EXCEPT ![phase] = i]
    BY <1>2, <2>2
  <2> QED
    BY <2>1, <2>2
<1>4. /\ rec' \in [Phases -> Seq(Record)] /\ rec'[phase] = R
      /\ \A f \in Phases : f # phase => rec'[f] = rec[f]
  BY <1>2
<1>5. /\ thread' \in [1 .. Count(phase) -> Threads]
      /\ thread'[i] \in {"none", "spawned"}
      /\ \A j \in 1 .. Count(phase) : j # i => thread'[j] = thread[j]
  BY <1>2 DEF Launched, Unlaunched, PutOff, Threads
<1>6. \A k \in DOMAIN channel : channel[k].id # i /\ channel[k].id \in 1 .. Count(phase)
  <2>1. ASSUME NEW k \in DOMAIN channel
        PROVE  channel[k].id # i /\ channel[k].id \in 1 .. Count(phase)
    <3>1. channel[k].id \in 1 .. Count(phase)
      BY <1>2 DEF SchedulerInv, Typed
    <3>2. \A m \in Final : thread[channel[m].id] = "ended"
      BY DEF SchedulerInv, Channelled, Final
    <3>3. thread[channel[k].id] \in {"running", "ended"}
      BY <3>2 DEF SchedulerInv, Channelled
    <3> QED
      BY <3>1, <3>3
  <2> QED
    BY <2>1
<1>7. Final' = Final /\ \A j : Reported(j)' <=> Reported(j)
  BY DEF Final, Reported
<1>8. Channelled'
  <2>1. \A k \in DOMAIN channel : thread'[channel[k].id] = thread[channel[k].id]
    BY <1>5, <1>6
  <2> QED
    BY <1>7, <2>1 DEF SchedulerInv, Channelled
<1>9. /\ stop' \in StopReason /\ admission' \in (StopReason \ {"Completed"}) \cup {None}
      /\ stop = "Completed" /\ (admission' = None <=> stop' = "Completed")
      /\ pc' \in {"admit", "top"}
  <2>1. stop = "Completed"
    BY DEF SchedulerInv, Phased
  <2>2. CASE UNCHANGED <<pc, stop, admission>>
    BY <2>1, <2>2, StateTypes
  <2>3. CASE Halt("Contaminated") /\ pc' = "top"
    BY <2>1, <2>3, HaltFacts DEF StopReason
  <2> QED
    BY <2>2, <2>3 DEF Launched, Unlaunched, PutOff
<1>10. Phased'
  BY <1>1, <1>2, <1>3, <1>9 DEF SchedulerInv, Phased, Phases
<1>11. active' \in Nat /\ failures' \in Nat
  BY <1>2 DEF Launched, Unlaunched, PutOff
<1>12. Typed'
  <2>1. \A f \in Phases : Len(rec'[f]) = next'[f] /\ next'[f] <= Count(f)'
    BY <1>1, <1>3, <1>4, InvFacts
  <2>2. thread' \in [1 .. Count(phase)' -> Threads] /\ queue' \in Seq(1 .. Count(phase)')
        /\ DOMAIN thread' = 1 .. Count(phase)'
    BY <1>1, <1>2, <1>5
  <2>3. \A j \in DOMAIN thread' : thread'[j] \in {"none", "spawned", "running", "ended"}
    BY <2>2 DEF Threads
  <2>4. TypeOK'
    BY <1>1, <1>2, <1>3, <1>4, <1>9, <1>11, <2>1, <2>2, <2>3 DEF SchedulerInv, Typed, TypeOK
  <2> QED
    BY <1>1, <1>2, <2>2, <2>4 DEF SchedulerInv, Typed
<1>13. Past'
  BY <1>3, <1>4 DEF SchedulerInv, Past, Closed, Attempted, Missed
<1>14. ASSUME NEW j \in 1 .. Count(phase) PROVE Tracked(j)'
  <2>1. CASE j # i
    <3>1. Tracked(j) /\ (Queued(j)' <=> Queued(j)) /\ (Reported(j)' <=> Reported(j))
          /\ thread'[j] = thread[j]
      BY <1>5, <1>7, <2>1 DEF SchedulerInv
    <3>2. j <= next'[phase] <=> j <= next[phase]
      BY <1>2, <1>3, <2>1
    <3>3. j <= next[phase] => rec'[phase][j] = rec[phase][j]
      BY <1>2, <1>4, <2>1
    <3>4. (j > next'[phase] <=> ~(j <= next'[phase])) /\ (j > next[phase] <=> ~(j <= next[phase]))
      BY <1>2, <1>3
    <3>5. CASE j <= next[phase]
      BY <3>1, <3>2, <3>3, <3>4, <3>5 DEF Tracked, Open, Closed, Attempted, Missed
    <3>6. CASE ~(j <= next[phase])
      BY <3>1, <3>2, <3>4, <3>6 DEF Tracked
    <3> QED
      BY <3>5, <3>6
  <2>2. CASE j = i
    <3>1. j <= next'[phase] /\ ~(j > next'[phase]) /\ rec'[phase][j] = R[i]
      BY <1>3, <1>4, <2>2
    <3>2. CASE Launched(i, R[i])
      <4>1. thread'[i] = "spawned" /\ Open(R[i]) /\ ~Queued(i)'
        BY <1>2, <3>2 DEF Launched
      <4> QED
        BY <2>2, <3>1, <4>1 DEF Tracked, Open, Attempted, Missed
    <3>3. CASE Unlaunched(i, R[i])
      <4>1. thread'[i] = "none" /\ ~Queued(i)' /\ R[i].outcome # None /\ R[i].miss = None
        BY <3>3, NoneFacts DEF Unlaunched, Outcome
      <4> QED
        BY <2>2, <3>1, <4>1 DEF Tracked, Closed, Attempted, Missed
    <3>4. CASE PutOff(i, R[i])
      <4>1. thread'[i] = "none" /\ R[i].started = None
        BY <3>4 DEF PutOff
      <4>2. CASE Queued(i)' /\ Open(R[i])
        BY <2>2, <3>1, <4>1, <4>2 DEF Tracked, Open, Attempted, Missed
      <4>3. CASE ~Queued(i)' /\ R[i].miss = "Backpressure" /\ R[i].outcome = None
        <5>1. R[i].miss # None
          BY <4>3, NoneFacts
        <5> QED
          BY <2>2, <3>1, <4>1, <4>3, <5>1 DEF Tracked, Closed, Attempted, Missed
      <4> QED
        BY <3>4, <4>2, <4>3 DEF PutOff
    <3> QED
      BY <3>2, <3>3, <3>4
  <2> QED
    BY <2>1, <2>2
<1>15. Counted'
  <2>1. IsFiniteSet(Live) /\ IsFiniteSet(Final) /\ active = Cardinality(Live) + Cardinality(Final)
        /\ Cardinality(Live) \in Nat /\ Cardinality(Final) \in Nat /\ active <= plan.in_flight
    BY FS_CardinalityType DEF SchedulerInv, Counted
  <2>2. DOMAIN thread = 1 .. Count(phase) /\ DOMAIN thread' = 1 .. Count(phase)
    BY <1>2, <1>5
  <2>3. CASE Launched(i, R[i])
    <3>1. thread'[i] = "spawned" /\ active' = active + 1 /\ active < plan.in_flight
      BY <1>2, <2>3 DEF Launched
    <3>2. Live' = Live \cup {i} /\ i \notin Live
      BY <1>5, <2>2, <3>1 DEF Live
    <3>3. IsFiniteSet(Live') /\ Cardinality(Live') = Cardinality(Live) + 1
      BY <2>1, <3>2, FS_AddElement
    <3>4. active' = Cardinality(Live') + Cardinality(Final') /\ IsFiniteSet(Final')
      BY <1>2, <1>7, <2>1, <3>1, <3>3
    <3>5. active' <= plan'.in_flight
      <4>1. active \in Nat /\ plan.in_flight \in Nat /\ plan' = plan
        BY <1>2
      <4> QED
        BY <3>1, <4>1
    <3>6. Len(queue') <= plan'.queue
      BY <1>2, <1>7, <2>3
    <3> QED
      BY <3>3, <3>4, <3>5, <3>6 DEF Counted
  <2>4. CASE Unlaunched(i, R[i]) \/ PutOff(i, R[i])
    <3>1. thread' = thread /\ active' = active
      BY <2>4 DEF Unlaunched, PutOff
    <3>2. Live' = Live
      BY <3>1 DEF Live
    <3> QED
      BY <1>7, <2>1, <3>1, <3>2 DEF Counted
  <2> QED
    BY <2>3, <2>4
<1>16. /\ i <= next[phase] => rec[phase][i].outcome = None
       /\ R[i].outcome = IF Unlaunched(i, R[i]) THEN "InfrastructureFailure" ELSE None
       /\ R[i].miss \in {None, "Backpressure"}
  <2>1. i <= next[phase] => rec[phase][i].outcome = None
    BY <1>2 DEF Open, Attempted
  <2>2. R[i].outcome = IF Unlaunched(i, R[i]) THEN "InfrastructureFailure" ELSE None
    BY DEF Launched, Unlaunched, PutOff, Open, Attempted
  <2>3. R[i].miss \in {None, "Backpressure"}
    BY DEF Launched, Unlaunched, PutOff, Open, Missed
  <2> QED
    BY <2>1, <2>2, <2>3
<1>17. Reasoned'
  <2>1. ASSUME NEW f \in Phases, NEW j \in 1 .. next'[f]
        PROVE  /\ Missed(rec'[f][j]) => rec'[f][j].miss \in {"Backpressure", admission'}
               /\ rec'[f][j].outcome = "InfrastructureFailure" => stop' = "Contaminated"
    <3>1. CASE f = phase /\ j = i
      <4>1. Unlaunched(i, R[i]) => stop' = "Contaminated"
        BY DEF Unlaunched, Halt
      <4>2. None # "InfrastructureFailure"
        BY NoneFacts DEF Outcome
      <4> QED
        BY <1>4, <1>16, <3>1, <4>1, <4>2 DEF Missed
    <3>2. CASE ~(f = phase /\ j = i)
      <4>1. j \in 1 .. next[f] /\ rec'[f][j] = rec[f][j]
        BY <1>3, <1>4, <3>2
      <4>2. /\ Missed(rec[f][j]) => rec[f][j].miss \in {"Backpressure", admission}
            /\ rec[f][j].outcome # "InfrastructureFailure"
        BY <1>9, <4>1 DEF SchedulerInv, Reasoned
      <4> QED
        BY <4>1, <4>2 DEF Missed
    <3> QED
      BY <3>1, <3>2
  <2> QED
    BY <1>9, <2>1 DEF SchedulerInv, Reasoned
<1>18. Budgeted'
  <2>1. DOMAIN rec'[phase] = (1 .. next[phase]) \cup {i}
    BY <1>3, <1>4
  <2>2. i \notin Unsuccessful(phase)
    <3>1. i \in DOMAIN rec[phase] => i <= next[phase]
      BY <1>2
    <3> QED
      BY <1>16, <3>1 DEF Unsuccessful
  <2>3. \A j \in 1 .. next[phase] : j # i => rec'[phase][j] = rec[phase][j]
    BY <1>4
  <2>4. rec'[phase][i].outcome = IF Unlaunched(i, R[i]) THEN "InfrastructureFailure" ELSE None
    BY <1>4, <1>16
  <2>5. \A f \in Phases : f # phase => Unsuccessful(f)' = Unsuccessful(f)
    BY <1>4 DEF Unsuccessful
  <2>6. /\ \A f \in Phases : IsFiniteSet(Unsuccessful(f)) /\ Cardinality(Unsuccessful(f)) \in Nat
        /\ failures = Cardinality(Unsuccessful("warmup")) + Cardinality(Unsuccessful("measured"))
        /\ plan.max_failures # 0 =>
             /\ failures + active <= plan.max_failures - 1 + plan.in_flight
             /\ failures <= plan.max_failures - 1
    BY FS_CardinalityType DEF SchedulerInv, Budgeted
  <2>7. CASE Unlaunched(i, R[i])
    <3>1. Unsuccessful(phase)' = Unsuccessful(phase) \cup {i}
      <4>1. "InfrastructureFailure" \notin {None, "Completed"}
        BY NoneFacts DEF Outcome
      <4> QED
        BY <1>2, <2>1, <2>2, <2>3, <2>4, <2>7, <4>1 DEF Unsuccessful
    <3>2. IsFiniteSet(Unsuccessful(phase)') /\
          Cardinality(Unsuccessful(phase)') = Cardinality(Unsuccessful(phase)) + 1
      <4> DEFINE U == Unsuccessful(phase)
      <4>1. IsFiniteSet(U) /\ Cardinality(U) \in Nat /\ i \notin U /\ Unsuccessful(phase)' = U \cup {i}
        BY <1>2, <2>2, <2>6, <3>1
      <4> HIDE DEF U
      <4>2. IsFiniteSet(U \cup {i}) /\ Cardinality(U \cup {i}) = Cardinality(U) + 1
        BY <4>1, FS_AddElement
      <4> QED
        BY <4>1, <4>2 DEF U
    <3>3. /\ failures' = failures + 1 /\ active' = active /\ active < plan.in_flight
          /\ admission' # None
      BY <2>7, HaltFacts DEF Unlaunched, StopReason
    <3>4. failures' = Cardinality(Unsuccessful("warmup")') + Cardinality(Unsuccessful("measured")')
      <4>1. /\ Cardinality(Unsuccessful("warmup")) \in Nat
            /\ Cardinality(Unsuccessful("measured")) \in Nat
        BY <2>6 DEF Phases
      <4>2. CASE phase = "warmup"
        <5>1. Unsuccessful("measured")' = Unsuccessful("measured")
          BY <2>5, <4>2 DEF Phases
        <5> QED
          BY <2>6, <3>2, <3>3, <4>1, <4>2, <5>1
      <4>3. CASE phase = "measured"
        <5>1. Unsuccessful("warmup")' = Unsuccessful("warmup")
          BY <2>5, <4>3 DEF Phases
        <5> QED
          BY <2>6, <3>2, <3>3, <4>1, <4>3, <5>1
      <4> QED
        BY <1>2, <4>2, <4>3 DEF Phases
    <3>5. plan.max_failures # 0 => failures' + active' <= plan.max_failures - 1 + plan.in_flight
      <4>1. /\ active \in Nat /\ failures \in Nat /\ plan.in_flight \in Nat
            /\ plan.max_failures \in Nat /\ active < plan.in_flight
            /\ failures' = failures + 1 /\ active' = active
        BY <1>2, <3>3
      <4>2. plan.max_failures # 0 => failures <= plan.max_failures - 1
        BY <2>6
      <4> QED
        BY <4>1, <4>2
    <3> QED
      BY <1>2, <2>5, <2>6, <3>2, <3>3, <3>4, <3>5 DEF Budgeted
  <2>8. CASE ~Unlaunched(i, R[i])
    <3>1. Unsuccessful(phase)' = Unsuccessful(phase)
      BY <1>2, <2>1, <2>2, <2>3, <2>4, <2>8 DEF Unsuccessful
    <3>2. failures' = failures /\ (active' = active \/ (active' = active + 1 /\ active < plan.in_flight))
      BY <2>8 DEF Launched, PutOff
    <3>3. plan.max_failures # 0 => failures' + active' <= plan.max_failures - 1 + plan.in_flight
      <4>1. /\ active \in Nat /\ failures \in Nat /\ plan.in_flight \in Nat
            /\ plan.max_failures \in Nat /\ failures' = failures
        BY <1>2, <3>2
      <4>2. CASE active' = active
        BY <2>6, <4>1, <4>2
      <4>3. CASE active' = active + 1 /\ active < plan.in_flight
        <5>1. plan.max_failures # 0 => failures <= plan.max_failures - 1
          BY <2>6
        <5> QED
          BY <4>1, <4>3, <5>1
      <4> QED
        BY <3>2, <4>2, <4>3
    <3>4. /\ \A f \in Phases : Unsuccessful(f)' = Unsuccessful(f)
          /\ "warmup" \in Phases /\ "measured" \in Phases
      BY <2>5, <3>1 DEF Phases
    <3> QED
      BY <2>6, <3>2, <3>3, <3>4 DEF Budgeted
  <2> QED
    BY <2>7, <2>8
<1> QED
  BY <1>1, <1>2, <1>8, <1>10, <1>12, <1>13, <1>14, <1>15, <1>17, <1>18 DEF SchedulerInv

(* The queue without its head. *)
LEMMA QueueRest ==
  ASSUME SchedulerInv, queue # <<>>, queue' = Tail(queue), UNCHANGED <<plan, phase>>,
         NEW i, i = Head(queue)
  PROVE  /\ i \in 1 .. Count(phase) /\ Queued(i) /\ ~Queued(i)'
         /\ queue' \in Seq(1 .. Count(phase)) /\ Len(queue') <= plan.queue /\ Lined'
         /\ \A j : j # i => (Queued(j)' <=> Queued(j))
<1> DEFINE n == Len(queue)
           q == queue'
<1>1. /\ queue \in Seq(1 .. Count(phase)) /\ DOMAIN queue = 1 .. n
      /\ n <= plan.queue /\ plan.queue \in Nat
      /\ \A a, b \in 1 .. n : queue[a] = queue[b] => a = b
  BY InvFacts, PlanFacts DEF SchedulerInv, Counted, Lined
<1>2. /\ Head(queue) = queue[1] /\ Head(queue) \in 1 .. Count(phase)
      /\ q \in Seq(1 .. Count(phase)) /\ n \in Nat /\ n > 0 /\ Len(q) = n - 1
      /\ \A k \in 1 .. n - 1 : q[k] = queue[k + 1]
  BY <1>1, Rest
<1>3. DOMAIN q = 1 .. n - 1
  BY <1>2
<1> HIDE DEF n
<1>4. \A j : Queued(j) <=> \E k \in 1 .. n : queue[k] = j
  BY <1>1 DEF Queued, ToSet
<1>5. \A j : Queued(j)' <=> \E k \in 1 .. n - 1 : queue[k + 1] = j
  BY <1>2, <1>3 DEF Queued, ToSet
<1>6. Lined'
  <2>1. ASSUME NEW a \in 1 .. n - 1, NEW b \in 1 .. n - 1, q[a] = q[b] PROVE a = b
    <3>1. a + 1 \in 1 .. n /\ b + 1 \in 1 .. n /\ queue[a + 1] = queue[b + 1]
      BY <1>2, <2>1
    <3>2. a + 1 = b + 1
      BY <1>1, <3>1
    <3> QED
      BY <3>2
  <2> QED
    BY <1>3, <2>1 DEF Lined
<1>7. Queued(i)
  BY <1>2, <1>4
<1>8. ~Queued(i)'
  <2>1. ASSUME NEW k \in 1 .. n - 1 PROVE queue[k + 1] # queue[1]
    <3>1. k + 1 \in 1 .. n /\ 1 \in 1 .. n /\ k + 1 # 1
      BY <1>2
    <3> QED
      BY <1>1, <3>1
  <2> QED
    BY <1>2, <1>5, <2>1
<1>9. ASSUME NEW j, j # i PROVE Queued(j)' <=> Queued(j)
  <2>1. ASSUME NEW k \in 1 .. n, queue[k] = j PROVE \E m \in 1 .. n - 1 : queue[m + 1] = j
    <3>1. k # 1 /\ k - 1 \in 1 .. n - 1 /\ (k - 1) + 1 = k
      BY <1>2, <1>9, <2>1
    <3> QED
      BY <2>1, <3>1
  <2>2. ASSUME NEW m \in 1 .. n - 1, queue[m + 1] = j PROVE \E k \in 1 .. n : queue[k] = j
    <3>1. m + 1 \in 1 .. n
      BY <1>2
    <3> QED
      BY <2>2, <3>1
  <2> QED
    BY <1>4, <1>5, <2>1, <2>2
<1>10. Len(queue') <= plan.queue
  BY <1>1, <1>2
<1> QED
  BY <1>2, <1>6, <1>7, <1>8, <1>9, <1>10

LEMMA LaunchQueuedStep ==
  ASSUME SchedulerInv, LaunchQueued
  PROVE  SchedulerInv'
<1>1. PICK i : i = Head(queue)
  OBVIOUS
<1>2. PICK r : r = rec[phase]
  OBVIOUS
<1>3. /\ pc = "admit" /\ admission = None /\ active < plan.in_flight /\ queue # <<>>
      /\ Launch(i, r) /\ queue' = Tail(queue)
      /\ UNCHANGED <<plan, phase, started, now, next, channel, clock, failed>>
  BY <1>1, <1>2 DEF LaunchQueued, Idle
<1>4. /\ i \in 1 .. Count(phase) /\ Queued(i) /\ ~Queued(i)'
      /\ queue' \in Seq(1 .. Count(phase)) /\ Len(queue') <= plan.queue /\ Lined'
      /\ \A j : j # i => (Queued(j)' <=> Queued(j))
  BY <1>1, <1>3, QueueRest
<1>5. /\ phase \in Phases /\ r \in Seq(Record) /\ Len(r) = next[phase] /\ next[phase] \in Nat
      /\ now \in Time
  BY <1>2, InvFacts
<1>6. thread[i] = "none" /\ Open(r[i]) /\ i \in 1 .. next[phase]
  <2>1. Tracked(i)
    BY <1>4 DEF SchedulerInv
  <2> QED
    BY <1>2, <1>4, <1>5, <2>1 DEF Tracked
<1>7. /\ i <= next[phase] /\ next' = next /\ Open(rec[phase][i]) /\ next'[phase] = next[phase]
      /\ \A j \in 1 .. next[phase] : rec[phase][j] = r[j]
  BY <1>2, <1>3, <1>5, <1>6
<1>8. ASSUME NEW R \in Seq(Record), Len(R) = next[phase], rec' = [rec EXCEPT ![phase] = R],
              \A j \in 1 .. next[phase] : j # i => R[j] = r[j],
              Launched(i, R[i]) \/ Unlaunched(i, R[i])
       PROVE  SchedulerInv'
  <2>1. Len(R) = next'[phase] /\ \A j \in 1 .. next[phase] : j # i => R[j] = rec[phase][j]
    BY <1>7, <1>8
  <2> QED
    BY <1>3, <1>4, <1>6, <1>7, <1>8, <2>1, AdmitStep
<1>9. CASE /\ active' = active + 1
           /\ thread' = [thread EXCEPT ![i] = "spawned"]
           /\ rec' = [rec EXCEPT ![phase] = r]
           /\ UNCHANGED <<pc, failures, stop, admission>>
  <2>1. Launched(i, r[i])
    BY <1>3, <1>4, <1>6, <1>9 DEF Launched
  <2> QED
    BY <1>5, <1>9, <1>8, <2>1
<1>10. CASE /\ rec' = [rec EXCEPT ![phase] =
                        [r EXCEPT ![i].finished = now, ![i].outcome = "InfrastructureFailure"]]
           /\ failures' = failures + 1 /\ Halt("Contaminated") /\ pc' = "top"
           /\ UNCHANGED <<active, thread>>
  <2>1. PICK x : x = [r[i] EXCEPT !.finished = now, !.outcome = "InfrastructureFailure"]
    OBVIOUS
  <2>2. PICK R : R = [r EXCEPT ![i] = x]
    OBVIOUS
  <2>3. R = [r EXCEPT ![i].finished = now, ![i].outcome = "InfrastructureFailure"]
    BY <1>5, <1>6, <2>1, <2>2
  <2>4. r[i] \in Record
    BY <1>5, <1>6
  <2>5. x \in Record /\ x.outcome = "InfrastructureFailure" /\ x.miss = None
    BY <1>5, <1>6, <2>1, <2>4 DEF Record, Outcome, Open, Missed
  <2>6. /\ R \in Seq(Record) /\ Len(R) = next[phase] /\ R[i] = x
        /\ \A j \in 1 .. next[phase] : j # i => R[j] = r[j]
    BY <1>5, <1>6, <2>2, <2>5, Replaced
  <2>7. Unlaunched(i, R[i])
    BY <1>3, <1>4, <1>10, <2>5, <2>6 DEF Unlaunched
  <2>8. rec' = [rec EXCEPT ![phase] = R]
    BY <1>10, <2>3
  <2> QED
    BY <1>8, <2>6, <2>7, <2>8
<1> QED
  BY <1>3, <1>9, <1>10 DEF Launch

(* The record of an arrival, appended. *)
LEMMA OfferStep ==
  ASSUME SchedulerInv, Offer
  PROVE  SchedulerInv'
<1>1. PICK i : i = next[phase] + 1
  OBVIOUS
<1>2. PICK a : a = Arrival(Scheduled(i, started, now))
  OBVIOUS
<1>3. PICK r : r = Append(rec[phase], a)
  OBVIOUS
<1>4. /\ pc = "admit" /\ admission = None /\ next[phase] < Count(phase)
      /\ next' = [next EXCEPT ![phase] = i]
      /\ \/ Idle /\ Launch(i, r) /\ UNCHANGED queue
         \/ /\ IF Len(queue) < plan.queue
                 THEN queue' = Append(queue, i) /\ rec' = [rec EXCEPT ![phase] = r]
                 ELSE /\ rec' = [rec EXCEPT ![phase] = [r EXCEPT ![i].miss = "Backpressure"]]
                      /\ UNCHANGED queue
            /\ UNCHANGED <<pc, active, thread, failures, stop, admission>>
      /\ UNCHANGED <<plan, phase, started, now, channel, clock, failed>>
  BY <1>1, <1>2, <1>3 DEF Offer, Due
<1>5. /\ phase \in Phases /\ rec[phase] \in Seq(Record) /\ Len(rec[phase]) = next[phase]
      /\ next \in [Phases -> Nat] /\ next[phase] \in Nat /\ now \in Time /\ Count(phase) \in Nat
      /\ started \in Nat /\ now \in Nat /\ plan \in Plans /\ plan.queue \in Nat
      /\ queue \in Seq(1 .. Count(phase)) /\ Len(queue) \in Nat /\ DOMAIN queue = 1 .. Len(queue)
  BY InvFacts, PlanFacts
<1>6. i \in 1 .. Count(phase) /\ i \in Nat \ {0} /\ i > next[phase] /\ next'[phase] = i
  BY <1>1, <1>4, <1>5
<1>7. /\ a \in Record /\ Open(a) /\ a.started = None
      /\ [a EXCEPT !.miss = "Backpressure"] \in Record
  <2>1. a \in Record /\ Open(a) /\ a.started = None
    BY <1>2, <1>5, <1>6, ArrivalFacts
  <2> QED
    BY <2>1 DEF Record
<1>8. /\ r \in Seq(Record) /\ Len(r) = i /\ r[i] = a
      /\ \A j \in 1 .. next[phase] : r[j] = rec[phase][j]
  BY <1>1, <1>3, <1>5, <1>7, Longer
<1>9. thread[i] = "none" /\ ~Queued(i)
  BY <1>6 DEF SchedulerInv, Tracked
<1>10. Len(queue) <= plan.queue /\ Lined
  BY DEF SchedulerInv, Counted
<1>11. ASSUME NEW R \in Seq(Record), Len(R) = i, rec' = [rec EXCEPT ![phase] = R],
              \A j \in 1 .. next[phase] : j # i => R[j] = r[j],
              queue' \in Seq(1 .. Count(phase)), Len(queue') <= plan.queue, Lined',
              \A j : j # i => (Queued(j)' <=> Queued(j)),
              Launched(i, R[i]) \/ Unlaunched(i, R[i]) \/ PutOff(i, R[i])
       PROVE  SchedulerInv'
  <2>1. \A j \in 1 .. next[phase] : j # i => R[j] = rec[phase][j]
    BY <1>8, <1>11
  <2> QED
    BY <1>1, <1>4, <1>5, <1>6, <1>9, <1>11, <2>1, AdmitStep
<1>12. ASSUME UNCHANGED queue
       PROVE  /\ queue' \in Seq(1 .. Count(phase)) /\ Len(queue') <= plan.queue /\ Lined'
              /\ \A j : Queued(j)' <=> Queued(j)
  BY <1>5, <1>10, <1>12 DEF Lined, Queued
<1>13. ASSUME NEW x \in Record
       PROVE  /\ [r EXCEPT ![i] = x] \in Seq(Record) /\ Len([r EXCEPT ![i] = x]) = i
              /\ [r EXCEPT ![i] = x][i] = x
              /\ \A j \in 1 .. next[phase] : j # i => [r EXCEPT ![i] = x][j] = r[j]
  <2>1. i \in 1 .. Len(r) /\ \A j \in 1 .. next[phase] : j \in 1 .. Len(r)
    BY <1>1, <1>5, <1>6, <1>8
  <2> QED
    BY <1>8, <2>1, Replaced
<1>14. CASE Idle /\ Launch(i, r) /\ UNCHANGED queue
  <2>1. /\ queue' \in Seq(1 .. Count(phase)) /\ Len(queue') <= plan.queue /\ Lined'
        /\ ~Queued(i)' /\ \A j : Queued(j)' <=> Queued(j)
    BY <1>9, <1>12, <1>14
  <2>2. CASE /\ active' = active + 1
             /\ thread' = [thread EXCEPT ![i] = "spawned"]
             /\ rec' = [rec EXCEPT ![phase] = r]
             /\ UNCHANGED <<pc, failures, stop, admission>>
    <3>1. Launched(i, r[i])
      BY <1>7, <1>8, <1>14, <2>1, <2>2 DEF Launched, Idle
    <3> QED
      BY <1>8, <1>11, <2>1, <2>2, <3>1
  <2>3. CASE /\ rec' = [rec EXCEPT ![phase] =
                          [r EXCEPT ![i].finished = now, ![i].outcome = "InfrastructureFailure"]]
             /\ failures' = failures + 1 /\ Halt("Contaminated") /\ pc' = "top"
             /\ UNCHANGED <<active, thread>>
    <3>1. PICK x : x = [a EXCEPT !.finished = now, !.outcome = "InfrastructureFailure"]
      OBVIOUS
    <3>2. x \in Record /\ x.outcome = "InfrastructureFailure" /\ x.miss = None
      BY <1>5, <1>7, <3>1 DEF Record, Outcome, Open, Missed
    <3>3. PICK R : R = [r EXCEPT ![i] = x]
      OBVIOUS
    <3>4. /\ R \in Seq(Record) /\ Len(R) = i /\ R[i] = x
          /\ \A j \in 1 .. next[phase] : j # i => R[j] = r[j]
      BY <1>13, <3>2, <3>3
    <3>5. i \in DOMAIN r
      BY <1>6, <1>8
    <3>6. R = [r EXCEPT ![i].finished = now, ![i].outcome = "InfrastructureFailure"]
      BY <1>8, <3>1, <3>3, <3>5
    <3>7. Unlaunched(i, R[i])
      BY <1>14, <2>1, <2>3, <3>2, <3>4 DEF Unlaunched, Idle
    <3> QED
      BY <1>11, <2>1, <2>3, <3>4, <3>6, <3>7
  <2> QED
    BY <1>14, <2>2, <2>3 DEF Launch
<1>15. CASE /\ Len(queue) < plan.queue
            /\ queue' = Append(queue, i) /\ rec' = [rec EXCEPT ![phase] = r]
            /\ UNCHANGED <<pc, active, thread, failures, stop, admission>>
  <2> DEFINE n == Len(queue)
             q == queue'
  <2>1. /\ q \in Seq(1 .. Count(phase)) /\ Len(q) = n + 1 /\ q[n + 1] = i
        /\ \A k \in 1 .. n : q[k] = queue[k]
    BY <1>5, <1>6, <1>15, Longer
  <2>2. n \in Nat /\ DOMAIN q = 1 .. n + 1 /\ Len(q) <= plan.queue
    BY <1>5, <1>15, <2>1
  <2>3. (\A j : Queued(j) <=> \E k \in 1 .. n : queue[k] = j)
    BY <1>5 DEF Queued, ToSet
  <2>4. \A k \in 1 .. n : queue[k] # i
    BY <1>9, <2>3
  <2>5. \A a1, b \in 1 .. n : queue[a1] = queue[b] => a1 = b
    BY <1>5, <1>10 DEF Lined
  <2> HIDE DEF n
  <2>6. 1 .. n + 1 = (1 .. n) \cup {n + 1}
    BY <2>2
  <2>7. Lined'
    BY <2>1, <2>2, <2>4, <2>5, <2>6 DEF Lined
  <2>8. \A j : Queued(j)' <=> \E k \in 1 .. n + 1 : q[k] = j
    BY <2>2 DEF Queued, ToSet
  <2>9. Queued(i)' /\ \A j : j # i => (Queued(j)' <=> Queued(j))
    BY <2>1, <2>3, <2>6, <2>8
  <2>10. PutOff(i, r[i])
    BY <1>7, <1>8, <1>15, <2>9 DEF PutOff
  <2> QED
    BY <1>8, <1>11, <1>15, <2>1, <2>2, <2>7, <2>9, <2>10
<1>16. CASE /\ rec' = [rec EXCEPT ![phase] = [r EXCEPT ![i].miss = "Backpressure"]]
            /\ UNCHANGED queue
            /\ UNCHANGED <<pc, active, thread, failures, stop, admission>>
  <2>1. PICK x : x = [a EXCEPT !.miss = "Backpressure"]
    OBVIOUS
  <2>2. x \in Record /\ x.outcome = None /\ x.miss = "Backpressure" /\ x.started = None
    BY <1>7, <2>1 DEF Record, Open, Attempted
  <2>3. PICK R : R = [r EXCEPT ![i] = x]
    OBVIOUS
  <2>4. /\ R \in Seq(Record) /\ Len(R) = i /\ R[i] = x
        /\ \A j \in 1 .. next[phase] : j # i => R[j] = r[j]
    BY <1>13, <2>2, <2>3
  <2>5. i \in DOMAIN r
    BY <1>6, <1>8
  <2>6. R = [r EXCEPT ![i].miss = "Backpressure"]
    BY <1>8, <2>1, <2>3, <2>5
  <2>7. /\ queue' \in Seq(1 .. Count(phase)) /\ Len(queue') <= plan.queue /\ Lined'
        /\ ~Queued(i)' /\ \A j : Queued(j)' <=> Queued(j)
    BY <1>9, <1>12, <1>16
  <2>8. PutOff(i, R[i])
    BY <1>16, <2>2, <2>4, <2>7 DEF PutOff
  <2> QED
    BY <1>11, <1>16, <2>4, <2>6, <2>7, <2>8
<1> QED
  BY <1>4, <1>14, <1>15, <1>16

-----------------------------------------------------------------------------
(* The invariant holds for every plan.                                      *)

LEMMA InitInv ==
  ASSUME Init
  PROVE  SchedulerInv
<1>1. /\ plan \in Plans /\ phase \in Phases /\ \A f \in Phases : Count(f) \in Nat
      /\ plan.in_flight \in Nat /\ plan.queue \in Nat /\ plan.max_failures \in Nat
      /\ 0 \in Time
  BY PlanFacts DEF Init, Phases
<1>2. /\ thread = [i \in 1 .. Count(phase) |-> "none"] /\ channel = <<>> /\ queue = <<>>
      /\ active = 0 /\ failures = 0 /\ stop = "Completed" /\ admission = None /\ ~failed
      /\ rec = [f \in Phases |-> <<>>] /\ next = [f \in Phases |-> 0] /\ pc = "begin"
      /\ started = 0 /\ now = 0 /\ clock = 0 /\ failed \in BOOLEAN
  BY DEF Init
<1>3. /\ \A f \in Phases : rec[f] = <<>> /\ next[f] = 0
      /\ \A i \in 1 .. Count(phase) : thread[i] = "none"
      /\ DOMAIN channel = {} /\ DOMAIN queue = {} /\ ToSet(queue) = {} /\ ToSet(channel) = {}
      /\ \A f \in Phases : DOMAIN rec[f] = {} /\ Len(rec[f]) = 0
      /\ Len(queue) = 0
  BY <1>2 DEF ToSet
<1>4. TypeOK
  BY <1>1, <1>2, <1>3 DEF TypeOK, StopReason
<1>5. Typed
  BY <1>2, <1>3, <1>4 DEF Typed, Threads
<1>6. Phased
  <2>1. phase = "measured" => Count("warmup") = 0
    BY DEF Init, Count
  <2>2. next["warmup"] = 0 /\ next["measured"] = 0 /\ next[phase] = 0
    BY <1>1, <1>3 DEF Phases
  <2> QED
    BY <1>2, <2>1, <2>2 DEF Phased
<1>7. Past /\ Channelled /\ Lined /\ Reasoned
  <2>1. Final = {} /\ \A f \in Phases : 1 .. next[f] = {}
    BY <1>3 DEF Final
  <2> QED
    BY <1>2, <1>3, <2>1 DEF Past, Channelled, Lined, Reasoned
<1>8. ASSUME NEW i \in 1 .. Count(phase) PROVE Tracked(i)
  <2>1. i > next[phase] /\ ~(i <= next[phase]) /\ thread[i] = "none" /\ ~Queued(i)
    BY <1>1, <1>3 DEF Queued
  <2> QED
    BY <2>1 DEF Tracked
<1>9. Counted
  <2>1. Live = {} /\ Final = {}
    BY <1>2, <1>3 DEF Live, Final
  <2> QED
    BY <1>1, <1>2, <1>3, <2>1, FS_EmptySet DEF Counted
<1>10. Budgeted
  <2>1. \A f \in Phases : Unsuccessful(f) = {}
    BY <1>3 DEF Unsuccessful
  <2>2. Unsuccessful("warmup") = {} /\ Unsuccessful("measured") = {}
    BY <2>1 DEF Phases
  <2>3. IsFiniteSet({}) /\ Cardinality({}) = 0
    BY FS_EmptySet
  <2>4. plan.max_failures # 0 => 0 <= plan.max_failures - 1
                                 /\ 0 + 0 <= plan.max_failures - 1 + plan.in_flight
    BY <1>1
  <2> QED
    <3>1. failures = Cardinality(Unsuccessful("warmup")) + Cardinality(Unsuccessful("measured"))
      <4>1. Cardinality(Unsuccessful("warmup")) = 0 /\ Cardinality(Unsuccessful("measured")) = 0
        BY <2>2, <2>3
      <4>2. failures = 0 + 0
        BY <1>2
      <4> QED
        BY <4>1, <4>2
    <3>2. \A f \in Phases : IsFiniteSet(Unsuccessful(f))
      BY <2>1, <2>3
    <3>3. failures = 0 /\ active = 0
      BY <1>2
    <3> QED
      BY <2>4, <3>1, <3>2, <3>3 DEF Budgeted
<1> QED
  BY <1>5, <1>6, <1>7, <1>8, <1>9, <1>10 DEF SchedulerInv

LEMMA StutterInv ==
  ASSUME SchedulerInv, UNCHANGED vars
  PROVE  SchedulerInv'
<1>1. UNCHANGED Work0 /\ UNCHANGED <<pc, started, now, stop, admission, clock, failed>>
  BY DEF vars, scheduler, workers, Work0
<1>2. Typed'
  BY <1>1, StateTypes, QuietTypes
<1>3. Phased'
  BY <1>1 DEF SchedulerInv, Phased, Work0, Count
<1> QED
  BY <1>1, <1>2, <1>3, QuietStep

LEMMA StepInv ==
  ASSUME SchedulerInv, Next
  PROVE  SchedulerInv'
<1>1. CASE Schedule
  BY <1>1, BeginStoppedStep, BeginStep, BeginRejectedStep, IterateStep, EndPhaseStep, EndPointStep,
     DrainStartedStep, DrainFinishedStep, DrainClockFaultStep, SampleStep, SampleFailsStep,
     RejectingStep, LaunchQueuedStep, OfferStep, SleepStep DEF Schedule
<1>2. CASE \E i \in Inputs : Work(i)
  BY <1>2, WorkerStartStep, WorkerEndStep DEF Work
<1> QED
  BY <1>1, <1>2 DEF Next

(* At every point between two steps of the scheduler, a worker or the       *)
(* clock, for every plan, each attempt is on its way from arrival to fate   *)
(* and the counters agree with it.                                          *)
THEOREM SchedulerInvariant == Spec => []SchedulerInv
<1>1. SchedulerInv /\ [Next]_vars => SchedulerInv'
  BY StepInv, StutterInv
<1> QED
  BY InitInv, <1>1, PTL DEF Spec

(* scheduler.rs, run_with_spawner: when the point is done every planned     *)
(* attempt of both phases has exactly one fate, a missed one was seen by no *)
(* worker and names backpressure or the reason admission first ceased, and  *)
(* a clock fault or an infrastructure failure has contaminated the point.   *)
THEOREM AllAccounted == Spec => []EveryAttemptAccounted
<1>1. SchedulerInv => EveryAttemptAccounted
  <2> SUFFICES ASSUME SchedulerInv, pc = "done" PROVE EveryAttemptAccounted
    BY DEF EveryAttemptAccounted
  <2>1. /\ phase = "measured" /\ next["measured"] = Count("measured") /\ queue = <<>>
        /\ next["warmup"] = Count("warmup") /\ channel = <<>> /\ active = 0
    BY DEF SchedulerInv, Phased
  <2>2. \A f \in Phases : Len(rec[f]) = Count(f) /\ next[f] = Count(f)
    BY <2>1, InvFacts DEF Phases
  <2>3. failed => stop = "Contaminated"
    BY <2>1 DEF SchedulerInv, Reasoned
  <2>4. \A i \in 1 .. next[phase] : Closed(rec[phase][i])
    BY <2>1, NothingActive
  <2>5. \A f \in Phases : \A i \in 1 .. Count(f) : Closed(rec[f][i])
    BY <2>2, <2>4 DEF SchedulerInv, Past
  <2>6. ASSUME NEW f \in Phases, NEW i \in 1 .. Count(f)
        PROVE  /\ Missed(rec[f][i]) => rec[f][i].miss \in {"Backpressure", admission}
               /\ rec[f][i].outcome = "InfrastructureFailure" => stop = "Contaminated"
    BY <2>2 DEF SchedulerInv, Reasoned
  <2> QED
    BY <2>2, <2>3, <2>5, <2>6 DEF EveryAttemptAccounted, Closed
<1> QED
  BY SchedulerInvariant, <1>1, PTL

(* scheduler.rs, phase and launch: active is exact, with the queue it stays *)
(* within the plan's bounds, and no phase leaves an event behind.           *)
THEOREM WorkIsBounded == Spec => []BoundedWork
<1>1. SchedulerInv => BoundedWork
  BY DEF SchedulerInv, Typed, Counted, Phased, BoundedWork
<1> QED
  BY SchedulerInvariant, <1>1, PTL

(* scheduler.rs, observe_outcome: the failures counted are the outcomes     *)
(* recorded, and an exhausted budget is overrun by what was in flight only. *)
THEOREM BudgetHolds == Spec => []FailureBudget
<1>1. SchedulerInv => FailureBudget
  <2> SUFFICES ASSUME SchedulerInv PROVE FailureBudget
    OBVIOUS
  <2>1. /\ active \in Nat /\ failures \in Nat /\ plan.max_failures \in Nat /\ plan.in_flight \in Nat
    BY InvFacts, PlanFacts
  <2>2. /\ failures = Cardinality(Unsuccessful("warmup")) + Cardinality(Unsuccessful("measured"))
        /\ plan.max_failures # 0 => failures + active <= plan.max_failures - 1 + plan.in_flight
    BY DEF SchedulerInv, Budgeted
  <2>3. plan.max_failures # 0 => failures <= plan.max_failures - 1 + plan.in_flight
    BY <2>1, <2>2
  <2> QED
    BY <2>2, <2>3 DEF FailureBudget
<1> QED
  BY SchedulerInvariant, <1>1, PTL

-----------------------------------------------------------------------------
(* Nothing settled is rewritten.                                            *)

Kept ==
  \A f \in Phases : \A i \in 1 .. next[f] : ~Open(rec[f][i]) => rec'[f][i] = rec[f][i]

(* Only records of this phase that are open, or new, are written. *)
LEMMA OpenWritten ==
  ASSUME SchedulerInv, NEW R, rec' = [rec EXCEPT ![phase] = R],
         \A i \in 1 .. next[phase] : ~Open(rec[phase][i]) => R[i] = rec[phase][i]
  PROVE  Kept
<1>1. phase \in Phases /\ rec \in [Phases -> Seq(Record)]
  BY InvFacts
<1>2. rec'[phase] = R /\ \A f \in Phases : f # phase => rec'[f] = rec[f]
  BY <1>1
<1> QED
  BY <1>2 DEF Kept

LEMMA RejectKeeps ==
  ASSUME SchedulerInv, NEW b \in Nat, NEW t \in Nat, NEW reason \in StopReason,
         RejectRest(b, t, reason)
  PROVE  Kept
<1>1. phase \in Phases /\ next[phase] \in Nat /\ next[phase] <= Count(phase) /\ Count(phase) \in Nat
  BY InvFacts
<1>2. \A f \in Phases : f # phase => rec'[f] = rec[f]
  BY RejectFacts
<1>3. ASSUME NEW i \in 1 .. next[phase], ~Open(rec[phase][i])
      PROVE  rec'[phase][i] = rec[phase][i]
  <2>1. i \in 1 .. Count(phase) /\ ~(i > next[phase])
    BY <1>1
  <2>2. ~Queued(i)
    BY <1>3, <2>1 DEF SchedulerInv, Tracked
  <2> QED
    BY <2>1, <2>2, RejectFacts
<1> QED
  BY <1>2, <1>3 DEF Kept

LEMMA DrainKeeps ==
  ASSUME SchedulerInv, DrainStarted \/ DrainFinished \/ DrainClockFault
  PROVE  Kept
<1>1. PICK e : e = channel[1] /\ Head(channel) = e
  <2>1. channel \in Seq(Events) /\ channel # <<>>
    BY InvFacts DEF DrainStarted, DrainFinished, DrainClockFault
  <2> QED
    BY <2>1, Rest
<1>2. /\ e.id \in 1 .. next[phase] /\ Open(rec[phase][e.id])
      /\ phase \in Phases /\ rec[phase] \in Seq(Record) /\ DOMAIN rec[phase] = 1 .. next[phase]
      /\ rec \in [Phases -> Seq(Record)]
  <2>1. channel # <<>> /\ channel' = Tail(channel) /\ UNCHANGED <<plan, phase, thread>>
    BY DEF DrainStarted, DrainFinished, DrainClockFault
  <2> QED
    BY <1>1, <2>1, DrainFacts, InvFacts
<1>3. \E x : rec' = [rec EXCEPT ![phase] = [rec[phase] EXCEPT ![e.id] = x]]
  <2>1. CASE DrainStarted
    BY <1>1, <2>1 DEF DrainStarted
  <2>2. CASE DrainFinished
    <3>1. rec' = [rec EXCEPT ![phase][e.id].finished = e.at, ![phase][e.id].outcome = e.outcome]
      BY <1>1, <2>2 DEF DrainFinished
    <3>2. rec' = [rec EXCEPT ![phase] = [rec[phase] EXCEPT ![e.id] =
                    [rec[phase][e.id] EXCEPT !.finished = e.at, !.outcome = e.outcome]]]
      BY <1>2, <3>1
    <3> QED
      BY <3>2
  <2>3. CASE DrainClockFault
    BY <1>1, <2>3 DEF DrainClockFault
  <2> QED
    BY <2>1, <2>2, <2>3
<1>4. PICK x : rec' = [rec EXCEPT ![phase] = [rec[phase] EXCEPT ![e.id] = x]]
  BY <1>3
<1>5. \A i \in 1 .. next[phase] :
        ~Open(rec[phase][i]) => [rec[phase] EXCEPT ![e.id] = x][i] = rec[phase][i]
  BY <1>2
<1> QED
  BY <1>4, <1>5, OpenWritten

LEMMA LaunchQueuedKeeps ==
  ASSUME SchedulerInv, LaunchQueued
  PROVE  Kept
<1>1. PICK i : i = Head(queue)
  OBVIOUS
<1>2. queue # <<>> /\ queue' = Tail(queue) /\ UNCHANGED <<plan, phase>> /\ Launch(i, rec[phase])
  BY <1>1 DEF LaunchQueued
<1>3. i \in 1 .. Count(phase) /\ Queued(i)
  BY <1>1, <1>2, QueueRest
<1>4. Open(rec[phase][i])
  BY <1>3 DEF SchedulerInv, Tracked
<1>5. rec[phase] \in Seq(Record) /\ DOMAIN rec[phase] = 1 .. next[phase]
  BY InvFacts
<1>6. CASE rec' = [rec EXCEPT ![phase] = rec[phase]]
  BY <1>6, OpenWritten
<1>7. CASE rec' = [rec EXCEPT ![phase] = [rec[phase] EXCEPT ![i].finished = now,
                                           ![i].outcome = "InfrastructureFailure"]]
  <2> DEFINE R == [rec[phase] EXCEPT ![i].finished = now, ![i].outcome = "InfrastructureFailure"]
  <2>1. \A j \in 1 .. next[phase] : ~Open(rec[phase][j]) => R[j] = rec[phase][j]
    BY <1>4, <1>5
  <2>2. rec' = [rec EXCEPT ![phase] = R]
    BY <1>7
  <2> HIDE DEF R
  <2> QED
    BY <2>1, <2>2, OpenWritten
<1> QED
  BY <1>2, <1>6, <1>7 DEF Launch

LEMMA OfferKeeps ==
  ASSUME SchedulerInv, Offer
  PROVE  Kept
<1>1. PICK i : i = next[phase] + 1
  OBVIOUS
<1>2. PICK a : a = Arrival(Scheduled(i, started, now))
  OBVIOUS
<1>3. PICK r : r = Append(rec[phase], a)
  OBVIOUS
<1>4. \/ Launch(i, r)
      \/ rec' = [rec EXCEPT ![phase] = r]
      \/ rec' = [rec EXCEPT ![phase] = [r EXCEPT ![i].miss = "Backpressure"]]
  BY <1>1, <1>2, <1>3 DEF Offer
<1>5. /\ phase \in Phases /\ rec[phase] \in Seq(Record) /\ Len(rec[phase]) = next[phase]
      /\ next[phase] \in Nat /\ plan \in Plans /\ started \in Nat /\ now \in Nat
      /\ i \in Nat \ {0}
  <2>1. /\ phase \in Phases /\ rec[phase] \in Seq(Record) /\ Len(rec[phase]) = next[phase]
        /\ next[phase] \in Nat /\ plan \in Plans /\ started \in Time /\ now \in Time
    BY InvFacts
  <2>2. Time \subseteq Nat
    BY <2>1, PlanFacts
  <2> QED
    BY <1>1, <2>1, <2>2
<1>6. a \in Record
  BY <1>2, <1>5, ArrivalFacts
<1>7. DOMAIN r = 1 .. i /\ \A j \in 1 .. next[phase] : r[j] = rec[phase][j] /\ j # i /\ j \in 1 .. i
  BY <1>1, <1>3, <1>5, <1>6, Longer
<1>8. PICK R : /\ rec' = [rec EXCEPT ![phase] = R]
               /\ \A j \in 1 .. i : j # i => R[j] = r[j]
  <2>1. CASE rec' = [rec EXCEPT ![phase] = r]
    BY <2>1
  <2>2. CASE rec' = [rec EXCEPT ![phase] = [r EXCEPT ![i].miss = "Backpressure"]]
    <3>1. \A j \in 1 .. i : j # i => [r EXCEPT ![i].miss = "Backpressure"][j] = r[j]
      BY <1>7
    <3> QED
      BY <2>2, <3>1
  <2>3. CASE rec' = [rec EXCEPT ![phase] = [r EXCEPT ![i].finished = now,
                                                     ![i].outcome = "InfrastructureFailure"]]
    <3>1. \A j \in 1 .. i : j # i =>
            [r EXCEPT ![i].finished = now, ![i].outcome = "InfrastructureFailure"][j] = r[j]
      BY <1>7
    <3> QED
      BY <2>3, <3>1
  <2> QED
    BY <1>4, <2>1, <2>2, <2>3 DEF Launch
<1>9. \A j \in 1 .. next[phase] : R[j] = rec[phase][j]
  BY <1>7, <1>8
<1> QED
  BY <1>8, <1>9, OpenWritten

LEMMA StepKeeps ==
  ASSUME SchedulerInv, [Next]_vars
  PROVE  Kept
<1>1. CASE UNCHANGED rec
  BY <1>1 DEF Kept
<1>2. CASE BeginStopped \/ Reject
  <2>1. admission \in StopReason /\ clock \in Nat /\ Deadline \in Nat /\ started \in Nat /\ now \in Nat
    BY <1>2, StateTypes DEF BeginStopped, Reject
  <2>2. \E b, t \in Nat : RejectRest(b, t, admission)
    BY <1>2, <2>1 DEF BeginStopped, Reject
  <2> QED
    BY <2>1, <2>2, RejectKeeps
<1>3. CASE BeginRejected
  <2>1. clock \in Nat /\ Deadline \in Nat
    BY StateTypes
  <2>2. RejectRest(clock, clock, "Contaminated") \/ RejectRest(Deadline, Deadline, "DurationLimit")
    BY <1>3 DEF BeginRejected
  <2>3. "Contaminated" \in StopReason /\ "DurationLimit" \in StopReason
    BY DEF StopReason
  <2> QED
    BY <2>1, <2>2, <2>3, RejectKeeps
<1>4. CASE DrainStarted \/ DrainFinished \/ DrainClockFault
  BY <1>4, DrainKeeps
<1>5. CASE LaunchQueued
  BY <1>5, LaunchQueuedKeeps
<1>6. CASE Offer
  BY <1>6, OfferKeeps
<1>7. ASSUME NEW t, Begin(t) \/ Sample(t) \/ SampleWatchdog(t) PROVE UNCHANGED rec
  BY <1>7 DEF Begin, Sample, SampleWatchdog, Sampled
<1>8. Iterate \/ EndPhase \/ EndPoint \/ SampleFails \/ Sleep => UNCHANGED rec
  BY DEF Iterate, EndPhase, EndPoint, SampleFails, Sampled, Sleep
<1>9. ASSUME NEW i, Work(i) PROVE UNCHANGED rec
  BY <1>9 DEF Work, WorkerStart, WorkerEnd, scheduler
<1>10. UNCHANGED vars => UNCHANGED rec
  BY DEF vars, scheduler
<1> QED
  BY <1>1, <1>2, <1>3, <1>4, <1>5, <1>6, <1>7, <1>8, <1>9, <1>10 DEF Next, Schedule

Steady ==
  /\ admission # None => admission' = admission
  /\ stop = "Contaminated" => stop' = "Contaminated"

LEMMA StepSteady ==
  ASSUME SchedulerInv, [Next]_vars
  PROVE  Steady
<1>1. CASE UNCHANGED <<stop, admission>>
  BY <1>1 DEF Steady
<1>2. CASE Halt("Contaminated")
  BY <1>2 DEF Steady, Halt
<1>3. CASE admission = None /\ pc # "done"
  BY <1>3 DEF Steady, SchedulerInv, Phased
<1>4. CASE DrainFinished
  <2>1. PICK e : e = channel[1] /\ Head(channel) = e
    <3>1. channel \in Seq(Events) /\ channel # <<>>
      BY <1>4, InvFacts DEF DrainFinished
    <3> QED
      BY <3>1, Rest
  <2>2. PICK count : count = failures + (IF e.outcome = "Completed" THEN 0 ELSE 1)
    OBVIOUS
  <2>3. /\ pc = "drain" /\ stop' = Observe(e.outcome, count)
        /\ admission' = IF admission = None /\ stop' # "Completed" THEN stop' ELSE admission
    BY <1>4, <2>1, <2>2 DEF DrainFinished
  <2> QED
    BY <2>3 DEF Steady, Observe
<1>5. CASE EndPoint
  BY <1>5 DEF EndPoint, Steady
<1>6. /\ BeginStopped \/ Reject \/ Iterate \/ EndPhase \/ DrainStarted \/ Sleep
           => UNCHANGED <<stop, admission>>
      /\ UNCHANGED vars => UNCHANGED <<stop, admission>>
  BY DEF BeginStopped, Reject, Iterate, EndPhase, DrainStarted, Sleep, vars, scheduler
<1>7. BeginRejected \/ LaunchQueued \/ Offer => admission = None /\ pc # "done"
  BY DEF BeginRejected, LaunchQueued, Offer
<1>8. DrainClockFault \/ SampleFails => Halt("Contaminated")
  BY DEF DrainClockFault, SampleFails
<1>9. ASSUME NEW t, Begin(t) \/ Sample(t) \/ SampleWatchdog(t)
      PROVE  UNCHANGED <<stop, admission>> \/ (admission = None /\ pc # "done")
  BY <1>9 DEF Begin, Sample, SampleWatchdog, Sampled
<1>10. ASSUME NEW i, Work(i) PROVE UNCHANGED <<stop, admission>>
  BY <1>10 DEF Work, WorkerStart, WorkerEnd, scheduler
<1> QED
  BY <1>1, <1>2, <1>3, <1>4, <1>5, <1>6, <1>7, <1>8, <1>9, <1>10 DEF Next, Schedule

(* scheduler.rs, phase, reject_remaining and observe_outcome: whatever      *)
(* order events, limits and the clock come in, the reason admission first   *)
(* ceased, a contaminated verdict and a settled record never change.        *)
THEOREM SettledStays == Spec => ReasonsAreFinal
<1>1. SchedulerInv /\ [Next]_vars => [Settled]_vars
  <2> SUFFICES ASSUME SchedulerInv, [Next]_vars PROVE Settled
    OBVIOUS
  <2>1. Kept /\ Steady
    BY StepKeeps, StepSteady
  <2>2. \A f \in Phases : DOMAIN rec[f] = 1 .. next[f]
    BY InvFacts
  <2> QED
    BY <2>1, <2>2 DEF Kept, Steady, Settled, Open
<1> QED
  BY SchedulerInvariant, <1>1, PTL DEF Spec, ReasonsAreFinal

=============================================================================
