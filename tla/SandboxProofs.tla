---------------------------- MODULE SandboxProofs ----------------------------
(***************************************************************************)
(* The containment of a launch, for every set of launches, every sharing   *)
(* of CPUs and every number of failures: no CPU is given away under a      *)
(* process, no stranger is signalled, and a quarantine ends with the scope *)
(* that caused it.                                                         *)
(***************************************************************************)
EXTENDS Sandbox, WellFoundedInduction, TLAPS

(* A set of numbers that is not empty has a least element.                  *)
LEMMA LeastNumber ==
  ASSUME NEW T, T \subseteq Nat, T # {}
  PROVE  \E x \in T : \A y \in T : x <= y
<1> DEFINE R == OpToRel(<, Nat)
<1>1. \E x \in T : \A y \in T : ~(<<y, x>> \in R)
  <2>1. IsWellFoundedOn(R, Nat)
    BY NatLessThanWellFounded
  <2> HIDE DEF R
  <2> QED
    BY <2>1, WFMin
<1>2. PICK x \in T : \A y \in T : ~(<<y, x>> \in R)
  BY <1>1
<1>3. ASSUME NEW y \in T PROVE x <= y
  <2>1. <<y, x>> \in Nat \X Nat /\ x \in Nat /\ y \in Nat
    OBVIOUS
  <2>2. ~(y < x)
    BY <1>2, <2>1 DEF OpToRel
  <2> QED
    BY <2>1, <2>2
<1> QED
  BY <1>3

(* A bounded set of numbers that is not empty has a greatest element.       *)
LEMMA GreatestNumber ==
  ASSUME NEW T, T \subseteq Nat, T # {}, NEW b \in Nat, \A d \in T : d <= b
  PROVE  \E x \in T : \A y \in T : x >= y
<1> DEFINE U == {n \in Nat : \A d \in T : d <= n}
<1>1. PICK x \in U : \A y \in U : x <= y
  <2>1. U \subseteq Nat /\ b \in U
    OBVIOUS
  <2> HIDE DEF U
  <2> QED
    BY <2>1, LeastNumber
<1>2. x \in T
  <2> SUFFICES ASSUME x \notin T PROVE FALSE
    OBVIOUS
  <2>1. \A d \in T : d \in Nat /\ d < x
    OBVIOUS
  <2>2. PICK d \in T : TRUE
    OBVIOUS
  <2>3. x - 1 \in Nat
    BY <2>1, <2>2
  <2>4. \A e \in T : e <= x - 1
    BY <2>1
  <2>5. x - 1 \in U
    BY <2>3, <2>4
  <2> QED
    BY <1>1, <2>3, <2>5
<1> QED
  BY <1>2

(* The next file that a reservation creates, and the next one that a        *)
(* rollback removes, are files of that reservation.                         *)
LEMMA LeastIsMember ==
  ASSUME NEW T, T \subseteq Nat, T # {}
  PROVE  Least(T) \in T
  BY LeastNumber DEF Least

-----------------------------------------------------------------------------
(* The inductive invariant.                                                 *)

Fresh == {"idle", "acquire", "held"}
Driving == {"drive", "finish"}
Stopping == {"stop", "kill", "requery", "halt", "poll"}
Leaving == {"drop", "dropped"}
Started == {"bind", "own", "unowned", "handle"} \cup Driving \cup Stopping \cup Leaving

(* A scope is registered by its leader, holds the processes that are in it  *)
(* and never has a stranger's name.                                         *)
Scoped(l) ==
  /\ leader[l] \in {"none", "starting"} => scope[l] = "none"
  /\ leader[l] = "inside" \/ inner[l] => scope[l] = "active"
  /\ scope[l] # "none" => l \notin taken
  /\ cleanup[l] => l \notin taken
  /\ life[l] = "None" => leader[l] = "none"

(* Nothing is left to clean up, and the lease may go. *)
Ended(l) == scope[l] = "gone" /\ release[l]

(* What the place of the thread says of the handle, the scope and the lease. *)
Threaded(l) ==
  LET pc == call[l].pc
      after == call[l].after
  IN
  /\ pc \in Fresh => life[l] = "None"
  /\ pc \in Started => life[l] # "None"
  /\ pc \in {"bind", "own"} => life[l] = "Running"
  /\ pc \in {"held", "bind", "own", "unowned"} => release[l]
  /\ life[l] = "None" \/ pc \in {"bind", "own"} => after = "none"
  /\ pc = "unowned" => after = "own"
  /\ pc \in Driving =>
       /\ life[l] # "Terminal"
       /\ \/ after \in {"own", "quit"} /\ release[l]
          \/ after = "wait" /\ (cleanup[l] \/ Ended(l))
  /\ pc = "handle" => cleanup[l] \/ Ended(l)
  /\ pc = "handle" /\ after = "wait" /\ ~call[l].failed => ~cleanup[l]
  /\ pc \in Stopping => cleanup[l]
  /\ pc \in Leaving => /\ release[l] => scope[l] = "gone"
                       /\ after = "drop" /\ ~cleanup[l] => release[l]
  /\ pc = "rollback" => ~Alive(l)
  /\ leader[l] = "reaped" => life[l] = "Terminal" \/ pc \in {"rollback", "done", "dead"}

(* The files of a reservation are its own, all of them while a process      *)
(* runs; a file nobody holds any more is one that could not be removed.     *)
Held(l) ==
  /\ got[l] \subseteq CpusOf[l]
  /\ \A c \in Cpus : c \in got[l] => file[c] = l
  /\ \A c \in Cpus : file[c] = l => c \in got[l] \/ c \in stuck

Leased(l) ==
  /\ Held(l)
  /\ call[l].pc \in {"held"} \cup Started => got[l] = CpusOf[l]
  /\ Alive(l) => got[l] = CpusOf[l]
  /\ call[l].pc = "done" /\ call[l].after = "drop" /\ ~cleanup[l] => got[l] = {}
  /\ \E b \in Nat : \A d \in got[l] : d <= b

(* A leader that was signalled while it lived has a pending termination or  *)
(* is killed, and does not end with success.                                *)
Signalled(l) ==
  /\ l \in touched /\ pending[l] = "None" =>
       l \in doomed /\ leader[l] # "success"
  /\ output[l] = [why |-> "Exited", success |-> TRUE] =>
       l \notin touched /\ leader[l] = "reaped"

LaunchOK(l) == Scoped(l) /\ Threaded(l) /\ Leased(l) /\ Signalled(l)

SandboxInv ==
  /\ TypeOK
  /\ harmed = {}
  /\ \A l \in Launches : LaunchOK(l)

-----------------------------------------------------------------------------
(* A step of one launch leaves the others alone.                            *)

Framed(l) ==
  /\ TypeOK'
  /\ taken' = taken /\ harmed' = {}
  /\ \A m \in Launches : m # l =>
       /\ call'[m] = call[m] /\ got'[m] = got[m] /\ release'[m] = release[m]
       /\ life'[m] = life[m] /\ pending'[m] = pending[m] /\ output'[m] = output[m]
       /\ cleanup'[m] = cleanup[m] /\ leader'[m] = leader[m] /\ inner'[m] = inner[m]
       /\ (m \in doomed') = (m \in doomed) /\ scope'[m] = scope[m]
       /\ (m \in touched') = (m \in touched)
  /\ \A c \in Cpus : file'[c] # file[c] =>
       (file[c] = None /\ file'[c] = l) \/ (file[c] = l /\ file'[c] = None)
  /\ stuck \subseteq stuck'

LEMMA LocalStep ==
  ASSUME SandboxInv, NEW l \in Launches, Framed(l), LaunchOK(l)'
  PROVE  SandboxInv'
<1>1. TypeOK' /\ harmed' = {} /\ taken' = taken
  BY DEF Framed
<1>2. ASSUME NEW m \in Launches, m # l
      PROVE  LaunchOK(m)'
  <2>1. LaunchOK(m)
    BY DEF SandboxInv
  <2>2. /\ call'[m] = call[m] /\ got'[m] = got[m] /\ release'[m] = release[m]
        /\ life'[m] = life[m] /\ pending'[m] = pending[m] /\ output'[m] = output[m]
        /\ cleanup'[m] = cleanup[m] /\ leader'[m] = leader[m] /\ inner'[m] = inner[m]
        /\ (m \in doomed') = (m \in doomed) /\ scope'[m] = scope[m]
        /\ (m \in touched') = (m \in touched)
    BY <1>2 DEF Framed
  <2>3. Scoped(m)'
    BY <1>1, <2>1, <2>2 DEF LaunchOK, Scoped
  <2>4. Threaded(m)'
    BY <2>1, <2>2 DEF LaunchOK, Threaded, Ended, Alive, Live
  <2>5. Signalled(m)'
    BY <2>1, <2>2 DEF LaunchOK, Signalled
  <2>6. \A c \in Cpus : (file'[c] = m) <=> (file[c] = m)
    BY <1>2, FaultAssumption DEF Framed
  <2>7. Held(m)'
    BY <2>1, <2>2, <2>6 DEF LaunchOK, Leased, Held, Framed
  <2>8. Leased(m)'
    BY <2>1, <2>2, <2>7 DEF LaunchOK, Leased, Alive, Live
  <2> QED
    BY <2>3, <2>4, <2>5, <2>8 DEF LaunchOK
<1> QED
  BY <1>1, <1>2 DEF SandboxInv

(* What the invariant says of the launch that takes the step.               *)
LEMMA Launch ==
  ASSUME SandboxInv, NEW l \in Launches
  PROVE  /\ call[l] \in Calls /\ call \in [Launches -> Calls]
         /\ Scoped(l) /\ Threaded(l) /\ Leased(l) /\ Signalled(l)
  BY DEF SandboxInv, TypeOK, LaunchOK

(* Where the step leaves the thread.                                        *)
Moved(l, pc, after, failed) ==
  /\ call' \in [Launches -> Calls]
  /\ call'[l] = [pc |-> pc, after |-> after, failed |-> failed]
  /\ \A m \in Launches : m # l => call'[m] = call[m]

LEMMA EnterMoves ==
  ASSUME SandboxInv, NEW l \in Launches, NEW pc, NEW after, NEW failed,
         [pc |-> pc, after |-> after, failed |-> failed] \in Calls,
         call' = [call EXCEPT ![l] = [pc |-> pc, after |-> after, failed |-> failed]]
  PROVE  Moved(l, pc, after, failed)
  BY DEF Moved, SandboxInv, TypeOK

LEMMA GotoMoves ==
  ASSUME SandboxInv, NEW l \in Launches, NEW pc,
         [pc |-> pc, after |-> "none", failed |-> FALSE] \in Calls, Goto(l, pc)
  PROVE  Moved(l, pc, call[l].after, call[l].failed)
<1>1. call[l] \in Calls /\ call \in [Launches -> Calls]
  BY DEF SandboxInv, TypeOK
<1>2. call' = [call EXCEPT ![l] = [pc |-> pc, after |-> call[l].after,
                                   failed |-> call[l].failed]]
  <2>1. call' = [call EXCEPT ![l] = [call[l] EXCEPT !.pc = pc]]
    BY <1>1 DEF Goto
  <2>2. [call[l] EXCEPT !.pc = pc]
          = [pc |-> pc, after |-> call[l].after, failed |-> call[l].failed]
    BY <1>1 DEF Calls
  <2> QED
    BY <2>1, <2>2
<1>3. [pc |-> pc, after |-> call[l].after, failed |-> call[l].failed] \in Calls
  BY <1>1 DEF Calls
<1> QED
  BY <1>2, <1>3, EnterMoves

LEMMA FaultCounts ==
  ASSUME SandboxInv, Fault \/ UNCHANGED faults
  PROVE  faults' \in 0 .. MaxFaults
  BY FaultAssumption DEF SandboxInv, TypeOK, Fault

(* Steps that only move the thread.                                         *)
LEMMA CallStep ==
  ASSUME SandboxInv, NEW l \in Launches, NEW pc, NEW after, NEW failed,
         Moved(l, pc, after, failed), UNCHANGED <<lease, handle, host>>,
         Fault \/ UNCHANGED faults, Threaded(l)',
         pc \in {"held"} \cup Started => got[l] = CpusOf[l],
         pc = "done" /\ after = "drop" /\ ~cleanup[l] => got[l] = {}
  PROVE  Framed(l) /\ SandboxInv'
<1>1. faults' \in 0 .. MaxFaults
  BY FaultCounts
<1>2. UNCHANGED <<file, got, stuck, release, life, pending, output, cleanup, leader, inner,
                  doomed, scope, taken, touched, harmed>>
  BY DEF lease, handle, host
<1>3. Framed(l)
  BY <1>1, <1>2 DEF Framed, Moved, SandboxInv, TypeOK
<1>4. Scoped(l)' /\ Signalled(l)'
  BY <1>2, Launch DEF Scoped, Signalled
<1>5. Leased(l)'
  <2>1. call'[l].pc = pc /\ call'[l].after = after
    BY DEF Moved
  <2>2. Held(l)'
    BY <1>2, Launch DEF Leased, Held
  <2> QED
    BY <1>2, <2>1, <2>2, Launch DEF Leased, Alive, Live
<1> QED
  BY <1>3, <1>4, <1>5, LocalStep DEF LaunchOK

LEMMA BeginAcquireStep ==
  ASSUME SandboxInv, NEW l \in Launches, BeginAcquire(l)
  PROVE  Framed(l) /\ SandboxInv'
<1>1. Moved(l, "acquire", call[l].after, call[l].failed)
  BY Launch, GotoMoves DEF BeginAcquire, Calls
<1>2. UNCHANGED <<lease, handle, host>> /\ (Fault \/ UNCHANGED faults)
  BY DEF BeginAcquire
<1>3. UNCHANGED <<release, life, cleanup, leader, inner, scope>>
  BY <1>2 DEF lease, handle, host
<1>4. Threaded(l)'
  BY <1>1, <1>3, Launch DEF Moved, Threaded, Scoped, Ended, Alive, Live, Fresh,
     Started, Driving, Stopping, Leaving, BeginAcquire, At
<1> QED
  BY <1>1, <1>2, <1>4, CallStep, Launch DEF Leased, Threaded, Started, Driving,
     Stopping, Leaving, BeginAcquire, At

LEMMA ConflictStep ==
  ASSUME SandboxInv, NEW l \in Launches, Conflict(l)
  PROVE  Framed(l) /\ SandboxInv'
<1>1. Moved(l, "rollback", call[l].after, call[l].failed)
  BY Launch, GotoMoves DEF Conflict, Calls
<1>2. UNCHANGED <<lease, handle, host>> /\ (Fault \/ UNCHANGED faults)
  BY DEF Conflict
<1>3. UNCHANGED <<release, life, cleanup, leader, inner, scope>>
  BY <1>2 DEF lease, handle, host
<1>4. Threaded(l)'
  BY <1>1, <1>3, Launch DEF Moved, Threaded, Scoped, Ended, Alive, Live, Fresh,
     Started, Driving, Stopping, Leaving, Conflict, At
<1> QED
  BY <1>1, <1>2, <1>4, CallStep, Launch DEF Leased, Threaded, Started, Driving,
     Stopping, Leaving, Conflict, At

LEMMA AcquireFailsStep ==
  ASSUME SandboxInv, NEW l \in Launches, AcquireFails(l)
  PROVE  Framed(l) /\ SandboxInv'
<1>1. Moved(l, "rollback", call[l].after, call[l].failed)
  BY Launch, GotoMoves DEF AcquireFails, Calls
<1>2. UNCHANGED <<lease, handle, host>> /\ (Fault \/ UNCHANGED faults)
  BY DEF AcquireFails
<1>3. UNCHANGED <<release, life, cleanup, leader, inner, scope>>
  BY <1>2 DEF lease, handle, host
<1>4. Threaded(l)'
  BY <1>1, <1>3, Launch DEF Moved, Threaded, Scoped, Ended, Alive, Live, Fresh,
     Started, Driving, Stopping, Leaving, AcquireFails, At
<1> QED
  BY <1>1, <1>2, <1>4, CallStep, Launch DEF Leased, Threaded, Started, Driving,
     Stopping, Leaving, AcquireFails, At

LEMMA RolledBackStep ==
  ASSUME SandboxInv, NEW l \in Launches, RolledBack(l)
  PROVE  Framed(l) /\ SandboxInv'
<1>1. Moved(l, IF life[l] = "None" THEN "idle" ELSE "done", call[l].after, call[l].failed)
  BY Launch, GotoMoves DEF RolledBack, Calls
<1>2. UNCHANGED <<lease, handle, host>> /\ (Fault \/ UNCHANGED faults)
  BY DEF RolledBack
<1>3. UNCHANGED <<release, life, cleanup, leader, inner, scope>>
  BY <1>2 DEF lease, handle, host
<1>4. Threaded(l)'
  BY <1>1, <1>3, Launch DEF Moved, Threaded, Scoped, Ended, Alive, Live, Fresh,
     Started, Driving, Stopping, Leaving, RolledBack, At
<1> QED
  BY <1>1, <1>2, <1>4, CallStep, Launch DEF Leased, Threaded, Started, Driving,
     Stopping, Leaving, RolledBack, At

LEMMA DropLeaseStep ==
  ASSUME SandboxInv, NEW l \in Launches, DropLease(l)
  PROVE  Framed(l) /\ SandboxInv'
<1>1. Moved(l, "rollback", call[l].after, call[l].failed)
  BY Launch, GotoMoves DEF DropLease, Calls
<1>2. UNCHANGED <<lease, handle, host>> /\ (Fault \/ UNCHANGED faults)
  BY DEF DropLease
<1>3. UNCHANGED <<release, life, cleanup, leader, inner, scope>>
  BY <1>2 DEF lease, handle, host
<1>4. Threaded(l)'
  BY <1>1, <1>3, Launch DEF Moved, Threaded, Scoped, Ended, Alive, Live, Fresh,
     Started, Driving, Stopping, Leaving, DropLease, At
<1> QED
  BY <1>1, <1>2, <1>4, CallStep, Launch DEF Leased, Threaded, Started, Driving,
     Stopping, Leaving, DropLease, At

LEMMA BoundStep ==
  ASSUME SandboxInv, NEW l \in Launches, Bound(l)
  PROVE  Framed(l) /\ SandboxInv'
<1>1. Moved(l, "own", call[l].after, call[l].failed)
  BY Launch, GotoMoves DEF Bound, Calls
<1>2. UNCHANGED <<lease, handle, host>> /\ (Fault \/ UNCHANGED faults)
  BY DEF Bound
<1>3. UNCHANGED <<release, life, cleanup, leader, inner, scope>>
  BY <1>2 DEF lease, handle, host
<1>4. Threaded(l)'
  BY <1>1, <1>3, Launch DEF Moved, Threaded, Scoped, Ended, Alive, Live, Fresh,
     Started, Driving, Stopping, Leaving, Bound, At
<1> QED
  BY <1>1, <1>2, <1>4, CallStep, Launch DEF Leased, Threaded, Started, Driving,
     Stopping, Leaving, Bound, At

LEMMA ExitedUnownedStep ==
  ASSUME SandboxInv, NEW l \in Launches, ExitedUnowned(l)
  PROVE  Framed(l) /\ SandboxInv'
<1>1. Moved(l, "drive", "own", FALSE)
  BY Launch, EnterMoves DEF ExitedUnowned, Enter, Calls
<1>2. UNCHANGED <<lease, handle, host>> /\ (Fault \/ UNCHANGED faults)
  BY DEF ExitedUnowned
<1>3. UNCHANGED <<release, life, cleanup, leader, inner, scope>>
  BY <1>2 DEF lease, handle, host
<1>4. Threaded(l)'
  BY <1>1, <1>3, Launch DEF Moved, Threaded, Scoped, Ended, Alive, Live, Fresh,
     Started, Driving, Stopping, Leaving, ExitedUnowned, At
<1> QED
  BY <1>1, <1>2, <1>4, CallStep, Launch DEF Leased, Threaded, Started, Driving,
     Stopping, Leaving, ExitedUnowned, At

LEMMA EndedUnownedStep ==
  ASSUME SandboxInv, NEW l \in Launches, EndedUnowned(l)
  PROVE  Framed(l) /\ SandboxInv'
<1>1. Moved(l, "handle", call[l].after, call[l].failed)
  BY Launch, GotoMoves DEF EndedUnowned, Calls
<1>2. UNCHANGED <<lease, handle, host>> /\ (Fault \/ UNCHANGED faults)
  BY DEF EndedUnowned
<1>3. UNCHANGED <<release, life, cleanup, leader, inner, scope>>
  BY <1>2 DEF lease, handle, host
<1>4. Threaded(l)'
  BY <1>1, <1>3, Launch DEF Moved, Threaded, Scoped, Ended, Alive, Live, Fresh,
     Started, Driving, Stopping, Leaving, EndedUnowned, At
<1> QED
  BY <1>1, <1>2, <1>4, CallStep, Launch DEF Leased, Threaded, Started, Driving,
     Stopping, Leaving, EndedUnowned, At

LEMMA CancelFailsStep ==
  ASSUME SandboxInv, NEW l \in Launches, CancelFails(l)
  PROVE  Framed(l) /\ SandboxInv'
<1>1. Moved(l, IF cleanup[l] THEN "stop" ELSE "handle", "cancel", TRUE)
  BY Launch, EnterMoves DEF CancelFails, Calls
<1>2. UNCHANGED <<lease, handle, host>> /\ (Fault \/ UNCHANGED faults)
  BY DEF CancelFails
<1>3. UNCHANGED <<release, life, cleanup, leader, inner, scope>>
  BY <1>2 DEF lease, handle, host
<1>4. Threaded(l)'
  BY <1>1, <1>3, Launch DEF Moved, Threaded, Scoped, Ended, Alive, Live, Fresh,
     Started, Driving, Stopping, Leaving, CancelFails, At
<1> QED
  BY <1>1, <1>2, <1>4, CallStep, Launch DEF Leased, Threaded, Started, Driving,
     Stopping, Leaving, CancelFails, At

LEMMA DropStep ==
  ASSUME SandboxInv, NEW l \in Launches, Drop(l)
  PROVE  Framed(l) /\ SandboxInv'
<1>1. Moved(l, IF cleanup[l] THEN "stop" ELSE "drop", "drop", FALSE)
  BY Launch, EnterMoves DEF Drop, Enter, Calls
<1>2. UNCHANGED <<lease, handle, host>> /\ (Fault \/ UNCHANGED faults)
  BY DEF Drop
<1>3. UNCHANGED <<release, life, cleanup, leader, inner, scope>>
  BY <1>2 DEF lease, handle, host
<1>4. Threaded(l)'
  BY <1>1, <1>3, Launch DEF Moved, Threaded, Scoped, Ended, Alive, Live, Fresh,
     Started, Driving, Stopping, Leaving, Drop, At
<1> QED
  BY <1>1, <1>2, <1>4, CallStep, Launch DEF Leased, Threaded, Started, Driving,
     Stopping, Leaving, Drop, At

LEMMA StopFindsActiveStep ==
  ASSUME SandboxInv, NEW l \in Launches, StopFindsActive(l)
  PROVE  Framed(l) /\ SandboxInv'
<1>1. Moved(l, "kill", call[l].after, call[l].failed)
  BY Launch, GotoMoves DEF StopFindsActive, Calls
<1>2. UNCHANGED <<lease, handle, host>> /\ (Fault \/ UNCHANGED faults)
  BY DEF StopFindsActive
<1>3. UNCHANGED <<release, life, cleanup, leader, inner, scope>>
  BY <1>2 DEF lease, handle, host
<1>4. Threaded(l)'
  BY <1>1, <1>3, Launch DEF Moved, Threaded, Scoped, Ended, Alive, Live, Fresh,
     Started, Driving, Stopping, Leaving, StopFindsActive, At
<1> QED
  BY <1>1, <1>2, <1>4, CallStep, Launch DEF Leased, Threaded, Started, Driving,
     Stopping, Leaving, StopFindsActive, At

LEMMA StopKillsNothingStep ==
  ASSUME SandboxInv, NEW l \in Launches, StopKillsNothing(l)
  PROVE  Framed(l) /\ SandboxInv'
<1>1. Moved(l, "requery", call[l].after, call[l].failed)
  BY Launch, GotoMoves DEF StopKillsNothing, Calls
<1>2. UNCHANGED <<lease, handle, host>> /\ (Fault \/ UNCHANGED faults)
  BY DEF StopKillsNothing
<1>3. UNCHANGED <<release, life, cleanup, leader, inner, scope>>
  BY <1>2 DEF lease, handle, host
<1>4. Threaded(l)'
  BY <1>1, <1>3, Launch DEF Moved, Threaded, Scoped, Ended, Alive, Live, Fresh,
     Started, Driving, Stopping, Leaving, StopKillsNothing, At
<1> QED
  BY <1>1, <1>2, <1>4, CallStep, Launch DEF Leased, Threaded, Started, Driving,
     Stopping, Leaving, StopKillsNothing, At

LEMMA StopHaltsStep ==
  ASSUME SandboxInv, NEW l \in Launches, StopHalts(l)
  PROVE  Framed(l) /\ SandboxInv'
<1>1. Moved(l, "poll", call[l].after, call[l].failed)
  BY Launch, GotoMoves DEF StopHalts, Calls
<1>2. UNCHANGED <<lease, handle, host>> /\ (Fault \/ UNCHANGED faults)
  BY DEF StopHalts
<1>3. UNCHANGED <<release, life, cleanup, leader, inner, scope>>
  BY <1>2 DEF lease, handle, host
<1>4. Threaded(l)'
  BY <1>1, <1>3, Launch DEF Moved, Threaded, Scoped, Ended, Alive, Live, Fresh,
     Started, Driving, Stopping, Leaving, StopHalts, At
<1> QED
  BY <1>1, <1>2, <1>4, CallStep, Launch DEF Leased, Threaded, Started, Driving,
     Stopping, Leaving, StopHalts, At

LEMMA CrashStep ==
  ASSUME SandboxInv, NEW l \in Launches, Crash(l)
  PROVE  Framed(l) /\ SandboxInv'
<1>1. Moved(l, "dead", call[l].after, call[l].failed)
  BY Launch, GotoMoves DEF Crash, Calls
<1>2. UNCHANGED <<lease, handle, host>> /\ (Fault \/ UNCHANGED faults)
  BY DEF Crash
<1>3. UNCHANGED <<release, life, cleanup, leader, inner, scope>>
  BY <1>2 DEF lease, handle, host
<1>4. Threaded(l)'
  BY <1>1, <1>3, Launch DEF Moved, Threaded, Scoped, Ended, Alive, Live, Fresh,
     Started, Driving, Stopping, Leaving, Crash, At
<1> QED
  BY <1>1, <1>2, <1>4, CallStep, Launch DEF Leased, Threaded, Started, Driving,
     Stopping, Leaving, Crash, At

(* A step that leaves the thread where it is.                               *)
LEMMA StayMoves ==
  ASSUME SandboxInv, NEW l \in Launches, UNCHANGED call
  PROVE  Moved(l, call[l].pc, call[l].after, call[l].failed)
<1>1. call[l] \in Calls /\ call \in [Launches -> Calls]
  BY DEF SandboxInv, TypeOK
<1>2. call[l] = [pc |-> call[l].pc, after |-> call[l].after, failed |-> call[l].failed]
  BY <1>1 DEF Calls
<1> QED
  BY <1>1, <1>2 DEF Moved

(* A signal to a group whose leader was not reaped meets no stranger.       *)
LEMMA GroupSignal ==
  ASSUME SandboxInv, NEW l \in Launches, NEW signal, leader[l] # "reaped",
         SendGroup(l, signal)
  PROVE  /\ harmed' = {} /\ UNCHANGED <<leader, inner, scope, taken>>
         /\ touched' \subseteq Launches
         /\ doomed' \subseteq Launches
         /\ \A m \in Launches : m # l =>
              (m \in touched') = (m \in touched) /\ (m \in doomed') = (m \in doomed)
         /\ (l \in touched') = (l \in touched \/ Live(l))
         /\ (l \in doomed => l \in doomed')
         /\ signal = "KILL" => l \in doomed'
  BY DEF SandboxInv, TypeOK, SendGroup

(* The lease of a launch that keeps its files.                              *)
LEMMA LeaseKept ==
  ASSUME SandboxInv, NEW l \in Launches, NEW pc, NEW after, NEW failed,
         Moved(l, pc, after, failed), UNCHANGED <<file, got, stuck>>,
         pc \in {"held"} \cup Started \/ Alive(l)' => got[l] = CpusOf[l],
         pc = "done" /\ after = "drop" /\ ~cleanup'[l] => got[l] = {}
  PROVE  Leased(l)'
<1>1. call'[l].pc = pc /\ call'[l].after = after
  BY DEF Moved
<1>2. Held(l)'
  BY Launch DEF Leased, Held
<1>3. \E b \in Nat : \A d \in got[l] : d <= b
  BY Launch DEF Leased
<1> QED
  BY <1>1, <1>2, <1>3 DEF Leased

(* A launch whose thread stays where it is keeps its lease, unless one of   *)
(* its processes came to life.                                              *)
LEMMA StayLeased ==
  ASSUME SandboxInv, NEW l \in Launches, UNCHANGED <<call, file, got, stuck, cleanup>>,
         Alive(l)' => Alive(l)
  PROVE  Leased(l)'
BY Launch DEF Leased, Held

LEMMA SpawnStep ==
  ASSUME SandboxInv, NEW l \in Launches, Spawn(l)
  PROVE  Framed(l) /\ SandboxInv'
<1>1. Moved(l, "bind", call[l].after, call[l].failed)
  BY Launch, GotoMoves DEF Spawn, Calls
<1>2. Framed(l)
  BY <1>1, FaultCounts DEF Framed, Moved, SandboxInv, TypeOK, Spawn, lease, handle,
     host, Lifecycles
<1>3. Scoped(l)'
  BY <1>1, Launch DEF Scoped, Threaded, Fresh, SandboxInv, TypeOK, Spawn, At, handle,
     host, Lifecycles
<1>4. Signalled(l)'
  BY <1>1, Launch DEF Signalled, Scoped, Threaded, Fresh, Driving, SandboxInv, TypeOK,
     Spawn, At, Live, handle, host, Lifecycles
<1>5. Threaded(l)'
  BY <1>1, Launch DEF Moved, Threaded, Scoped, Ended, Alive, Live, Fresh, Started,
     Driving, Stopping, Leaving, SandboxInv, TypeOK, Spawn, At, lease, handle, host,
     Lifecycles
<1>6. Leased(l)'
  BY <1>1, Launch, LeaseKept DEF Leased, Threaded, Scoped, Started, Driving, Stopping,
     Leaving, Alive, Live, Spawn, At, lease, handle, host, Lifecycles
<1> QED
  BY <1>2, <1>3, <1>4, <1>5, <1>6, LocalStep DEF LaunchOK

LEMMA OwnedStep ==
  ASSUME SandboxInv, NEW l \in Launches, Owned(l)
  PROVE  Framed(l) /\ SandboxInv'
<1>1. Moved(l, "handle", call[l].after, call[l].failed)
  BY Launch, GotoMoves DEF Owned, Calls
<1>2. Framed(l)
  BY <1>1, FaultCounts DEF Framed, Moved, SandboxInv, TypeOK, Owned, lease, handle,
     host
<1>3. Scoped(l)'
  BY <1>1, Launch DEF Scoped, Threaded, Fresh, SandboxInv, TypeOK, Owned, At, handle,
     host
<1>4. Signalled(l)'
  BY <1>1, Launch DEF Signalled, Scoped, Threaded, Fresh, Driving, SandboxInv, TypeOK,
     Owned, At, Live, handle, host
<1>5. Threaded(l)'
  BY <1>1, Launch DEF Moved, Threaded, Scoped, Ended, Alive, Live, Fresh, Started,
     Driving, Stopping, Leaving, SandboxInv, TypeOK, Owned, At, lease, handle, host
<1>6. Leased(l)'
  <2>1. UNCHANGED <<file, got, stuck>> /\ "handle" # "done"
    BY DEF Owned, lease
  <2>2. got[l] = CpusOf[l]
    BY Launch DEF Leased, Owned, At, Started
  <2> QED
    BY <1>1, <2>1, <2>2, LeaseKept
<1> QED
  BY <1>2, <1>3, <1>4, <1>5, <1>6, LocalStep DEF LaunchOK

LEMMA DriveExitedStep ==
  ASSUME SandboxInv, NEW l \in Launches, DriveExited(l)
  PROVE  Framed(l) /\ SandboxInv'
<1>1. Moved(l, "finish", call[l].after, call[l].failed)
  BY Launch, GotoMoves DEF DriveExited, Calls
<1>2. Framed(l)
  BY <1>1, FaultCounts DEF Framed, Moved, SandboxInv, TypeOK, DriveExited, lease,
     handle, host, Lifecycles, LeaderExited, Exited
<1>3. Scoped(l)'
  BY <1>1, Launch DEF Scoped, Threaded, Fresh, SandboxInv, TypeOK, DriveExited, At,
     handle, host, Lifecycles, LeaderExited, Exited
<1>4. Signalled(l)'
  BY <1>1, Launch DEF Signalled, Scoped, Threaded, Fresh, Driving, SandboxInv, TypeOK,
     DriveExited, At, Live, handle, host, Lifecycles, LeaderExited, Exited
<1>5. Threaded(l)'
  BY <1>1, Launch DEF Moved, Threaded, Scoped, Ended, Alive, Live, Fresh, Started,
     Driving, Stopping, Leaving, SandboxInv, TypeOK, DriveExited, At, lease, handle,
     host, Lifecycles, LeaderExited, Exited
<1>6. Leased(l)'
  BY <1>1, Launch, LeaseKept DEF Leased, Threaded, Scoped, Started, Driving, Stopping,
     Leaving, Alive, Live, DriveExited, At, lease, handle, host, Lifecycles,
     LeaderExited, Exited
<1> QED
  BY <1>2, <1>3, <1>4, <1>5, <1>6, LocalStep DEF LaunchOK

LEMMA EnterScopeStep ==
  ASSUME SandboxInv, NEW l \in Launches, EnterScope(l)
  PROVE  Framed(l) /\ SandboxInv'
<1>1. Moved(l, call[l].pc, call[l].after, call[l].failed)
  BY Launch, StayMoves DEF EnterScope
<1>2. Framed(l)
  BY <1>1, FaultCounts DEF Framed, Moved, SandboxInv, TypeOK, EnterScope, lease,
     handle, host
<1>3. Scoped(l)'
  BY <1>1, Launch DEF Scoped, Threaded, Fresh, SandboxInv, TypeOK, EnterScope, At,
     handle, host
<1>4. Signalled(l)'
  BY <1>1, Launch DEF Signalled, Scoped, Threaded, Fresh, Driving, SandboxInv, TypeOK,
     EnterScope, At, Live, handle, host
<1>5. Threaded(l)'
  BY <1>1, Launch DEF Moved, Threaded, Scoped, Ended, Alive, Live, Fresh, Started,
     Driving, Stopping, Leaving, SandboxInv, TypeOK, EnterScope, At, lease, handle, host
<1>6. Leased(l)'
  <2>1. UNCHANGED <<call, file, got, stuck, cleanup>>
    BY DEF EnterScope, lease, handle
  <2>2. Alive(l)' => Alive(l)
    BY DEF EnterScope, Alive, Live, SandboxInv, TypeOK
  <2> QED
    BY <2>1, <2>2, StayLeased
<1> QED
  BY <1>2, <1>3, <1>4, <1>5, <1>6, LocalStep DEF LaunchOK

LEMMA ForkStep ==
  ASSUME SandboxInv, NEW l \in Launches, Fork(l)
  PROVE  Framed(l) /\ SandboxInv'
<1>1. Moved(l, call[l].pc, call[l].after, call[l].failed)
  BY Launch, StayMoves DEF Fork
<1>2. Framed(l)
  BY <1>1, FaultCounts DEF Framed, Moved, SandboxInv, TypeOK, Fork, lease, handle,
     host
<1>3. Scoped(l)'
  BY <1>1, Launch DEF Scoped, Threaded, Fresh, SandboxInv, TypeOK, Fork, At, handle,
     host
<1>4. Signalled(l)'
  BY <1>1, Launch DEF Signalled, Scoped, Threaded, Fresh, Driving, SandboxInv, TypeOK,
     Fork, At, Live, handle, host
<1>5. Threaded(l)'
  BY <1>1, Launch DEF Moved, Threaded, Scoped, Ended, Alive, Live, Fresh, Started,
     Driving, Stopping, Leaving, SandboxInv, TypeOK, Fork, At, lease, handle, host
<1>6. Leased(l)'
  BY <1>1, Launch, LeaseKept DEF Leased, Threaded, Scoped, Started, Driving, Stopping,
     Leaving, Alive, Live, Fork, At, lease, handle, host
<1> QED
  BY <1>2, <1>3, <1>4, <1>5, <1>6, LocalStep DEF LaunchOK

LEMMA LeaderExitsStep ==
  ASSUME SandboxInv, NEW l \in Launches, LeaderExits(l)
  PROVE  Framed(l) /\ SandboxInv'
<1>1. Moved(l, call[l].pc, call[l].after, call[l].failed)
  BY Launch, StayMoves DEF LeaderExits
<1>2. Framed(l)
  BY <1>1, FaultCounts DEF Framed, Moved, SandboxInv, TypeOK, LeaderExits, lease,
     handle, host, Live
<1>3. Scoped(l)'
  BY <1>1, Launch DEF Scoped, Threaded, Fresh, SandboxInv, TypeOK, LeaderExits, At,
     handle, host, Live
<1>4. Signalled(l)'
  BY <1>1, Launch DEF Signalled, Scoped, Threaded, Fresh, Driving, SandboxInv, TypeOK,
     LeaderExits, At, Live, handle, host, Live
<1>5. Threaded(l)'
  BY <1>1, Launch DEF Moved, Threaded, Scoped, Ended, Alive, Live, Fresh, Started,
     Driving, Stopping, Leaving, SandboxInv, TypeOK, LeaderExits, At, lease, handle,
     host, Live
<1>6. Leased(l)'
  <2>1. UNCHANGED <<call, file, got, stuck, cleanup>>
    BY DEF LeaderExits, lease, handle
  <2>2. Alive(l)' => Alive(l)
    BY DEF LeaderExits, Alive, Live, SandboxInv, TypeOK
  <2> QED
    BY <2>1, <2>2, StayLeased
<1> QED
  BY <1>2, <1>3, <1>4, <1>5, <1>6, LocalStep DEF LaunchOK

LEMMA InnerExitsStep ==
  ASSUME SandboxInv, NEW l \in Launches, InnerExits(l)
  PROVE  Framed(l) /\ SandboxInv'
<1>1. Moved(l, call[l].pc, call[l].after, call[l].failed)
  BY Launch, StayMoves DEF InnerExits
<1>2. Framed(l)
  BY <1>1, FaultCounts DEF Framed, Moved, SandboxInv, TypeOK, InnerExits, lease,
     handle, host
<1>3. Scoped(l)'
  BY <1>1, Launch DEF Scoped, Threaded, Fresh, SandboxInv, TypeOK, InnerExits, At,
     handle, host
<1>4. Signalled(l)'
  BY <1>1, Launch DEF Signalled, Scoped, Threaded, Fresh, Driving, SandboxInv, TypeOK,
     InnerExits, At, Live, handle, host
<1>5. Threaded(l)'
  BY <1>1, Launch DEF Moved, Threaded, Scoped, Ended, Alive, Live, Fresh, Started,
     Driving, Stopping, Leaving, SandboxInv, TypeOK, InnerExits, At, lease, handle, host
<1>6. Leased(l)'
  <2>1. UNCHANGED <<call, file, got, stuck, cleanup>>
    BY DEF InnerExits, lease, handle
  <2>2. Alive(l)' => Alive(l)
    BY DEF InnerExits, Alive, Live, SandboxInv, TypeOK
  <2> QED
    BY <2>1, <2>2, StayLeased
<1> QED
  BY <1>2, <1>3, <1>4, <1>5, <1>6, LocalStep DEF LaunchOK

LEMMA ScopeEndsStep ==
  ASSUME SandboxInv, NEW l \in Launches, ScopeEnds(l)
  PROVE  Framed(l) /\ SandboxInv'
<1>1. Moved(l, call[l].pc, call[l].after, call[l].failed)
  BY Launch, StayMoves DEF ScopeEnds
<1>2. Framed(l)
  BY <1>1, FaultCounts DEF Framed, Moved, SandboxInv, TypeOK, ScopeEnds, lease,
     handle, host
<1>3. Scoped(l)'
  BY <1>1, Launch DEF Scoped, Threaded, Fresh, SandboxInv, TypeOK, ScopeEnds, At,
     handle, host
<1>4. Signalled(l)'
  BY <1>1, Launch DEF Signalled, Scoped, Threaded, Fresh, Driving, SandboxInv, TypeOK,
     ScopeEnds, At, Live, handle, host
<1>5. Threaded(l)'
  BY <1>1, Launch DEF Moved, Threaded, Scoped, Ended, Alive, Live, Fresh, Started,
     Driving, Stopping, Leaving, SandboxInv, TypeOK, ScopeEnds, At, lease, handle, host
<1>6. Leased(l)'
  <2>1. UNCHANGED <<call, file, got, stuck, cleanup>>
    BY DEF ScopeEnds, lease, handle
  <2>2. Alive(l)' => Alive(l)
    BY DEF ScopeEnds, Alive, Live
  <2> QED
    BY <2>1, <2>2, StayLeased
<1> QED
  BY <1>2, <1>3, <1>4, <1>5, <1>6, LocalStep DEF LaunchOK

LEMMA StopFindsEndedStep ==
  ASSUME SandboxInv, NEW l \in Launches, StopFindsEnded(l)
  PROVE  Framed(l) /\ SandboxInv'
<1>1. Moved(l, StopReturns(l), call[l].after, call[l].failed)
  BY Launch, GotoMoves DEF StopFindsEnded, Stopped, StopReturns, Calls
<1>2. Framed(l)
  BY <1>1, FaultCounts DEF Framed, Moved, SandboxInv, TypeOK, StopFindsEnded, lease,
     handle, host, Stopped, StopReturns
<1>3. Scoped(l)'
  BY <1>1, Launch DEF Scoped, Threaded, Fresh, SandboxInv, TypeOK, StopFindsEnded, At,
     handle, host, Stopped, StopReturns
<1>4. Signalled(l)'
  BY <1>1, Launch DEF Signalled, Scoped, Threaded, Fresh, Driving, SandboxInv, TypeOK,
     StopFindsEnded, At, Live, handle, host, Stopped, StopReturns
<1>5. Threaded(l)'
  BY <1>1, Launch DEF Moved, Threaded, Scoped, Ended, Alive, Live, Fresh, Started,
     Driving, Stopping, Leaving, SandboxInv, TypeOK, StopFindsEnded, At, lease, handle,
     host, Stopped, StopReturns
<1>6. Leased(l)'
  BY <1>1, Launch, LeaseKept DEF Leased, Threaded, Scoped, Started, Driving, Stopping,
     Leaving, Alive, Live, StopFindsEnded, At, lease, handle, host, Stopped, StopReturns
<1> QED
  BY <1>2, <1>3, <1>4, <1>5, <1>6, LocalStep DEF LaunchOK

LEMMA QuitStep ==
  ASSUME SandboxInv, NEW l \in Launches, At(l, "own") \/ At(l, "unowned"), Quit(l),
         Fault \/ UNCHANGED faults
  PROVE  Framed(l) /\ SandboxInv'
<1>1. Moved(l, "drop", call[l].after, call[l].failed)
  BY Launch, GotoMoves DEF Quit, Calls
<1>2. Framed(l)
  BY <1>1, FaultCounts DEF Framed, Moved, SandboxInv, TypeOK, Quit, lease, handle,
     host
<1>3. Scoped(l)'
  BY <1>1, Launch DEF Scoped, Threaded, Fresh, SandboxInv, TypeOK, Quit, At, handle,
     host
<1>4. Signalled(l)'
  BY <1>1, Launch DEF Signalled, Scoped, Threaded, Fresh, Driving, SandboxInv, TypeOK,
     Quit, At, Live, handle, host
<1>5. Threaded(l)'
  BY <1>1, Launch DEF Moved, Threaded, Scoped, Ended, Alive, Live, Fresh, Started,
     Driving, Stopping, Leaving, SandboxInv, TypeOK, Quit, At, lease, handle, host
<1>6. Leased(l)'
  BY <1>1, Launch, LeaseKept DEF Leased, Threaded, Scoped, Started, Driving, Stopping,
     Leaving, Alive, Live, Quit, At, lease, handle, host
<1> QED
  BY <1>2, <1>3, <1>4, <1>5, <1>6, LocalStep DEF LaunchOK

LEMMA UnprovenStep ==
  ASSUME SandboxInv, NEW l \in Launches, Unproven(l)
  PROVE  Framed(l) /\ SandboxInv'
  BY QuitStep DEF Unproven

LEMMA StopKillsStep ==
  ASSUME SandboxInv, NEW l \in Launches, StopKills(l)
  PROVE  Framed(l) /\ SandboxInv'
<1>0. /\ harmed' = {} /\ touched' \subseteq Launches
      /\ \A m \in Launches : m # l =>
           (m \in touched') = (m \in touched) /\ (m \in doomed') = (m \in doomed)
      /\ doomed' \subseteq Launches
  <2>1. l \notin taken
    BY Launch DEF StopKills, At, Threaded, Scoped, Stopping
  <2> QED
    BY <2>1 DEF StopKills, SandboxInv, TypeOK
<1>1. Moved(l, "halt", call[l].after, call[l].failed)
  BY Launch, GotoMoves DEF StopKills, Calls
<1>2. Framed(l)
  BY <1>0, <1>1, FaultCounts DEF Framed, Moved, SandboxInv, TypeOK, StopKills, lease,
     handle, host, Live
<1>3. Scoped(l)'
  BY <1>0, <1>1, Launch DEF Scoped, Threaded, Fresh, SandboxInv, TypeOK, StopKills,
     At, handle, host, Live
<1>4. Signalled(l)'
  BY <1>0, <1>1, Launch DEF Signalled, Scoped, Threaded, Fresh, Driving, SandboxInv,
     TypeOK, StopKills, At, Live, handle, host, Live
<1>5. Threaded(l)'
  BY <1>0, <1>1, Launch DEF Moved, Threaded, Scoped, Ended, Alive, Live, Fresh,
     Started, Driving, Stopping, Leaving, SandboxInv, TypeOK, StopKills, At, lease,
     handle, host, Live
<1>6. Leased(l)'
  BY <1>0, <1>1, Launch, LeaseKept DEF Leased, Threaded, Scoped, Started, Driving,
     Stopping, Leaving, Alive, Live, StopKills, At, lease, handle, host, Live
<1> QED
  BY <1>2, <1>3, <1>4, <1>5, <1>6, LocalStep DEF LaunchOK

LEMMA DropReapsStep ==
  ASSUME SandboxInv, NEW l \in Launches, DropReaps(l)
  PROVE  Framed(l) /\ SandboxInv'
<1>1. Moved(l, IF release[l] THEN "rollback" ELSE "done", call[l].after, call[l].failed)
  BY Launch, GotoMoves DEF DropReaps, Calls
<1>2. Framed(l)
  BY <1>1, FaultCounts DEF Framed, Moved, SandboxInv, TypeOK, DropReaps, lease,
     handle, host, Started, Leaving
<1>3. Scoped(l)'
  BY <1>1, Launch DEF Scoped, Threaded, Fresh, SandboxInv, TypeOK, DropReaps, At,
     handle, host, Started, Leaving
<1>4. Signalled(l)'
  BY <1>1, Launch DEF Signalled, Scoped, Threaded, Fresh, Driving, SandboxInv, TypeOK,
     DropReaps, At, Live, handle, host, Started, Leaving
<1>5. Threaded(l)'
  BY <1>1, Launch DEF Moved, Threaded, Scoped, Ended, Alive, Live, Fresh, Started,
     Driving, Stopping, Leaving, SandboxInv, TypeOK, DropReaps, At, lease, handle, host,
     Started, Leaving
<1>6. Leased(l)'
  BY <1>1, Launch, LeaseKept DEF Leased, Threaded, Scoped, Started, Driving, Stopping,
     Leaving, Alive, Live, DropReaps, At, lease, handle, host, Started, Leaving
<1> QED
  BY <1>2, <1>3, <1>4, <1>5, <1>6, LocalStep DEF LaunchOK

LEMMA AcquiredStep ==
  ASSUME SandboxInv, NEW l \in Launches, Acquired(l)
  PROVE  Framed(l) /\ SandboxInv'
<1>1. Moved(l, "held", call[l].after, call[l].failed)
  BY Launch, GotoMoves DEF Acquired, Calls
<1>2. Framed(l)
  BY <1>1, FaultCounts DEF Framed, Moved, SandboxInv, TypeOK, Acquired, lease, handle,
     host
<1>3. Scoped(l)'
  BY <1>1, Launch DEF Scoped, Threaded, Fresh, SandboxInv, TypeOK, Acquired, At,
     handle, host
<1>4. Signalled(l)'
  BY <1>1, Launch DEF Signalled, Scoped, Threaded, Fresh, Driving, SandboxInv, TypeOK,
     Acquired, At, Live, handle, host
<1>5. Threaded(l)'
  BY <1>1, Launch DEF Moved, Threaded, Scoped, Ended, Alive, Live, Fresh, Started,
     Driving, Stopping, Leaving, SandboxInv, TypeOK, Acquired, At, lease, handle, host
<1>6. Leased(l)'
  BY <1>1, Launch, LeaseKept DEF Leased, Threaded, Scoped, Started, Driving, Stopping,
     Leaving, Alive, Live, Acquired, At, lease, handle, host
<1> QED
  BY <1>2, <1>3, <1>4, <1>5, <1>6, LocalStep DEF LaunchOK

(* RunningProcess::cancel on a launch that was not reaped.                  *)
LEMMA CancelProcessFacts ==
  ASSUME SandboxInv, NEW l \in Launches, leader[l] # "reaped" \/ life[l] # "Running",
         CancelProcess(l)
  PROVE  /\ harmed' = {} /\ UNCHANGED <<leader, inner, scope, taken>>
         /\ touched' \subseteq Launches
         /\ doomed' \subseteq Launches
         /\ life' \in [Launches -> Lifecycles]
         /\ pending' \in [Launches -> {"None", "Cancelled", "TimedOut"}]
         /\ \A m \in Launches : m # l =>
              /\ (m \in touched') = (m \in touched) /\ (m \in doomed') = (m \in doomed)
              /\ life'[m] = life[m] /\ pending'[m] = pending[m]
         /\ (l \in doomed => l \in doomed')
         /\ pending'[l] = "None" => (l \in touched') = (l \in touched) /\ pending[l] = "None"
         /\ leader[l] = "reaped" => (l \in touched') = (l \in touched)
         /\ life[l] # "Running" => life'[l] = life[l]
         /\ life[l] = "Running" => life'[l] \in {"ExitedPendingReap", "Cancelling"}
<1>1. CASE life[l] # "Running" /\ UNCHANGED <<life, pending, host>>
  BY <1>1 DEF SandboxInv, TypeOK, host
<1>2. CASE /\ life[l] = "Running" /\ LeaderExited(l)
           /\ life' = [life EXCEPT ![l] = "ExitedPendingReap"]
           /\ UNCHANGED <<pending, host>>
  BY <1>2 DEF SandboxInv, TypeOK, Lifecycles, host
<1>3. CASE /\ life[l] = "Running" /\ SendGroup(l, "TERM")
           /\ pending' = [pending EXCEPT ![l] = "Cancelled"]
           /\ life' = [life EXCEPT ![l] = "Cancelling"]
  BY <1>3, GroupSignal DEF SandboxInv, TypeOK, Lifecycles
<1> QED
  BY <1>1, <1>2, <1>3 DEF CancelProcess

LEMMA AbandonStep ==
  ASSUME SandboxInv, NEW l \in Launches, Abandon(l)
  PROVE  Framed(l) /\ SandboxInv'
<1>0. /\ harmed' = {} /\ UNCHANGED <<leader, inner, scope, taken>>
      /\ touched' \subseteq Launches
      /\ doomed' \subseteq Launches
      /\ life' \in [Launches -> Lifecycles]
      /\ pending' \in [Launches -> {"None", "Cancelled", "TimedOut"}]
      /\ \A m \in Launches : m # l =>
           /\ (m \in touched') = (m \in touched) /\ (m \in doomed') = (m \in doomed)
           /\ life'[m] = life[m] /\ pending'[m] = pending[m]
      /\ (l \in doomed => l \in doomed')
      /\ pending'[l] = "None" => (l \in touched') = (l \in touched) /\ pending[l] = "None"
      /\ leader[l] = "reaped" => (l \in touched') = (l \in touched)
      /\ life[l] # "Running" => life'[l] = life[l]
      /\ life[l] = "Running" => life'[l] \in {"Running", "ExitedPendingReap", "Cancelling"}
  <2>1. leader[l] # "reaped"
    BY Launch DEF Abandon, At, Threaded
  <2> QED
    BY <2>1, CancelProcessFacts DEF Abandon
<1>1. Moved(l, "drive", "quit", FALSE)
  BY Launch, EnterMoves DEF Abandon, Enter, Calls
<1>2. UNCHANGED <<file, got, stuck, release, output, cleanup>> /\ faults' \in 0 .. MaxFaults
  BY FaultCounts DEF Abandon, lease
<1>3. Framed(l)
  BY <1>0, <1>1, <1>2 DEF Framed, Moved, SandboxInv, TypeOK
<1>4. Scoped(l)'
  BY <1>0, <1>1, <1>2, Launch DEF Scoped
<1>5. Signalled(l)'
  BY <1>0, <1>1, <1>2, Launch DEF Signalled, Live
<1>6. Threaded(l)'
  BY <1>0, <1>1, <1>2, Launch DEF Moved, Threaded, Scoped, Ended, Alive, Live, Fresh,
     Started, Driving, Stopping, Leaving, Abandon, At
<1>7. Leased(l)'
  BY <1>0, <1>1, <1>2, Launch, LeaseKept DEF Leased, Threaded, Scoped, Started,
     Driving, Stopping, Leaving, Alive, Live, Abandon, At
<1> QED
  BY <1>3, <1>4, <1>5, <1>6, <1>7, LocalStep DEF LaunchOK

LEMMA CancelStep ==
  ASSUME SandboxInv, NEW l \in Launches, Cancel(l)
  PROVE  Framed(l) /\ SandboxInv'
<1>0. /\ harmed' = {} /\ UNCHANGED <<leader, inner, scope, taken>>
      /\ touched' \subseteq Launches
      /\ doomed' \subseteq Launches
      /\ life' \in [Launches -> Lifecycles]
      /\ pending' \in [Launches -> {"None", "Cancelled", "TimedOut"}]
      /\ \A m \in Launches : m # l =>
           /\ (m \in touched') = (m \in touched) /\ (m \in doomed') = (m \in doomed)
           /\ life'[m] = life[m] /\ pending'[m] = pending[m]
      /\ (l \in doomed => l \in doomed')
      /\ pending'[l] = "None" => (l \in touched') = (l \in touched) /\ pending[l] = "None"
      /\ leader[l] = "reaped" => (l \in touched') = (l \in touched)
      /\ life[l] # "Running" => life'[l] = life[l]
      /\ life[l] = "Running" => life'[l] \in {"Running", "ExitedPendingReap", "Cancelling"}
  <2>1. CASE life[l] = "Terminal" /\ UNCHANGED <<life, pending, host>>
    BY <2>1 DEF SandboxInv, TypeOK, host
  <2>2. CASE life[l] # "Terminal" /\ CancelProcess(l)
    <3>1. leader[l] # "reaped"
      BY <2>2, Launch DEF Cancel, At, Threaded
    <3> QED
      BY <2>2, <3>1, CancelProcessFacts
  <2> QED
    BY <2>1, <2>2 DEF Cancel
<1>1. Moved(l, IF cleanup[l] THEN "stop" ELSE "handle", "cancel", FALSE)
  BY Launch, EnterMoves DEF Cancel, Enter, Calls
<1>2. UNCHANGED <<file, got, stuck, release, output, cleanup>> /\ faults' \in 0 .. MaxFaults
  BY FaultCounts DEF Cancel, lease
<1>3. Framed(l)
  BY <1>0, <1>1, <1>2 DEF Framed, Moved, SandboxInv, TypeOK
<1>4. Scoped(l)'
  BY <1>0, <1>1, <1>2, Launch DEF Scoped
<1>5. Signalled(l)'
  BY <1>0, <1>1, <1>2, Launch DEF Signalled, Live
<1>6. Threaded(l)'
  BY <1>0, <1>1, <1>2, Launch DEF Moved, Threaded, Scoped, Ended, Alive, Live, Fresh,
     Started, Driving, Stopping, Leaving, Cancel, At
<1>7. Leased(l)'
  <2>1. UNCHANGED <<file, got, stuck>> /\ (IF cleanup[l] THEN "stop" ELSE "handle") # "done"
    BY <1>2
  <2>2. got[l] = CpusOf[l]
    BY Launch DEF Leased, Cancel, At, Started
  <2> QED
    BY <1>1, <2>1, <2>2, LeaseKept
<1> QED
  BY <1>3, <1>4, <1>5, <1>6, <1>7, LocalStep DEF LaunchOK

LEMMA DriveTimesOutStep ==
  ASSUME SandboxInv, NEW l \in Launches, DriveTimesOut(l)
  PROVE  Framed(l) /\ SandboxInv'
<1>0. /\ harmed' = {} /\ UNCHANGED <<leader, inner, scope, taken>>
      /\ touched' \subseteq Launches
      /\ doomed' \subseteq Launches
      /\ \A m \in Launches : m # l =>
           (m \in touched') = (m \in touched) /\ (m \in doomed') = (m \in doomed)
      /\ (l \in touched') = (l \in touched \/ Live(l))
      /\ (l \in doomed => l \in doomed')
  <2>1. leader[l] # "reaped"
    BY Launch DEF DriveTimesOut, At, Threaded, Driving
  <2> QED
    BY <2>1, GroupSignal DEF DriveTimesOut
<1>1. Moved(l, call[l].pc, call[l].after, call[l].failed)
  BY Launch, StayMoves DEF DriveTimesOut
<1>2. /\ UNCHANGED <<file, got, stuck, release, output, cleanup>> /\ faults' \in 0 .. MaxFaults
      /\ pending' \in [Launches -> {"None", "Cancelled", "TimedOut"}] /\ pending'[l] = "TimedOut"
      /\ life' \in [Launches -> Lifecycles] /\ life'[l] = "TimingOut"
      /\ \A m \in Launches : m # l => life'[m] = life[m] /\ pending'[m] = pending[m]
      /\ call[l].pc = "drive"
  BY FaultCounts DEF DriveTimesOut, At, lease, SandboxInv, TypeOK, Lifecycles
<1>3. Framed(l)
  BY <1>0, <1>1, <1>2 DEF Framed, Moved, SandboxInv, TypeOK
<1>4. Scoped(l)'
  BY <1>0, <1>1, <1>2, Launch DEF Scoped
<1>5. Signalled(l)'
  BY <1>0, <1>1, <1>2, Launch DEF Signalled, Live
<1>6. Threaded(l)'
  BY <1>0, <1>1, <1>2, Launch DEF Moved, Threaded, Scoped, Ended, Alive, Live, Fresh,
     Started, Driving, Stopping, Leaving
<1>7. Leased(l)'
  BY <1>0, <1>1, <1>2, Launch, LeaseKept DEF Leased, Threaded, Scoped, Started,
     Driving, Stopping, Leaving, Alive, Live
<1> QED
  BY <1>3, <1>4, <1>5, <1>6, <1>7, LocalStep DEF LaunchOK

LEMMA DriveKillsStep ==
  ASSUME SandboxInv, NEW l \in Launches, DriveKills(l)
  PROVE  Framed(l) /\ SandboxInv'
<1>0. /\ harmed' = {} /\ UNCHANGED <<leader, inner, scope, taken>>
      /\ touched' \subseteq Launches
      /\ doomed' \subseteq Launches
      /\ \A m \in Launches : m # l =>
           (m \in touched') = (m \in touched) /\ (m \in doomed') = (m \in doomed)
      /\ (l \in touched') = (l \in touched \/ Live(l))
      /\ (l \in doomed => l \in doomed')
      /\ l \in doomed'
  <2>1. leader[l] # "reaped"
    BY Launch DEF DriveKills, At, Threaded, Driving
  <2> QED
    BY <2>1, GroupSignal DEF DriveKills
<1>1. Moved(l, "finish", call[l].after, call[l].failed)
  BY Launch, GotoMoves DEF DriveKills, Calls
<1>2. UNCHANGED <<file, got, stuck, release, life, pending, output, cleanup>> /\ faults' \in 0 .. MaxFaults
  BY FaultCounts DEF DriveKills, lease, handle
<1>3. Framed(l)
  BY <1>0, <1>1, <1>2 DEF Framed, Moved, SandboxInv, TypeOK
<1>4. Scoped(l)'
  BY <1>0, <1>1, <1>2, Launch DEF Scoped
<1>5. Signalled(l)'
  BY <1>0, <1>1, <1>2, Launch DEF Signalled, Live
<1>6. Threaded(l)'
  BY <1>0, <1>1, <1>2, Launch DEF Moved, Threaded, Scoped, Ended, Alive, Live, Fresh,
     Started, Driving, Stopping, Leaving, DriveKills, At
<1>7. Leased(l)'
  BY <1>0, <1>1, <1>2, Launch, LeaseKept DEF Leased, Threaded, Scoped, Started,
     Driving, Stopping, Leaving, Alive, Live, DriveKills, At
<1> QED
  BY <1>3, <1>4, <1>5, <1>6, <1>7, LocalStep DEF LaunchOK

LEMMA FinishKillsStep ==
  ASSUME SandboxInv, NEW l \in Launches, FinishKills(l)
  PROVE  Framed(l) /\ SandboxInv'
<1>0. /\ harmed' = {} /\ UNCHANGED <<leader, inner, scope, taken>>
      /\ touched' \subseteq Launches
      /\ doomed' \subseteq Launches
      /\ \A m \in Launches : m # l =>
           (m \in touched') = (m \in touched) /\ (m \in doomed') = (m \in doomed)
      /\ (l \in touched') = (l \in touched \/ Live(l))
      /\ (l \in doomed => l \in doomed')
      /\ l \in doomed'
  <2>1. leader[l] # "reaped"
    BY Launch DEF FinishKills, At, Threaded, Driving
  <2> QED
    BY <2>1, GroupSignal DEF FinishKills
<1>1. Moved(l, call[l].pc, call[l].after, call[l].failed)
  BY Launch, StayMoves DEF FinishKills
<1>2. UNCHANGED <<file, got, stuck, release, life, pending, output, cleanup>> /\ faults' \in 0 .. MaxFaults
  BY FaultCounts DEF FinishKills, lease, handle
<1>3. Framed(l)
  BY <1>0, <1>1, <1>2 DEF Framed, Moved, SandboxInv, TypeOK
<1>4. Scoped(l)'
  BY <1>0, <1>1, <1>2, Launch DEF Scoped
<1>5. Signalled(l)'
  BY <1>0, <1>1, <1>2, Launch DEF Signalled, Live
<1>6. Threaded(l)'
  BY <1>0, <1>1, <1>2, Launch DEF Moved, Threaded, Scoped, Ended, Alive, Live, Fresh,
     Started, Driving, Stopping, Leaving, FinishKills, At
<1>7. Leased(l)'
  BY <1>0, <1>1, <1>2, Launch, LeaseKept DEF Leased, Threaded, Scoped, Started,
     Driving, Stopping, Leaving, Alive, Live, FinishKills, At
<1> QED
  BY <1>3, <1>4, <1>5, <1>6, <1>7, LocalStep DEF LaunchOK

LEMMA DropKillsStep ==
  ASSUME SandboxInv, NEW l \in Launches, DropKills(l)
  PROVE  Framed(l) /\ SandboxInv'
<1>0. /\ harmed' = {} /\ UNCHANGED <<leader, inner, scope, taken>>
      /\ touched' \subseteq Launches
      /\ doomed' \subseteq Launches
      /\ \A m \in Launches : m # l =>
           (m \in touched') = (m \in touched) /\ (m \in doomed') = (m \in doomed)
      /\ (l \in doomed => l \in doomed')
      /\ \/ (l \in touched') = (l \in touched)
         \/ (l \in touched') = (l \in touched \/ Live(l)) /\ l \in doomed'
  <2>1. CASE UNCHANGED host
    BY <2>1 DEF SandboxInv, TypeOK, host
  <2>2. CASE life[l] # "Terminal" /\ SendGroup(l, "KILL")
    <3>1. leader[l] # "reaped"
      BY <2>2, Launch DEF DropKills, At, Threaded
    <3> QED
      BY <2>2, <3>1, GroupSignal
  <2> QED
    BY <2>1, <2>2 DEF DropKills
<1>1. Moved(l, "dropped", call[l].after, call[l].failed)
  BY Launch, GotoMoves DEF DropKills, Calls
<1>2. UNCHANGED <<file, got, stuck, release, life, pending, output, cleanup>> /\ faults' \in 0 .. MaxFaults
  BY FaultCounts DEF DropKills, lease, handle
<1>3. Framed(l)
  BY <1>0, <1>1, <1>2 DEF Framed, Moved, SandboxInv, TypeOK
<1>4. Scoped(l)'
  BY <1>0, <1>1, <1>2, Launch DEF Scoped
<1>5. Signalled(l)'
  BY <1>0, <1>1, <1>2, Launch DEF Signalled, Live
<1>6. Threaded(l)'
  BY <1>0, <1>1, <1>2, Launch DEF Moved, Threaded, Scoped, Ended, Alive, Live, Fresh,
     Started, Driving, Stopping, Leaving, DropKills, At
<1>7. Leased(l)'
  BY <1>0, <1>1, <1>2, Launch, LeaseKept DEF Leased, Threaded, Scoped, Started,
     Driving, Stopping, Leaving, Alive, Live, DropKills, At
<1> QED
  BY <1>3, <1>4, <1>5, <1>6, <1>7, LocalStep DEF LaunchOK

LEMMA WaitStep ==
  ASSUME SandboxInv, NEW l \in Launches, Wait(l)
  PROVE  Framed(l) /\ SandboxInv'
<1>1. Moved(l, IF life[l] # "Terminal" THEN "drive" ELSE IF cleanup[l] THEN "stop" ELSE "handle", "wait", life[l] = "Terminal" /\ output[l] = NoOutput)
  BY Launch, EnterMoves DEF Wait, Calls
<1>2. UNCHANGED <<lease, handle, host>> /\ (Fault \/ UNCHANGED faults)
  BY DEF Wait
<1>3. UNCHANGED <<release, life, cleanup, leader, inner, scope>>
  BY <1>2 DEF lease, handle, host
<1>4. Threaded(l)'
  BY <1>1, <1>3, Launch DEF Moved, Threaded, Scoped, Ended, Alive, Live, Fresh,
     Started, Driving, Stopping, Leaving, Wait, At
<1> QED
  BY <1>1, <1>2, <1>4, CallStep, Launch DEF Leased, Threaded, Started, Driving,
     Stopping, Leaving, Wait, At

(* Where a wait that ends goes on.                                          *)
LEMMA WaitMoves ==
  ASSUME SandboxInv, NEW l \in Launches, NEW failed \in BOOLEAN, WaitReturns(l, failed),
         call[l].pc \in Driving
  PROVE  \E pc \in {"unowned", "drop", "stop", "handle"} :
           /\ Moved(l, pc, call[l].after, call[l].failed \/ failed)
           /\ \/ call[l].after = "own" /\ ~failed /\ pc = "unowned"
              \/ call[l].after = "own" /\ failed /\ pc = "drop"
              \/ call[l].after = "quit" /\ pc = "drop"
              \/ call[l].after = "wait" /\ cleanup[l] /\ pc = "stop"
              \/ call[l].after = "wait" /\ ~cleanup[l] /\ pc = "handle"
<1> DEFINE pc == IF call[l].after = "own" /\ ~failed THEN "unowned"
                 ELSE IF call[l].after \in {"own", "quit"} THEN "drop"
                 ELSE IF cleanup[l] THEN "stop" ELSE "handle"
<1>1. call[l] \in Calls /\ call \in [Launches -> Calls] /\ cleanup[l] \in BOOLEAN
  BY DEF SandboxInv, TypeOK
<1>2. call[l].after \in {"own", "quit", "wait"}
  BY Launch DEF Threaded
<1>3. /\ \/ call[l].after = "own" /\ ~failed /\ pc = "unowned"
         \/ call[l].after = "own" /\ failed /\ pc = "drop"
         \/ call[l].after = "quit" /\ pc = "drop"
         \/ call[l].after = "wait" /\ cleanup[l] /\ pc = "stop"
         \/ call[l].after = "wait" /\ ~cleanup[l] /\ pc = "handle"
      /\ pc \in {"unowned", "drop", "stop", "handle"}
  <2>1. CASE call[l].after = "own" /\ ~failed
    BY <2>1
  <2>2. CASE call[l].after = "own" /\ failed
    BY <2>2
  <2>3. CASE call[l].after = "quit"
    BY <2>3
  <2>4. CASE call[l].after = "wait" /\ cleanup[l]
    BY <2>4
  <2>5. CASE call[l].after = "wait" /\ ~cleanup[l]
    BY <2>5
  <2> QED
    BY <1>1, <1>2, <2>1, <2>2, <2>3, <2>4, <2>5
<1>4. call' = [call EXCEPT ![l].pc = pc, ![l].failed = call[l].failed \/ failed]
  BY DEF WaitReturns
<1> HIDE DEF pc
<1> DEFINE f == call[l].failed \/ failed
<1>5. f \in BOOLEAN
  BY <1>1 DEF Calls
<1>6. call' = [call EXCEPT ![l].pc = pc, ![l].failed = f]
  BY <1>4
<1> HIDE DEF f
<1>7. call' = [call EXCEPT ![l] = [pc |-> pc, after |-> call[l].after, failed |-> f]]
  <2> DEFINE x == [call[l] EXCEPT !.pc = pc, !.failed = f]
  <2>1. call' = [call EXCEPT ![l] = x]
    BY <1>1, <1>6
  <2>2. x \in Calls /\ x.pc = pc /\ x.after = call[l].after /\ x.failed = f
    BY <1>1, <1>3, <1>5 DEF Calls
  <2> HIDE DEF x
  <2>3. x = [pc |-> x.pc, after |-> x.after, failed |-> x.failed]
    BY <2>2 DEF Calls
  <2> QED
    BY <2>1, <2>2, <2>3
<1>8. [pc |-> pc, after |-> call[l].after, failed |-> f] \in Calls
  BY <1>1, <1>3, <1>5 DEF Calls
<1>9. Moved(l, pc, call[l].after, f)
  BY <1>7, <1>8, EnterMoves
<1> QED
  BY <1>3, <1>9 DEF f

(* Every end of a wait: the leader as it is or reaped, with or without an   *)
(* error.                                                                   *)
LEMMA WaitEnds ==
  ASSUME SandboxInv, NEW l \in Launches, NEW failed \in BOOLEAN,
         call[l].pc \in Driving, WaitReturns(l, failed), Quarantining(l, failed),
         \/ failed /\ UNCHANGED <<life, leader, output>>
         \/ /\ Exited(l)
            /\ leader' = [leader EXCEPT ![l] = "reaped"]
            /\ life' = [life EXCEPT ![l] = "Terminal"]
            /\ \/ UNCHANGED output
               \/ output' = [output EXCEPT ![l] =
                    [why |-> Termination(l), success |-> leader[l] = "success"]],
         UNCHANGED <<file, got, stuck, pending, cleanup, inner, doomed, scope, taken, touched, harmed>>,
         Fault \/ UNCHANGED faults
  PROVE  Framed(l) /\ SandboxInv'
<1>1. PICK pc \in {"unowned", "drop", "stop", "handle"} :
        /\ Moved(l, pc, call[l].after, call[l].failed \/ failed)
        /\ \/ call[l].after = "own" /\ ~failed /\ pc = "unowned"
           \/ call[l].after = "own" /\ failed /\ pc = "drop"
           \/ call[l].after = "quit" /\ pc = "drop"
           \/ call[l].after = "wait" /\ cleanup[l] /\ pc = "stop"
           \/ call[l].after = "wait" /\ ~cleanup[l] /\ pc = "handle"
  BY WaitMoves
<1>2. faults' \in 0 .. MaxFaults
  BY FaultCounts
<1>3. /\ release' \in [Launches -> BOOLEAN]
      /\ \A m \in Launches : m # l => release'[m] = release[m]
      /\ call[l].after = "quit" \/ (call[l].after = "own" /\ failed) => ~release'[l]
      /\ ~(call[l].after = "quit" \/ (call[l].after = "own" /\ failed)) => release'[l] = release[l]
  BY DEF Quarantining, SandboxInv, TypeOK
<1>4. /\ leader' \in [Launches -> {"none", "starting", "inside", "success", "failure", "reaped"}]
      /\ life' \in [Launches -> Lifecycles] /\ output' \in [Launches -> Outputs]
      /\ \A m \in Launches : m # l =>
           leader'[m] = leader[m] /\ life'[m] = life[m] /\ output'[m] = output[m]
  <2>1. [why |-> Termination(l), success |-> leader[l] = "success"] \in Outputs
    BY DEF SandboxInv, TypeOK, Outputs, Termination
  <2> QED
    BY <2>1 DEF SandboxInv, TypeOK, Lifecycles
<1>5. Framed(l)
  BY <1>1, <1>2, <1>3, <1>4 DEF Framed, Moved, SandboxInv, TypeOK
<1>6. \/ UNCHANGED <<life, leader, output>> /\ failed
      \/ /\ leader[l] \in {"success", "failure"} /\ leader'[l] = "reaped" /\ life'[l] = "Terminal"
         /\ output'[l] = output[l]
            \/ output'[l] = [why |-> Termination(l), success |-> leader[l] = "success"]
  BY DEF Exited, SandboxInv, TypeOK
<1>7. Scoped(l)'
  BY <1>6, Launch DEF Scoped
<1>8. Signalled(l)'
  <2>1. CASE output'[l] = output[l]
    BY <1>6, <2>1, Launch DEF Signalled
  <2>2. CASE /\ output'[l] = [why |-> Termination(l), success |-> leader[l] = "success"]
             /\ leader'[l] = "reaped"
    <3>1. ASSUME output'[l] = [why |-> "Exited", success |-> TRUE]
          PROVE  l \notin touched
      <4>1. Termination(l) = "Exited" /\ leader[l] = "success"
        <5> DEFINE o == output'[l]
        <5>1. o.why = Termination(l) /\ o.success = (leader[l] = "success")
          BY <2>2
        <5>2. o.why = "Exited" /\ o.success = TRUE
          BY <3>1
        <5> HIDE DEF o
        <5> QED
          BY <5>1, <5>2
      <4>2. pending[l] = "None"
        BY <4>1 DEF Termination, SandboxInv, TypeOK
      <4> QED
        BY <4>1, <4>2, Launch DEF Signalled
    <3>2. l \in touched /\ pending[l] = "None" => l \in doomed
      BY Launch DEF Signalled
    <3> QED
      BY <2>2, <3>1, <3>2 DEF Signalled
  <2> QED
    BY <1>6, <2>1, <2>2
<1>9. Threaded(l)'
  BY <1>1, <1>3, <1>6, Launch DEF Moved, Threaded, Scoped, Ended, Alive, Live, Fresh, Started, Driving, Stopping,
     Leaving
<1>10. Leased(l)'
  BY <1>1, <1>6, Launch, LeaseKept DEF Leased, Started, Driving, Alive, Live
<1> QED
  BY <1>5, <1>7, <1>8, <1>9, <1>10, LocalStep DEF LaunchOK

LEMMA DriveFailsStep ==
  ASSUME SandboxInv, NEW l \in Launches, DriveFails(l)
  PROVE  Framed(l) /\ SandboxInv'
<1>1. call[l].pc \in Driving /\ WaitReturns(l, TRUE) /\ Quarantining(l, TRUE) /\ Fault
  BY DEF DriveFails, At, Driving
<1>2. UNCHANGED <<life, leader, output, file, got, stuck, pending, cleanup, inner, doomed, scope,
                  taken, touched, harmed>>
  BY DEF DriveFails, handle, host
<1> QED
  BY <1>1, <1>2, WaitEnds

LEMMA FinishStep ==
  ASSUME SandboxInv, NEW l \in Launches, Finish(l)
  PROVE  Framed(l) /\ SandboxInv'
<1>1. call[l].pc \in Driving
  BY DEF Finish, At, Driving
<1>2. /\ Exited(l) /\ leader' = [leader EXCEPT ![l] = "reaped"]
      /\ life' = [life EXCEPT ![l] = "Terminal"]
      /\ UNCHANGED <<file, got, stuck, pending, cleanup, inner, doomed, scope, taken, touched, harmed>>
  BY DEF Finish
<1>3. CASE /\ output' = [output EXCEPT ![l] =
                [why |-> Termination(l), success |-> leader[l] = "success"]]
           /\ WaitReturns(l, FALSE) /\ Quarantining(l, FALSE) /\ UNCHANGED faults
  BY <1>1, <1>2, <1>3, WaitEnds
<1>4. CASE Fault /\ WaitReturns(l, TRUE) /\ Quarantining(l, TRUE) /\ UNCHANGED output
  BY <1>1, <1>2, <1>4, WaitEnds
<1> QED
  BY <1>3, <1>4 DEF Finish

LEMMA StopFailsStep ==
  ASSUME SandboxInv, NEW l \in Launches, StopFails(l)
  PROVE  Framed(l) /\ SandboxInv'
<1>1. call[l].pc \in Stopping /\ (Fault \/ UNCHANGED faults)
  BY DEF StopFails, At, Stopping
<1>2. Moved(l, StopReturns(l), call[l].after, TRUE)
  <2>1. call[l] \in Calls /\ call \in [Launches -> Calls]
    BY DEF SandboxInv, TypeOK
  <2>2. StopReturns(l) \in {"drop", "handle"}
    BY DEF StopReturns
  <2> DEFINE r == StopReturns(l)
  <2>3. call' = [call EXCEPT ![l].pc = r, ![l].failed = TRUE]
    BY DEF StopFails, Fails
  <2> HIDE DEF r
  <2>4. call' = [call EXCEPT ![l] = [pc |-> r, after |-> call[l].after, failed |-> TRUE]]
    <3> DEFINE x == [call[l] EXCEPT !.pc = r, !.failed = TRUE]
    <3>1. call' = [call EXCEPT ![l] = x]
      BY <2>1, <2>3
    <3>2. r \in {"drop", "handle"}
      BY <2>2 DEF r
    <3>3. x \in Calls /\ x.pc = r /\ x.after = call[l].after /\ x.failed = TRUE
      BY <2>1, <3>2 DEF Calls
    <3> HIDE DEF x
    <3>4. x = [pc |-> x.pc, after |-> x.after, failed |-> x.failed]
      BY <3>3 DEF Calls
    <3> QED
      BY <3>1, <3>3, <3>4
  <2>5. [pc |-> r, after |-> call[l].after, failed |-> TRUE] \in Calls
    BY <2>1, <2>2 DEF Calls, r
  <2> QED
    BY <2>4, <2>5, EnterMoves DEF r
<1>3. /\ UNCHANGED <<file, got, stuck, life, pending, output, cleanup, leader, inner, doomed, scope,
                     taken, touched, harmed>>
      /\ release' = [release EXCEPT ![l] = FALSE]
  BY DEF StopFails, handle, host
<1>4. faults' \in 0 .. MaxFaults
  BY <1>1, FaultCounts
<1>5. Framed(l)
  BY <1>2, <1>3, <1>4 DEF Framed, Moved, SandboxInv, TypeOK
<1>6. ~release'[l]
  BY <1>3 DEF SandboxInv, TypeOK
<1>7. Scoped(l)' /\ Signalled(l)'
  BY <1>3, Launch DEF Scoped, Signalled
<1>8. Threaded(l)'
  BY <1>1, <1>2, <1>3, <1>6, Launch DEF StopReturns, Moved, Threaded, Scoped, Ended, Alive, Live, Fresh, Started, Driving, Stopping,
     Leaving
<1>9. Leased(l)'
  BY <1>1, <1>2, <1>3, Launch, LeaseKept DEF StopReturns, Leased, Started, Stopping, Alive, Live
<1> QED
  BY <1>5, <1>7, <1>8, <1>9, LocalStep DEF LaunchOK

LEMMA AcquireStep ==
  ASSUME SandboxInv, NEW l \in Launches, Acquire(l)
  PROVE  Framed(l) /\ SandboxInv'
<1>1. PICK c : /\ c = Least(CpusOf[l] \ got[l]) /\ file[c] = None
               /\ file' = [file EXCEPT ![c] = l] /\ got' = [got EXCEPT ![l] = @ \cup {c}]
  BY DEF Acquire
<1>2. call[l].pc = "acquire" /\ got[l] # CpusOf[l] /\ got[l] \subseteq CpusOf[l]
  BY Launch DEF Acquire, At, Leased, Held
<1>3. c \in CpusOf[l] /\ c \in Nat /\ c \in Cpus
  <2>1. CpusOf[l] \ got[l] # {} /\ CpusOf[l] \ got[l] \subseteq Nat
    BY <1>2, CpuAssumption
  <2>2. c \in CpusOf[l] \ got[l]
    BY <1>1, <2>1, LeastIsMember
  <2> QED
    BY <2>1, <2>2 DEF Cpus
<1>4. Moved(l, "acquire", call[l].after, call[l].failed)
  BY <1>2, StayMoves DEF Acquire
<1>5. /\ UNCHANGED <<stuck, release, life, pending, output, cleanup, leader, inner, doomed,
                     scope, taken, touched, harmed, faults>>
  BY DEF Acquire, handle, host
<1>6. /\ file' \in [Cpus -> Launches \cup {None}] /\ got' \in [Launches -> SUBSET Cpus]
      /\ file'[c] = l /\ got'[l] = got[l] \cup {c}
      /\ \A d \in Cpus : d # c => file'[d] = file[d]
      /\ \A m \in Launches : m # l => got'[m] = got[m]
  BY <1>1, <1>3 DEF SandboxInv, TypeOK
<1>7. Framed(l)
  BY <1>1, <1>4, <1>5, <1>6 DEF Framed, Moved, SandboxInv, TypeOK
<1>8. Scoped(l)' /\ Signalled(l)'
  BY <1>5, Launch DEF Scoped, Signalled
<1>9. Threaded(l)'
  BY <1>2, <1>4, <1>5, Launch DEF Moved, Threaded, Scoped, Ended, Alive, Live, Fresh, Started, Driving, Stopping,
     Leaving
<1>10. Leased(l)'
  <2>0. Held(l)
    BY Launch DEF Leased
  <2>1. Held(l)'
    BY <1>2, <1>3, <1>5, <1>6, <2>0 DEF Held
  <2>2. ~Alive(l)'
    BY <1>2, <1>5, Launch DEF Threaded, Scoped, Fresh, Alive, Live
  <2>3. call'[l].pc = "acquire"
    BY <1>4 DEF Moved
  <2>4. \E b \in Nat : \A d \in got'[l] : d <= b
    <3>1. PICK b \in Nat : \A d \in got[l] : d <= b
      BY Launch DEF Leased
    <3>2. got[l] \subseteq Nat
      BY <1>2, CpuAssumption
    <3>3. \A d \in got'[l] : d <= b + c
      BY <1>3, <1>6, <3>1, <3>2
    <3>4. b + c \in Nat
      BY <1>3
    <3> QED
      BY <3>3, <3>4
  <2> QED
    BY <2>1, <2>2, <2>3, <2>4 DEF Leased, Started, Driving, Stopping, Leaving
<1> QED
  BY <1>7, <1>8, <1>9, <1>10, LocalStep DEF LaunchOK

(* The file that rollback removes next is one of the reservation's.         *)
LEMMA GreatestIsHeld ==
  ASSUME SandboxInv, NEW l \in Launches, got[l] # {}
  PROVE  /\ Greatest(got[l]) \in got[l] /\ Greatest(got[l]) \in Cpus
         /\ file[Greatest(got[l])] = l
<1>1. got[l] \subseteq Nat /\ got[l] \subseteq Cpus
  BY Launch, CpuAssumption DEF Leased, Held, Cpus
<1>2. PICK b \in Nat : \A d \in got[l] : d <= b
  BY Launch DEF Leased
<1>3. \E x \in got[l] : \A y \in got[l] : x >= y
  BY <1>1, <1>2, GreatestNumber
<1>4. Greatest(got[l]) \in got[l]
  BY <1>3 DEF Greatest
<1> QED
  BY <1>1, <1>4, Launch DEF Leased, Held

(* A step of rollback that changes only the lease: its files become fewer.  *)
LEMMA ShrinkStep ==
  ASSUME SandboxInv, NEW l \in Launches, At(l, "rollback"),
         UNCHANGED <<call, release, life, pending, output, cleanup, leader, inner, doomed,
                     scope, taken, touched, harmed>>,
         Fault \/ UNCHANGED faults,
         got' \in [Launches -> SUBSET Cpus], got'[l] \subseteq got[l],
         \A m \in Launches : m # l => got'[m] = got[m],
         file' \in [Cpus -> Launches \cup {None}],
         \A d \in Cpus : file'[d] # file[d] => file[d] = l /\ file'[d] = None,
         stuck \subseteq stuck', stuck' \subseteq Cpus, Held(l)'
  PROVE  Framed(l) /\ SandboxInv'
<1>1. faults' \in 0 .. MaxFaults
  BY FaultCounts
<1>2. Moved(l, "rollback", call[l].after, call[l].failed)
  BY StayMoves DEF At
<1>3. Framed(l)
  BY <1>1, <1>2 DEF Framed, Moved, SandboxInv, TypeOK
<1>4. Scoped(l)' /\ Signalled(l)'
  BY Launch DEF Scoped, Signalled
<1>5. Threaded(l)'
  BY <1>2, Launch DEF At, Moved, Threaded, Scoped, Ended, Alive, Live, Fresh, Started,
     Driving, Stopping, Leaving
<1>6. Leased(l)'
  <2>1. ~Alive(l)'
    BY Launch DEF At, Threaded, Alive, Live
  <2>2. call'[l].pc = "rollback"
    BY <1>2 DEF Moved
  <2>3. \E b \in Nat : \A d \in got'[l] : d <= b
    BY Launch DEF Leased
  <2> QED
    BY <2>1, <2>2, <2>3 DEF Leased, Started, Driving, Stopping, Leaving
<1> QED
  BY <1>3, <1>4, <1>5, <1>6, LocalStep DEF LaunchOK

LEMMA RollbackStep ==
  ASSUME SandboxInv, NEW l \in Launches, Rollback(l)
  PROVE  Framed(l) /\ SandboxInv'
<1>1. PICK c : c = Greatest(got[l])
  OBVIOUS
<1>2. /\ At(l, "rollback")
      /\ file' = [file EXCEPT ![c] = None] /\ got' = [got EXCEPT ![l] = @ \ {c}]
      /\ UNCHANGED <<call, stuck, release, life, pending, output, cleanup, leader, inner,
                     doomed, scope, taken, touched, harmed, faults>>
  BY <1>1 DEF Rollback, handle, host
<1>3. c \in got[l] /\ c \in Cpus /\ file[c] = l
  BY <1>1, GreatestIsHeld DEF Rollback
<1>4. /\ file' \in [Cpus -> Launches \cup {None}] /\ got' \in [Launches -> SUBSET Cpus]
      /\ file'[c] = None /\ got'[l] = got[l] \ {c} /\ stuck \subseteq Cpus
      /\ \A d \in Cpus : d # c => file'[d] = file[d]
      /\ \A m \in Launches : m # l => got'[m] = got[m]
  BY <1>2, <1>3 DEF SandboxInv, TypeOK
<1>5. Held(l)'
  BY <1>2, <1>3, <1>4, Launch, FaultAssumption DEF Leased, Held
<1> QED
  BY <1>2, <1>3, <1>4, <1>5, ShrinkStep

LEMMA RollbackFailsStep ==
  ASSUME SandboxInv, NEW l \in Launches, RollbackFails(l)
  PROVE  Framed(l) /\ SandboxInv'
<1>1. PICK c : c = Greatest(got[l])
  OBVIOUS
<1>2. /\ At(l, "rollback") /\ Fault
      /\ stuck' = stuck \cup {c} /\ got' = [got EXCEPT ![l] = @ \ {c}]
      /\ UNCHANGED <<call, file, release, life, pending, output, cleanup, leader, inner,
                     doomed, scope, taken, touched, harmed>>
  BY <1>1 DEF RollbackFails, handle, host
<1>3. c \in got[l] /\ c \in Cpus
  BY <1>1, GreatestIsHeld DEF RollbackFails
<1>4. /\ file' \in [Cpus -> Launches \cup {None}] /\ got' \in [Launches -> SUBSET Cpus]
      /\ got'[l] = got[l] \ {c} /\ stuck' \subseteq Cpus
      /\ \A m \in Launches : m # l => got'[m] = got[m]
  BY <1>2, <1>3 DEF SandboxInv, TypeOK
<1>5. Held(l)'
  BY <1>2, <1>3, <1>4, Launch DEF Leased, Held
<1> QED
  BY <1>2, <1>4, <1>5, ShrinkStep

LEMMA AcquireLeavesFileStep ==
  ASSUME SandboxInv, NEW l \in Launches, AcquireLeavesFile(l)
  PROVE  Framed(l) /\ SandboxInv'
<1>1. PICK c : c = Least(CpusOf[l] \ got[l])
  OBVIOUS
<1>2. /\ call[l].pc = "acquire" /\ got[l] # CpusOf[l] /\ file[c] = None
      /\ file' = [file EXCEPT ![c] = l] /\ stuck' = stuck \cup {c}
      /\ Fault /\ Goto(l, "rollback")
      /\ UNCHANGED <<got, release, life, pending, output, cleanup, leader, inner, doomed,
                     scope, taken, touched, harmed>>
  BY <1>1 DEF AcquireLeavesFile, At, handle, host
<1>3. c \in CpusOf[l] /\ c \in Cpus
  <2>1. CpusOf[l] \ got[l] # {} /\ CpusOf[l] \ got[l] \subseteq Nat
    BY <1>2, Launch, CpuAssumption DEF Leased, Held
  <2> QED
    BY <1>1, <2>1, LeastIsMember DEF Cpus
<1>4. Moved(l, "rollback", call[l].after, call[l].failed)
  BY <1>2, GotoMoves DEF Calls
<1>5. faults' \in 0 .. MaxFaults
  BY <1>2, FaultCounts
<1>6. /\ file' \in [Cpus -> Launches \cup {None}] /\ file'[c] = l /\ stuck' \subseteq Cpus
      /\ \A d \in Cpus : d # c => file'[d] = file[d]
  BY <1>2, <1>3 DEF SandboxInv, TypeOK
<1>7. Framed(l)
  BY <1>2, <1>4, <1>5, <1>6 DEF Framed, Moved, SandboxInv, TypeOK
<1>8. Scoped(l)' /\ Signalled(l)'
  BY <1>2, Launch DEF Scoped, Signalled
<1>9. ~Alive(l)'
  BY <1>2, Launch DEF Threaded, Scoped, Fresh, Alive, Live
<1>10. Threaded(l)'
  BY <1>2, <1>4, <1>9, Launch DEF Moved, Threaded, Scoped, Ended, Live, Fresh, Started,
     Driving, Stopping, Leaving
<1>11. Leased(l)'
  <2>1. Held(l)'
    BY <1>2, <1>3, <1>6, Launch DEF Leased, Held
  <2>2. call'[l].pc = "rollback"
    BY <1>4 DEF Moved
  <2>3. \E b \in Nat : \A d \in got'[l] : d <= b
    BY <1>2, Launch DEF Leased
  <2> QED
    BY <1>9, <2>1, <2>2, <2>3 DEF Leased, Started, Driving, Stopping, Leaving
<1> QED
  BY <1>7, <1>8, <1>10, <1>11, LocalStep DEF LaunchOK

-----------------------------------------------------------------------------
(* The theorems.                                                            *)

LEMMA InitSandboxInv == Init => SandboxInv
<1> SUFFICES ASSUME Init PROVE SandboxInv
  OBVIOUS
<1>1. TypeOK
  BY FaultAssumption DEF Init, TypeOK, Calls, Lifecycles, Outputs, NoOutput
<1>2. ASSUME NEW l \in Launches PROVE LaunchOK(l)
  <2>1. /\ call[l] = [pc |-> "idle", after |-> "none", failed |-> FALSE]
        /\ got[l] = {} /\ life[l] = "None" /\ ~cleanup[l] /\ leader[l] = "none"
        /\ ~inner[l] /\ scope[l] = "none" /\ touched = {}
    BY DEF Init
  <2>2. Scoped(l)
    BY <2>1 DEF Scoped
  <2>3. Threaded(l)
    BY <2>1 DEF Threaded, Fresh, Started, Driving, Stopping, Leaving, Alive, Live
  <2>4. Signalled(l)
    <3>1. output[l] = NoOutput
      BY DEF Init
    <3> QED
      BY <2>1, <3>1 DEF Signalled, NoOutput
  <2>5. Leased(l)
    <3>1. \A c \in Cpus : file[c] # l
      BY FaultAssumption DEF Init
    <3>2. \A d \in got[l] : d <= 0
      BY <2>1
    <3> QED
      BY <2>1, <3>1, <3>2 DEF Leased, Held, Started, Driving, Stopping, Leaving, Alive, Live
  <2> QED
    BY <2>2, <2>3, <2>4, <2>5 DEF LaunchOK
<1> QED
  BY <1>1, <1>2 DEF SandboxInv, Init

(* What a call does by itself keeps the invariant. *)
LEMMA StepKeeps ==
  ASSUME SandboxInv, NEW l \in Launches, Step(l)
  PROVE  Framed(l) /\ SandboxInv'
<1>1. CASE Acquire(l) \/ Conflict(l) \/ AcquireFails(l) \/ AcquireLeavesFile(l)
           \/ Acquired(l) \/ Rollback(l) \/ RollbackFails(l) \/ RolledBack(l)
  BY <1>1, AcquireStep, ConflictStep, AcquireFailsStep, AcquireLeavesFileStep,
     AcquiredStep, RollbackStep, RollbackFailsStep, RolledBackStep
<1>2. CASE Bound(l) \/ Abandon(l) \/ Owned(l) \/ ExitedUnowned(l) \/ EndedUnowned(l)
           \/ Unproven(l)
  BY <1>2, BoundStep, AbandonStep, OwnedStep, ExitedUnownedStep, EndedUnownedStep,
     UnprovenStep
<1>3. CASE DriveExited(l) \/ DriveTimesOut(l) \/ DriveKills(l) \/ DriveFails(l)
           \/ FinishKills(l) \/ Finish(l)
  BY <1>3, DriveExitedStep, DriveTimesOutStep, DriveKillsStep, DriveFailsStep,
     FinishKillsStep, FinishStep
<1>4. CASE DropKills(l) \/ DropReaps(l) \/ StopFails(l) \/ StopFindsEnded(l)
           \/ StopFindsActive(l)
  BY <1>4, DropKillsStep, DropReapsStep, StopFailsStep, StopFindsEndedStep,
     StopFindsActiveStep
<1>5. CASE StopKills(l) \/ StopKillsNothing(l) \/ StopHalts(l)
  BY <1>5, StopKillsStep, StopKillsNothingStep, StopHaltsStep
<1> QED
  BY <1>1, <1>2, <1>3, <1>4, <1>5 DEF Step

(* So does what the host does. *)
LEMMA HostKeeps ==
  ASSUME SandboxInv, NEW l \in Launches, Host(l)
  PROVE  Framed(l) /\ SandboxInv'
  BY EnterScopeStep, ForkStep, LeaderExitsStep, InnerExitsStep, ScopeEndsStep DEF Host

LEMMA SandboxStutter ==
  ASSUME SandboxInv, UNCHANGED vars
  PROVE  SandboxInv'
<1>1. UNCHANGED <<call, file, got, stuck, release, life, pending, output, cleanup, leader, inner,
                  doomed, scope, taken, touched, harmed, faults>>
  BY DEF vars, lease, handle, host
<1>2. TypeOK'
  BY <1>1 DEF SandboxInv, TypeOK
<1>3. ASSUME NEW l \in Launches PROVE LaunchOK(l)'
  <2>1. Scoped(l)' /\ Signalled(l)'
    BY <1>1, Launch DEF Scoped, Signalled
  <2>2. Threaded(l)'
    BY <1>1, Launch DEF Threaded, Ended, Alive, Live
  <2>3. Leased(l)'
    BY <1>1, Launch DEF Leased, Held, Alive, Live
  <2> QED
    BY <2>1, <2>2, <2>3 DEF LaunchOK
<1> QED
  BY <1>1, <1>2, <1>3 DEF SandboxInv

(* The inductive invariant holds of every reachable state.                  *)
THEOREM SandboxInvariant == Spec => []SandboxInv
<1>1. Init => SandboxInv
  BY InitSandboxInv
<1>2. SandboxInv /\ [Next]_vars => SandboxInv'
  <2> SUFFICES ASSUME SandboxInv, [Next]_vars PROVE SandboxInv'
    OBVIOUS
  <2>1. CASE UNCHANGED vars
    BY <2>1, SandboxStutter
  <2>2. ASSUME NEW l \in Launches, Step(l) \/ Host(l) \/ Crash(l) PROVE SandboxInv'
    BY <2>2, StepKeeps, HostKeeps, CrashStep
  <2>3. ASSUME NEW l \in Launches, Owner(l) PROVE SandboxInv'
    BY <2>3, BeginAcquireStep, DropLeaseStep, SpawnStep, CancelStep, CancelFailsStep,
       WaitStep, DropStep DEF Owner
  <2> QED
    BY <2>1, <2>2, <2>3 DEF Next
<1> QED
  BY <1>1, <1>2, PTL DEF Spec

(* No CPU of a launch is free, or another's, while a process of the launch  *)
(* is alive.                                                                *)
LEMMA InvIdle == SandboxInv => FreeCpusAreIdle
<1> SUFFICES ASSUME SandboxInv PROVE FreeCpusAreIdle
  OBVIOUS
<1>1. ASSUME NEW l \in Launches, Alive(l), NEW c \in CpusOf[l] PROVE file[c] = l
  <2>1. c \in Cpus /\ c \in got[l]
    BY <1>1, Launch DEF Leased, Cpus
  <2> QED
    BY <2>1, Launch DEF Leased, Held
<1> QED
  BY <1>1 DEF FreeCpusAreIdle, SandboxInv

(* A CPU whose lease file is missing or belongs to someone else runs no     *)
(* process of the launch.                                                   *)
THEOREM IdleWhenFree == Spec => []FreeCpusAreIdle
  BY SandboxInvariant, InvIdle, PTL

(* No reaped process group and no stranger's scope is ever signalled.       *)
THEOREM StrangersSafe == Spec => []StrangersAreSafe
<1>1. SandboxInv => StrangersAreSafe
  BY DEF SandboxInv, StrangersAreSafe
<1> QED
  BY <1>1, SandboxInvariant, PTL

(* A dropped handle whose scope was seen to end leaves no lease file but    *)
(* those that could not be removed.                                         *)
THEOREM ReleasedByCleanup == Spec => []CleanupReleases
<1>1. SandboxInv => CleanupReleases
  BY Launch DEF CleanupReleases, At, Leased, Held
<1> QED
  BY <1>1, SandboxInvariant, PTL

=============================================================================
