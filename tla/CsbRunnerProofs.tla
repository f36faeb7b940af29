--------------------------- MODULE CsbRunnerProofs ---------------------------
(***************************************************************************)
(* The container-suite runner for any number of runs, launches and         *)
(* sessions: a run is spawned once, after its intent is durable; its       *)
(* outcome is journaled over an empty scope; Completed is earned; a slot   *)
(* is freed only with durable evidence.                                    *)
(*                                                                         *)
(* The containment half of the argument is SandboxProofs' invariant; here  *)
(* the journal of a run is tied to the launch that appended Running to it. *)
(***************************************************************************)
EXTENDS CsbRunner, SandboxProofs

(* The stages in which the Running event of the run is this launch's, and   *)
(* those in which the wait has returned without an error.                   *)
Settling == {"collect", "collected", "artifacts", "conclude", "concluded"}
Effective == {"spawn", "spawning", "running", "waiting"} \cup Settling
Committed == {"appended"} \cup Effective

Intended(l) == stage[l] \in Committed \/ life[l] # "None"

(* What the stage says of the containment. *)
Staged(l) ==
  /\ stage[l] = "idle" => life[l] = "None"
  /\ stage[l] \in {"append", "appended", "spawn"} => call[l].pc = "held"
  /\ stage[l] = "waiting" => call[l].after = "wait"
  /\ stage[l] \in Settling => call[l].pc = "handle" /\ scope[l] = "gone"
  /\ stage[l] = "conclude" /\ Succeeded(l) => run[l] \in stored

(* What the stage, and a spawned process, say of the journal. *)
Journaled(l) ==
  LET last == LastState(journal[run[l]])
  IN
  /\ stage[l] \in {"appended", "spawn", "spawning", "running", "waiting", "collect"} =>
       last = "Running"
  /\ stage[l] \in {"collected", "artifacts", "conclude"} => last = "Collecting"
  /\ stage[l] = "concluded" => last \in TerminalState
  /\ life[l] # "None" => last # "Prepared"
  /\ stage[l] \in Effective \/ life[l] # "None" => "Running" \in ToSet(promised[run[l]])
  /\ last \in TerminalState /\ life[l] # "None" => scope[l] = "gone"
  /\ last = "Completed" /\ life[l] # "None" => run[l] \in stored /\ Succeeded(l)

(* A journal begins with Planned and Prepared, and is ahead of its promises. *)
Recorded(r) ==
  /\ LastState(journal[r]) \in {"Prepared", "Running", "Collecting"} \cup TerminalState
  /\ "Running" \in ToSet(promised[r]) => "Running" \in ToSet(journal[r])
  /\ LastState(promised[r]) \in TerminalState => LastState(journal[r]) \in TerminalState

Unique ==
  \A l, m \in Launches : run[l] = run[m] /\ Intended(l) /\ Intended(m) => l = m

Evidence ==
  \A s \in Sessions : \A r \in admitted[s] \ active[s] : LastState(promised[r]) \in TerminalState

CsbTypes ==
  /\ run \in [Launches -> Runs]
  /\ session \in [Launches -> Sessions]
  /\ stage \in [Launches -> Stages]
  /\ active \in [Sessions -> SUBSET Runs]
  /\ admitted \in [Sessions -> SUBSET Runs]
  /\ stored \subseteq Runs
  /\ created = Runs /\ kept = Runs
  /\ journal \in [Runs -> Seq(ExecutionState)]
  /\ promised \in [Runs -> Seq(ExecutionState)]

CsbInv ==
  /\ SandboxInv
  /\ CsbTypes
  /\ \A l \in Launches : Staged(l) /\ Journaled(l)
  /\ \A r \in Runs : Recorded(r)
  /\ Unique
  /\ Evidence

-----------------------------------------------------------------------------
(* What the calls into the sandbox leave alone.                             *)

(* The places from which only the owner moves a launch. *)
Resting == {"idle", "held", "handle", "done", "dead"}

(* A spawned launch stays spawned, a wait stays a wait, an ended scope has  *)
(* ended for good and a success is not taken back.                          *)
Steady(l) ==
  /\ (life'[l] = "None") <=> (life[l] = "None")
  /\ call[l].after = "wait" /\ call[l].pc # "handle" => call'[l].after = "wait"
  /\ scope[l] = "gone" => scope'[l] = "gone"
  /\ Succeeded(l) => Succeeded(l)'

LEMMA AfterKept ==
  ASSUME SandboxInv, NEW l \in Launches, NEW pc, Goto(l, pc)
  PROVE  call'[l].after = call[l].after
<1>1. call[l] \in Calls /\ call \in [Launches -> Calls]
  BY Launch
<1>2. call'[l] = [call[l] EXCEPT !.pc = pc]
  BY <1>1 DEF Goto
<1> QED
  BY <1>1, <1>2 DEF Calls

LEMMA StepSteady ==
  ASSUME SandboxInv, NEW l \in Launches, Step(l)
  PROVE  call[l].pc \notin Resting /\ Steady(l)
<1>1. call[l] \in Calls /\ call \in [Launches -> Calls] /\ Threaded(l) /\ Signalled(l)
  BY Launch
<1>2. CASE Acquire(l) \/ Conflict(l) \/ AcquireFails(l) \/ AcquireLeavesFile(l)
           \/ Acquired(l) \/ Rollback(l) \/ RollbackFails(l) \/ RolledBack(l)
  <2>1. call[l].pc \in {"acquire", "rollback"}
    BY <1>2 DEF Acquire, Conflict, AcquireFails, AcquireLeavesFile, Acquired, Rollback,
       RollbackFails, RolledBack, At
  <2>2. UNCHANGED <<life, output, scope>>
    BY <1>2 DEF Acquire, Conflict, AcquireFails, AcquireLeavesFile, Acquired, Rollback,
       RollbackFails, RolledBack, handle, host
  <2>3. call'[l].after = call[l].after
    BY <1>2, AfterKept DEF Acquire, Conflict, AcquireFails, AcquireLeavesFile, Acquired,
       Rollback, RollbackFails, RolledBack
  <2> QED
    BY <2>1, <2>2, <2>3 DEF Steady, Resting, Succeeded
<1>3. CASE Bound(l) \/ Owned(l) \/ EndedUnowned(l) \/ Unproven(l)
  <2>1. call[l].pc \in {"bind", "own", "unowned"}
    BY <1>3 DEF Bound, Owned, EndedUnowned, Unproven, At
  <2>2. UNCHANGED <<life, output, scope>>
    BY <1>3 DEF Bound, Owned, EndedUnowned, Unproven, Quit, handle, host
  <2>3. call'[l].after = call[l].after
    BY <1>3, AfterKept DEF Bound, Owned, EndedUnowned, Unproven, Quit
  <2> QED
    BY <2>1, <2>2, <2>3 DEF Steady, Resting, Succeeded
<1>4. CASE Abandon(l) \/ ExitedUnowned(l)
  <2>1. call[l].pc \in {"bind", "own"}
    BY <1>4 DEF Abandon, ExitedUnowned, At
  <2>2. UNCHANGED <<output, scope>>
    BY <1>4 DEF Abandon, ExitedUnowned, CancelProcess, SendGroup, handle, host
  <2>3. (life'[l] = "None") <=> (life[l] = "None")
    BY <1>4 DEF Abandon, ExitedUnowned, CancelProcess, handle, SandboxInv, TypeOK
  <2>4. call[l].after # "wait"
    BY <1>1, <2>1 DEF Threaded
  <2> QED
    BY <2>1, <2>2, <2>3, <2>4 DEF Steady, Resting, Succeeded
<1>5. CASE DriveExited(l) \/ DriveTimesOut(l) \/ DriveKills(l) \/ FinishKills(l)
  <2>1. call[l].pc \in {"drive", "finish"}
    BY <1>5 DEF DriveExited, DriveTimesOut, DriveKills, FinishKills, At
  <2>2. UNCHANGED <<output, scope>>
    BY <1>5 DEF DriveExited, DriveTimesOut, DriveKills, FinishKills, SendGroup, handle, host
  <2>3. life[l] # "None"
    BY <1>1, <2>1 DEF Threaded, Started, Driving
  <2>4. life'[l] # "None"
    BY <1>5, <2>3 DEF DriveExited, DriveTimesOut, DriveKills, FinishKills, handle, SandboxInv,
       TypeOK
  <2>5. call'[l].after = call[l].after
    BY <1>5, AfterKept DEF DriveExited, DriveTimesOut, DriveKills, FinishKills
  <2> QED
    BY <2>1, <2>2, <2>3, <2>4, <2>5 DEF Steady, Resting, Succeeded
<1>6. CASE DriveFails(l) \/ Finish(l)
  <2>1. call[l].pc \in {"drive", "finish"}
    BY <1>6 DEF DriveFails, Finish, At
  <2>2. UNCHANGED scope
    BY <1>6 DEF DriveFails, Finish, host
  <2>3. life[l] # "None"
    BY <1>1, <2>1 DEF Threaded, Started, Driving
  <2>4. life'[l] # "None"
    BY <1>6, <2>3 DEF DriveFails, Finish, handle, SandboxInv, TypeOK
  <2>5. call'[l].after = call[l].after
    <3>1. PICK e \in BOOLEAN : WaitReturns(l, e)
      BY <1>6 DEF DriveFails, Finish
    <3>2. PICK pc : Moved(l, pc, call[l].after, call[l].failed \/ e)
      BY <2>1, <3>1, WaitMoves DEF Driving
    <3> QED
      BY <3>2 DEF Moved
  <2>6. Succeeded(l) => Succeeded(l)'
    BY <1>1, <1>6 DEF DriveFails, Finish, handle, Succeeded, Signalled, Exited
  <2> QED
    BY <2>1, <2>2, <2>3, <2>4, <2>5, <2>6 DEF Steady, Resting
<1>7. CASE DropKills(l) \/ DropReaps(l)
  <2>1. call[l].pc \in {"drop", "dropped"}
    BY <1>7 DEF DropKills, DropReaps, At
  <2>2. UNCHANGED <<life, output, scope>>
    BY <1>7 DEF DropKills, DropReaps, SendGroup, handle, host
  <2>3. call'[l].after = call[l].after
    BY <1>7, AfterKept DEF DropKills, DropReaps
  <2> QED
    BY <2>1, <2>2, <2>3 DEF Steady, Resting, Succeeded
<1>8. CASE StopFails(l) \/ StopFindsEnded(l) \/ StopFindsActive(l) \/ StopKills(l)
           \/ StopKillsNothing(l) \/ StopHalts(l)
  <2>1. call[l].pc \in Stopping
    BY <1>8 DEF StopFails, StopFindsEnded, StopFindsActive, StopKills, StopKillsNothing,
       StopHalts, At, Stopping
  <2>2. UNCHANGED <<life, output, scope>>
    BY <1>8 DEF StopFails, StopFindsEnded, StopFindsActive, StopKills, StopKillsNothing,
       StopHalts, Stopped, handle, host
  <2>3. call'[l].after = call[l].after
    <3>1. CASE StopFails(l)
      <4>1. call'[l] = [call[l] EXCEPT !.pc = StopReturns(l), !.failed = TRUE]
        BY <1>1, <3>1 DEF StopFails, Fails
      <4> QED
        BY <1>1, <4>1 DEF Calls
    <3>2. CASE ~StopFails(l)
      BY <1>8, <3>2, AfterKept DEF StopFindsEnded, StopFindsActive, StopKills,
         StopKillsNothing, StopHalts, Stopped
    <3> QED
      BY <3>1, <3>2
  <2> QED
    BY <2>1, <2>2, <2>3 DEF Steady, Resting, Succeeded, Stopping
<1> QED
  BY <1>2, <1>3, <1>4, <1>5, <1>6, <1>7, <1>8 DEF Step

LEMMA HostSteady ==
  ASSUME SandboxInv, NEW l \in Launches, Host(l)
  PROVE  Steady(l) /\ UNCHANGED <<call, output>>
<1>1. UNCHANGED <<call, life, output>>
  BY DEF Host, EnterScope, Fork, LeaderExits, InnerExits, ScopeEnds, handle
<1>2. scope[l] = "gone" => scope'[l] = "gone"
  <2>1. scope \in [Launches -> {"none", "active", "gone"}] /\ Scoped(l)
    BY Launch DEF SandboxInv, TypeOK
  <2>2. CASE EnterScope(l)
    BY <2>1, <2>2 DEF EnterScope, Scoped
  <2>3. CASE ScopeEnds(l)
    BY <2>1, <2>3 DEF ScopeEnds
  <2>4. CASE Fork(l) \/ LeaderExits(l) \/ InnerExits(l)
    BY <2>4 DEF Fork, LeaderExits, InnerExits
  <2> QED
    BY <2>2, <2>3, <2>4 DEF Host
<1> QED
  BY <1>1, <1>2 DEF Steady, Succeeded

-----------------------------------------------------------------------------
(* The journal.                                                             *)

LEMMA StoreWords ==
  /\ Store!ExecutionState = ExecutionState
  /\ \A a, b : Store!ValidTransition(a, b) <=> ValidTransition(a, b)
  /\ \A j : Store!LastState(j) = LastState(j)
  BY DEF Store!ExecutionState, Store!TerminalState, ExecutionState, TerminalState,
     Store!ValidTransition, ValidTransition, Store!NoState, NoState, Store!LastState, LastState

LEMMA Appended ==
  ASSUME NEW j \in Seq(ExecutionState), NEW e \in ExecutionState
  PROVE  /\ Append(j, e) \in Seq(ExecutionState)
         /\ LastState(Append(j, e)) = e
         /\ \A x : x \in ToSet(Append(j, e)) <=> x \in ToSet(j) \/ x = e
<1>1. /\ Append(j, e) \in Seq(ExecutionState) /\ Len(Append(j, e)) = Len(j) + 1
      /\ Append(j, e)[Len(j) + 1] = e /\ Len(j) \in Nat
      /\ \A i \in 1 .. Len(j) : Append(j, e)[i] = j[i]
  OBVIOUS
<1>2. Append(j, e) # <<>>
  BY <1>1
<1>3. LastState(Append(j, e)) = e
  BY <1>1, <1>2 DEF LastState
<1>4. 1 .. Len(j) + 1 = (1 .. Len(j)) \cup {Len(j) + 1}
  BY <1>1
<1>5. ASSUME NEW x PROVE x \in ToSet(Append(j, e)) <=> x \in ToSet(j) \/ x = e
  BY <1>1, <1>4 DEF ToSet
<1> QED
  BY <1>1, <1>3, <1>5

(* The last event is one of the events. *)
LEMMA LastIsEvent ==
  ASSUME NEW j \in Seq(ExecutionState), LastState(j) # NoState
  PROVE  LastState(j) \in ToSet(j)
<1>1. j # <<>> /\ LastState(j) = j[Len(j)]
  BY DEF LastState
<1>2. Len(j) \in 1 .. Len(j)
  BY <1>1
<1> QED
  BY <1>1, <1>2 DEF ToSet

(* An append adds one event to one journal, and acknowledges nothing. *)
LEMMA ExtendFacts ==
  ASSUME CsbTypes, NEW r \in Runs, NEW e \in ExecutionState, Store!Extend(r, e)
  PROVE  /\ ValidTransition(LastState(journal[r]), e)
         /\ journal' \in [Runs -> Seq(ExecutionState)]
         /\ UNCHANGED <<created, kept, promised>>
         /\ LastState(journal[r])' = e
         /\ ToSet(journal[r]) \subseteq ToSet(journal[r])'
         /\ \A q \in Runs : q # r => journal'[q] = journal[q]
<1>1. /\ ValidTransition(LastState(journal[r]), e)
      /\ journal' = [journal EXCEPT ![r] = Append(journal[r], e)]
      /\ UNCHANGED <<created, kept, promised>>
  BY StoreWords DEF Store!Extend
<1>2. journal[r] \in Seq(ExecutionState) /\ journal'[r] = Append(journal[r], e)
  BY <1>1 DEF CsbTypes
<1> QED
  BY <1>1, <1>2, Appended DEF CsbTypes

(* An acknowledgement promises one journal as it is. *)
LEMMA PromiseFacts ==
  ASSUME CsbTypes, NEW r \in Runs, Store!PromiseEvents(r)
  PROVE  /\ promised' \in [Runs -> Seq(ExecutionState)]
         /\ UNCHANGED <<created, kept, journal>>
         /\ promised'[r] = journal[r]
         /\ \A q \in Runs : q # r => promised'[q] = promised[q]
  BY DEF Store!PromiseEvents, CsbTypes

-----------------------------------------------------------------------------
(* Steps that leave the runner's own state alone.                           *)

LEMMA CallKeeps ==
  ASSUME CsbInv, SandboxInv', UNCHANGED csb,
         \A l \in Launches :
           /\ Steady(l)
           /\ stage[l] \in {"append", "appended", "spawn"} \cup Settling =>
                call'[l].pc = call[l].pc /\ output'[l] = output[l]
           /\ stage[l] = "waiting" => call'[l].after = "wait"
  PROVE  CsbInv'
<1>1. UNCHANGED <<run, session, stage, active, admitted, stored, created, journal, kept, promised>>
  BY DEF csb, fixed, sessions, store
<1>2. CsbTypes' /\ Evidence' /\ \A r \in Runs : Recorded(r)'
  BY <1>1 DEF CsbInv, CsbTypes, Evidence, Recorded
<1>3. ASSUME NEW l \in Launches PROVE Staged(l)' /\ Journaled(l)' /\ (Intended(l)' <=> Intended(l))
  <2>1. Steady(l) /\ Staged(l) /\ Journaled(l)
    BY DEF CsbInv
  <2>2. Staged(l)'
    BY <1>1, <2>1 DEF Staged, Steady, Succeeded, Settling
  <2>3. Journaled(l)'
    BY <1>1, <2>1 DEF Journaled, Steady
  <2>4. Intended(l)' <=> Intended(l)
    BY <1>1, <2>1 DEF Intended, Steady
  <2> QED
    BY <2>2, <2>3, <2>4
<1>4. Unique'
  BY <1>1, <1>3 DEF CsbInv, Unique
<1> QED
  BY <1>2, <1>3, <1>4 DEF CsbInv

(* Calls that go on, and the host. *)
LEMMA SandboxKeeps ==
  ASSUME CsbInv, NEW l \in Launches, Step(l) \/ Host(l), UNCHANGED csb
  PROVE  CsbInv'
<1>1. SandboxInv /\ Staged(l)
  BY DEF CsbInv
<1>2. Framed(l) /\ SandboxInv' /\ Steady(l)
  BY <1>1, StepKeeps, HostKeeps, StepSteady, HostSteady
<1>3. \A m \in Launches : m # l => Steady(m) /\ call'[m] = call[m] /\ output'[m] = output[m]
  BY <1>2 DEF Framed, Steady, Succeeded
<1>4. CASE Step(l)
  <2>1. call[l].pc \notin Resting
    BY <1>1, <1>4, StepSteady
  <2>2. stage[l] \notin {"append", "appended", "spawn"} \cup Settling
    BY <1>1, <2>1 DEF Staged, Resting
  <2>3. stage[l] = "waiting" => call'[l].after = "wait"
    BY <1>1, <1>2, <2>1 DEF Staged, Steady, Resting
  <2>4. \A m \in Launches : m # l /\ stage[m] = "waiting" => call'[m].after = "wait"
    BY <1>3 DEF CsbInv, Staged
  <2> QED
    BY <1>2, <1>3, <2>2, <2>3, <2>4, CallKeeps
<1>5. CASE Host(l)
  <2>1. UNCHANGED <<call, output>>
    BY <1>1, <1>5, HostSteady
  <2>2. \A m \in Launches : stage[m] = "waiting" => call'[m].after = "wait"
    BY <2>1 DEF CsbInv, Staged
  <2> QED
    BY <1>2, <1>3, <2>1, <2>2, CallKeeps
<1> QED
  BY <1>4, <1>5

(* The owner reserves CPUs, gives a reservation back or cancels. *)
LEMMA OwnerKeeps ==
  ASSUME CsbInv, NEW l \in Launches,
         (BeginAcquire(l) /\ UNCHANGED csb) \/ Refuse(l) \/ CallCancel(l)
  PROVE  CsbInv'
<1>1. SandboxInv /\ Staged(l) /\ UNCHANGED csb
  BY DEF CsbInv, Refuse, CallCancel
<1>2. Framed(l) /\ SandboxInv'
  BY <1>1, BeginAcquireStep, DropLeaseStep, CancelStep, CancelFailsStep DEF Refuse, CallCancel
<1>3. \A m \in Launches : m # l => Steady(m) /\ call'[m] = call[m] /\ output'[m] = output[m]
  BY <1>2 DEF Framed, Steady, Succeeded
<1>4. stage[l] \notin {"append", "appended", "spawn", "waiting"} \cup Settling
  BY <1>1, Launch DEF Staged, BeginAcquire, At, Refuse, CallCancel, In, Settling, Threaded, Fresh
<1>5. Steady(l)
  <2>1. UNCHANGED <<output, scope>>
    BY DEF BeginAcquire, Refuse, DropLease, CallCancel, Cancel, CancelFails, CancelProcess,
       SendGroup, handle, host
  <2>2. (life'[l] = "None") <=> (life[l] = "None")
    BY <1>1 DEF BeginAcquire, Refuse, DropLease, CallCancel, Cancel, CancelFails, CancelProcess,
       handle, SandboxInv, TypeOK
  <2>3. call'[l].after = call[l].after \/ call[l].pc = "handle"
    BY <1>1, AfterKept DEF BeginAcquire, Refuse, DropLease, CallCancel, Cancel, CancelFails, At
  <2> QED
    BY <2>1, <2>2, <2>3 DEF Steady, Succeeded
<1>6. \A m \in Launches : stage[m] = "waiting" => call'[m].after = "wait"
  BY <1>3, <1>4 DEF CsbInv, Staged
<1> QED
  BY <1>1, <1>2, <1>3, <1>4, <1>5, <1>6, CallKeeps

-----------------------------------------------------------------------------
(* Steps of one launch.  Only the launch that journaled Running writes to   *)
(* the journal of its run, and only into a Prepared journal comes a Running. *)

LEMMA LaunchKeeps ==
  ASSUME CsbInv, NEW l \in Launches, SandboxInv', CsbTypes', UNCHANGED fixed,
         \A m \in Launches : m # l =>
           /\ stage'[m] = stage[m] /\ call'[m] = call[m] /\ life'[m] = life[m]
           /\ scope'[m] = scope[m] /\ output'[m] = output[m],
         stored \subseteq stored',
         \A r \in Runs : r # run[l] => journal'[r] = journal[r],
         \A r \in Runs : "Running" \in ToSet(promised[r]) => "Running" \in ToSet(promised[r])',
         \/ journal'[run[l]] = journal[run[l]]
         \/ Intended(l) \/ LastState(journal[run[l]]) = "Prepared",
         Intended(l)' => Intended(l) \/ LastState(journal[run[l]]) = "Prepared",
         Staged(l)', Journaled(l)', \A r \in Runs : Recorded(r)', Evidence'
  PROVE  CsbInv'
<1>1. UNCHANGED <<run, session>>
  BY DEF fixed
<1>2. ASSUME NEW m \in Launches, Intended(m)
      PROVE  LastState(journal[run[m]]) # "Prepared"
  BY <1>2 DEF CsbInv, Journaled, Intended, Committed, Effective, Settling, TerminalState
<1>3. ASSUME NEW m \in Launches, m # l PROVE Staged(m)' /\ Journaled(m)'
  <2>1. /\ stage'[m] = stage[m] /\ call'[m] = call[m] /\ life'[m] = life[m]
        /\ scope'[m] = scope[m] /\ output'[m] = output[m]
    BY <1>3
  <2>2. Staged(m) /\ Journaled(m) /\ run[m] \in Runs
    BY DEF CsbInv, CsbTypes
  <2>3. Staged(m)'
    <3>1. Succeeded(m)' <=> Succeeded(m)
      BY <2>1 DEF Succeeded
    <3> QED
      BY <1>1, <2>1, <2>2, <3>1 DEF Staged
  <2>4. CASE ~Intended(m)
    BY <1>1, <2>1, <2>3, <2>4 DEF Journaled, Intended, Committed, Effective, Settling
  <2>5. CASE Intended(m)
    <3>1. journal'[run[m]] = journal[run[m]]
      <4>1. CASE run[m] # run[l]
        BY <2>2, <4>1
      <4>2. CASE run[m] = run[l]
        <5>1. ~Intended(l)
          BY <1>3, <2>5, <4>2 DEF CsbInv, Unique
        <5> QED
          BY <1>2, <2>5, <4>2, <5>1
      <4> QED
        BY <4>1, <4>2
    <3>2. Succeeded(m)' <=> Succeeded(m)
      BY <2>1 DEF Succeeded
    <3>3. "Running" \in ToSet(promised[run[m]]) => "Running" \in ToSet(promised[run[m]])'
      BY <1>1, <2>2
    <3> QED
      BY <1>1, <2>1, <2>2, <2>3, <3>1, <3>2, <3>3 DEF Journaled
  <2> QED
    BY <2>3, <2>4, <2>5
<1>4. Unique'
  <2>1. \A m \in Launches : m # l => (Intended(m)' <=> Intended(m))
    BY DEF Intended
  <2> QED
    BY <1>1, <1>2, <2>1 DEF CsbInv, Unique
<1> QED
  BY <1>3, <1>4 DEF CsbInv

(* Steps that move the stage, and neither the containment nor the store. *)
LEMMA StageKeeps ==
  ASSUME CsbInv, NEW l \in Launches, NEW where \in Stages, Become(l, where),
         UNCHANGED <<vars, fixed>>
  PROVE  /\ SandboxInv' /\ stage' \in [Launches -> Stages] /\ stage'[l] = where
         /\ UNCHANGED <<call, life, scope, output, run, session>>
         /\ \A m \in Launches : m # l => stage'[m] = stage[m]
         /\ Succeeded(l)' <=> Succeeded(l)
<1>1. SandboxInv'
  BY SandboxStutter DEF CsbInv
<1>2. UNCHANGED <<call, life, scope, output, run, session>>
  BY DEF vars, handle, host, fixed
<1> QED
  BY <1>1, <1>2 DEF CsbInv, CsbTypes, Become, Succeeded

LEMMA StartKeeps ==
  ASSUME CsbInv, NEW l \in Launches, Start(l)
  PROVE  CsbInv'
<1>1. /\ SandboxInv' /\ stage' \in [Launches -> Stages] /\ stage'[l] = "append"
      /\ UNCHANGED <<call, life, scope, output, run, session>>
      /\ \A m \in Launches : m # l => stage'[m] = stage[m]
      /\ Succeeded(l)' <=> Succeeded(l)
  BY StageKeeps DEF Start, Stages
<1>2. UNCHANGED <<fixed, stored, created, journal, kept, promised>>
  BY DEF Start, store
<1>3. CsbTypes'
  BY <1>1, <1>2 DEF CsbInv, CsbTypes, Start
<1>4. \A r \in Runs : Recorded(r)'
  BY <1>2 DEF CsbInv, Recorded
<1>5. Evidence'
  BY <1>2 DEF CsbInv, CsbTypes, Evidence, Start
<1>6. Staged(l)' /\ Journaled(l)' /\ ~Intended(l)'
  <2>1. stage[l] = "idle" /\ call[l].pc = "held" /\ life[l] = "None"
    BY DEF Start, In, At, CsbInv, Staged
  <2> QED
    BY <1>1, <2>1 DEF Staged, Journaled, Intended, Committed, Effective, Settling
<1> QED
  BY <1>1, <1>2, <1>3, <1>4, <1>5, <1>6, LaunchKeeps

LEMMA AppendIntentKeeps ==
  ASSUME CsbInv, NEW l \in Launches, AppendIntent(l)
  PROVE  CsbInv'
<1>1. /\ SandboxInv' /\ stage' \in [Launches -> Stages] /\ stage'[l] = "appended"
      /\ UNCHANGED <<call, life, scope, output, run, session>>
      /\ \A m \in Launches : m # l => stage'[m] = stage[m]
      /\ Succeeded(l)' <=> Succeeded(l)
  BY StageKeeps DEF AppendIntent, Stages
<1>2. run[l] \in Runs /\ CsbTypes
  BY DEF CsbInv, CsbTypes
<1>3. /\ LastState(journal[run[l]]) = "Prepared"
      /\ journal' \in [Runs -> Seq(ExecutionState)]
      /\ UNCHANGED <<created, kept, promised>>
      /\ LastState(journal[run[l]])' = "Running"
      /\ ToSet(journal[run[l]]) \subseteq ToSet(journal'[run[l]])
      /\ \A q \in Runs : q # run[l] => journal'[q] = journal[q]
  <2>1. Store!Extend(run[l], "Running") /\ "Running" \in ExecutionState /\ run' = run
    BY <1>1 DEF AppendIntent, ExecutionState
  <2>2. /\ ValidTransition(LastState(journal[run[l]]), "Running")
        /\ journal' \in [Runs -> Seq(ExecutionState)]
        /\ UNCHANGED <<created, kept, promised>>
        /\ LastState(journal[run[l]])' = "Running"
        /\ ToSet(journal[run[l]]) \subseteq ToSet(journal[run[l]])'
        /\ \A q \in Runs : q # run[l] => journal'[q] = journal[q]
    BY <1>2, <2>1, ExtendFacts
  <2>3. LastState(journal[run[l]]) = "Prepared"
    BY <2>2 DEF ValidTransition
  <2> QED
    BY <2>1, <2>2, <2>3
<1>4. UNCHANGED <<fixed, stored, active, admitted>>
  BY DEF AppendIntent, sessions
<1>5. CsbTypes'
  BY <1>1, <1>3, <1>4 DEF CsbInv, CsbTypes
<1>6. ASSUME NEW r \in Runs PROVE Recorded(r)'
  BY <1>1, <1>3 DEF CsbInv, Recorded, TerminalState
<1>7. Evidence'
  BY <1>3, <1>4 DEF CsbInv, Evidence
<1>8. Staged(l)' /\ Journaled(l)'
  <2>1. call[l].pc = "held" /\ life[l] = "None"
    BY Launch DEF AppendIntent, At, CsbInv, Threaded, Fresh
  <2> QED
    BY <1>1, <1>3, <2>1 DEF Staged, Journaled, Committed, Effective, Settling
<1> QED
  BY <1>1, <1>3, <1>4, <1>5, <1>6, <1>7, <1>8, LaunchKeeps

LEMMA AckIntentKeeps ==
  ASSUME CsbInv, NEW l \in Launches, AckIntent(l)
  PROVE  CsbInv'
<1>1. /\ SandboxInv' /\ stage' \in [Launches -> Stages] /\ stage'[l] = "spawn"
      /\ UNCHANGED <<call, life, scope, output, run, session>>
      /\ \A m \in Launches : m # l => stage'[m] = stage[m]
      /\ Succeeded(l)' <=> Succeeded(l)
  BY StageKeeps DEF AckIntent, Stages
<1>2. run[l] \in Runs /\ CsbTypes
  BY DEF CsbInv, CsbTypes
<1>3. /\ promised' \in [Runs -> Seq(ExecutionState)]
      /\ UNCHANGED <<created, kept, journal>>
      /\ promised'[run[l]] = journal[run[l]]
      /\ \A q \in Runs : q # run[l] => promised'[q] = promised[q]
  BY <1>2, PromiseFacts DEF AckIntent
<1>4. UNCHANGED <<fixed, stored, active, admitted>>
  BY DEF AckIntent, sessions
<1>5. /\ call[l].pc = "held" /\ life[l] = "None" /\ Intended(l)
      /\ LastState(journal[run[l]]) = "Running"
  BY Launch DEF AckIntent, In, At, CsbInv, Threaded, Fresh, Journaled, Intended, Committed
<1>6. "Running" \in ToSet(journal[run[l]])
  <2>1. journal[run[l]] \in Seq(ExecutionState)
    BY <1>2 DEF CsbTypes
  <2> QED
    BY <1>5, <2>1, LastIsEvent DEF NoState
<1>7. CsbTypes'
  BY <1>1, <1>3, <1>4 DEF CsbInv, CsbTypes
<1>8. ASSUME NEW r \in Runs PROVE Recorded(r)'
  BY <1>3 DEF CsbInv, Recorded
<1>9. Evidence'
  BY <1>2, <1>3, <1>4 DEF CsbInv, Evidence, Recorded, CsbTypes
<1>10. Staged(l)' /\ Journaled(l)'
  BY <1>1, <1>3, <1>5, <1>6 DEF Staged, Journaled, Effective, Settling
<1>11. \A r \in Runs : "Running" \in ToSet(promised[r]) => "Running" \in ToSet(promised'[r])
  BY <1>3, <1>6
<1> QED
  BY <1>1, <1>3, <1>4, <1>5, <1>7, <1>8, <1>9, <1>10, <1>11, LaunchKeeps

LEMMA SpawnReturnsKeeps ==
  ASSUME CsbInv, NEW l \in Launches, SpawnReturns(l)
  PROVE  CsbInv'
<1>1. /\ SandboxInv' /\ stage' \in [Launches -> Stages] /\ stage'[l] = "running"
      /\ UNCHANGED <<call, life, scope, output, run, session>>
      /\ \A m \in Launches : m # l => stage'[m] = stage[m]
      /\ Succeeded(l)' <=> Succeeded(l)
  BY StageKeeps DEF SpawnReturns, Stages
<1>2. run[l] \in Runs /\ CsbTypes
  BY DEF CsbInv, CsbTypes
<1>3. UNCHANGED <<fixed, stored, active, admitted, created, journal, kept, promised>>
  BY DEF SpawnReturns, sessions, store
<1>4. CsbTypes' /\ Evidence' /\ \A r \in Runs : Recorded(r)'
  BY <1>1, <1>3 DEF CsbInv, CsbTypes, Evidence, Recorded
<1>5. Staged(l) /\ Journaled(l) /\ Intended(l)
  BY DEF SpawnReturns, In, CsbInv, Intended, Committed, Effective
<1>6. stage[l] = "spawning"
  BY DEF SpawnReturns, In
<1>7. Staged(l)' /\ Journaled(l)'
  BY <1>1, <1>3, <1>5, <1>6 DEF SpawnReturns, In, Staged, Journaled, Effective, Settling
<1> QED
  BY <1>1, <1>3, <1>4, <1>5, <1>7, LaunchKeeps

LEMMA SpawnReturnsErrorKeeps ==
  ASSUME CsbInv, NEW l \in Launches, SpawnReturnsError(l)
  PROVE  CsbInv'
<1>1. /\ SandboxInv' /\ stage' \in [Launches -> Stages] /\ stage'[l] = "over"
      /\ UNCHANGED <<call, life, scope, output, run, session>>
      /\ \A m \in Launches : m # l => stage'[m] = stage[m]
      /\ Succeeded(l)' <=> Succeeded(l)
  BY StageKeeps DEF SpawnReturnsError, Stages
<1>2. run[l] \in Runs /\ CsbTypes
  BY DEF CsbInv, CsbTypes
<1>3. UNCHANGED <<fixed, stored, active, admitted, created, journal, kept, promised>>
  BY DEF SpawnReturnsError, sessions, store
<1>4. CsbTypes' /\ Evidence' /\ \A r \in Runs : Recorded(r)'
  BY <1>1, <1>3 DEF CsbInv, CsbTypes, Evidence, Recorded
<1>5. Staged(l) /\ Journaled(l) /\ Intended(l)
  BY DEF SpawnReturnsError, In, CsbInv, Intended, Committed, Effective
<1>6. stage[l] = "spawning"
  BY DEF SpawnReturnsError, In
<1>7. Staged(l)' /\ Journaled(l)'
  BY <1>1, <1>3, <1>5, <1>6 DEF SpawnReturnsError, In, Staged, Journaled, Effective, Settling
<1> QED
  BY <1>1, <1>3, <1>4, <1>5, <1>7, LaunchKeeps

LEMMA WaitSucceedsKeeps ==
  ASSUME CsbInv, NEW l \in Launches, WaitSucceeds(l)
  PROVE  CsbInv'
<1>1. /\ SandboxInv' /\ stage' \in [Launches -> Stages] /\ stage'[l] = "collect"
      /\ UNCHANGED <<call, life, scope, output, run, session>>
      /\ \A m \in Launches : m # l => stage'[m] = stage[m]
      /\ Succeeded(l)' <=> Succeeded(l)
  BY StageKeeps DEF WaitSucceeds, Stages
<1>2. run[l] \in Runs /\ CsbTypes
  BY DEF CsbInv, CsbTypes
<1>3. UNCHANGED <<fixed, stored, active, admitted, created, journal, kept, promised>>
  BY DEF WaitSucceeds, sessions, store
<1>4. CsbTypes' /\ Evidence' /\ \A r \in Runs : Recorded(r)'
  BY <1>1, <1>3 DEF CsbInv, CsbTypes, Evidence, Recorded
<1>5. Staged(l) /\ Journaled(l) /\ Intended(l)
  BY DEF WaitSucceeds, In, CsbInv, Intended, Committed, Effective
<1>6. call[l].pc = "handle" /\ scope[l] = "gone"
  BY <1>5, Launch DEF WaitSucceeds, In, At, CsbInv, Staged, Threaded, Ended
<1>7. Staged(l)' /\ Journaled(l)'
  BY <1>1, <1>3, <1>5, <1>6 DEF WaitSucceeds, In, Staged, Journaled, Effective, Settling
<1> QED
  BY <1>1, <1>3, <1>4, <1>5, <1>7, LaunchKeeps

LEMMA PutArtifactsKeeps ==
  ASSUME CsbInv, NEW l \in Launches, PutArtifacts(l)
  PROVE  CsbInv'
<1>1. /\ SandboxInv' /\ stage' \in [Launches -> Stages] /\ stage'[l] = "conclude"
      /\ UNCHANGED <<call, life, scope, output, run, session>>
      /\ \A m \in Launches : m # l => stage'[m] = stage[m]
      /\ Succeeded(l)' <=> Succeeded(l)
  BY StageKeeps DEF PutArtifacts, Stages
<1>2. run[l] \in Runs /\ CsbTypes
  BY DEF CsbInv, CsbTypes
<1>3. /\ UNCHANGED <<fixed, active, admitted, created, journal, kept, promised>>
      /\ stored \subseteq stored' /\ stored' \subseteq Runs
      /\ Succeeded(l) => run[l] \in stored'
  BY <1>2 DEF PutArtifacts, sessions, store, CsbTypes
<1>4. CsbTypes' /\ Evidence' /\ \A r \in Runs : Recorded(r)'
  BY <1>1, <1>3 DEF CsbInv, CsbTypes, Evidence, Recorded
<1>5. Staged(l) /\ Journaled(l) /\ Intended(l) /\ stage[l] = "artifacts"
  BY DEF PutArtifacts, In, CsbInv, Intended, Committed, Effective, Settling
<1>6. Staged(l)' /\ Journaled(l)'
  BY <1>1, <1>3, <1>5 DEF Staged, Journaled, Effective, Settling, TerminalState
<1> QED
  BY <1>1, <1>3, <1>4, <1>5, <1>6, LaunchKeeps

LEMMA CollectKeeps ==
  ASSUME CsbInv, NEW l \in Launches, Collect(l)
  PROVE  CsbInv'
<1>1. /\ SandboxInv' /\ stage' \in [Launches -> Stages] /\ stage'[l] = "collected"
      /\ UNCHANGED <<call, life, scope, output, run, session>>
      /\ \A m \in Launches : m # l => stage'[m] = stage[m]
      /\ Succeeded(l)' <=> Succeeded(l)
  BY StageKeeps DEF Collect, Stages
<1>2. run[l] \in Runs /\ CsbTypes
  BY DEF CsbInv, CsbTypes
<1>3. /\ journal' \in [Runs -> Seq(ExecutionState)]
      /\ UNCHANGED <<created, kept, promised>>
      /\ LastState(journal[run[l]])' = "Collecting"
      /\ ToSet(journal[run[l]]) \subseteq ToSet(journal'[run[l]])
      /\ \A q \in Runs : q # run[l] => journal'[q] = journal[q]
  BY <1>1, <1>2, ExtendFacts DEF Collect, ExecutionState
<1>4. UNCHANGED <<fixed, stored, active, admitted>>
  BY DEF Collect, sessions
<1>5. /\ Staged(l) /\ Journaled(l) /\ Intended(l) /\ stage[l] = "collect"
      /\ LastState(journal[run[l]]) = "Running"
  BY DEF Collect, In, CsbInv, Journaled, Intended, Committed, Effective, Settling
<1>6. CsbTypes'
  BY <1>1, <1>3, <1>4 DEF CsbInv, CsbTypes
<1>7. ASSUME NEW r \in Runs PROVE Recorded(r)'
  BY <1>1, <1>3, <1>5 DEF CsbInv, Recorded, TerminalState
<1>8. Evidence'
  BY <1>3, <1>4 DEF CsbInv, Evidence
<1>9. Staged(l)' /\ Journaled(l)'
  BY <1>1, <1>3, <1>4, <1>5 DEF Staged, Journaled, Effective, Settling, TerminalState
<1> QED
  BY <1>1, <1>3, <1>4, <1>5, <1>6, <1>7, <1>8, <1>9, LaunchKeeps

LEMMA AckCollectKeeps ==
  ASSUME CsbInv, NEW l \in Launches, AckCollect(l)
  PROVE  CsbInv'
<1>1. /\ SandboxInv' /\ stage' \in [Launches -> Stages] /\ stage'[l] = "artifacts"
      /\ UNCHANGED <<call, life, scope, output, run, session>>
      /\ \A m \in Launches : m # l => stage'[m] = stage[m]
      /\ Succeeded(l)' <=> Succeeded(l)
  BY StageKeeps DEF AckCollect, Stages
<1>2. run[l] \in Runs /\ CsbTypes
  BY DEF CsbInv, CsbTypes
<1>3. /\ promised' \in [Runs -> Seq(ExecutionState)]
      /\ UNCHANGED <<created, kept, journal>>
      /\ promised'[run[l]] = journal[run[l]]
      /\ \A q \in Runs : q # run[l] => promised'[q] = promised[q]
  BY <1>2, PromiseFacts DEF AckCollect
<1>4. UNCHANGED <<fixed, stored, active, admitted>>
  BY DEF AckCollect, sessions
<1>5. Staged(l) /\ Journaled(l) /\ Intended(l) /\ stage[l] = "collected"
  BY DEF AckCollect, In, CsbInv, Intended, Committed, Effective, Settling
<1>6. \A r \in Runs : "Running" \in ToSet(promised[r]) => "Running" \in ToSet(promised'[r])
  BY <1>2, <1>3 DEF CsbInv, Recorded
<1>7. CsbTypes'
  BY <1>1, <1>3, <1>4 DEF CsbInv, CsbTypes
<1>8. ASSUME NEW r \in Runs PROVE Recorded(r)'
  BY <1>3 DEF CsbInv, Recorded
<1>9. Evidence'
  BY <1>2, <1>3, <1>4 DEF CsbInv, Evidence, Recorded, CsbTypes
<1>10. Staged(l)' /\ Journaled(l)'
  BY <1>1, <1>2, <1>3, <1>4, <1>5, <1>6 DEF Staged, Journaled, Effective, Settling
<1> QED
  BY <1>1, <1>3, <1>4, <1>5, <1>6, <1>7, <1>8, <1>9, <1>10, LaunchKeeps

(* Only a success is journaled as Completed, and its artifacts are stored. *)
LEMMA ConcludeKeeps ==
  ASSUME CsbInv, NEW l \in Launches, Conclude(l)
  PROVE  CsbInv'
<1>1. /\ SandboxInv' /\ stage' \in [Launches -> Stages] /\ stage'[l] = "concluded"
      /\ UNCHANGED <<call, life, scope, output, run, session>>
      /\ \A m \in Launches : m # l => stage'[m] = stage[m]
      /\ Succeeded(l)' <=> Succeeded(l)
  BY StageKeeps DEF Conclude, Stages
<1>2. run[l] \in Runs /\ CsbTypes
  BY DEF CsbInv, CsbTypes
<1>3. /\ Outcome(l) \in TerminalState
      /\ Outcome(l) = "Completed" => Succeeded(l)
  BY DEF Outcome, TerminalState, Succeeded
<1>4. /\ journal' \in [Runs -> Seq(ExecutionState)]
      /\ UNCHANGED <<created, kept, promised>>
      /\ LastState(journal[run[l]])' = Outcome(l)
      /\ ToSet(journal[run[l]]) \subseteq ToSet(journal'[run[l]])
      /\ \A q \in Runs : q # run[l] => journal'[q] = journal[q]
  <2> DEFINE e == Outcome(l)
  <2>1. e \in ExecutionState /\ Store!Extend(run[l], e)
    BY <1>3 DEF Conclude, ExecutionState
  <2> HIDE DEF e
  <2>2. /\ journal' \in [Runs -> Seq(ExecutionState)]
        /\ UNCHANGED <<created, kept, promised>>
        /\ LastState(journal[run[l]])' = e
        /\ ToSet(journal[run[l]]) \subseteq ToSet(journal'[run[l]])
        /\ \A q \in Runs : q # run[l] => journal'[q] = journal[q]
    BY <1>1, <1>2, <2>1, ExtendFacts
  <2> QED
    BY <2>2 DEF e
<1>5. UNCHANGED <<fixed, stored, active, admitted>>
  BY DEF Conclude, sessions
<1>6. Staged(l) /\ Journaled(l) /\ Intended(l) /\ stage[l] = "conclude"
  BY DEF Conclude, In, CsbInv, Intended, Committed, Effective, Settling
<1>7. CsbTypes'
  BY <1>1, <1>4, <1>5 DEF CsbInv, CsbTypes
<1>8. ASSUME NEW r \in Runs PROVE Recorded(r)'
  BY <1>1, <1>3, <1>4 DEF CsbInv, Recorded, TerminalState
<1>9. Evidence'
  BY <1>4, <1>5 DEF CsbInv, Evidence
<1>10. Staged(l)'
  BY <1>1, <1>5, <1>6 DEF Staged, Settling
<1>11. Journaled(l)'
  BY <1>1, <1>3, <1>4, <1>5, <1>6 DEF Staged, Journaled, Effective, Settling, TerminalState
<1> QED
  BY <1>1, <1>4, <1>5, <1>6, <1>7, <1>8, <1>9, <1>10, <1>11, LaunchKeeps

-----------------------------------------------------------------------------
(* Steps that also move the thread of the launch.                           *)

LEMMA LeaseDrops ==
  ASSUME SandboxInv, NEW l \in Launches, At(l, "held"), Goto(l, "rollback"),
         Fault \/ UNCHANGED faults, UNCHANGED <<lease, handle, host>>
  PROVE  Framed(l) /\ SandboxInv'
<1>1. Moved(l, "rollback", call[l].after, call[l].failed)
  BY GotoMoves DEF Calls
<1>2. UNCHANGED <<release, life, cleanup, leader, inner, scope>>
  BY DEF lease, handle, host
<1>3. Threaded(l)'
  BY <1>1, <1>2, Launch DEF Moved, Threaded, Scoped, Ended, Alive, Live, Fresh, Started,
     Driving, Stopping, Leaving, At
<1> QED
  BY <1>1, <1>3, CallStep DEF Started, Driving, Stopping, Leaving

LEMMA HandleDrops ==
  ASSUME SandboxInv, NEW l \in Launches, At(l, "handle"),
         Enter(l, IF cleanup[l] THEN "stop" ELSE "drop", "drop"),
         Fault \/ UNCHANGED faults, UNCHANGED <<lease, handle, host>>
  PROVE  Framed(l) /\ SandboxInv'
<1>1. Moved(l, IF cleanup[l] THEN "stop" ELSE "drop", "drop", FALSE)
  BY EnterMoves DEF Enter, Calls
<1>2. UNCHANGED <<release, life, cleanup, leader, inner, scope>>
  BY DEF lease, handle, host
<1>3. Threaded(l)'
  BY <1>1, <1>2, Launch DEF Moved, Threaded, Scoped, Ended, Alive, Live, Fresh, Started,
     Driving, Stopping, Leaving, At
<1> QED
  BY <1>1, <1>3, CallStep, Launch DEF Leased, Started, Driving, Stopping, Leaving, At

LEMMA IntentFailsKeeps ==
  ASSUME CsbInv, NEW l \in Launches, IntentFails(l)
  PROVE  CsbInv'
<1>1. Framed(l) /\ SandboxInv'
  BY LeaseDrops DEF CsbInv, IntentFails
<1>2. /\ stage' = [stage EXCEPT ![l] = "idle"]
      /\ UNCHANGED <<fixed, run, session, stored, created, journal, kept, promised, life>>
  BY DEF IntentFails, Become, handle, store, fixed
<1>3. stage' \in [Launches -> Stages] /\ stage'[l] = "idle" /\ call[l].pc = "held"
  BY <1>2 DEF CsbInv, CsbTypes, Stages, IntentFails, At
<1>4. life'[l] = "None"
  BY <1>2, <1>3, Launch DEF CsbInv, Threaded, Fresh
<1>5. CsbTypes'
  BY <1>2, <1>3 DEF CsbInv, CsbTypes, IntentFails
<1>6. \A r \in Runs : Recorded(r)'
  BY <1>2 DEF CsbInv, Recorded
<1>7. Evidence'
  BY <1>2 DEF CsbInv, CsbTypes, Evidence, IntentFails
<1>8. Staged(l)' /\ Journaled(l)' /\ ~Intended(l)'
  BY <1>3, <1>4 DEF Staged, Journaled, Intended, Committed, Effective, Settling
<1>9. \A m \in Launches : m # l =>
        /\ stage'[m] = stage[m] /\ call'[m] = call[m] /\ life'[m] = life[m]
        /\ scope'[m] = scope[m] /\ output'[m] = output[m]
  BY <1>1, <1>2 DEF Framed, CsbInv, CsbTypes
<1> QED
  BY <1>1, <1>2, <1>5, <1>6, <1>7, <1>8, <1>9, LaunchKeeps

LEMMA IntentUnreadKeeps ==
  ASSUME CsbInv, NEW l \in Launches, IntentUnread(l)
  PROVE  CsbInv'
<1>1. Framed(l) /\ SandboxInv'
  BY LeaseDrops DEF CsbInv, IntentUnread
<1>2. /\ stage' = [stage EXCEPT ![l] = "over"]
      /\ UNCHANGED <<fixed, run, session, stored, active, admitted, created, journal, kept,
                      promised, life>>
  BY DEF IntentUnread, Become, store, fixed, sessions, handle
<1>3. stage' \in [Launches -> Stages] /\ stage'[l] = "over" /\ call[l].pc = "held"
  BY <1>2 DEF CsbInv, CsbTypes, Stages, IntentUnread, At
<1>4. life'[l] = "None"
  BY <1>2, <1>3, Launch DEF CsbInv, Threaded, Fresh
<1>5. CsbTypes' /\ Evidence' /\ \A r \in Runs : Recorded(r)'
  BY <1>2, <1>3 DEF CsbInv, CsbTypes, Evidence, Recorded
<1>6. Staged(l)' /\ Journaled(l)' /\ ~Intended(l)'
  BY <1>3, <1>4 DEF Staged, Journaled, Intended, Committed, Effective, Settling
<1>7. \A m \in Launches : m # l =>
        /\ stage'[m] = stage[m] /\ call'[m] = call[m] /\ life'[m] = life[m]
        /\ scope'[m] = scope[m] /\ output'[m] = output[m]
  BY <1>1, <1>2 DEF Framed, CsbInv, CsbTypes
<1> QED
  BY <1>1, <1>2, <1>5, <1>6, <1>7, LaunchKeeps

LEMMA StartSpawnKeeps ==
  ASSUME CsbInv, NEW l \in Launches, StartSpawn(l)
  PROVE  CsbInv'
<1>1. Framed(l) /\ SandboxInv'
  BY SpawnStep DEF CsbInv, StartSpawn
<1>2. /\ stage' = [stage EXCEPT ![l] = "spawning"]
      /\ UNCHANGED <<fixed, run, session, stored, active, admitted, created, journal, kept,
                      promised>>
  BY DEF StartSpawn, Become, store, fixed, sessions
<1>3. stage' \in [Launches -> Stages] /\ stage'[l] = "spawning"
  BY <1>2 DEF CsbInv, CsbTypes, Stages
<1>4. CsbTypes' /\ Evidence' /\ \A r \in Runs : Recorded(r)'
  BY <1>2, <1>3 DEF CsbInv, CsbTypes, Evidence, Recorded
<1>5. Journaled(l) /\ Intended(l) /\ stage[l] = "spawn"
  BY DEF StartSpawn, In, CsbInv, Intended, Committed, Effective
<1>6. Staged(l)' /\ Journaled(l)'
  BY <1>2, <1>3, <1>5 DEF Staged, Journaled, Effective, Settling, TerminalState
<1>7. \A m \in Launches : m # l =>
        /\ stage'[m] = stage[m] /\ call'[m] = call[m] /\ life'[m] = life[m]
        /\ scope'[m] = scope[m] /\ output'[m] = output[m]
  BY <1>1, <1>2 DEF Framed, CsbInv, CsbTypes
<1> QED
  BY <1>1, <1>2, <1>4, <1>5, <1>6, <1>7, LaunchKeeps

LEMMA SpawnFailsKeeps ==
  ASSUME CsbInv, NEW l \in Launches, SpawnFails(l)
  PROVE  CsbInv'
<1>1. Framed(l) /\ SandboxInv'
  BY LeaseDrops DEF CsbInv, SpawnFails
<1>2. /\ stage' = [stage EXCEPT ![l] = "over"]
      /\ UNCHANGED <<fixed, run, session, stored, active, admitted, created, journal, kept,
                      promised, life, scope, output>>
  BY DEF SpawnFails, Become, store, fixed, sessions, handle, host
<1>3. stage' \in [Launches -> Stages] /\ stage'[l] = "over"
  BY <1>2 DEF CsbInv, CsbTypes, Stages
<1>4. CsbTypes' /\ Evidence' /\ \A r \in Runs : Recorded(r)'
  BY <1>2, <1>3 DEF CsbInv, CsbTypes, Evidence, Recorded
<1>5. Journaled(l) /\ Intended(l)
  BY DEF SpawnFails, In, CsbInv, Intended, Committed, Effective, Settling
<1>6. Succeeded(l)' <=> Succeeded(l)
  BY <1>2 DEF Succeeded
<1>7. Staged(l)' /\ Journaled(l)'
  BY <1>2, <1>3, <1>5, <1>6 DEF Staged, Journaled, Effective, Settling, Succeeded
<1>8. \A m \in Launches : m # l =>
        /\ stage'[m] = stage[m] /\ call'[m] = call[m] /\ life'[m] = life[m]
        /\ scope'[m] = scope[m] /\ output'[m] = output[m]
  BY <1>1, <1>2 DEF Framed, CsbInv, CsbTypes
<1> QED
  BY <1>1, <1>2, <1>4, <1>5, <1>7, <1>8, LaunchKeeps

LEMMA CallWaitKeeps ==
  ASSUME CsbInv, NEW l \in Launches, CallWait(l)
  PROVE  CsbInv'
<1>1. Framed(l) /\ SandboxInv'
  BY WaitStep DEF CsbInv, CallWait
<1>2. /\ stage' = [stage EXCEPT ![l] = "waiting"]
      /\ UNCHANGED <<fixed, run, session, stored, active, admitted, created, journal, kept,
                      promised, life, scope, output>>
  BY DEF CallWait, Wait, Become, store, fixed, sessions, handle, host
<1>3. stage' \in [Launches -> Stages] /\ stage'[l] = "waiting"
  BY <1>2 DEF CsbInv, CsbTypes, Stages
<1>4. CsbTypes' /\ Evidence' /\ \A r \in Runs : Recorded(r)'
  BY <1>2, <1>3 DEF CsbInv, CsbTypes, Evidence, Recorded
<1>5. Journaled(l) /\ Intended(l)
  BY DEF CallWait, In, CsbInv, Intended, Committed, Effective, Settling
<1>6. call'[l].after = "wait" /\ stage[l] = "running"
  <2>1. call \in [Launches -> Calls]
    BY DEF CsbInv, SandboxInv, TypeOK
  <2> QED
    BY <2>1 DEF CallWait, In, Wait
<1>7. Staged(l)' /\ Journaled(l)'
  BY <1>2, <1>3, <1>5, <1>6 DEF Staged, Journaled, Effective, Settling, Succeeded
<1>8. \A m \in Launches : m # l =>
        /\ stage'[m] = stage[m] /\ call'[m] = call[m] /\ life'[m] = life[m]
        /\ scope'[m] = scope[m] /\ output'[m] = output[m]
  BY <1>1, <1>2 DEF Framed, CsbInv, CsbTypes
<1> QED
  BY <1>1, <1>2, <1>4, <1>5, <1>7, <1>8, LaunchKeeps

LEMMA GiveUpKeeps ==
  ASSUME CsbInv, NEW l \in Launches, GiveUp(l)
  PROVE  CsbInv'
<1>1. Framed(l) /\ SandboxInv'
  BY HandleDrops DEF CsbInv, GiveUp
<1>2. /\ stage' = [stage EXCEPT ![l] = "over"]
      /\ UNCHANGED <<fixed, run, session, stored, active, admitted, created, journal, kept,
                      promised, life, scope, output>>
  BY DEF GiveUp, Become, store, fixed, sessions, handle, host
<1>3. stage' \in [Launches -> Stages] /\ stage'[l] = "over"
  BY <1>2 DEF CsbInv, CsbTypes, Stages
<1>4. CsbTypes' /\ Evidence' /\ \A r \in Runs : Recorded(r)'
  BY <1>2, <1>3 DEF CsbInv, CsbTypes, Evidence, Recorded
<1>5. Journaled(l) /\ Intended(l)
  BY DEF GiveUp, In, CsbInv, Intended, Committed, Effective, Settling
<1>6. Succeeded(l)' <=> Succeeded(l)
  BY <1>2 DEF Succeeded
<1>7. Staged(l)' /\ Journaled(l)'
  BY <1>2, <1>3, <1>5, <1>6 DEF Staged, Journaled, Effective, Settling, Succeeded
<1>8. \A m \in Launches : m # l =>
        /\ stage'[m] = stage[m] /\ call'[m] = call[m] /\ life'[m] = life[m]
        /\ scope'[m] = scope[m] /\ output'[m] = output[m]
  BY <1>1, <1>2 DEF Framed, CsbInv, CsbTypes
<1> QED
  BY <1>1, <1>2, <1>4, <1>5, <1>7, <1>8, LaunchKeeps

(* The slot is freed by the acknowledgement of a terminal event. *)
LEMMA AckConcludeKeeps ==
  ASSUME CsbInv, NEW l \in Launches, AckConclude(l)
  PROVE  CsbInv'
<1>1. Framed(l) /\ SandboxInv'
  BY HandleDrops DEF CsbInv, AckConclude
<1>2. /\ stage' = [stage EXCEPT ![l] = "over"]
      /\ active' = [active EXCEPT ![session[l]] = @ \ {run[l]}]
      /\ UNCHANGED <<fixed, run, session, stored, admitted, life, scope, output>>
  BY DEF AckConclude, Become, fixed, handle, host
<1>3. run[l] \in Runs /\ session[l] \in Sessions /\ CsbTypes
  BY DEF CsbInv, CsbTypes
<1>4. /\ promised' \in [Runs -> Seq(ExecutionState)]
      /\ UNCHANGED <<created, kept, journal>>
      /\ promised'[run[l]] = journal[run[l]]
      /\ \A q \in Runs : q # run[l] => promised'[q] = promised[q]
  BY <1>3, PromiseFacts DEF AckConclude
<1>5. stage' \in [Launches -> Stages] /\ stage'[l] = "over"
  BY <1>2 DEF CsbInv, CsbTypes, Stages
<1>6. /\ Journaled(l) /\ Intended(l) /\ LastState(journal[run[l]]) \in TerminalState
      /\ Succeeded(l)' <=> Succeeded(l)
  BY <1>2 DEF AckConclude, In, CsbInv, Journaled, Intended, Committed, Effective, Settling,
     Succeeded
<1>7. \A r \in Runs : "Running" \in ToSet(promised[r]) => "Running" \in ToSet(promised'[r])
  BY <1>3, <1>4 DEF CsbInv, Recorded
<1>8. CsbTypes'
  BY <1>2, <1>3, <1>4, <1>5 DEF CsbTypes
<1>9. ASSUME NEW r \in Runs PROVE Recorded(r)'
  BY <1>4 DEF CsbInv, Recorded
<1>10. Evidence'
  <2>1. ASSUME NEW s \in Sessions, NEW r \in (admitted'[s] \ active'[s])
        PROVE  LastState(promised'[r]) \in TerminalState
    <3>1. r \in Runs /\ r \in admitted[s]
      BY <1>2, <1>3 DEF CsbTypes
    <3>2. CASE r = run[l]
      BY <1>4, <1>6, <3>2
    <3>3. CASE r # run[l]
      <4>1. r \notin active[s]
        BY <1>2, <1>3, <3>3 DEF CsbTypes
      <4> QED
        BY <1>4, <3>1, <3>3, <4>1 DEF CsbInv, Evidence
    <3> QED
      BY <3>2, <3>3
  <2> QED
    BY <2>1 DEF Evidence
<1>11. Staged(l)' /\ Journaled(l)'
  BY <1>2, <1>3, <1>4, <1>5, <1>6, <1>7 DEF Staged, Journaled, Effective, Settling
<1>12. \A m \in Launches : m # l =>
        /\ stage'[m] = stage[m] /\ call'[m] = call[m] /\ life'[m] = life[m]
        /\ scope'[m] = scope[m] /\ output'[m] = output[m]
  BY <1>1, <1>2 DEF Framed, CsbInv, CsbTypes
<1> QED
  BY <1>1, <1>2, <1>4, <1>6, <1>7, <1>8, <1>9, <1>10, <1>11, <1>12, LaunchKeeps

-----------------------------------------------------------------------------
(* The death of a process stops the threads of all its launches at once.    *)

LEMMA DieContained ==
  ASSUME SandboxInv, NEW s \in Sessions, Die(s)
  PROVE  SandboxInv'
<1>1. UNCHANGED <<file, got, stuck, release, life, pending, output, cleanup, leader, inner, doomed,
                  scope, taken, touched, harmed>>
  BY DEF Die, lease, handle, host
<1>2. faults' \in 0 .. MaxFaults
  BY FaultCounts DEF Die
<1>3. ASSUME NEW l \in Launches
      PROVE  /\ call'[l] \in Calls /\ call'[l].after = call[l].after
             /\ call'[l] = call[l] \/ call'[l].pc = "dead"
  <2>1. call[l] \in Calls
    BY Launch
  <2>2. call'[l] = IF session[l] = s /\ call[l].pc # "done"
                   THEN [call[l] EXCEPT !.pc = "dead"] ELSE call[l]
    BY DEF Die
  <2>3. CASE session[l] = s /\ call[l].pc # "done"
    <3>1. call'[l] = [call[l] EXCEPT !.pc = "dead"]
      BY <2>2, <2>3
    <3> QED
      BY <2>1, <3>1 DEF Calls
  <2>4. CASE ~(session[l] = s /\ call[l].pc # "done")
    BY <2>1, <2>2, <2>4
  <2> QED
    BY <2>3, <2>4
<1>4. TypeOK'
  <2>1. call' \in [Launches -> Calls]
    BY <1>3 DEF Die
  <2> QED
    BY <1>1, <1>2, <2>1 DEF SandboxInv, TypeOK
<1>5. ASSUME NEW l \in Launches PROVE LaunchOK(l)'
  <2>1. Scoped(l)' /\ Signalled(l)'
    BY <1>1, Launch DEF Scoped, Signalled
  <2>2. Threaded(l)'
    <3>1. CASE call'[l] = call[l]
      BY <1>1, <3>1, Launch DEF Threaded, Ended, Alive, Live
    <3>2. CASE call'[l].pc = "dead"
      BY <1>1, <1>3, <3>2, Launch DEF Threaded, Fresh, Started, Driving, Stopping, Leaving,
         Alive, Live
    <3> QED
      BY <1>3, <3>1, <3>2
  <2>3. Leased(l)'
    <3>1. CASE call'[l] = call[l]
      BY <1>1, <3>1, Launch DEF Leased, Held, Alive, Live
    <3>2. CASE call'[l].pc = "dead"
      BY <1>1, <3>2, Launch DEF Leased, Held, Started, Driving, Stopping, Leaving, Alive, Live
    <3> QED
      BY <1>3, <3>1, <3>2
  <2> QED
    BY <2>1, <2>2, <2>3 DEF LaunchOK
<1> QED
  BY <1>1, <1>4, <1>5 DEF SandboxInv

LEMMA DieKeeps ==
  ASSUME CsbInv, NEW s \in Sessions, Die(s)
  PROVE  CsbInv'
<1>1. SandboxInv'
  BY DieContained DEF CsbInv
<1>2. UNCHANGED <<run, session, stored, created, journal, kept, promised, life, scope, output>>
  BY DEF Die, fixed, store, handle, host
<1>3. /\ stage' \in [Launches -> Stages]
      /\ \A l \in Launches : stage'[l] = "over" \/ (stage'[l] = stage[l] /\ call'[l] = call[l])
  BY DEF CsbInv, CsbTypes, Stages, Die
<1>4. CsbTypes' /\ Evidence' /\ \A r \in Runs : Recorded(r)'
  BY <1>2, <1>3 DEF CsbInv, CsbTypes, Evidence, Recorded, Die
<1>5. ASSUME NEW l \in Launches
      PROVE  Staged(l)' /\ Journaled(l)' /\ (Intended(l)' => Intended(l))
  <2>1. Staged(l) /\ Journaled(l)
    BY DEF CsbInv
  <2>2. CASE stage'[l] = "over"
    BY <1>2, <2>1, <2>2 DEF Staged, Journaled, Intended, Committed, Effective, Settling,
       Succeeded
  <2>3. CASE stage'[l] = stage[l] /\ call'[l] = call[l]
    BY <1>2, <2>1, <2>3 DEF Staged, Journaled, Intended, Succeeded
  <2> QED
    BY <1>3, <2>2, <2>3
<1>6. Unique'
  BY <1>2, <1>5 DEF CsbInv, Unique
<1> QED
  BY <1>1, <1>4, <1>5, <1>6 DEF CsbInv

-----------------------------------------------------------------------------
(* The theorems.                                                            *)

LEMMA InitCsbInv == CsbInit => CsbInv
<1> SUFFICES ASSUME CsbInit PROVE CsbInv
  OBVIOUS
<1>1. SandboxInv
  BY InitSandboxInv DEF CsbInit
<1> DEFINE j == <<"Planned", "Prepared">>
<1>2. /\ j \in Seq(ExecutionState) /\ LastState(j) = "Prepared"
  <2>1. j \in Seq(ExecutionState) /\ Len(j) = 2 /\ j[2] = "Prepared" /\ j # <<>>
    BY DEF ExecutionState
  <2> QED
    BY <2>1 DEF LastState
<1>3. \A r \in Runs : journal[r] = j /\ promised[r] = j
  BY DEF CsbInit
<1>4. CsbTypes
  BY <1>2 DEF CsbInit, CsbTypes, Stages
<1> HIDE DEF j
<1>5. \A r \in Runs : Recorded(r)
  BY <1>2, <1>3 DEF Recorded, TerminalState
<1>6. ASSUME NEW l \in Launches PROVE Staged(l) /\ Journaled(l) /\ ~Intended(l)
  <2>1. stage[l] = "idle" /\ life[l] = "None"
    BY DEF CsbInit, Init
  <2> QED
    BY <2>1 DEF Staged, Journaled, Intended, Committed, Effective, Settling
<1>7. Evidence
  BY DEF CsbInit, Evidence
<1> QED
  BY <1>1, <1>4, <1>5, <1>6, <1>7 DEF CsbInv, Unique

(* The inductive invariant holds of every reachable state of the runner. *)
THEOREM CsbInvariant == CsbSpec => []CsbInv
<1>1. CsbInit => CsbInv
  BY InitCsbInv
<1>2. CsbInv /\ [CsbNext]_allVars => CsbInv'
  <2> SUFFICES ASSUME CsbInv, [CsbNext]_allVars PROVE CsbInv'
    OBVIOUS
  <2>1. CASE UNCHANGED allVars
    <3>1. UNCHANGED vars /\ UNCHANGED csb
      BY <2>1 DEF allVars
    <3>2. SandboxInv'
      BY <3>1, SandboxStutter DEF CsbInv
    <3>3. UNCHANGED <<call, life, scope, output>>
      BY <3>1 DEF vars, handle, host
    <3>4. \A l \in Launches : Steady(l) /\ (stage[l] = "waiting" => call'[l].after = "wait")
      BY <3>3 DEF Steady, Succeeded, CsbInv, Staged
    <3> QED
      BY <3>1, <3>2, <3>3, <3>4, CallKeeps
  <2>2. ASSUME NEW l \in Launches, Progress(l) PROVE CsbInv'
    BY <2>2, SandboxKeeps, IntentUnreadKeeps, AppendIntentKeeps, AckIntentKeeps, IntentFailsKeeps,
       StartSpawnKeeps, SpawnFailsKeeps, SpawnReturnsKeeps, SpawnReturnsErrorKeeps,
       WaitSucceedsKeeps, GiveUpKeeps, CollectKeeps, AckCollectKeeps, PutArtifactsKeeps,
       ConcludeKeeps, AckConcludeKeeps DEF Progress
  <2>3. ASSUME NEW l \in Launches,
               \/ (Host(l) \/ BeginAcquire(l)) /\ UNCHANGED csb
               \/ Start(l) \/ Refuse(l) \/ CallCancel(l) \/ CallWait(l)
        PROVE  CsbInv'
    BY <2>3, SandboxKeeps, OwnerKeeps, StartKeeps, CallWaitKeeps
  <2>4. ASSUME NEW s \in Sessions, Die(s) PROVE CsbInv'
    BY <2>4, DieKeeps
  <2> QED
    BY <2>1, <2>2, <2>3, <2>4 DEF CsbNext
<1> QED
  BY <1>1, <1>2, PTL DEF CsbSpec

(* However many launches of a run there are, in however many sessions, at   *)
(* most one of them spawns a process.                                       *)
THEOREM AtMostOneSpawn == CsbSpec => []SpawnedOnce
<1>1. CsbInv => SpawnedOnce
  BY DEF CsbInv, Unique, Intended, SpawnedOnce
<1> QED
  BY <1>1, CsbInvariant, PTL

(* A process exists only under a durable Running event. *)
THEOREM IntentIsDurable == CsbSpec => []IntentBeforeSpawn
<1>1. CsbInv => IntentBeforeSpawn
  BY DEF CsbInv, Journaled, IntentBeforeSpawn
<1> QED
  BY <1>1, CsbInvariant, PTL

(* A terminal event is written over an empty scope. *)
THEOREM NothingOutlivesOutcome == CsbSpec => []OutcomeMeansGone
<1>1. ASSUME CsbInv PROVE OutcomeMeansGone
  <2>1. ASSUME NEW l \in Launches, scope[l] = "gone" PROVE ~Alive(l)
    BY <1>1, <2>1, Launch DEF CsbInv, Scoped, Alive, Live
  <2> QED
    BY <1>1, <2>1 DEF CsbInv, Journaled, OutcomeMeansGone
<1> QED
  BY <1>1, CsbInvariant, PTL

(* Completed is journaled only for an untouched success with artifacts. *)
THEOREM CompletionIsEarned == CsbSpec => []CompletedIsEarned
<1>1. ASSUME CsbInv PROVE CompletedIsEarned
  BY <1>1, Launch DEF CsbInv, Journaled, CompletedIsEarned, Succeeded, Signalled
<1> QED
  BY <1>1, CsbInvariant, PTL

(* An operation leaves the active set only with durable terminal evidence. *)
THEOREM SlotsFreedWithEvidence == CsbSpec => []ReleasedWithEvidence
<1>1. ASSUME CsbInv PROVE ReleasedWithEvidence
  <2>1. Store!TypeOK
    BY <1>1, StoreWords DEF CsbInv, CsbTypes, Store!TypeOK
  <2>2. CsbTypeOK
    BY <1>1, <2>1 DEF CsbInv, SandboxInv, CsbTypes, CsbTypeOK
  <2> QED
    BY <1>1, <2>2 DEF CsbInv, Evidence, ReleasedWithEvidence
<1> QED
  BY <1>1, CsbInvariant, PTL

(* The guarantees of the containment survive its use by the runner, where   *)
(* the death of one process ends several launches at once, a failed store   *)
(* call drops a handle, and a refused intent gives a lease back: no CPU is  *)
(* free under a process, nothing of a stranger is signalled, and a dropped  *)
(* handle whose scope was seen to end leaves no lease file but those that   *)
(* could not be removed.                                                    *)
THEOREM ContainmentSurvives ==
  CsbSpec => [](FreeCpusAreIdle /\ StrangersAreSafe /\ CleanupReleases)
<1>1. CsbInv => FreeCpusAreIdle
  BY InvIdle DEF CsbInv
<1>2. CsbInv => StrangersAreSafe
  BY DEF CsbInv, SandboxInv, StrangersAreSafe
<1>3. CsbInv => CleanupReleases
  BY Launch DEF CsbInv, CleanupReleases, At, Leased, Held
<1> QED
  BY <1>1, <1>2, <1>3, CsbInvariant, PTL

-----------------------------------------------------------------------------
(* The runner as a client of the store.                                     *)

LEMMA CsbStoreStep == CsbInv /\ [CsbNext]_allVars => [Store!Next]_Store!vars
<1> SUFFICES ASSUME CsbInv, [CsbNext]_allVars PROVE Store!Next \/ UNCHANGED Store!vars
  OBVIOUS
<1>1. UNCHANGED store => UNCHANGED Store!vars
  BY DEF store, Store!vars
<1>2. ASSUME NEW l \in Launches, NEW s \in ExecutionState, Store!Extend(run[l], s)
      PROVE  Store!Next
  BY <1>2, StoreWords DEF CsbInv, CsbTypes, Store!Next
<1>3. ASSUME NEW l \in Launches, Store!PromiseEvents(run[l]) PROVE Store!Next
  BY <1>3 DEF CsbInv, CsbTypes, Store!Next
<1>4. ASSUME NEW l \in Launches, Progress(l) PROVE Store!Next \/ UNCHANGED store
  <2>1. CASE AppendIntent(l)
    BY <1>2, <2>1 DEF AppendIntent, ExecutionState
  <2>2. CASE Collect(l)
    BY <1>2, <2>2 DEF Collect, ExecutionState
  <2>3. CASE Conclude(l)
    <3>1. Outcome(l) \in ExecutionState
      BY DEF Outcome, ExecutionState, TerminalState
    <3> QED
      BY <1>2, <2>3, <3>1 DEF Conclude
  <2>4. CASE AckIntent(l) \/ AckCollect(l) \/ AckConclude(l)
    BY <1>3, <2>4 DEF AckIntent, AckCollect, AckConclude
  <2>5. CASE \/ IntentUnread(l) \/ IntentFails(l) \/ StartSpawn(l) \/ SpawnFails(l) \/ SpawnReturns(l)
             \/ SpawnReturnsError(l) \/ WaitSucceeds(l) \/ GiveUp(l) \/ PutArtifacts(l)
             \/ UNCHANGED csb
    BY <2>5 DEF IntentUnread, IntentFails, StartSpawn, SpawnFails, SpawnReturns, SpawnReturnsError,
       WaitSucceeds, GiveUp, PutArtifacts, csb
  <2> QED
    BY <1>4, <2>1, <2>2, <2>3, <2>4, <2>5 DEF Progress
<1>5. ASSUME NEW l \in Launches,
             \/ (Host(l) \/ BeginAcquire(l)) /\ UNCHANGED csb
             \/ Start(l) \/ Refuse(l) \/ CallCancel(l) \/ CallWait(l)
      PROVE  UNCHANGED store
  BY <1>5 DEF Start, Refuse, CallCancel, CallWait, csb
<1>6. ASSUME NEW s \in Sessions, Die(s) PROVE UNCHANGED store
  BY <1>6 DEF Die
<1>7. CASE UNCHANGED allVars
  BY <1>1, <1>7 DEF allVars, csb
<1> QED
  BY <1>1, <1>4, <1>5, <1>6, <1>7 DEF CsbNext

(* Whatever launches race and whichever processes die, each step of the     *)
(* runner is to the store an operation of its contract or nothing: no step  *)
(* writes a journal but by one valid transition, or promises what is not    *)
(* visible.  (Only the steps: the runner starts from prepared runs.)        *)
THEOREM RunnerKeepsContract == CsbSpec => [][Store!Next]_Store!vars
  BY CsbInvariant, CsbStoreStep, PTL DEF CsbSpec

(* A step that spawns a process finds Running as the last event of its      *)
(* journal, and acknowledged: no launch spawns under an outcome, nor under  *)
(* an intent whose append may still be lost.                                *)
SpawnsUnderIntent ==
  [][\A l \in Launches : life[l] = "None" /\ life'[l] # "None" =>
       /\ LastState(journal[run[l]]) = "Running"
       /\ "Running" \in ToSet(promised[run[l]])]_allVars

LEMMA OnlyStartSpawns ==
  ASSUME CsbInv, [CsbNext]_allVars, NEW l \in Launches, life[l] = "None", life'[l] # "None"
  PROVE  StartSpawn(l)
<1>1. SandboxInv /\ life = [m \in Launches |-> life[m]]
  BY DEF CsbInv, SandboxInv, TypeOK
<1>2. ASSUME NEW m \in Launches, Step(m) \/ Host(m) PROVE FALSE
  <2>1. Framed(m) /\ Steady(m)
    BY <1>1, <1>2, StepKeeps, HostKeeps, StepSteady, HostSteady
  <2> QED
    BY <2>1 DEF Framed, Steady
<1>3. ASSUME NEW m \in Launches, StartSpawn(m) PROVE m = l
  BY <1>1, <1>3 DEF StartSpawn, Spawn
<1>4. ASSUME UNCHANGED life PROVE FALSE
  BY <1>4
<1>5. ASSUME NEW m \in Launches, CallCancel(m) PROVE FALSE
  <2>1. life[m] # "None"
    BY <1>1, <1>5, Launch DEF CallCancel, Cancel, CancelFails, At, Threaded, Started, Driving
  <2>2. m # l
    BY <2>1
  <2> QED
    BY <1>1, <1>5, <2>2 DEF CallCancel, Cancel, CancelFails, CancelProcess, handle
<1>6. ASSUME NEW m \in Launches,
             \/ IntentUnread(m) \/ AppendIntent(m) \/ AckIntent(m) \/ IntentFails(m)
             \/ SpawnFails(m) \/ SpawnReturns(m) \/ SpawnReturnsError(m) \/ WaitSucceeds(m) \/ GiveUp(m)
             \/ Collect(m) \/ AckCollect(m) \/ PutArtifacts(m) \/ Conclude(m)
             \/ AckConclude(m)
      PROVE  UNCHANGED life
  BY <1>6 DEF IntentUnread, AppendIntent, AckIntent, IntentFails, SpawnFails, SpawnReturns,
     SpawnReturnsError, WaitSucceeds, GiveUp, Collect, AckCollect, PutArtifacts, Conclude,
     AckConclude, vars, handle
<1>7. ASSUME NEW m \in Launches,
             BeginAcquire(m) \/ Start(m) \/ Refuse(m) \/ CallWait(m)
      PROVE  UNCHANGED life
  BY <1>7 DEF BeginAcquire, Start, Refuse, DropLease, CallWait, Wait, vars, handle
<1>8. ASSUME NEW s \in Sessions, Die(s) PROVE UNCHANGED life
  BY <1>8 DEF Die, handle
<1>9. UNCHANGED allVars => UNCHANGED life
  BY DEF allVars, vars, handle
<1>10. ASSUME NEW m \in Launches, Progress(m) PROVE StartSpawn(m)
  BY <1>2, <1>4, <1>6, <1>10 DEF Progress
<1>11. \E m \in Launches : StartSpawn(m)
  BY <1>2, <1>4, <1>5, <1>7, <1>8, <1>9, <1>10 DEF CsbNext
<1> QED
  BY <1>3, <1>11

(* Processes are spawned only under a durable Running event that is still   *)
(* the last word on the run, whatever races and failures precede.           *)
THEOREM SpawnsFollowIntent == CsbSpec => SpawnsUnderIntent
<1>1. ASSUME CsbInv, [CsbNext]_allVars, NEW l \in Launches,
             life[l] = "None", life'[l] # "None"
      PROVE  LastState(journal[run[l]]) = "Running" /\ "Running" \in ToSet(promised[run[l]])
  <2>1. stage[l] = "spawn"
    BY <1>1, OnlyStartSpawns DEF StartSpawn, In
  <2> QED
    BY <1>1, <2>1 DEF CsbInv, Journaled, Effective
<1>2. CsbInv /\ [CsbNext]_allVars =>
        [\A l \in Launches : life[l] = "None" /\ life'[l] # "None" =>
           /\ LastState(journal[run[l]]) = "Running"
           /\ "Running" \in ToSet(promised[run[l]])]_allVars
  BY <1>1
<1> QED
  BY <1>2, CsbInvariant, PTL DEF CsbSpec, SpawnsUnderIntent

=============================================================================
