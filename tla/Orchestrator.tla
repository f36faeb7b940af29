---------------------------- MODULE Orchestrator ----------------------------
(***************************************************************************)
(* asb-orchestrator: one service that admits runs, journals every step in  *)
(* the store, drives the runtime's authority source and reports a status.  *)
(* The service takes &mut self, so one call is in progress at a time; a    *)
(* call is split at every store write, at every call into the authority    *)
(* source and wherever one of these can fail.  The process can die between *)
(* any two of these steps, the machine can lose power, and `open` rebuilds *)
(* the service from the disk.                                              *)
(*                                                                         *)
(* The store is used through its contract JournalSpec (proved of           *)
(* AtomicStore): a write is first visible, then promised, and may fail at  *)
(* either point.  A run is its number n (run-n, whose attempt is           *)
(* attempt-(n+1)); a request is its idempotency key and its digest.  Calls *)
(* that are refused without effect (unknown or stale handle, wrong status, *)
(* conflicting key, no room for another active run) are stuttering steps.  *)
(***************************************************************************)
EXTENDS Integers, Lifecycle

CONSTANTS
  Keys, Digests,    \* what requests are made of
  FirstId, LastId,  \* bound: the run numbers explored
  MaxActive,        \* MAX_ACTIVE_RUNS
  MaxEvents,        \* the smaller of limits.max_events and MAX_EVENTS
  MaxFaults,        \* bound: crashes, power losses, I/O and authority errors
  LosePower,        \* whether power losses are among them
  None

ASSUME IdAssumption ==
  FirstId \in 1 .. 99 /\ LastId \in 1 .. 99 /\ FirstId <= LastId
ASSUME LimitAssumption ==
  /\ MaxActive \in Nat \ {0}
  /\ MaxEvents \in Nat \ {0}
  /\ MaxFaults \in Nat
  /\ LosePower \in BOOLEAN

RunId == FirstId .. LastId
Request == Keys \X Digests

(* A handle is fenced with the digest of the whole request, its key included. *)
Handle == RunId \X Request

ASSUME RequestAssumption == None \notin Request

VARIABLES
  \* the service, lost with the process
  up,        \* open has returned and the process is alive
  nextId,    \* next_id
  binding,   \* binding[k]: the run idempotency maps k to, or 0
  status,    \* status[r]: record.status, or "Absent" without a record
  cap,       \* cap[r]: record.capability is Some
  events,    \* events[r]: the statuses of record.events
  barrier,   \* barrier[r]: record.durability_barrier
  call,      \* the call in progress
  \* the disk
  created, journal, kept, promised,   \* see JournalSpec
  manifest,  \* manifest[r]: the request of runs/run-r, or None
  debris,    \* a stage directory was left in runs/
  \* the world outside
  holds,     \* the runs whose runtime authority is prepared and not revoked
  execs,     \* execs[r]: how often execute_until was entered for r
  issued,    \* the handles admit has returned
  faults     \* how many faults have happened

memory == <<nextId, binding, status, cap, events, barrier>>
disk == <<created, journal, kept, promised, manifest, debris>>
world == <<holds, execs, issued, faults>>
vars == <<up, memory, call, disk, world>>

Store == INSTANCE JournalSpec WITH Runs <- RunId

(* A call in progress: where it is, its run, the request (of admit), the    *)
(* status it is about to journal or to conclude with, and what it does once *)
(* that is journaled.                                                       *)
Call(pc, r, request, goal, after) ==
  [pc |-> pc, run |-> r, request |-> request, goal |-> goal, after |-> after]

Calls ==
  [pc : {"idle", "create", "created", "plan", "planned", "prepare", "persist",
         "written", "execute", "executing", "cleanup", "reconcile"},
   run : RunId \cup {0}, request : Request \cup {None},
   goal : RunStatus \cup {"Absent"},
   after : {"return", "handle", "execute", "complete", "clear"}]

Idle == Call("idle", 0, None, "Absent", "return")

TypeOK ==
  /\ up \in BOOLEAN
  /\ nextId \in Nat
  /\ binding \in [Keys -> RunId \cup {0}]
  /\ status \in [RunId -> RunStatus \cup {"Absent"}]
  /\ cap \in [RunId -> BOOLEAN]
  /\ events \in [RunId -> Seq(RunStatus)]
  /\ barrier \in [RunId -> BOOLEAN]
  /\ call \in Calls
  /\ Store!TypeOK
  /\ manifest \in [RunId -> Request \cup {None}]
  /\ debris \in BOOLEAN
  /\ holds \in SUBSET RunId
  /\ execs \in [RunId -> Nat]
  /\ issued \subseteq Handle
  /\ faults \in 0 .. MaxFaults

(* The service's memory is gone. *)
Blank ==
  /\ binding' = [k \in Keys |-> 0]
  /\ status' = [r \in RunId |-> "Absent"]
  /\ cap' = [r \in RunId |-> FALSE]
  /\ events' = [r \in RunId |-> <<>>]
  /\ barrier' = [r \in RunId |-> FALSE]
  /\ call' = Idle
  /\ nextId' = 0

(* A freshly opened store.  With FirstId > 1 the service has already spent  *)
(* numbers on admissions whose create_run failed without a trace.           *)
Init ==
  /\ up = TRUE
  /\ nextId = FirstId
  /\ binding = [k \in Keys |-> 0]
  /\ status = [r \in RunId |-> "Absent"]
  /\ cap = [r \in RunId |-> FALSE]
  /\ events = [r \in RunId |-> <<>>]
  /\ barrier = [r \in RunId |-> FALSE]
  /\ call = Idle
  /\ Store!Init
  /\ manifest = [r \in RunId |-> None]
  /\ debris = FALSE
  /\ holds = {}
  /\ execs = [r \in RunId |-> 0]
  /\ issued = {}
  /\ faults = 0

-----------------------------------------------------------------------------

Fault == faults < MaxFaults /\ faults' = faults + 1

Ready == up /\ call.pc = "idle"

At(pc) == up /\ call.pc = pc

(* record.run == handle: the caller holds the handle of a known run. *)
Known(r) == status[r] # "Absent" /\ <<r, manifest[r]>> \in issued

Active == {r \in RunId : status[r] \notin TerminalState \cup {"Absent"}}

-----------------------------------------------------------------------------
(* admit                                                                    *)

(* The key is bound to a run of the same digest: its handle is returned.    *)
AdmitAgain(k, d) ==
  /\ Ready
  /\ binding[k] # 0
  /\ manifest[binding[k]] = <<k, d>>
  /\ issued' = issued \cup {<<binding[k], <<k, d>>>>}
  /\ UNCHANGED <<up, memory, call, disk, holds, execs, faults>>

AdmitNew(k, d) ==
  /\ Ready
  /\ binding[k] = 0
  /\ Cardinality(Active) < MaxActive
  /\ nextId \in RunId
  /\ nextId' = nextId + 2
  /\ call' = Call("create", nextId, <<k, d>>, "Absent", "return")
  /\ UNCHANGED <<up, binding, status, cap, events, barrier, disk, world>>

(* store.create_run: visible, then promised. *)
CreateWrite ==
  /\ At("create")
  /\ Store!Create(call.run)
  /\ manifest' = [manifest EXCEPT ![call.run] = call.request]
  /\ call' = [call EXCEPT !.pc = "created"]
  /\ UNCHANGED <<up, memory, debris, world>>

CreateAck ==
  /\ At("created")
  /\ Store!PromiseRun(call.run)
  /\ call' = [call EXCEPT !.pc = "plan"]
  /\ UNCHANGED <<up, memory, manifest, debris, world>>

(* Mutant: goes on before the append has returned. *)
MutPlanWrite ==
  /\ At("plan")
  /\ Store!Extend(call.run, ToState("Admitted"))
  /\ call' = [call EXCEPT !.pc = "prepare"]
  /\ UNCHANGED <<up, memory, manifest, debris, world>>

(* append_state(Admitted). *)
PlanWrite ==
  /\ At("plan")
  /\ Store!Extend(call.run, ToState("Admitted"))
  /\ call' = [call EXCEPT !.pc = "planned"]
  /\ UNCHANGED <<up, memory, manifest, debris, world>>

PlanAck ==
  /\ At("planned")
  /\ Store!PromiseEvents(call.run)
  /\ call' = [call EXCEPT !.pc = "prepare"]
  /\ UNCHANGED <<up, memory, manifest, debris, world>>

(* A store error before the record is inserted: it is dropped, the key      *)
(* stays unbound.  A create_run that fails may leave its stage directory.   *)
AdmitFails ==
  /\ \E pc \in {"create", "created", "plan", "planned"} : At(pc)
  /\ Fault
  /\ debris' \in {debris, debris \/ call.pc = "create"}
  /\ call' = Idle
  /\ UNCHANGED <<up, memory, created, journal, kept, promised, manifest,
                 holds, execs, issued>>

(* source.prepare succeeds: the record is inserted, the key bound.          *)
Prepare ==
  LET r == call.run IN
  /\ At("prepare")
  /\ holds' = holds \cup {r}
  /\ status' = [status EXCEPT ![r] = "Prepared"]
  /\ cap' = [cap EXCEPT ![r] = TRUE]
  /\ events' = [events EXCEPT ![r] = <<"Prepared">>]
  /\ barrier' = [barrier EXCEPT ![r] = FALSE]
  /\ binding' = [binding EXCEPT ![call.request[1]] = r]
  /\ call' = Call("persist", r, call.request, "Prepared", "handle")
  /\ UNCHANGED <<up, nextId, disk, execs, issued, faults>>

(* source.prepare fails.  The record, with its Failed event, is dropped;    *)
(* persist_record(Failed) is refused by the store because the journal ends  *)
(* in Planned, and its error is ignored.                                    *)
PrepareFails ==
  /\ At("prepare")
  /\ Fault
  /\ call' = Idle
  /\ UNCHANGED <<up, memory, disk, holds, execs, issued>>

-----------------------------------------------------------------------------
(* persist_for: journal call.goal.                                          *)

(* What the caller does when persist_for returned Ok. *)
Persisted ==
  /\ call' = CASE call.after = "execute" ->
                     Call("execute", call.run, None, "Absent", "return")
               [] call.after = "complete" ->
                     Call("persist", call.run, None, "Completed", "return")
               [] OTHER -> Idle
  /\ issued' = IF call.after = "handle"
                 THEN issued \cup {<<call.run, call.request>>} ELSE issued
  /\ barrier' = IF call.after = "clear"
                  THEN [barrier EXCEPT ![call.run] = FALSE] ELSE barrier

(* Mutant: the run is not fenced when its status cannot be journaled. *)
MutFence ==
  /\ call' = Idle
  /\ UNCHANGED memory

(* Its error path: the event is taken back if it is the last one, and the   *)
(* run is fenced until it is reconciled.                                    *)
Fence ==
  LET r == call.run IN
  /\ events' = [events EXCEPT ![r] =
                  IF @ # <<>> /\ @[Len(@)] = call.goal THEN Front(@) ELSE @]
  /\ status' = [status EXCEPT ![r] = "NeedsReconciliation"]
  /\ cap' = [cap EXCEPT ![r] = FALSE]
  /\ barrier' = [barrier EXCEPT ![r] = TRUE]
  /\ call' = Idle
  /\ UNCHANGED <<nextId, binding>>

PersistLast == LastState(journal[call.run])

(* The journal already ends in this state. *)
PersistSkip ==
  /\ At("persist")
  /\ PersistLast = ToState(call.goal)
  /\ Persisted
  /\ UNCHANGED <<up, nextId, binding, status, cap, events, disk,
                 holds, execs, faults>>

PersistWrite ==
  /\ At("persist")
  /\ PersistLast # ToState(call.goal)
  /\ Store!Extend(call.run, ToState(call.goal))
  /\ call' = [call EXCEPT !.pc = "written"]
  /\ UNCHANGED <<up, memory, manifest, debris, world>>

PersistAck ==
  /\ At("written")
  /\ Store!PromiseEvents(call.run)
  /\ Persisted
  /\ UNCHANGED <<up, nextId, binding, status, cap, events, manifest, debris,
                 holds, execs, faults>>

(* The store refuses the transition. *)
PersistRefused ==
  /\ At("persist")
  /\ PersistLast # ToState(call.goal)
  /\ ~ValidTransition(PersistLast, ToState(call.goal))
  /\ Fence
  /\ UNCHANGED <<up, disk, world>>

PersistFails ==
  /\ At("persist") \/ At("written")
  /\ Fault
  /\ Fence
  /\ UNCHANGED <<up, disk, holds, execs, issued>>

-----------------------------------------------------------------------------
(* start and execute                                                        *)

(* Mutant: the attempt is executed before Running is journaled. *)
MutBegin(r, after) ==
  /\ Ready /\ Known(r)
  /\ status[r] = "Prepared"
  /\ ~barrier[r]
  /\ Len(events[r]) < MaxEvents
  /\ status' = [status EXCEPT ![r] = "Running"]
  /\ events' = [events EXCEPT ![r] = Append(@, "Running")]
  /\ call' = IF after = "execute" THEN Call("execute", r, None, "Absent", "return")
             ELSE Call("persist", r, None, "Running", after)
  /\ UNCHANGED <<up, nextId, binding, cap, barrier, disk, world>>

(* push_event(Running), then persist. *)
Begin(r, after) ==
  /\ Ready /\ Known(r)
  /\ status[r] = "Prepared"
  /\ ~barrier[r]
  /\ Len(events[r]) < MaxEvents
  /\ status' = [status EXCEPT ![r] = "Running"]
  /\ events' = [events EXCEPT ![r] = Append(@, "Running")]
  /\ call' = Call("persist", r, None, "Running", after)
  /\ UNCHANGED <<up, nextId, binding, cap, barrier, disk, world>>

Start(r) == Begin(r, "return")

Execute(r) == cap[r] /\ Begin(r, "execute")

ExecuteUntil ==
  /\ At("execute")
  /\ execs' = [execs EXCEPT ![call.run] = @ + 1]
  /\ call' = [call EXCEPT !.pc = "executing"]
  /\ UNCHANGED <<up, memory, disk, holds, issued, faults>>

(* push_event(goal), and push_event(Completed) after Collecting, then       *)
(* persist.  The first event that finds no room returns InvalidLimit and    *)
(* leaves the call with what was done.                                      *)
Finish(r, goal, after) ==
  LET pushes == IF after = "complete" THEN <<goal, "Completed">> ELSE <<goal>>
      room == MaxEvents - Len(events[r])
      n == IF room >= Len(pushes) THEN Len(pushes)
           ELSE IF room > 0 THEN room ELSE 0
  IN
  /\ events' = [events EXCEPT ![r] = @ \o SubSeq(pushes, 1, n)]
  /\ status' = [status EXCEPT ![r] = IF n = 0 THEN @ ELSE pushes[n]]
  /\ cap' = [cap EXCEPT ![r] = @ /\ n < Len(pushes)]
  /\ call' = IF n = Len(pushes) THEN Call("persist", r, None, goal, after)
             ELSE Idle
  /\ UNCHANGED <<nextId, binding, barrier>>

(* The source observed a cancellation and has revoked its own authority.    *)
ExecuteCancelled ==
  /\ At("executing")
  /\ holds' = holds \ {call.run}
  /\ Finish(call.run, "Cancelled", "return")
  /\ UNCHANGED <<up, disk, execs, issued, faults>>

(* Any other outcome: an error, a timeout or an exceeded limit ends Failed, *)
(* a good one is collected; source.cancel comes first.                      *)
ExecuteReturns ==
  /\ At("executing")
  /\ \/ call' = Call("cleanup", call.run, None, "Failed", "return")
     \/ call' = Call("cleanup", call.run, None, "Collecting", "complete")
  /\ UNCHANGED <<up, memory, disk, world>>

Cleanup ==
  /\ At("cleanup")
  /\ holds' = holds \ {call.run}
  /\ Finish(call.run, call.goal, call.after)
  /\ UNCHANGED <<up, disk, execs, issued, faults>>

(* source.cancel fails: cleanup_barrier. *)
CleanupFails ==
  /\ At("cleanup")
  /\ Fault
  /\ status' = [status EXCEPT ![call.run] = "NeedsReconciliation"]
  /\ cap' = [cap EXCEPT ![call.run] = FALSE]
  /\ barrier' = [barrier EXCEPT ![call.run] = TRUE]
  /\ call' = Idle
  /\ UNCHANGED <<up, nextId, binding, events, disk, holds, execs, issued>>

-----------------------------------------------------------------------------
(* cancel, complete, reconcile                                              *)

(* Mutant: the authority is not revoked. *)
MutConclude(r, goal) == Finish(r, goal, "return")

(* source.cancel if the record holds a capability, then push and persist.   *)
Conclude(r, goal) ==
  IF cap[r]
    THEN /\ call' = Call("cleanup", r, None, goal, "return")
         /\ UNCHANGED memory
    ELSE Finish(r, goal, "return")

Cancel(r) ==
  /\ Ready /\ Known(r)
  /\ status[r] \notin TerminalState \cup {"NeedsReconciliation"}
  /\ Conclude(r, "Cancelled")
  /\ UNCHANGED <<up, disk, world>>

Complete(r) ==
  /\ Ready /\ Known(r)
  /\ status[r] \in {"Running", "Collecting"}
  /\ Conclude(r, "Completed")
  /\ UNCHANGED <<up, disk, world>>

Reconcile(r) ==
  /\ Ready /\ Known(r)
  /\ status[r] = "NeedsReconciliation"
  /\ call' = Call("reconcile", r, None, "Absent", "return")
  /\ UNCHANGED <<up, memory, disk, world>>

(* source.reconcile tears the attempt down; a fenced record has no          *)
(* capability left to cancel.  No event is pushed.                          *)
ReconcileTeardown ==
  /\ At("reconcile")
  /\ holds' = holds \ {call.run}
  /\ cap' = [cap EXCEPT ![call.run] = FALSE]
  /\ status' = [status EXCEPT ![call.run] = "Failed"]
  /\ call' = Call("persist", call.run, None, "Failed", "clear")
  /\ UNCHANGED <<up, nextId, binding, events, barrier, disk, execs, issued,
                 faults>>

ReconcileFails ==
  /\ At("reconcile")
  /\ Fault
  /\ call' = Idle
  /\ UNCHANGED <<up, memory, disk, holds, execs, issued>>

-----------------------------------------------------------------------------
(* Process death, power loss, restart.                                      *)

(* Runtime resources may outlive the process. *)
Crash ==
  /\ up
  /\ Fault
  /\ up' = FALSE
  /\ Blank
  /\ debris' \in {debris, debris \/ call.pc = "create"}
  /\ UNCHANGED <<created, journal, kept, promised, manifest,
                 holds, execs, issued>>

PowerLoss ==
  /\ LosePower
  /\ Fault
  /\ up' = FALSE
  /\ Blank
  /\ Store!Lose
  /\ manifest' = [r \in RunId |-> IF r \in created' THEN manifest[r] ELSE None]
  /\ debris' \in {debris, debris \/ call.pc = "create" \/ created' # created}
  /\ holds' = {}
  /\ UNCHANGED <<execs, issued>>

(* Lexical order of run-n for one- and two-digit n.                         *)
LexRank(n) == IF n < 10 THEN 11 * n ELSE 11 * (n \div 10) + (n % 10) + 1

(* Mutant: a restart forgets the keys of finished runs. *)
MutWithKey(k) ==
  {r \in created : /\ manifest[r][1] = k
                   /\ LastState(journal[r]) \notin TerminalState}

WithKey(k) == {r \in created : manifest[r][1] = k}

(* open inserts the runs in run_ids' order: the last one with a key wins.   *)
Bound(k) ==
  IF WithKey(k) = {} THEN {0}
  ELSE {r \in WithKey(k) : \A q \in WithKey(k) : LexRank(q) <= LexRank(r)}

(* next_id: one past the largest number. *)
Unused ==
  {n \in 1 .. LastId + 1 : /\ \A r \in created : r < n
                           /\ n = 1 \/ n - 1 \in created}

(* The runs recovery_decision lets open resume: prepare is called again.    *)
Resumable == {r \in created : RecoveryDecision(LastState(journal[r])) = "Resume"}

(* run_ids also lists a leftover stage directory, and open fails on it.     *)
Open ==
  /\ ~up
  /\ ~debris
  /\ up' = TRUE
  /\ nextId' \in Unused
  /\ \E b \in [Keys -> RunId \cup {0}] :
       binding' = b /\ \A k \in Keys : b[k] \in Bound(k)
  /\ status' = [r \in RunId |->
                  IF r \in created THEN FromState(LastState(journal[r]))
                  ELSE "Absent"]
  /\ cap' = [r \in RunId |-> r \in Resumable]
  /\ events' = [r \in RunId |->
                  [i \in 1 .. Len(journal[r]) |-> FromState(journal[r][i])]]
  /\ barrier' = [r \in RunId |-> FALSE]
  /\ holds' = holds \cup Resumable
  /\ call' = Idle
  /\ UNCHANGED <<disk, execs, issued, faults>>

(* open gives up when prepare fails for one of them; others may have been   *)
(* prepared before it.                                                      *)
OpenFails ==
  /\ ~up
  /\ ~debris
  /\ Fault
  /\ \E r \in Resumable, S \in SUBSET Resumable :
       r \notin S /\ holds' = holds \cup S
  /\ UNCHANGED <<up, memory, call, disk, execs, issued>>

-----------------------------------------------------------------------------

(* The steps of a call in progress that need no fault to happen. *)
Proceed ==
  \/ CreateWrite \/ CreateAck \/ PlanWrite \/ PlanAck \/ Prepare
  \/ PersistSkip \/ PersistWrite \/ PersistAck \/ PersistRefused
  \/ ExecuteUntil \/ ExecuteCancelled \/ ExecuteReturns \/ Cleanup
  \/ ReconcileTeardown

Fail ==
  \/ AdmitFails \/ PrepareFails \/ PersistFails \/ CleanupFails
  \/ ReconcileFails \/ Crash \/ PowerLoss \/ OpenFails

Operate(r) == Start(r) \/ Execute(r) \/ Cancel(r) \/ Complete(r) \/ Reconcile(r)

Next ==
  \/ \E k \in Keys, d \in Digests : AdmitAgain(k, d) \/ AdmitNew(k, d)
  \/ \E r \in RunId : Operate(r)
  \/ Proceed
  \/ Fail
  \/ Open

Spec == Init /\ [][Next]_vars

(* A live process finishes the call it is in, and a dead one is restarted.  *)
FairSpec == Spec /\ WF_vars(Proceed) /\ WF_vars(Open)

(* Besides, reconcile is called for every run that needs it. *)
ReconcilingSpec == FairSpec /\ \A r \in RunId : SF_vars(Reconcile(r))

-----------------------------------------------------------------------------

(* No attempt is ever executed twice, whatever crashes, lost writes, failed *)
(* cleanups and restarts happen in between.                                 *)
AtMostOneExecution == \A r \in RunId : execs[r] <= 1

(* "Intent is journaled before process, lease, relay, credential, or        *)
(* provider effects": authority is prepared only for a run whose Planned    *)
(* event was promised, and execution entered only once Running was, so a    *)
(* power loss cannot leave an effect without its intent.                    *)
IntentBeforeEffect ==
  /\ \A r \in holds : r \in kept /\ "Planned" \in ToSet(promised[r])
  /\ \A r \in RunId :
       execs[r] > 0 => r \in kept /\ "Running" \in ToSet(promised[r])

(* Between calls, a status other than NeedsReconciliation is the one a      *)
(* restart would find on disk: no caller is told what the journal does not  *)
(* say.  Needs room for all events of a run.                                *)
StatusMatchesJournal ==
  Ready => \A r \in RunId :
    status[r] \notin {"Absent", "NeedsReconciliation"} =>
      r \in created /\ LastState(journal[r]) \in
        IF status[r] = "Admitted" THEN {NoState, "Planned"}
        ELSE {ToState(status[r])}

(* Between calls an executed run is settled or fenced: it is never again    *)
(* reported as prepared or running.  Needs room for all events of a run.    *)
ExecutedRunsAreSettled ==
  Ready => \A r \in RunId :
    execs[r] > 0 => status[r] \in TerminalState \cup {"NeedsReconciliation"}

(* A run that is reported terminal holds no runtime authority: source.cancel *)
(* or source.reconcile came first, or the execution returned cancelled and  *)
(* had revoked its own.                                                     *)
TerminalHoldsNothing ==
  \A r \in RunId : Ready /\ status[r] \in TerminalState => r \notin holds

(* Two runs of one idempotency key are never both executed: a retried       *)
(* request repeats no work, although a failed admission can leave a run of  *)
(* its key behind, a restart may hand the key to that run instead of the    *)
(* admitted one, and a power loss may take runs back.                       *)
OneExecutionPerKey ==
  \A r, q \in RunId :
    execs[r] > 0 /\ execs[q] > 0 /\ manifest[r][1] = manifest[q][1] => r = q

(* "A repeated idempotency key returns the existing handle".                *)
OneHandlePerKey == \A g, h \in issued : g[2][1] = h[2][1] => g = h

(* An attempt that was executed is eventually concluded in the journal, if  *)
(* interrupted runs are reconciled and failures stop: whatever else failed  *)
(* on the way, unless an abandoned stage directory keeps open from ever     *)
(* succeeding again (ListedRunsLoad of AtomicStore).                        *)
ExecutedRunsConclude ==
  \A r \in RunId :
    execs[r] > 0 ~> debris \/ (Ready /\ LastState(journal[r]) \in TerminalState)

(* "Intent exists, no external effect | mark failed-before-effect": a run   *)
(* that needs reconciliation is eventually reported terminal.               *)
FencedRunsConclude ==
  \A r \in RunId :
    status[r] = "NeedsReconciliation" ~>
      Ready /\ status[r] \in TerminalState

=============================================================================
