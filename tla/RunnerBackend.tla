---------------------------- MODULE RunnerBackend ----------------------------
(***************************************************************************)
(* RunnerBackend of asb-cli/src/control.rs: the control service behind the *)
(* command line and the terminal frontend.  Client threads create plans,   *)
(* launch, poll, cancel and repeat runs; every launch has a worker thread; *)
(* all share one durable catalog and one orchestrator, each behind a       *)
(* mutex.  The process can die between any two steps and is reopened from  *)
(* the catalog and the orchestrator's journal.                             *)
(*                                                                         *)
(* The catalog mutex is held over several steps by the calls in Holding,   *)
(* the orchestrator mutex by a worker in Executing; every other critical   *)
(* section is one step.  After a failed commit the live catalog is read    *)
(* back from disk, so one variable stands for both.  The orchestrator is   *)
(* its status per run and the last journaled state (see Orchestrator); a   *)
(* run number past 9 is not reached.  Calls that are refused without       *)
(* effect answer like any other failed call.                               *)
(***************************************************************************)
EXTENDS Lifecycle, FiniteSets

CONSTANTS
  Clients, Keys,  \* who calls, and the idempotency keys of their mutations
  Plans, Runs,    \* plan ids (digests of the plan's content) and run ids
  RunOf,          \* RunOf[p]: plan.run_id
  RequestOf,      \* RequestOf[p]: the digest of plan_request(p)
  MaxFaults,      \* bound: failed writes, failed calls and process deaths
  MaxCalls,       \* bound: calls made
  None

ASSUME PlanAssumption == RunOf \in [Plans -> Runs] /\ None \notin Plans
ASSUME BoundAssumption == MaxFaults \in Nat /\ MaxCalls \in Nat

PublicState ==
  {"Planned", "Prepared", "Running", "Collecting", "NeedsReconciliation"}
    \cup TerminalState

EventKind ==
  {"RunUpdated", "RunStarted", "RunCompleted", "RunCancelled", "RunFailed",
   "ReconciliationRequired"}

VARIABLES
  catalog,  \* the catalog, on disk and in memory
  \* the process
  up,       \* open has returned and the process is alive
  call,     \* call[c]: where the client's call is
  worker,   \* worker[r]: where the worker thread of r is
  \* orchestrator and authority source
  svc,      \* svc[r]: RunStatus, or "Absent"
  flag,     \* flag[r]: the entry in `cancelled`: "none", "clear" or "set"
  source,   \* source[r]: the plan the authority source would execute
  asked,    \* asked[r]: the request digest of the run's manifest
  journal,  \* journal[r]: the last state the orchestrator journaled
  \* history and bounds
  ran,      \* ran[r]: the plans executed under r, in order
  answers,  \* the mutations answered with Ok
  faults, calls

service == <<svc, flag, source, asked, journal>>
vars == <<catalog, up, call, worker, service, ran, answers, faults, calls>>

(* What a call asks for; an idempotency key is bound to it.                 *)
Ask ==
  [op : {"create", "launch"}, on : Plans]
    \cup [op : {"status", "cancel", "repeat"}, on : Runs]

RunFor(ask) == IF ask.op = "launch" THEN RunOf[ask.on] ELSE ask.on

RunRecord == [plan : Plans, state : PublicState]

MutationRecord ==
  [ask : Ask, state : {"Intent", "Committed", "NeedsReconciliation"}]

ASSUME NoneAssumption == None \notin RunRecord \cup MutationRecord

Catalog ==
  [plans : SUBSET Plans,
   runs : [Runs -> RunRecord \cup {None}],
   latest : [Runs -> EventKind \cup {None}],  \* the run's last event
   muts : [Keys -> MutationRecord \cup {None}]]

Idle == [pc |-> "idle", key |-> None, ask |-> None]

(* Where a call holds the catalog mutex between two steps.                  *)
Holding == {"admit", "intent", "start", "send", "refresh", "signal", "polling"}

(* Where a worker holds the orchestrator mutex between two steps.           *)
Executing == {"executing", "returned", "concluding"}

CatalogFree == up /\ \A c \in Clients : call[c].pc \notin Holding
ServiceFree == up /\ \A r \in Runs : worker[r].pc \notin Executing

Thread(pc, goal) == [pc |-> pc, goal |-> goal]
NoThread == Thread("none", "Absent")

TypeOK ==
  /\ catalog \in Catalog
  /\ up \in BOOLEAN
  /\ call \in [Clients ->
       [pc : {"idle", "look", "poll", "cancelled", "finished"} \cup Holding,
        key : Keys \cup {None}, ask : Ask \cup {None}]]
  /\ worker \in [Runs ->
       [pc : {"none", "gate", "go", "report"} \cup Executing,
        goal : TerminalState \cup {"Absent"}]]
  /\ svc \in [Runs -> RunStatus \cup {"Absent"}]
  /\ flag \in [Runs -> {"none", "clear", "set"}]
  /\ source \in [Runs -> Plans \cup {None}]
  /\ asked \in [Runs -> {RequestOf[p] : p \in Plans} \cup {None}]
  /\ journal \in [Runs -> ExecutionState \cup {NoState}]
  /\ ran \in [Runs -> Seq(Plans)]
  /\ answers \subseteq Keys \X Ask
  /\ faults \in 0 .. MaxFaults
  /\ calls \in 0 .. MaxCalls

(* Some plans exist already, created under keys that are not used again.    *)
Init ==
  /\ catalog \in [plans : SUBSET Plans, runs : {[r \in Runs |-> None]},
                 latest : {[r \in Runs |-> None]},
                 muts : {[k \in Keys |-> None]}]
  /\ up = TRUE
  /\ call = [c \in Clients |-> Idle]
  /\ worker = [r \in Runs |-> NoThread]
  /\ svc = [r \in Runs |-> "Absent"]
  /\ flag = [r \in Runs |-> "none"]
  /\ source = [r \in Runs |-> None]
  /\ asked = [r \in Runs |-> None]
  /\ journal = [r \in Runs |-> NoState]
  /\ ran = [r \in Runs |-> <<>>]
  /\ answers = {}
  /\ faults = 0
  /\ calls = 0

-----------------------------------------------------------------------------
(* The catalog and its commits.                                             *)

Fault == faults < MaxFaults /\ faults' = faults + 1

Live == {"Planned", "Prepared", "Running", "Collecting"}

(* The event kind validate_catalog wants last for a state. *)
Kind(state) ==
  CASE state = "Running" -> "RunStarted"
    [] state = "Completed" -> "RunCompleted"
    [] state = "Failed" -> "RunFailed"
    [] state = "Cancelled" -> "RunCancelled"
    [] state = "NeedsReconciliation" -> "ReconciliationRequired"
    [] OTHER -> "RunUpdated"

HasState(c, r, states) == c.runs[r] # None /\ c.runs[r].state \in states

(* The mutation's target is what its result speaks of. *)
ValidMutation(c, m) ==
  LET ask == m.ask IN
  CASE ask.op = "create" -> ask.on \in c.plans
    [] ask.op = "cancel" /\ m.state = "Committed" ->
         HasState(c, ask.on, {"Cancelled"})
    [] OTHER -> c.runs[RunFor(ask)] # None

(* validate_catalog: what a catalog must satisfy to be committed or loaded. *)
Valid(c) ==
  /\ \A r \in Runs : c.runs[r] # None =>
       /\ c.runs[r].plan \in c.plans
       /\ c.latest[r] = Kind(c.runs[r].state)
  /\ \A k \in Keys : c.muts[k] # None => ValidMutation(c, c.muts[k])

(* The run's new state, and the event appended with it. *)
SetRun(c, r, state, kind) ==
  [c EXCEPT !.runs[r].state = state, !.latest[r] = kind]

SetMut(c, k, ask, state) ==
  [c EXCEPT !.muts[k] = [ask |-> ask, state |-> state]]

Commits(staged) == Valid(staged) /\ catalog' = staged /\ UNCHANGED faults

(* The deadline has passed, the catalog is refused, or a write failed: in   *)
(* the last case the new catalog may already be the one on disk.            *)
CommitFails(staged, deadline) ==
  \/ /\ deadline \/ ~Valid(staged)
     /\ UNCHANGED <<catalog, faults>>
  \/ /\ Fault
     /\ catalog' \in {catalog} \cup (IF Valid(staged) THEN {staged} ELSE {})

Go(c, pc) == call' = [call EXCEPT ![c].pc = pc] /\ UNCHANGED answers

Err(c) == call' = [call EXCEPT ![c] = Idle] /\ UNCHANGED answers

Ok(c) ==
  /\ call' = [call EXCEPT ![c] = Idle]
  /\ answers' = answers \cup {<<call[c].key, call[c].ask>>}

-----------------------------------------------------------------------------
(* Calls in general.                                                        *)

At(c, pc) == up /\ call[c].pc = pc
AtOp(c, op) == CatalogFree /\ At(c, "look") /\ call[c].ask.op = op
NewKey(c) == catalog.muts[call[c].key] = None

(* A request arrives and waits for the catalog.  Reads are not counted.     *)
Arrive(c, k, ask) ==
  /\ At(c, "idle")
  /\ (ask.op = "status") = (k = None)
  /\ calls' = IF k = None THEN calls ELSE calls + 1
  /\ calls' <= MaxCalls
  /\ call' = [call EXCEPT ![c] = [pc |-> "look", key |-> k, ask |-> ask]]
  /\ UNCHANGED <<catalog, up, worker, service, ran, answers, faults>>

(* Mutant: the key alone decides. *)
MutRetry(c) ==
  /\ CatalogFree /\ At(c, "look") /\ call[c].ask.op # "status"
  /\ ~NewKey(c)
  /\ IF catalog.muts[call[c].key].state = "Committed" THEN Ok(c) ELSE Err(c)
  /\ UNCHANGED <<catalog, up, worker, service, ran, faults, calls>>

(* The idempotency key is known: the recorded result, if it is committed.   *)
Retry(c) ==
  /\ CatalogFree /\ At(c, "look") /\ call[c].ask.op # "status"
  /\ ~NewKey(c)
  /\ IF catalog.muts[call[c].key] = [ask |-> call[c].ask, state |-> "Committed"]
       THEN Ok(c) ELSE Err(c)
  /\ UNCHANGED <<catalog, up, worker, service, ran, faults, calls>>

(* The plans a repeat could create: its run id is new, being a digest.      *)
Fresh == {p \in Plans : \A q \in catalog.plans : RunOf[q] # RunOf[p]}

(* mutation: create_plan and repeat are one commit.                         *)
Mutate(c) ==
  LET ask == call[c].ask IN
  /\ AtOp(c, "create") \/ AtOp(c, "repeat")
  /\ NewKey(c)
  /\ ask.op = "repeat" => HasState(catalog, ask.on, {"Completed"})
  /\ \E p \in IF ask.op = "create" THEN {ask.on} ELSE Fresh :
       LET staged == SetMut([catalog EXCEPT !.plans = @ \cup {p}],
                            call[c].key, ask, "Committed")
       IN \/ Commits(staged) /\ Ok(c)
          \/ CommitFails(staged, TRUE) /\ Err(c)
  /\ UNCHANGED <<up, worker, service, ran, calls>>

(* Mutant: a cancel of a run without a worker is left waiting for one. *)
MutRefuse(c) ==
  LET ask == call[c].ask IN
  /\ CatalogFree /\ At(c, "look")
  /\ ask.op # "status" => NewKey(c)
  /\ CASE ask.op = "launch" -> ask.on \notin catalog.plans
       [] ask.op = "status" -> catalog.runs[ask.on] = None
       [] ask.op = "repeat" -> ~HasState(catalog, ask.on, {"Completed"})
                                 \/ Fresh = {}
       [] ask.op = "cancel" -> ~HasState(catalog, ask.on, Live)
       [] OTHER -> FALSE
  /\ Err(c)
  /\ UNCHANGED <<catalog, up, worker, service, ran, faults, calls>>

(* NotFound, Rejected and StaleIdentity; and a repeat when the bound on     *)
(* plans is reached.                                                        *)
Refuse(c) ==
  LET ask == call[c].ask IN
  /\ CatalogFree /\ At(c, "look")
  /\ ask.op # "status" => NewKey(c)
  /\ CASE ask.op = "launch" -> ask.on \notin catalog.plans
       [] ask.op = "status" -> catalog.runs[ask.on] = None
       [] ask.op = "repeat" -> ~HasState(catalog, ask.on, {"Completed"})
                                 \/ Fresh = {}
       [] ask.op = "cancel" -> worker[ask.on] = NoThread
                                 \/ ~HasState(catalog, ask.on, Live)
       [] OTHER -> FALSE
  /\ Err(c)
  /\ UNCHANGED <<catalog, up, worker, service, ran, faults, calls>>

-----------------------------------------------------------------------------
(* launch: one call, holding the catalog to its end.                        *)

LaunchLook(c) ==
  /\ AtOp(c, "launch") /\ NewKey(c)
  /\ call[c].ask.on \in catalog.plans
  /\ Go(c, "admit")
  /\ UNCHANGED <<catalog, up, worker, service, ran, faults, calls>>

(* A run that is already in the catalog is not launched again.              *)
Admitted(c, r) == IF catalog.runs[r] = None THEN Go(c, "intent") ELSE Err(c)

(* admit_plan hands the plan to the authority source first; a known run id  *)
(* is then admitted again or refused, depending on its request.             *)
AdmitKnown(c) ==
  LET p == call[c].ask.on
      r == RunOf[p] IN
  /\ At(c, "admit") /\ ServiceFree
  /\ svc[r] # "Absent"
  /\ source' = [source EXCEPT ![r] = p]
  /\ IF asked[r] = RequestOf[p] THEN Admitted(c, r) ELSE Err(c)
  /\ UNCHANGED <<catalog, up, worker, svc, flag, asked, journal, ran, faults,
                 calls>>

AdmitNew(c) ==
  LET p == call[c].ask.on
      r == RunOf[p] IN
  /\ At(c, "admit") /\ ServiceFree
  /\ svc[r] = "Absent"
  /\ source' = [source EXCEPT ![r] = p]
  /\ asked' = [asked EXCEPT ![r] = RequestOf[p]]
  /\ svc' = [svc EXCEPT ![r] = "Prepared"]
  /\ journal' = [journal EXCEPT ![r] = "Prepared"]
  /\ flag' = [flag EXCEPT ![r] = IF @ = "none" THEN "clear" ELSE @]
  /\ Admitted(c, r)
  /\ UNCHANGED <<catalog, up, worker, ran, faults, calls>>

(* Mutant: the launch goes on although the run was not admitted. *)
MutAdmitFails(c) ==
  /\ At(c, "admit") /\ ServiceFree
  /\ svc[RunOf[call[c].ask.on]] = "Absent"
  /\ Fault
  /\ Go(c, "intent")
  /\ UNCHANGED <<catalog, up, worker, service, ran, calls>>

(* A store error: before the record exists, or in the persist of Prepared.  *)
AdmitFails(c) ==
  LET p == call[c].ask.on
      r == RunOf[p] IN
  /\ At(c, "admit") /\ ServiceFree
  /\ svc[r] = "Absent"
  /\ Fault
  /\ source' = [source EXCEPT ![r] = p]
  /\ \/ UNCHANGED <<svc, flag, asked, journal>>
     \/ /\ asked' = [asked EXCEPT ![r] = RequestOf[p]]
        /\ journal' = [journal EXCEPT ![r] = "Planned"]
        /\ UNCHANGED <<svc, flag>>
     \/ /\ asked' = [asked EXCEPT ![r] = RequestOf[p]]
        /\ \E s \in {"Planned", "Prepared"} :
             journal' = [journal EXCEPT ![r] = s]
        /\ svc' = [svc EXCEPT ![r] = "NeedsReconciliation"]
        /\ flag' = [flag EXCEPT ![r] = IF @ = "none" THEN "clear" ELSE @]
  /\ Err(c)
  /\ UNCHANGED <<catalog, up, worker, ran, calls>>

(* The run and the launch's intent become durable. *)
Intent(c) ==
  LET p == call[c].ask.on
      r == RunOf[p]
      added == [catalog EXCEPT !.runs[r] = [plan |-> p, state |-> "Planned"],
                               !.latest[r] = "RunUpdated"]
      staged == SetMut(added, call[c].key, call[c].ask, "Intent") IN
  /\ At(c, "intent")
  /\ \/ Commits(staged) /\ Go(c, "start")
     \/ CommitFails(staged, TRUE) /\ Err(c)
  /\ UNCHANGED <<up, worker, service, ran, calls>>

(* Mutant: the worker does not wait for the commit. *)
MutStart(c) ==
  LET r == RunFor(call[c].ask)
      staged == SetMut(SetRun(catalog, r, "Running", "RunStarted"),
                       call[c].key, call[c].ask, "Committed") IN
  /\ At(c, "start")
  /\ \/ Commits(staged) /\ Go(c, "send")
     \/ CommitFails(staged, FALSE) /\ Err(c)
  /\ worker' = [worker EXCEPT ![r] = Thread("go", "Absent")]
  /\ UNCHANGED <<up, service, ran, calls>>

(* The worker thread is spawned, to wait at its gate, and the launch is     *)
(* committed.  If that fails the thread sees the gate closed and ends.      *)
Start(c) ==
  LET r == RunFor(call[c].ask)
      staged == SetMut(SetRun(catalog, r, "Running", "RunStarted"),
                       call[c].key, call[c].ask, "Committed") IN
  /\ At(c, "start")
  /\ \/ /\ Commits(staged)
        /\ Go(c, "send")
        /\ worker' = [worker EXCEPT ![r] = Thread("gate", "Absent")]
     \/ CommitFails(staged, FALSE) /\ Err(c) /\ UNCHANGED worker
  /\ UNCHANGED <<up, service, ran, calls>>

(* start_sender.send(true) *)
Send(c) ==
  LET r == RunFor(call[c].ask) IN
  /\ At(c, "send")
  /\ worker' = [worker EXCEPT ![r].pc = "go"]
  /\ Ok(c)
  /\ UNCHANGED <<catalog, up, service, ran, faults, calls>>

(* quarantine_launch: the deadline passed, or the roots or the thread could *)
(* not be made, after the intent.  The worker is told not to start.         *)
Quarantine(c) ==
  LET r == RunFor(call[c].ask)
      fenced == SetRun(catalog, r, "NeedsReconciliation",
                       "ReconciliationRequired")
      staged == SetMut(fenced, call[c].key, call[c].ask, "NeedsReconciliation")
  IN
  /\ At(c, "start") \/ At(c, "send")
  /\ Commits(staged) \/ CommitFails(staged, FALSE)
  /\ worker' = [worker EXCEPT ![r] = NoThread]
  /\ Err(c)
  /\ UNCHANGED <<up, service, ran, calls>>

-----------------------------------------------------------------------------
(* The worker thread: execute_plan under the orchestrator mutex, then the   *)
(* outcome is carried into the catalog.                                     *)

(* Running is journaled and the source executes the plan it holds; or the   *)
(* journal fails, or the run is not Prepared and is refused.                *)
Execute(r) ==
  /\ worker[r].pc = "go" /\ ServiceFree
  /\ \/ /\ svc[r] = "Prepared"
        /\ svc' = [svc EXCEPT ![r] = "Running"]
        /\ journal' = [journal EXCEPT ![r] = "Running"]
        /\ ran' = [ran EXCEPT ![r] = Append(@, source[r])]
        /\ worker' = [worker EXCEPT ![r].pc = "executing"]
        /\ UNCHANGED faults
     \/ /\ svc[r] = "Prepared"
        /\ Fault
        /\ svc' = [svc EXCEPT ![r] = "NeedsReconciliation"]
        /\ \E s \in {"Prepared", "Running"} :
             journal' = [journal EXCEPT ![r] = s]
        /\ worker' = [worker EXCEPT ![r].pc = "report"]
        /\ UNCHANGED ran
     \/ /\ svc[r] # "Prepared"
        /\ worker' = [worker EXCEPT ![r].pc = "report"]
        /\ UNCHANGED <<svc, journal, ran, faults>>
  /\ UNCHANGED <<catalog, up, call, flag, source, asked, answers, calls>>

(* The timer of execute_until: the deadline has passed.  Before the         *)
(* execution returns this makes the outcome a timeout; between the check of *)
(* the deadline and that of the flag it looks like a cancellation.          *)
TimerFires(r) ==
  /\ worker[r] \in {Thread("executing", "Absent"), Thread("returned", "Absent")}
  /\ flag[r] = "clear" \/ worker[r].pc = "executing"
  /\ flag' = [flag EXCEPT ![r] = "set"]
  /\ worker' = [worker EXCEPT ![r].goal =
                  IF worker[r].pc = "executing" THEN "Failed" ELSE @]
  /\ UNCHANGED <<catalog, up, call, svc, source, asked, journal, ran, answers,
                 faults, calls>>

(* The execution returns and the deadline is checked. *)
Return(r) ==
  /\ worker[r].pc = "executing"
  /\ worker' = [worker EXCEPT ![r].pc =
                  IF worker[r].goal = "Failed" THEN "concluding" ELSE "returned"]
  /\ UNCHANGED <<catalog, up, call, service, ran, answers, faults, calls>>

(* Then the flag. *)
ReadFlag(r) ==
  /\ worker[r].pc = "returned"
  /\ \E goal \in IF flag[r] = "set" THEN {"Cancelled"}
                 ELSE {"Completed", "Failed"} :
       worker' = [worker EXCEPT ![r] = Thread("concluding", goal)]
  /\ UNCHANGED <<catalog, up, call, service, ran, answers, faults, calls>>

(* Mutant: the outcome stands although it could not be journaled. *)
MutConclude(r) ==
  LET goal == worker[r].goal IN
  /\ worker[r].pc = "concluding"
  /\ svc' = [svc EXCEPT ![r] = goal]
  /\ \/ journal' = [journal EXCEPT ![r] = goal] /\ UNCHANGED faults
     \/ Fault /\ UNCHANGED journal
  /\ flag' = [flag EXCEPT ![r] = "none"]
  /\ worker' = [worker EXCEPT ![r] = Thread("report", "Absent")]
  /\ UNCHANGED <<catalog, up, call, source, asked, ran, answers, calls>>

(* The flag is dropped and the orchestrator journals the outcome, or fences *)
(* the run when it cannot.                                                  *)
Conclude(r) ==
  LET goal == worker[r].goal IN
  /\ worker[r].pc = "concluding"
  /\ \/ /\ svc' = [svc EXCEPT ![r] = goal]
        /\ journal' = [journal EXCEPT ![r] = goal]
        /\ UNCHANGED faults
     \/ /\ Fault
        /\ svc' = [svc EXCEPT ![r] = "NeedsReconciliation"]
        /\ \E s \in {"Running", goal}
                     \cup (IF goal = "Completed" THEN {"Collecting"} ELSE {}) :
             journal' = [journal EXCEPT ![r] = s]
  /\ flag' = [flag EXCEPT ![r] = "none"]
  /\ worker' = [worker EXCEPT ![r] = Thread("report", "Absent")]
  /\ UNCHANGED <<catalog, up, call, source, asked, ran, answers, calls>>

(* public_state_for_orchestration *)
Public(status) == IF status = "Admitted" THEN "Planned" ELSE status

(* What the orchestrator says of a run.  Without a record the result store  *)
(* would be asked (observed_state); RunsAreAdmitted rules that out.         *)
Observed(r) == Public(svc[r])

(* An execution that ended in no terminal status has failed: the run needs  *)
(* reconciliation.  The commit has no deadline and its failure is ignored.  *)
Report(r) ==
  LET seen == Observed(r)
      state == IF seen \in TerminalState THEN seen ELSE "NeedsReconciliation"
      staged == SetRun(catalog, r, state, Kind(state))
      told == catalog.runs[r].state = seen /\ seen \notin Live IN
  /\ worker[r].pc = "report" /\ ServiceFree /\ CatalogFree
  /\ \/ told /\ UNCHANGED <<catalog, faults>>
     \/ ~told /\ (Commits(staged) \/ CommitFails(staged, FALSE))
  /\ worker' = [worker EXCEPT ![r] = NoThread]
  /\ UNCHANGED <<up, call, service, ran, answers, calls>>

-----------------------------------------------------------------------------
(* status, and the polls of cancel: refresh.                                *)

StatusLook(c) ==
  /\ AtOp(c, "status")
  /\ catalog.runs[call[c].ask.on] # None
  /\ Go(c, "refresh")
  /\ UNCHANGED <<catalog, up, worker, service, ran, faults, calls>>

(* What the caller of refresh does with its answer. *)
Refreshed(c, state) ==
  IF At(c, "refresh") THEN Err(c)
  ELSE CASE state = "Cancelled" -> Go(c, "cancelled")
         [] state \in {"Completed", "Failed"} -> Go(c, "finished")
         [] OTHER -> Go(c, "poll")

(* Mutant: the state is taken from the catalog only. *)
MutRefresh(c) ==
  /\ At(c, "refresh") \/ At(c, "polling")
  /\ ServiceFree
  /\ Refreshed(c, catalog.runs[call[c].ask.on].state)
  /\ UNCHANGED <<catalog, faults, up, worker, service, ran, calls>>

(* The orchestrator is asked with the catalog held; a state that differs    *)
(* from the recorded one is committed.                                      *)
Refresh(c) ==
  LET r == call[c].ask.on
      state == Observed(r)
      staged == SetRun(catalog, r, state, Kind(state)) IN
  /\ At(c, "refresh") \/ At(c, "polling")
  /\ ServiceFree
  /\ IF state = catalog.runs[r].state
       THEN Refreshed(c, state) /\ UNCHANGED <<catalog, faults>>
       ELSE \/ Commits(staged) /\ Refreshed(c, state)
            \/ CommitFails(staged, TRUE) /\ Err(c)
  /\ UNCHANGED <<up, worker, service, ran, calls>>

-----------------------------------------------------------------------------
(* cancel: intent, signal, poll, settle.                                    *)

CancelIntent(c) ==
  LET r == call[c].ask.on
      staged == SetMut(catalog, call[c].key, call[c].ask, "Intent") IN
  /\ AtOp(c, "cancel") /\ NewKey(c)
  /\ worker[r] # NoThread
  /\ HasState(catalog, r, Live)
  /\ \/ Commits(staged) /\ Go(c, "signal")
     \/ CommitFails(staged, TRUE) /\ Err(c)
  /\ UNCHANGED <<up, worker, service, ran, calls>>

(* Mutant: the signal is acknowledged as the cancellation. *)
MutSignal(c) ==
  LET r == call[c].ask.on IN
  /\ At(c, "signal")
  /\ IF flag[r] = "none" THEN Err(c) /\ UNCHANGED flag
     ELSE Ok(c) /\ flag' = [flag EXCEPT ![r] = "set"]
  /\ UNCHANGED <<catalog, up, worker, svc, source, asked, journal, ran, faults,
                 calls>>

(* The authority source is signalled directly, if it still has the run.     *)
Signal(c) ==
  LET r == call[c].ask.on IN
  /\ At(c, "signal")
  /\ IF flag[r] = "none" THEN Err(c) /\ UNCHANGED flag
     ELSE Go(c, "poll") /\ flag' = [flag EXCEPT ![r] = "set"]
  /\ UNCHANGED <<catalog, up, worker, svc, source, asked, journal, ran, faults,
                 calls>>

Poll(c) ==
  /\ At(c, "poll") /\ CatalogFree
  /\ Go(c, "polling")
  /\ UNCHANGED <<catalog, up, worker, service, ran, faults, calls>>

(* The deadline of the cancel call passes. *)
Expire(c) ==
  /\ At(c, "signal") \/ At(c, "poll")
  /\ Err(c)
  /\ UNCHANGED <<catalog, up, worker, service, ran, faults, calls>>

(* The run ended: as cancelled, and the cancellation is committed; or       *)
(* otherwise, and its key is given back.                                    *)
Settle(c) ==
  LET done == SetMut(catalog, call[c].key, call[c].ask, "Committed")
      void == [catalog EXCEPT !.muts[call[c].key] = None] IN
  /\ CatalogFree
  /\ \/ At(c, "cancelled") /\ Commits(done) /\ Ok(c)
     \/ At(c, "cancelled") /\ CommitFails(done, TRUE) /\ Err(c)
     \/ At(c, "finished") /\ (Commits(void) \/ CommitFails(void, TRUE)) /\ Err(c)
  /\ UNCHANGED <<up, worker, service, ran, calls>>

-----------------------------------------------------------------------------
(* Process death and restart.                                               *)

Crash ==
  /\ up
  /\ Fault
  /\ up' = FALSE
  /\ call' = [c \in Clients |-> Idle]
  /\ worker' = [r \in Runs |-> NoThread]
  /\ svc' = [r \in Runs |-> "Absent"]
  /\ flag' = [r \in Runs |-> "none"]
  /\ source' = [r \in Runs |-> None]
  /\ UNCHANGED <<catalog, asked, journal, ran, answers, calls>>

(* Orchestrator::open *)
Reopened(r) == IF journal[r] = NoState THEN "Absent" ELSE FromState(journal[r])

(* reconcile_catalog, part one: the runs. *)
ReconcileRuns(c) ==
  LET observed(r) == Public(Reopened(r))
      uncertain(r) == \E k \in Keys :
        /\ c.muts[k] # None
        /\ c.muts[k].ask.op \in {"launch", "cancel"}
        /\ RunFor(c.muts[k].ask) = r
      state(r) == IF \/ observed(r) \in {"Running", "Collecting"}
                     \/ uncertain(r) /\ observed(r) \in Live
                  THEN "NeedsReconciliation" ELSE observed(r)
      moved(r) == c.runs[r] # None /\ c.runs[r].state # state(r)
  IN [c EXCEPT
       !.runs = [r \in Runs |-> IF moved(r) THEN [@[r] EXCEPT !.state = state(r)]
                                ELSE @[r]],
       !.latest = [r \in Runs |-> IF moved(r) THEN Kind(state(r)) ELSE @[r]]]

(* Mutant: a cancellation is committed whatever the run ended in. *)
MutReconcileMutation(c, m) ==
  LET ended == c.runs[RunFor(m.ask)].state
      as(state) == [m EXCEPT !.state = state] IN
  IF m = None \/ m.state # "Intent" THEN m
  ELSE CASE m.ask.op = "launch" /\ ran[RunFor(m.ask)] # <<>> -> as("Committed")
         [] m.ask.op = "cancel" /\ ended \in TerminalState -> as("Committed")
         [] OTHER -> as("NeedsReconciliation")

(* Part two: the mutations that were in flight, judged by the runs.  A      *)
(* launch is believed when the plan's result store holds a journal of the   *)
(* run, which the execution writes: ran stands for it.  An execution that   *)
(* ends before its first event leaves none; the launch's fate then differs, *)
(* and no property depends on it.                                           *)
ReconcileMutation(c, m) ==
  LET ended == c.runs[RunFor(m.ask)].state
      as(state) == [m EXCEPT !.state = state] IN
  IF m = None \/ m.state # "Intent" THEN m
  ELSE CASE m.ask.op = "launch" /\ ran[RunFor(m.ask)] # <<>> -> as("Committed")
         [] m.ask.op = "cancel" /\ ended = "Cancelled" -> as("Committed")
         [] m.ask.op = "cancel" /\ ended \in {"Completed", "Failed"} -> None
         [] OTHER -> as("NeedsReconciliation")

Reconciled ==
  LET c == ReconcileRuns(catalog)
  IN [c EXCEPT !.muts = [k \in Keys |-> ReconcileMutation(c, c.muts[k])]]

(* The catalog is loaded, reconciled with the orchestrator and committed,   *)
(* this time without validation.  Prepared runs are prepared again; of      *)
(* several plans with one run id the source keeps the last one.             *)
Open ==
  /\ ~up
  /\ Valid(catalog)
  /\ up' = TRUE
  /\ catalog' = Reconciled
  /\ svc' = [r \in Runs |-> Reopened(r)]
  /\ flag' = [r \in Runs |-> IF journal[r] = "Prepared" THEN "clear" ELSE "none"]
  /\ \E f \in [Runs -> Plans \cup {None}] :
       /\ source' = f
       /\ \A r \in Runs :
            LET mine == {p \in catalog.plans : RunOf[p] = r}
            IN IF mine = {} THEN f[r] = None ELSE f[r] \in mine
  /\ UNCHANGED <<call, worker, asked, journal, ran, answers, faults, calls>>

(* open gives up, before or after the catalog was replaced.                 *)
OpenFails ==
  /\ ~up
  /\ Valid(catalog)
  /\ Fault
  /\ catalog' \in {catalog, Reconciled}
  /\ UNCHANGED <<up, call, worker, service, ran, answers, calls>>

-----------------------------------------------------------------------------

(* What a call does once it has the locks it needs. *)
Advance(c) ==
  \/ Retry(c) \/ Mutate(c) \/ Refuse(c)
  \/ LaunchLook(c) \/ AdmitKnown(c) \/ AdmitNew(c) \/ Intent(c)
  \/ Start(c) \/ Send(c)
  \/ StatusLook(c) \/ Refresh(c)
  \/ CancelIntent(c) \/ Signal(c) \/ Poll(c) \/ Settle(c)

Work(r) == Execute(r) \/ Return(r) \/ ReadFlag(r) \/ Conclude(r) \/ Report(r)

Next ==
  \/ \E c \in Clients, k \in Keys \cup {None}, a \in Ask : Arrive(c, k, a)
  \/ \E c \in Clients :
       Advance(c) \/ AdmitFails(c) \/ Quarantine(c) \/ Expire(c)
  \/ \E r \in Runs : Work(r) \/ TimerFires(r)
  \/ Crash \/ Open \/ OpenFails

Spec == Init /\ [][Next]_vars

(* A refresh that is committed before its deadline. *)
RefreshInTime(c) == Refresh(c) /\ catalog' # catalog /\ UNCHANGED faults

(* A call that could take the locks it waits for often enough gets them and *)
(* goes on, a worker too; deadlines pass, but not in every refresh; a dead  *)
(* process is reopened, and a frontend keeps polling every run.             *)
FairSpec ==
  /\ Spec
  /\ \A c \in Clients :
       SF_vars(Advance(c)) /\ SF_vars(Expire(c)) /\ SF_vars(RefreshInTime(c))
  /\ \A r \in Runs : SF_vars(Work(r))
  /\ \A r \in Runs :
       SF_vars(\E c \in Clients : Arrive(c, None, [op |-> "status", on |-> r]))
  /\ WF_vars(Open)

-----------------------------------------------------------------------------

(* A launch executes at most once, and only after its intent and its        *)
(* commitment are durable, whatever retries, second launches under other    *)
(* keys, failed commits, deadlines and restarts happen: the worker's gate   *)
(* opens on a committed launch only.                                        *)
ExecutesCommittedOnce ==
  \A r \in Runs : ran[r] # <<>> =>
    /\ Len(ran[r]) = 1
    /\ \E k \in Keys :
         /\ catalog.muts[k] # None
         /\ catalog.muts[k].ask.op = "launch"
         /\ RunFor(catalog.muts[k].ask) = r
         /\ catalog.muts[k].state = "Committed"

(* "Success acknowledges durable cancellation state": a cancel answered     *)
(* with Ok is Cancelled in the catalog and in the orchestrator's journal,   *)
(* and both stay so over restarts.                                          *)
CancelIsDurable ==
  \A a \in answers : a[2].op = "cancel" =>
    /\ HasState(catalog, a[2].on, {"Cancelled"})
    /\ journal[a[2].on] = "Cancelled"

(* An idempotency key is answered with Ok for one request only, even when   *)
(* it was given back by a cancellation that came too late.                  *)
OneRequestPerKey == \A a, b \in answers : a[1] = b[1] => a = b

(* Every catalog that a commit, validated or not, leaves on disk can be     *)
(* loaded again: the unvalidated commit of a restart as well.               *)
CatalogLoads == TypeOK /\ Valid(catalog)

(* An end that the catalog reports is the one in the orchestrator's         *)
(* journal, although the two are written one after the other.               *)
ReportedEndIsJournaled ==
  \A r \in Runs :
    HasState(catalog, r, TerminalState) => journal[r] = catalog.runs[r].state

(* The orchestrator of a live process knows every run of the catalog, so    *)
(* its answer is never replaced by a guess from the result store.           *)
RunsAreAdmitted ==
  up => \A r \in Runs : catalog.runs[r] # None => svc[r] # "Absent"

(* Every call returns: no two of the catalog mutex, the orchestrator mutex  *)
(* and the worker's gate wait for each other.                               *)
CallsReturn == \A c \in Clients : (call[c].pc # "idle") ~> (call[c].pc = "idle")

(* What was executed is eventually reported as ended or uncertain.          *)
ExecutedRunsAreReported ==
  \A r \in Runs : ran[r] # <<>> ~>
    HasState(catalog, r, TerminalState \cup {"NeedsReconciliation"})

=============================================================================
