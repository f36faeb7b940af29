----------------------------- MODULE CsbRunner -----------------------------
(***************************************************************************)
(* asb-csb-runner: a contained process under a durable lifecycle.          *)
(* start_with admits a request in a BoundarySession, journals Running and  *)
(* spawns; RunningCsb::cancel stops the scope; RunningCsb::wait reaps it,  *)
(* journals Collecting, stores the artifacts, journals the outcome and     *)
(* releases the operation.                                                 *)
(*                                                                         *)
(* The containment is module Sandbox, the store its contract JournalSpec   *)
(* (without power losses, which would end every process anyway).  A launch *)
(* is one attempt to start one run; two launches of the same run, in one   *)
(* process or in two, are a retry and a race.  A session is owned by a     *)
(* process and borrowed mutably by start and by wait, so two such calls on *)
(* one session do not overlap.  A process that dies takes its session, and *)
(* all its launches, with it.  Validation of requests, of the negotiated   *)
(* limits and of the pinned executable is an early return before any       *)
(* effect.                                                                 *)
(***************************************************************************)
EXTENDS Sandbox, Lifecycle

CONSTANTS
  Runs,
  Sessions,
  MaxInFlight   \* limits.max_in_flight

VARIABLES
  run,        \* run[l]: the run a launch is for
  session,    \* session[l]: the session it uses
  stage,      \* stage[l]: how far start_with or wait has come
  active,     \* active[s]: the operations awaiting terminal evidence
  admitted,   \* admitted[s]: the operations ever admitted
  stored,     \* the runs whose artifacts were stored
  created, journal, kept, promised   \* the store, see JournalSpec

Store == INSTANCE JournalSpec

store == <<created, journal, kept, promised>>
sessions == <<active, admitted>>
fixed == <<run, session>>
csb == <<fixed, stage, sessions, stored, store>>
allVars == <<vars, csb>>

Stages ==
  {"idle", "append", "appended", "spawn", "spawning", "running", "waiting",
   "collect", "collected", "artifacts", "conclude", "concluded", "over"}

CsbTypeOK ==
  /\ TypeOK
  /\ run \in [Launches -> Runs]
  /\ session \in [Launches -> Sessions]
  /\ stage \in [Launches -> Stages]
  /\ active \in [Sessions -> SUBSET Runs]
  /\ admitted \in [Sessions -> SUBSET Runs]
  /\ stored \subseteq Runs
  /\ Store!TypeOK

(* Every run was created and prepared before. *)
CsbInit ==
  /\ Init
  /\ run \in [Launches -> Runs]
  /\ session \in [Launches -> Sessions]
  /\ stage = [l \in Launches |-> "idle"]
  /\ active = [s \in Sessions |-> {}]
  /\ admitted = [s \in Sessions |-> {}]
  /\ stored = {}
  /\ created = Runs
  /\ kept = Runs
  /\ journal = [r \in Runs |-> <<"Planned", "Prepared">>]
  /\ promised = journal

-----------------------------------------------------------------------------

In(l, where) == stage[l] = where
Become(l, where) == stage' = [stage EXCEPT ![l] = where]

(* The session is borrowed by a start or a wait in progress. *)
Busy(s) ==
  \E l \in Launches : session[l] = s /\ stage[l] \notin {"idle", "running", "over"}

(* recovery_decision is Resume(Prepared). *)
Resumable(r) == RecoveryDecision(LastState(journal[r])) = "Resume"

(* BoundarySession::admit. *)
Admits(s, r) ==
  /\ r \notin active[s] \cup admitted[s]
  /\ Cardinality(active[s]) < MaxInFlight

Start(l) ==
  /\ In(l, "idle") /\ At(l, "held")
  /\ ~Busy(session[l])
  /\ Resumable(run[l])
  /\ Admits(session[l], run[l])
  /\ active' = [active EXCEPT ![session[l]] = @ \cup {run[l]}]
  /\ admitted' = [admitted EXCEPT ![session[l]] = @ \cup {run[l]}]
  /\ Become(l, "append")
  /\ UNCHANGED <<vars, fixed, stored, store>>

(* The checks before the intent fail, or the caller gives the lease up.     *)
Refuse(l) ==
  /\ In(l, "idle")
  /\ DropLease(l)
  /\ UNCHANGED csb

(* The journal cannot be read for the sequence of the event: an error       *)
(* return without rollback_before_effect, so the operation stays active.    *)
IntentUnread(l) ==
  /\ In(l, "append") /\ At(l, "held")
  /\ Fault
  /\ Goto(l, "rollback")
  /\ Become(l, "over")
  /\ UNCHANGED <<lease, handle, host, fixed, sessions, stored, store>>

(* Mutant: spawns without waiting for the acknowledgement. *)
MutAppendIntent(l) ==
  /\ In(l, "append") /\ At(l, "held")
  /\ Store!Extend(run[l], "Running")
  /\ Become(l, "spawn")
  /\ UNCHANGED <<vars, fixed, sessions, stored>>

(* store.append of Running: visible, then acknowledged. *)
AppendIntent(l) ==
  /\ In(l, "append") /\ At(l, "held")
  /\ Store!Extend(run[l], "Running")
  /\ Become(l, "appended")
  /\ UNCHANGED <<vars, fixed, sessions, stored>>

AckIntent(l) ==
  /\ In(l, "appended") /\ At(l, "held")
  /\ Store!PromiseEvents(run[l])
  /\ Become(l, "spawn")
  /\ UNCHANGED <<vars, fixed, sessions, stored>>

(* Mutant: a refused append is taken for an intent that is already there. *)
MutIntentFails(l) ==
  /\ In(l, "append") /\ At(l, "held")
  /\ "Running" \in ToSet(promised[run[l]])
  /\ Become(l, "spawn")
  /\ UNCHANGED <<vars, fixed, sessions, stored, store>>

(* The append is refused, because another launch has journaled Running, or  *)
(* fails before or after it is visible: rollback_before_effect, and the     *)
(* lease is dropped.                                                        *)
IntentFails(l) ==
  /\ In(l, "append") \/ In(l, "appended")
  /\ At(l, "held")
  /\ Goto(l, "rollback")
  /\ \/ In(l, "append") /\ LastState(journal[run[l]]) # "Prepared" /\ UNCHANGED faults
     \/ Fault
  /\ active' = [active EXCEPT ![session[l]] = @ \ {run[l]}]
  /\ admitted' = [admitted EXCEPT ![session[l]] = @ \ {run[l]}]
  /\ Become(l, "idle")
  /\ UNCHANGED <<lease, handle, host, fixed, stored, store>>

StartSpawn(l) ==
  /\ In(l, "spawn")
  /\ Spawn(l)
  /\ Become(l, "spawning")
  /\ UNCHANGED <<fixed, sessions, stored, store>>

(* The descriptor flag cannot be set, or the sandbox refuses the launch     *)
(* before it starts anything: the operation stays active.                   *)
SpawnFails(l) ==
  /\ In(l, "spawn") /\ At(l, "held")
  /\ Fault
  /\ Goto(l, "rollback")
  /\ Become(l, "over")
  /\ UNCHANGED <<lease, handle, host, fixed, sessions, stored, store>>

SpawnReturns(l) ==
  /\ In(l, "spawning") /\ At(l, "handle")
  /\ Become(l, "running")
  /\ UNCHANGED <<vars, fixed, sessions, stored, store>>

(* The launch has failed, and with it start_with. *)
SpawnReturnsError(l) ==
  /\ In(l, "spawning") /\ At(l, "done")
  /\ Become(l, "over")
  /\ UNCHANGED <<vars, fixed, sessions, stored, store>>

-----------------------------------------------------------------------------

CallCancel(l) ==
  /\ In(l, "running")
  /\ Cancel(l) \/ CancelFails(l)
  /\ UNCHANGED csb

CallWait(l) ==
  /\ In(l, "running")
  /\ ~Busy(session[l])
  /\ Wait(l)
  /\ Become(l, "waiting")
  /\ UNCHANGED <<fixed, sessions, stored, store>>

(* Mutant: the error of the scope cleanup is dropped. *)
MutWaitSucceeds(l) ==
  /\ In(l, "waiting") /\ At(l, "handle")
  /\ Become(l, "collect")
  /\ UNCHANGED <<vars, fixed, sessions, stored, store>>

(* child.wait()? *)
WaitSucceeds(l) ==
  /\ In(l, "waiting") /\ At(l, "handle")
  /\ ~call[l].failed
  /\ Become(l, "collect")
  /\ UNCHANGED <<vars, fixed, sessions, stored, store>>

(* Everything but the happy end drops the handle and leaves the operation   *)
(* active: the wait failed, a store call failed, the flag of the descriptor *)
(* cannot be restored, or the owner drops a RunningCsb without waiting.     *)
GiveUp(l) ==
  /\ \/ In(l, "waiting") /\ call[l].failed /\ UNCHANGED faults
     \/ In(l, "running") /\ UNCHANGED faults
     \/ stage[l] \in {"spawning", "collect", "collected", "artifacts",
                      "conclude", "concluded"} /\ Fault
  /\ At(l, "handle")
  /\ Enter(l, IF cleanup[l] THEN "stop" ELSE "drop", "drop")
  /\ Become(l, "over")
  /\ UNCHANGED <<lease, handle, host, fixed, sessions, stored, store>>

Collect(l) ==
  /\ In(l, "collect")
  /\ Store!Extend(run[l], "Collecting")
  /\ Become(l, "collected")
  /\ UNCHANGED <<vars, fixed, sessions, stored>>

AckCollect(l) ==
  /\ In(l, "collected")
  /\ Store!PromiseEvents(run[l])
  /\ Become(l, "artifacts")
  /\ UNCHANGED <<vars, fixed, sessions, stored>>

Succeeded(l) == output[l] = [why |-> "Exited", success |-> TRUE]

(* The artifacts of a run that did not succeed are not collected. *)
PutArtifacts(l) ==
  /\ In(l, "artifacts")
  /\ stored' = IF Succeeded(l) THEN stored \cup {run[l]} ELSE stored
  /\ Become(l, "conclude")
  /\ UNCHANGED <<vars, fixed, sessions, store>>

(* Mutant: the exit code alone decides. *)
MutOutcome(l) == IF output[l].success THEN "Completed" ELSE "Failed"

Outcome(l) ==
  CASE output[l].why = "Cancelled" -> "Cancelled"
    [] Succeeded(l) -> "Completed"
    [] OTHER -> "Failed"

(* Mutant: the operation is released before the event is durable. *)
MutConclude(l) ==
  /\ In(l, "conclude")
  /\ Store!Extend(run[l], Outcome(l))
  /\ active' = [active EXCEPT ![session[l]] = @ \ {run[l]}]
  /\ Become(l, "concluded")
  /\ UNCHANGED <<vars, fixed, admitted, stored>>

Conclude(l) ==
  /\ In(l, "conclude")
  /\ Store!Extend(run[l], Outcome(l))
  /\ Become(l, "concluded")
  /\ UNCHANGED <<vars, fixed, sessions, stored>>

(* session.finish, and the consumed handle is dropped. *)
AckConclude(l) ==
  /\ In(l, "concluded") /\ At(l, "handle")
  /\ Store!PromiseEvents(run[l])
  /\ active' = [active EXCEPT ![session[l]] = @ \ {run[l]}]
  /\ Enter(l, IF cleanup[l] THEN "stop" ELSE "drop", "drop")
  /\ Become(l, "over")
  /\ UNCHANGED <<lease, handle, host, faults, fixed, admitted, stored>>

-----------------------------------------------------------------------------

(* The process of a session dies, with all that is in progress. *)
Die(s) ==
  /\ \E l \in Launches : session[l] = s /\ call[l].pc \notin {"idle", "done", "dead"}
  /\ Fault
  /\ call' = [l \in Launches |->
       IF session[l] = s /\ call[l].pc # "done"
       THEN [call[l] EXCEPT !.pc = "dead"] ELSE call[l]]
  /\ active' = [active EXCEPT ![s] = {}]
  /\ admitted' = [admitted EXCEPT ![s] = {}]
  /\ stage' = [l \in Launches |-> IF session[l] = s THEN "over" ELSE stage[l]]
  /\ UNCHANGED <<lease, handle, host, fixed, stored, store>>

Progress(l) ==
  \/ (Step(l) /\ UNCHANGED csb)
  \/ IntentUnread(l) \/ AppendIntent(l) \/ AckIntent(l) \/ IntentFails(l)
  \/ StartSpawn(l) \/ SpawnFails(l) \/ SpawnReturns(l) \/ SpawnReturnsError(l)
  \/ WaitSucceeds(l) \/ GiveUp(l)
  \/ Collect(l) \/ AckCollect(l) \/ PutArtifacts(l) \/ Conclude(l) \/ AckConclude(l)

CsbNext ==
  \/ \E l \in Launches :
       \/ Progress(l)
       \/ (Host(l) \/ BeginAcquire(l)) /\ UNCHANGED csb
       \/ Start(l) \/ Refuse(l) \/ CallCancel(l) \/ CallWait(l)
  \/ \E s \in Sessions : Die(s)

CsbSpec == CsbInit /\ [][CsbNext]_allVars

-----------------------------------------------------------------------------

(* However often and from however many processes a run is started, at most  *)
(* one process is ever spawned for it: the journal decides races, and a     *)
(* Running event whose append failed half-way still stops the retry.        *)
SpawnedOnce ==
  \A l, m \in Launches :
    run[l] = run[m] /\ life[l] # "None" /\ life[m] # "None" => l = m

(* No process exists without a durable Running event. *)
IntentBeforeSpawn ==
  \A l \in Launches :
    life[l] # "None" => "Running" \in ToSet(promised[run[l]])

(* Once the journal tells the outcome, nothing of the run is alive: wait    *)
(* reports terminal evidence only after the scope has ended.                *)
OutcomeMeansGone ==
  \A l \in Launches :
    LastState(journal[run[l]]) \in TerminalState /\ life[l] # "None" => ~Alive(l)

(* A Completed run was neither cancelled nor timed out, its program exited  *)
(* with 0 by itself, and its artifacts were stored before.                  *)
CompletedIsEarned ==
  \A l \in Launches :
    LastState(journal[run[l]]) = "Completed" /\ life[l] # "None" =>
      run[l] \in stored /\ l \notin touched

(* An admitted operation leaves the active set only with durable terminal   *)
(* evidence, so an in-flight slot is never freed under an uncertain effect. *)
ReleasedWithEvidence ==
  /\ CsbTypeOK
  /\ \A s \in Sessions : \A r \in admitted[s] \ active[s] :
       LastState(promised[r]) \in TerminalState

=============================================================================
