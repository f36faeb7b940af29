------------------------------ MODULE Sandbox ------------------------------
(***************************************************************************)
(* asb-runtime: one contained process per launch.  ResourceLease reserves  *)
(* CPUs with one file each, RunningProcess owns a process group (spawn,    *)
(* cancel, wait, drop), SandboxProcess adds the systemd scope around it    *)
(* and decides whether the lease may be given back.                        *)
(*                                                                         *)
(* Each launch is driven by its own thread; a call is split at every       *)
(* system call and every systemctl command, because the processes, the     *)
(* scope and the other launches move in between.  A command can fail       *)
(* (`faults` counts failures of tools, signals and file removals, expired  *)
(* cleanup deadlines and deaths of the harness).  Not modelled: the        *)
(* arguments of the commands, the bytes of the output, the test-only       *)
(* development fixture, a wall clock before 1970, and failures of waitid   *)
(* and wait on a child that was not reaped.                                *)
(***************************************************************************)
EXTENDS Integers, FiniteSets

CONSTANTS
  Launches,
  CpusOf,      \* CpusOf[l]: the CPUs launch l reserves and is pinned to
  MaxFaults,   \* bound: failures and deaths
  None

ASSUME CpuAssumption == \A l \in Launches : CpusOf[l] # {} /\ CpusOf[l] \subseteq Nat
ASSUME FaultAssumption == MaxFaults \in Nat /\ None \notin Launches

Cpus == UNION {CpusOf[l] : l \in Launches}

VARIABLES
  call,      \* call[l]: where the launch's thread is
  \* ResourceLease
  file,      \* file[c]: the launch that created cpu-c.lease, or None
  got,       \* got[l]: the lease's files
  release,   \* release[l]: release_on_drop
  stuck,     \* the CPUs whose lease file could not be removed
  \* RunningProcess and SandboxProcess
  life,      \* life[l]: lifecycle, "None" before the spawn
  pending,   \* pending[l]: pending, "None" or the reason
  output,    \* output[l]: the termination and whether the exit code was 0
  cleanup,   \* cleanup[l]: scope_cleanup_required
  \* the host
  leader,    \* leader[l]: the group leader, systemd-run and then Bubblewrap
  inner,     \* inner[l]: other processes of the scope, in their own session
  doomed,    \* the launches whose leader was sent KILL
  scope,     \* scope[l]: the unit as systemd reports it
  taken,     \* the launches whose unit name belongs to a stranger's scope
  harmed,    \* the launches that signalled a stranger
  touched,   \* the launches whose live leader was signalled
  faults

lease == <<file, got, stuck, release>>
handle == <<life, pending, output, cleanup>>
host == <<leader, inner, doomed, scope, taken, touched, harmed>>
vars == <<call, lease, handle, host, faults>>

Lifecycles ==
  {"None", "Running", "Cancelling", "TimingOut", "ExitedPendingReap", "Terminal"}

NoOutput == [why |-> "None", success |-> FALSE]
Outputs == [why : {"None", "Exited", "Cancelled", "TimedOut"}, success : BOOLEAN]

(* A thread: its place, what the call it is in returns to, and whether a    *)
(* part of that call has failed.                                            *)
Calls ==
  [pc : {"idle", "acquire", "rollback", "held", "bind", "own", "unowned",
         "handle", "drive", "finish", "stop", "kill", "requery", "halt",
         "poll", "drop", "dropped", "done", "dead"},
   after : {"none", "own", "quit", "cancel", "wait", "drop"},
   failed : BOOLEAN]

TypeOK ==
  /\ call \in [Launches -> Calls]
  /\ file \in [Cpus -> Launches \cup {None}]
  /\ got \in [Launches -> SUBSET Cpus]
  /\ stuck \subseteq Cpus
  /\ release \in [Launches -> BOOLEAN]
  /\ life \in [Launches -> Lifecycles]
  /\ pending \in [Launches -> {"None", "Cancelled", "TimedOut"}]
  /\ output \in [Launches -> Outputs]
  /\ cleanup \in [Launches -> BOOLEAN]
  /\ leader \in [Launches -> {"none", "starting", "inside", "success", "failure", "reaped"}]
  /\ inner \in [Launches -> BOOLEAN]
  /\ doomed \subseteq Launches
  /\ scope \in [Launches -> {"none", "active", "gone"}]
  /\ taken \subseteq Launches
  /\ harmed \subseteq Launches
  /\ touched \subseteq Launches
  /\ faults \in 0 .. MaxFaults

Init ==
  /\ call = [l \in Launches |-> [pc |-> "idle", after |-> "none", failed |-> FALSE]]
  /\ file = [c \in Cpus |-> None]
  /\ got = [l \in Launches |-> {}]
  /\ stuck = {}
  /\ release = [l \in Launches |-> TRUE]
  /\ life = [l \in Launches |-> "None"]
  /\ pending = [l \in Launches |-> "None"]
  /\ output = [l \in Launches |-> NoOutput]
  /\ cleanup = [l \in Launches |-> FALSE]
  /\ leader = [l \in Launches |-> "none"]
  /\ inner = [l \in Launches |-> FALSE]
  /\ doomed = {}
  /\ scope = [l \in Launches |-> "none"]
  /\ taken \in {{}} \cup {{l} : l \in Launches}
  /\ harmed = {}
  /\ touched = {}
  /\ faults = 0

-----------------------------------------------------------------------------

At(l, pc) == call[l].pc = pc

Goto(l, pc) == call' = [call EXCEPT ![l].pc = pc]

(* The next part of the call fails, or the call as a whole.                 *)
Fails(l, pc) == call' = [call EXCEPT ![l].pc = pc, ![l].failed = TRUE]

(* A call into the handle begins. *)
Enter(l, pc, after) ==
  call' = [call EXCEPT ![l] = [pc |-> pc, after |-> after, failed |-> FALSE]]

Fault == faults < MaxFaults /\ faults' = faults + 1

Live(l) == leader[l] \in {"starting", "inside"}
Exited(l) == leader[l] \in {"success", "failure"}
Gone(l) == leader[l] \in {"none", "reaped"}

(* leader_exited: waitid with NOWAIT, so the zombie stays. *)
LeaderExited(l) == Exited(l)

(* send_group.  A group id is free for strangers once its leader is reaped; *)
(* KILL reaches the leader, not the processes Bubblewrap has put into a     *)
(* session of their own.                                                    *)
SendGroup(l, signal) ==
  /\ harmed' = IF leader[l] = "reaped" THEN harmed \cup {l} ELSE harmed
  /\ touched' = IF Live(l) THEN touched \cup {l} ELSE touched
  /\ doomed' = IF signal = "KILL" THEN doomed \cup {l} ELSE doomed
  /\ UNCHANGED <<leader, inner, scope, taken>>

-----------------------------------------------------------------------------
(* ResourceLease                                                            *)

Least(S) == CHOOSE c \in S : \A d \in S : c <= d

BeginAcquire(l) ==
  /\ At(l, "idle")
  /\ Goto(l, "acquire")
  /\ UNCHANGED <<lease, handle, host, faults>>

(* create_new of the next file.                                             *)
Acquire(l) ==
  /\ At(l, "acquire")
  /\ got[l] # CpusOf[l]
  /\ LET c == Least(CpusOf[l] \ got[l])
     IN  /\ file[c] = None
         /\ file' = [file EXCEPT ![c] = l]
         /\ got' = [got EXCEPT ![l] = @ \cup {c}]
  /\ UNCHANGED <<call, stuck, release, handle, host, faults>>

(* The file is another reservation's.                                       *)
Conflict(l) ==
  /\ At(l, "acquire")
  /\ got[l] # CpusOf[l]
  /\ file[Least(CpusOf[l] \ got[l])] # None
  /\ Goto(l, "rollback")
  /\ UNCHANGED <<lease, handle, host, faults>>

(* The file cannot be created, or is removed because it cannot be written.  *)
AcquireFails(l) ==
  /\ At(l, "acquire")
  /\ got[l] # CpusOf[l]
  /\ Fault
  /\ Goto(l, "rollback")
  /\ UNCHANGED <<lease, handle, host>>

(* It can be neither written nor removed: it stays, though not in `files`.  *)
AcquireLeavesFile(l) ==
  /\ At(l, "acquire")
  /\ got[l] # CpusOf[l]
  /\ LET c == Least(CpusOf[l] \ got[l])
     IN  /\ file[c] = None
         /\ file' = [file EXCEPT ![c] = l]
         /\ stuck' = stuck \cup {c}
  /\ Fault
  /\ Goto(l, "rollback")
  /\ UNCHANGED <<got, release, handle, host>>

Acquired(l) ==
  /\ At(l, "acquire")
  /\ got[l] = CpusOf[l]
  /\ release' = [release EXCEPT ![l] = TRUE]
  /\ Goto(l, "held")
  /\ UNCHANGED <<file, got, stuck, handle, host, faults>>

Greatest(S) == CHOOSE c \in S : \A d \in S : c >= d

(* rollback, one file at a time.  Afterwards a caller that launched nothing *)
(* may try again.                                                           *)
Rollback(l) ==
  /\ At(l, "rollback")
  /\ got[l] # {}
  /\ LET c == Greatest(got[l])
     IN  /\ file' = [file EXCEPT ![c] = None]
         /\ got' = [got EXCEPT ![l] = @ \ {c}]
  /\ UNCHANGED <<call, stuck, release, handle, host, faults>>

(* remove_file fails, which rollback ignores: the file is forgotten and     *)
(* stays until an operator removes it.                                      *)
RollbackFails(l) ==
  /\ At(l, "rollback")
  /\ got[l] # {}
  /\ LET c == Greatest(got[l])
     IN  /\ stuck' = stuck \cup {c}
         /\ got' = [got EXCEPT ![l] = @ \ {c}]
  /\ Fault
  /\ UNCHANGED <<call, file, release, handle, host>>

RolledBack(l) ==
  /\ At(l, "rollback")
  /\ got[l] = {}
  /\ Goto(l, IF life[l] = "None" THEN "idle" ELSE "done")
  /\ UNCHANGED <<lease, handle, host, faults>>

(* The lease is dropped without a launch: the caller gives up, or           *)
(* spawn_with_identity returns before it has started anything.              *)
DropLease(l) ==
  /\ At(l, "held")
  /\ Goto(l, "rollback")
  /\ UNCHANGED <<lease, handle, host, faults>>

-----------------------------------------------------------------------------
(* spawn_with_identity                                                      *)

Spawn(l) ==
  /\ At(l, "held")
  /\ leader' = [leader EXCEPT ![l] = "starting"]
  /\ life' = [life EXCEPT ![l] = "Running"]
  /\ Goto(l, "bind")
  /\ UNCHANGED <<lease, pending, output, cleanup, inner, doomed, scope, taken,
                 touched, harmed, faults>>

(* The namespace of a live launch is observed and its gate opened.          *)
Bound(l) ==
  /\ At(l, "bind")
  /\ Goto(l, "own")
  /\ UNCHANGED <<lease, handle, host, faults>>

(* RunningProcess::cancel, as far as its signal gets through.  A launch     *)
(* that cannot be bound, or owned in time, is cancelled and waited for.     *)
CancelProcess(l) ==
  \/ /\ life[l] # "Running"
     /\ UNCHANGED <<life, pending, host>>
  \/ /\ life[l] = "Running"
     /\ LeaderExited(l)
     /\ life' = [life EXCEPT ![l] = "ExitedPendingReap"]
     /\ UNCHANGED <<pending, host>>
  \/ /\ life[l] = "Running"
     /\ ~LeaderExited(l)
     /\ SendGroup(l, "TERM")
     /\ pending' = [pending EXCEPT ![l] = "Cancelled"]
     /\ life' = [life EXCEPT ![l] = "Cancelling"]

Abandon(l) ==
  /\ At(l, "bind") \/ (At(l, "own") /\ ~LeaderExited(l))
  /\ Fault
  /\ CancelProcess(l)
  /\ Enter(l, "drive", "quit")
  /\ UNCHANGED <<lease, output, cleanup>>

(* Mutant: any active unit of that name will do. *)
MutOwned(l) ==
  /\ At(l, "own")
  /\ scope[l] = "active" \/ l \in taken
  /\ cleanup' = [cleanup EXCEPT ![l] = TRUE]
  /\ Goto(l, "handle")
  /\ UNCHANGED <<lease, life, pending, output, host, faults>>

(* scope_owns_nonce: a process of the unit carries the launch's nonce.      *)
Owned(l) ==
  /\ At(l, "own")
  /\ leader[l] = "inside" \/ inner[l]
  /\ cleanup' = [cleanup EXCEPT ![l] = TRUE]
  /\ Goto(l, "handle")
  /\ UNCHANGED <<lease, life, pending, output, host, faults>>

(* The leader is gone before ownership was seen.                            *)
ExitedUnowned(l) ==
  /\ At(l, "own")
  /\ LeaderExited(l)
  /\ Enter(l, "drive", "own")
  /\ UNCHANGED <<lease, handle, host, faults>>

(* It succeeded, and its scope has ended.                                   *)
EndedUnowned(l) ==
  /\ At(l, "unowned")
  /\ output[l].success
  /\ scope[l] = "gone"
  /\ Goto(l, "handle")
  /\ UNCHANGED <<lease, handle, host, faults>>

(* Mutant: the lease is dropped with the error. *)
MutQuit(l) ==
  /\ Goto(l, "drop")
  /\ UNCHANGED <<lease, handle, host>>

(* The error returns of the launch: the lease is quarantined, the process   *)
(* and then the lease are dropped.                                          *)
Quit(l) ==
  /\ release' = [release EXCEPT ![l] = FALSE]
  /\ Goto(l, "drop")
  /\ UNCHANGED <<file, got, stuck, handle, host>>

(* systemctl fails, the leader failed, or the ownership deadline expires    *)
(* before the scope has ended.                                              *)
Unproven(l) ==
  \/ (At(l, "own") \/ At(l, "unowned")) /\ Fault /\ Quit(l)
  \/ At(l, "unowned") /\ ~output[l].success /\ Quit(l) /\ UNCHANGED faults

-----------------------------------------------------------------------------
(* RunningProcess::wait                                                     *)

(* Where a finished wait goes on, with or without an error.                 *)
WaitReturns(l, failed) ==
  call' = [call EXCEPT
    ![l].pc = IF call[l].after = "own" /\ ~failed THEN "unowned"
              ELSE IF call[l].after \in {"own", "quit"} THEN "drop"
              ELSE IF cleanup[l] THEN "stop" ELSE "handle",
    ![l].failed = call[l].failed \/ failed]

(* await_scope_ownership's callers quarantine on every error.               *)
Quarantining(l, failed) ==
  release' = IF call[l].after = "quit" \/ (call[l].after = "own" /\ failed)
             THEN [release EXCEPT ![l] = FALSE] ELSE release

DriveExited(l) ==
  /\ At(l, "drive")
  /\ LeaderExited(l)
  /\ life' = [life EXCEPT ![l] = "ExitedPendingReap"]
  /\ Goto(l, "finish")
  /\ UNCHANGED <<lease, pending, output, cleanup, host, faults>>

(* The deadline has passed. *)
DriveTimesOut(l) ==
  /\ At(l, "drive")
  /\ ~LeaderExited(l)
  /\ pending[l] = "None"
  /\ SendGroup(l, "TERM")
  /\ pending' = [pending EXCEPT ![l] = "TimedOut"]
  /\ life' = [life EXCEPT ![l] = "TimingOut"]
  /\ UNCHANGED <<call, lease, output, cleanup, faults>>

(* The grace period has passed. *)
DriveKills(l) ==
  /\ At(l, "drive")
  /\ ~LeaderExited(l)
  /\ pending[l] # "None"
  /\ SendGroup(l, "KILL")
  /\ Goto(l, "finish")
  /\ UNCHANGED <<lease, handle, faults>>

(* A signal cannot be sent. *)
DriveFails(l) ==
  /\ At(l, "drive") \/ At(l, "finish")
  /\ Fault
  /\ WaitReturns(l, TRUE)
  /\ Quarantining(l, TRUE)
  /\ UNCHANGED <<file, got, stuck, handle, host>>

Termination(l) == IF pending[l] = "None" THEN "Exited" ELSE pending[l]

(* finish: KILL the rest of the group, join the readers, reap the leader.   *)
(* The leader may have to die first; a reader may fail.                     *)
FinishKills(l) ==
  /\ At(l, "finish")
  /\ l \notin doomed
  /\ SendGroup(l, "KILL")
  /\ UNCHANGED <<call, lease, handle, faults>>

Finish(l) ==
  /\ At(l, "finish")
  /\ l \in doomed
  /\ Exited(l)
  /\ leader' = [leader EXCEPT ![l] = "reaped"]
  /\ life' = [life EXCEPT ![l] = "Terminal"]
  /\ \/ /\ output' = [output EXCEPT ![l] =
             [why |-> Termination(l), success |-> leader[l] = "success"]]
        /\ WaitReturns(l, FALSE)
        /\ Quarantining(l, FALSE)
        /\ UNCHANGED faults
     \/ /\ Fault
        /\ WaitReturns(l, TRUE)
        /\ Quarantining(l, TRUE)
        /\ UNCHANGED output
  /\ UNCHANGED <<file, got, stuck, pending, cleanup, inner, doomed, scope, taken,
                 touched, harmed>>

-----------------------------------------------------------------------------
(* SandboxProcess                                                           *)

(* cancel: the group first, then the scope. *)
Cancel(l) ==
  /\ At(l, "handle")
  /\ IF life[l] = "Terminal" THEN UNCHANGED <<life, pending, host>>
                             ELSE CancelProcess(l)
  /\ Enter(l, IF cleanup[l] THEN "stop" ELSE "handle", "cancel")
  /\ UNCHANGED <<lease, output, cleanup, faults>>

(* The group cannot be signalled; the scope is still stopped. *)
CancelFails(l) ==
  /\ At(l, "handle")
  /\ life[l] = "Running"
  /\ ~LeaderExited(l)
  /\ Fault
  /\ call' = [call EXCEPT ![l] = [pc |-> IF cleanup[l] THEN "stop" ELSE "handle",
                                  after |-> "cancel", failed |-> TRUE]]
  /\ UNCHANGED <<lease, handle, host>>

(* wait: terminal evidence that is there, or was lost, is not sought again. *)
Wait(l) ==
  /\ At(l, "handle")
  /\ call' = [call EXCEPT ![l] =
       [pc |-> IF life[l] # "Terminal" THEN "drive"
               ELSE IF cleanup[l] THEN "stop" ELSE "handle",
        after |-> "wait",
        failed |-> life[l] = "Terminal" /\ output[l] = NoOutput]]
  /\ UNCHANGED <<lease, handle, host, faults>>

Drop(l) ==
  /\ At(l, "handle")
  /\ Enter(l, IF cleanup[l] THEN "stop" ELSE "drop", "drop")
  /\ UNCHANGED <<lease, handle, host, faults>>

(* RunningProcess::drop kills and reaps what is left, whether or not the    *)
(* signal got through; then the lease goes.                                 *)
DropKills(l) ==
  /\ At(l, "drop")
  /\ \/ life[l] = "Terminal" /\ UNCHANGED <<host, faults>>
     \/ life[l] # "Terminal" /\ SendGroup(l, "KILL") /\ UNCHANGED faults
     \/ life[l] # "Terminal" /\ Fault /\ UNCHANGED host
  /\ Goto(l, "dropped")
  /\ UNCHANGED <<lease, handle>>

DropReaps(l) ==
  /\ At(l, "dropped")
  /\ ~Live(l)
  /\ leader' = [leader EXCEPT ![l] = "reaped"]
  /\ Goto(l, IF release[l] THEN "rollback" ELSE "done")
  /\ UNCHANGED <<lease, handle, inner, doomed, scope, taken, touched, harmed, faults>>

-----------------------------------------------------------------------------
(* stop_scope, called by cancel, wait and drop through cleanup_scope        *)

StopReturns(l) == IF call[l].after = "drop" THEN "drop" ELSE "handle"

(* Mutant: success leaves the quarantine of an earlier failure in place. *)
MutStopped(l) ==
  /\ cleanup' = [cleanup EXCEPT ![l] = FALSE]
  /\ Goto(l, StopReturns(l))
  /\ UNCHANGED <<lease, life, pending, output, host, faults>>

(* The scope has ended: the lease may be given back. *)
Stopped(l) ==
  /\ cleanup' = [cleanup EXCEPT ![l] = FALSE]
  /\ release' = [release EXCEPT ![l] = TRUE]
  /\ Goto(l, StopReturns(l))
  /\ UNCHANGED <<file, got, stuck, life, pending, output, host, faults>>

(* A query or the stop fails, the kill command cannot be run, the scope is  *)
(* still active at the cleanup deadline, or still there after a kill that   *)
(* failed.                                                                  *)
StopFails(l) ==
  /\ \/ \E pc \in {"stop", "kill", "requery", "halt", "poll"} : At(l, pc) /\ Fault
     \/ At(l, "requery") /\ scope[l] # "gone" /\ UNCHANGED faults
  /\ release' = [release EXCEPT ![l] = FALSE]
  /\ Fails(l, StopReturns(l))
  /\ UNCHANGED <<file, got, stuck, handle, host>>

(* Mutant: a kill that failed because the unit has ended is not looked at. *)
MutStopFindsEnded(l) ==
  /\ At(l, "stop") \/ At(l, "poll")
  /\ scope[l] = "gone"
  /\ Stopped(l)

(* is-active answers inactive or failed. *)
StopFindsEnded(l) ==
  /\ At(l, "stop") \/ At(l, "requery") \/ At(l, "poll")
  /\ scope[l] = "gone"
  /\ Stopped(l)

StopFindsActive(l) ==
  /\ At(l, "stop")
  /\ scope[l] = "active" \/ l \in taken
  /\ Goto(l, "kill")
  /\ UNCHANGED <<lease, handle, host, faults>>

(* kill --kill-whom=all: everything in the unit, whoever owns it.           *)
StopKills(l) ==
  /\ At(l, "kill")
  /\ scope[l] = "active" \/ l \in taken
  /\ doomed' = doomed \cup {l}
  /\ touched' = IF Live(l) THEN touched \cup {l} ELSE touched
  /\ harmed' = IF l \in taken THEN harmed \cup {l} ELSE harmed
  /\ Goto(l, "halt")
  /\ UNCHANGED <<lease, handle, leader, inner, scope, taken, faults>>

(* kill ends with an error, perhaps because the unit has just ended: its    *)
(* state is asked again.                                                    *)
StopKillsNothing(l) ==
  /\ At(l, "kill")
  /\ \/ scope[l] = "gone" /\ UNCHANGED faults
     \/ Fault
  /\ Goto(l, "requery")
  /\ UNCHANGED <<lease, handle, host>>

(* stop --no-block: 0, or 5 for a unit that is already unloaded.            *)
StopHalts(l) ==
  /\ At(l, "halt")
  /\ Goto(l, "poll")
  /\ UNCHANGED <<lease, handle, host, faults>>

-----------------------------------------------------------------------------
(* The host                                                                 *)

(* systemd-run registers the scope and becomes Bubblewrap.                  *)
EnterScope(l) ==
  /\ leader[l] = "starting"
  /\ l \notin doomed
  /\ l \notin taken
  /\ leader' = [leader EXCEPT ![l] = "inside"]
  /\ scope' = [scope EXCEPT ![l] = "active"]
  /\ UNCHANGED <<call, lease, handle, inner, doomed, taken, touched, harmed, faults>>

Fork(l) ==
  /\ leader[l] = "inside"
  /\ l \notin doomed
  /\ ~inner[l]
  /\ inner' = [inner EXCEPT ![l] = TRUE]
  /\ UNCHANGED <<call, lease, handle, leader, doomed, scope, taken, touched, harmed, faults>>

(* Only a program that ran, and was not killed, exits with 0.               *)
LeaderExits(l) ==
  /\ Live(l)
  /\ \E how \in {"success", "failure"} :
       /\ how = "success" => leader[l] = "inside" /\ l \notin doomed
       /\ leader' = [leader EXCEPT ![l] = how]
  /\ UNCHANGED <<call, lease, handle, inner, doomed, scope, taken, touched, harmed, faults>>

InnerExits(l) ==
  /\ inner[l]
  /\ inner' = [inner EXCEPT ![l] = FALSE]
  /\ UNCHANGED <<call, lease, handle, leader, doomed, scope, taken, touched, harmed, faults>>

(* The last process has left the cgroup. *)
ScopeEnds(l) ==
  /\ scope[l] = "active"
  /\ leader[l] # "inside" /\ ~inner[l]
  /\ scope' = [scope EXCEPT ![l] = "gone"]
  /\ UNCHANGED <<call, lease, handle, leader, inner, doomed, taken, touched, harmed, faults>>

(* The harness dies: nothing is dropped, the lease files stay.              *)
Crash(l) ==
  /\ call[l].pc \notin {"idle", "done", "dead"}
  /\ Fault
  /\ Goto(l, "dead")
  /\ UNCHANGED <<lease, handle, host>>

-----------------------------------------------------------------------------

(* What a call does by itself. *)
Step(l) ==
  \/ Acquire(l) \/ Conflict(l) \/ AcquireFails(l) \/ AcquireLeavesFile(l)
  \/ Acquired(l) \/ Rollback(l) \/ RollbackFails(l) \/ RolledBack(l)
  \/ Bound(l) \/ Abandon(l) \/ Owned(l) \/ ExitedUnowned(l) \/ EndedUnowned(l)
  \/ Unproven(l)
  \/ DriveExited(l) \/ DriveTimesOut(l) \/ DriveKills(l) \/ DriveFails(l)
  \/ FinishKills(l) \/ Finish(l)
  \/ DropKills(l) \/ DropReaps(l)
  \/ StopFails(l) \/ StopFindsEnded(l) \/ StopFindsActive(l) \/ StopKills(l)
  \/ StopKillsNothing(l) \/ StopHalts(l)

Host(l) ==
  EnterScope(l) \/ Fork(l) \/ LeaderExits(l) \/ InnerExits(l) \/ ScopeEnds(l)

(* What the owner of a launch decides. *)
Owner(l) ==
  BeginAcquire(l) \/ DropLease(l) \/ Spawn(l)
    \/ Cancel(l) \/ CancelFails(l) \/ Wait(l) \/ Drop(l)

Next == \E l \in Launches : Step(l) \/ Host(l) \/ Owner(l) \/ Crash(l)

Spec == Init /\ [][Next]_vars

(* A thread goes on; systemd ends a scope after RuntimeMaxSec, Bubblewrap's *)
(* children die with it, and an empty scope is noticed.                     *)
FairSpec ==
  /\ Spec
  /\ \A l \in Launches :
       /\ WF_vars(Step(l))
       /\ WF_vars(LeaderExits(l))
       /\ WF_vars(InnerExits(l))
       /\ WF_vars(ScopeEnds(l))

-----------------------------------------------------------------------------

Alive(l) == Live(l) \/ inner[l]

(* A CPU whose lease file is missing, or belongs to someone else, runs no   *)
(* process of this launch: neither a drop, an error return of the launch, a *)
(* failed scope cleanup nor a retry gives a CPU away under a process.       *)
FreeCpusAreIdle ==
  /\ TypeOK
  /\ \A l \in Launches : Alive(l) => \A c \in CpusOf[l] : file[c] = l

(* cancel, wait and drop never signal a process group whose leader was      *)
(* reaped, nor a scope of the same name whose ownership was not proven.     *)
StrangersAreSafe == harmed = {}

(* A quarantine ends with a later successful cleanup: a dropped handle      *)
(* leaves a lease file behind only if the scope was never seen to end, or   *)
(* the file could not be removed.                                           *)
CleanupReleases ==
  \A l \in Launches :
    /\ At(l, "done") /\ call[l].after = "drop" /\ ~cleanup[l]
    => \A c \in Cpus : file[c] = l => c \in stuck

(* Every call comes back: a wait whose program ignores TERM, a launch whose *)
(* ownership cannot be proven, a cleanup whose scope ends underneath it.    *)
CallsReturn ==
  \A l \in Launches :
    []<>(call[l].pc \in {"idle", "held", "handle", "done", "dead"})

=============================================================================
