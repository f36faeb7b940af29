---------------------------- MODULE JournalSpec ----------------------------
(***************************************************************************)
(* What asb-store promises its callers, without files, renames or locks.   *)
(* A run's journal grows one valid lifecycle event at a time; a successful *)
(* return is a promise; a power loss may take back any event that was not  *)
(* promised, and any run whose creation was not promised, and nothing else.*)
(* The promise of an event is worth what the promise of its run is: a run  *)
(* whose creation was not promised takes its promised events along.        *)
(*                                                                         *)
(* AtomicStore implements this specification, and Orchestrator is written  *)
(* on top of it.                                                           *)
(***************************************************************************)
EXTENDS Lifecycle

CONSTANT Runs

VARIABLES
  created,    \* the runs a reader can see
  journal,    \* journal[r]: the events a reader can see
  kept,       \* the runs whose create_run returned Ok
  promised    \* promised[r]: the events whose append returned Ok since r was
              \* last created; a loss does not change it

vars == <<created, journal, kept, promised>>

TypeOK ==
  /\ created \in SUBSET Runs
  /\ journal \in [Runs -> Seq(ExecutionState)]
  /\ kept \in SUBSET Runs
  /\ promised \in [Runs -> Seq(ExecutionState)]

Init ==
  /\ created = {}
  /\ journal = [r \in Runs |-> <<>>]
  /\ kept = {}
  /\ promised = [r \in Runs |-> <<>>]

Create(r) ==
  /\ r \notin created
  /\ created' = created \cup {r}
  /\ promised' = [promised EXCEPT ![r] = <<>>]
  /\ UNCHANGED <<journal, kept>>

PromiseRun(r) ==
  /\ r \in created
  /\ kept' = kept \cup {r}
  /\ UNCHANGED <<created, journal, promised>>

Extend(r, s) ==
  /\ r \in created
  /\ ValidTransition(LastState(journal[r]), s)
  /\ journal' = [journal EXCEPT ![r] = Append(@, s)]
  /\ UNCHANGED <<created, kept, promised>>

PromiseEvents(r) ==
  /\ r \in created
  /\ promised' = [promised EXCEPT ![r] = journal[r]]
  /\ UNCHANGED <<created, journal, kept>>

(* A power loss leaves the runs of survivors, each with the first length[r] *)
(* of its events.  What was promised of the others stays on record.         *)
LoseTo(survivors, length) ==
  /\ kept \subseteq survivors
  /\ \A r \in survivors : length[r] \in Len(promised[r]) .. Len(journal[r])
  /\ \A r \in Runs \ survivors : length[r] = 0
  /\ created' = survivors
  /\ journal' = [r \in Runs |-> SubSeq(journal[r], 1, length[r])]
  /\ UNCHANGED <<kept, promised>>

Lengths == UNION {0 .. Len(journal[r]) : r \in Runs}

Lose ==
  \E survivors \in SUBSET created, length \in [Runs -> Lengths] :
    LoseTo(survivors, length)

Next ==
  \/ \E r \in Runs : Create(r) \/ PromiseRun(r) \/ PromiseEvents(r)
  \/ \E r \in Runs, s \in ExecutionState : Extend(r, s)
  \/ Lose

Spec == Init /\ [][Next]_vars

-----------------------------------------------------------------------------

(* Every journal is a run of the lifecycle, so decode_journal, which        *)
(* re-validates each transition, never refuses what append wrote.           *)
JournalsAreLifecycles == \A r \in Runs : IsLifecycle(journal[r])

(* No crash, power loss or concurrent writer takes back a run whose creation *)
(* returned Ok, nor an event whose append returned Ok while its run is there. *)
(* Both together: the promised events of a promised run are never lost.     *)
PromisesHold ==
  /\ kept \subseteq created
  /\ \A r \in created : IsPrefix(promised[r], journal[r])

=============================================================================
