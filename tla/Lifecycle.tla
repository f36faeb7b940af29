----------------------------- MODULE Lifecycle -----------------------------
(***************************************************************************)
(* The two state vocabularies of a run and the translations between them:  *)
(* ExecutionState is what asb-store journals, RunStatus is what the        *)
(* orchestrator reports.  Constant-level; every other module builds on it. *)
(***************************************************************************)
EXTENDS Naturals, SequencesExt

(* Option::None of a journal without events, and of a run without a record. *)
NoState == "NoState"

TerminalState == {"Completed", "Failed", "Cancelled"}

ExecutionState ==
  {"Planned", "Prepared", "Running", "Collecting"} \cup TerminalState

(* validate_transition: the (from, to) pairs a journal accepts. *)
ValidTransition(from, to) ==
  \/ from = NoState /\ to = "Planned"
  \/ from = "Planned" /\ to = "Prepared"
  \/ from = "Prepared" /\ to = "Running"
  \/ from = "Running" /\ to = "Collecting"
  \/ from \in {"Running", "Collecting"} /\ to \in {"Failed", "Cancelled"}
  \/ from = "Collecting" /\ to = "Completed"

(* events.last().map(|event| event.state) *)
LastState(j) == IF j = <<>> THEN NoState ELSE j[Len(j)]

(* decode_journal accepts exactly these event sequences: the sequence       *)
(* numbers are the positions and every step is a valid transition.          *)
IsLifecycle(j) ==
  \A i \in 1 .. Len(j) :
    ValidTransition(IF i = 1 THEN NoState ELSE j[i - 1], j[i])

RunStatus ==
  {"Admitted", "Prepared", "Running", "Collecting", "NeedsReconciliation"}
    \cup TerminalState

ToState(status) ==
  CASE status = "Admitted" -> "Planned"
    [] status = "NeedsReconciliation" -> "Failed"
    [] OTHER -> status

(* Mutants: the state is reported as it was journaled; an interrupted run   *)
(* is reported as still running.                                            *)
MutFromState(state) == state
MutFromRunning(state) ==
  IF state \in {NoState, "Planned"} THEN "Admitted" ELSE state

(* What a restart makes of the last durable state. *)
FromState(state) ==
  CASE state \in {NoState, "Planned"} -> "Admitted"
    [] state \in {"Running", "Collecting"} -> "NeedsReconciliation"
    [] OTHER -> state

(* recovery_decision: may preparation be redone, or has an effect begun?    *)
RecoveryDecision(state) ==
  CASE state \in {NoState, "Planned"} -> "StartAllowed"
    [] state = "Prepared" -> "Resume"
    [] state \in {"Running", "Collecting"} -> "NeedsReconciliation"
    [] OTHER -> "Terminal"

=============================================================================
