------------------------- MODULE OrchestratorProofs -------------------------
(***************************************************************************)
(* The orchestrator executes no attempt twice, journals its intent before  *)
(* every effect and holds nothing for a finished run, for any number of    *)
(* keys, runs and failures.  Two more invariants on top of this one give   *)
(* one execution per key, and reports that agree with the journal.         *)
(*                                                                         *)
(* A journal is a lifecycle, so its length tells how far a run has come:   *)
(* Planned, Prepared and Running are its first, second and third event.    *)
(***************************************************************************)
EXTENDS Orchestrator, LifecycleProofs

(* JournalSpec's promises, in this module's vocabulary. *)
DiskInv ==
  /\ kept \subseteq created
  /\ \A r \in RunId :
       IsLifecycle(journal[r]) /\ IsPrefix(promised[r], journal[r])

(* Intent before effect.  A run's creation is promised before its first     *)
(* event is written, Planned before the second and before authority is      *)
(* prepared, Running before the attempt is executed.                        *)
Intent ==
  /\ \A r \in RunId : Len(journal[r]) > 0 => r \in kept
  /\ \A r \in RunId : Len(journal[r]) > 1 => Len(promised[r]) > 0
  /\ \A r \in holds : Len(promised[r]) > 0
  /\ \A r \in RunId :
       execs[r] \in {0, 1} /\ (execs[r] = 1 => Len(promised[r]) > 2)

Persisting == call.pc \in {"persist", "written"}

(* What the call in progress has done so far. *)
Admitting ==
  /\ call.pc \in {"create", "created", "plan", "planned", "prepare"} =>
       call.request \in Request
  /\ call.pc \in {"created", "plan"} => Len(journal[call.run]) = 0
  /\ call.pc \in {"created", "plan", "planned", "prepare"} =>
       call.run \in created
  /\ call.pc \in {"plan", "planned", "prepare"} => call.run \in kept
  /\ call.pc \in {"planned", "prepare"} => Len(journal[call.run]) = 1
  /\ call.pc = "prepare" => Len(promised[call.run]) = 1

Journaling ==
  Persisting =>
    \/ /\ call.goal = "Prepared" /\ call.after = "handle"
       /\ call.request \in Request
       /\ status[call.run] = "Prepared" /\ Len(promised[call.run]) > 0
       /\ Len(journal[call.run]) = IF call.pc = "persist" THEN 1 ELSE 2
    \/ /\ call.goal = "Running" /\ call.after \in {"return", "execute"}
       /\ status[call.run] = "Running"
       /\ Len(journal[call.run]) = IF call.pc = "persist" THEN 2 ELSE 3
       /\ execs[call.run] = 0
    \/ /\ call.goal = "Collecting" /\ call.after = "complete"
       /\ status[call.run] = "Completed"
    \/ /\ call.goal \in TerminalState /\ call.after \in {"return", "clear"}
       /\ status[call.run] \in TerminalState

Executing ==
  /\ call.pc = "execute" =>
       execs[call.run] = 0 /\ Len(promised[call.run]) > 2
  /\ call.pc \in {"execute", "executing"} => status[call.run] = "Running"
  /\ call.pc = "cleanup" =>
       /\ \/ /\ call.goal = "Collecting" /\ call.after = "complete"
             /\ status[call.run] = "Running"
          \/ call.goal \in TerminalState /\ call.after = "return"
       /\ status[call.run] \notin TerminalState

(* What a record says of its run.  A process that is down has no records.   *)
Records ==
  /\ ~up => call = Idle /\ \A r \in RunId : status[r] = "Absent"
  /\ \A r \in RunId :
       /\ status[r] = "Admitted" => Len(journal[r]) < 2
       /\ status[r] = "Prepared" =>
            Len(journal[r]) = 2 \/ (Persisting /\ call.run = r)
       /\ status[r] \in {"Prepared", "Running", "Collecting"} => cap[r]

(* Authority of a finished run has been revoked.  The exception, a run that *)
(* was found Planned after a restart and is cancelled, is about to be       *)
(* refused by the store.                                                    *)
Revoked ==
  /\ \A r \in holds : LastState(journal[r]) \notin TerminalState
  /\ \A r \in holds :
       status[r] \in TerminalState =>
         /\ call.pc = "persist" /\ call.run = r
         /\ call.goal \in TerminalState /\ Len(journal[r]) < 2

IInv ==
  /\ TypeOK
  /\ call.pc # "idle" => call.run \in RunId
  /\ DiskInv
  /\ Intent
  /\ Admitting
  /\ Journaling
  /\ Executing
  /\ Records
  /\ Revoked

-----------------------------------------------------------------------------
(* The disk.                                                                *)

(* The store's copy of the lifecycle is this module's. *)
LEMMA StoreVocabulary ==
  /\ Store!ExecutionState = ExecutionState
  /\ \A a, b : Store!ValidTransition(a, b) <=> ValidTransition(a, b)
  /\ \A j : Store!LastState(j) = LastState(j)
BY DEF Store!ExecutionState, Store!TerminalState, ExecutionState,
       TerminalState, Store!ValidTransition, ValidTransition, Store!NoState,
       NoState, Store!LastState, LastState

DiskTypes ==
  /\ created \subseteq RunId /\ kept \subseteq RunId
  /\ journal \in [RunId -> Seq(ExecutionState)]
  /\ promised \in [RunId -> Seq(ExecutionState)]

LEMMA TypesOfDisk == (Store!TypeOK <=> DiskTypes) /\ (DiskTypes' => Store!TypeOK')
BY StoreVocabulary DEF Store!TypeOK, DiskTypes

LEMMA LengthsAreNat ==
  /\ DiskTypes => \A r \in RunId : /\ Len(journal[r]) \in Nat
                                    /\ Len(promised[r]) \in Nat
  /\ DiskTypes' => \A r \in RunId : /\ Len(journal'[r]) \in Nat
                                     /\ Len(promised'[r]) \in Nat
BY DEF DiskTypes

(* What the length of a journal says. *)
LEMMA JournalLength ==
  ASSUME DiskTypes, DiskInv, NEW r \in RunId
  PROVE  /\ Len(journal[r]) \in Nat /\ Len(promised[r]) \in Nat
         /\ Len(promised[r]) <= Len(journal[r])
         /\ LastState(journal[r]) \in ExecutionState \cup {NoState}
         /\ Len(journal[r]) = 0 <=> LastState(journal[r]) = NoState
         /\ Len(journal[r]) = 1 <=> LastState(journal[r]) = "Planned"
         /\ Len(journal[r]) = 2 <=> LastState(journal[r]) = "Prepared"
         /\ Len(journal[r]) = 3 <=> LastState(journal[r]) = "Running"
<1>1. journal[r] \in Seq(ExecutionState) /\ promised[r] \in Seq(ExecutionState)
  BY DEF DiskTypes
<1>2. IsLifecycle(journal[r]) /\ IsPrefix(promised[r], journal[r])
  BY DEF DiskInv
<1>3. Len(promised[r]) <= Len(journal[r])
  BY <1>1, <1>2, PrefixPointwise
<1> QED
  BY <1>1, <1>2, <1>3, LifecycleLast

(* A run that is past Planned has more than one event. *)
LEMMA PastPlanned ==
  ASSUME DiskTypes, DiskInv, NEW r \in RunId,
         LastState(journal[r]) \notin {NoState, "Planned"}
  PROVE  Len(journal[r]) > 1
<1> DEFINE n == Len(journal[r])
<1>1. n \in Nat /\ n # 0 /\ n # 1
  BY JournalLength
<1> HIDE DEF n
<1>2. n > 1
  BY <1>1
<1> QED
  BY <1>2 DEF n

(* A run with events was acknowledged: the orchestrator stops at a failed   *)
(* create_run, so no promise of its own can be lost with a run.             *)
EventsAreKept == \A r \in RunId : Len(journal[r]) > 0 => r \in kept

(* A run that is not acknowledged has no events, promised or not. *)
LEMMA NothingUnkept ==
  ASSUME DiskTypes, DiskInv, EventsAreKept, NEW r \in RunId, r \notin kept
  PROVE  promised[r] = <<>>
<1>1. Len(journal[r]) \in Nat /\ Len(promised[r]) \in Nat /\ Len(promised[r]) <= Len(journal[r])
  BY JournalLength
<1>2. ~(Len(journal[r]) > 0)
  BY DEF EventsAreKept
<1>3. Len(promised[r]) = 0
  BY <1>1, <1>2
<1> QED
  BY <1>3 DEF DiskTypes

LEMMA CreateDisk ==
  ASSUME DiskTypes, DiskInv, EventsAreKept, NEW r \in RunId, Store!Create(r)
  PROVE  /\ DiskTypes' /\ DiskInv'
         /\ r \notin created /\ created' = created \cup {r}
         /\ UNCHANGED <<journal, kept, promised>>
<1>1. /\ r \notin created /\ created' = created \cup {r}
      /\ promised' = [promised EXCEPT ![r] = <<>>]
      /\ UNCHANGED <<journal, kept>>
  BY DEF Store!Create
<1>2. promised[r] = <<>>
  BY <1>1, NothingUnkept DEF DiskInv
<1>3. promised' = promised
  BY <1>1, <1>2 DEF DiskTypes
<1> QED
  BY <1>1, <1>3 DEF DiskTypes, DiskInv

LEMMA PromiseRunDisk ==
  ASSUME DiskTypes, DiskInv, NEW r \in RunId, Store!PromiseRun(r)
  PROVE  /\ DiskTypes' /\ DiskInv'
         /\ r \in created /\ kept' = kept \cup {r}
         /\ UNCHANGED <<created, journal, promised>>
BY DEF Store!PromiseRun, DiskTypes, DiskInv

LEMMA PromiseEventsDisk ==
  ASSUME DiskTypes, DiskInv, NEW r \in RunId, Store!PromiseEvents(r)
  PROVE  /\ DiskTypes' /\ DiskInv'
         /\ UNCHANGED <<created, kept, journal>>
         /\ Len(promised'[r]) = Len(journal[r])
         /\ \A q \in RunId : q # r => promised'[q] = promised[q]
<1>1. journal[r] \in Seq(ExecutionState)
  BY DEF DiskTypes
<1>2. IsPrefix(journal[r], journal[r])
  BY <1>1, PrefixReflexive
<1> QED
  BY <1>1, <1>2 DEF Store!PromiseEvents, DiskTypes, DiskInv

LEMMA ExtendDisk ==
  ASSUME DiskTypes, DiskInv, NEW r \in RunId, NEW s \in ExecutionState,
         Store!Extend(r, s)
  PROVE  /\ DiskTypes' /\ DiskInv'
         /\ ValidTransition(LastState(journal[r]), s)
         /\ UNCHANGED <<created, kept, promised>>
         /\ Len(journal'[r]) = Len(journal[r]) + 1
         /\ LastState(journal'[r]) = s
         /\ \A q \in RunId : q # r => journal'[q] = journal[q]
<1>1. /\ journal \in [RunId -> Seq(ExecutionState)]
      /\ promised \in [RunId -> Seq(ExecutionState)]
  BY DEF DiskTypes
<1>2. /\ ValidTransition(LastState(journal[r]), s)
      /\ journal' = [journal EXCEPT ![r] = Append(@, s)]
      /\ UNCHANGED <<created, kept, promised>>
  BY StoreVocabulary DEF Store!Extend
<1>3. journal[r] \in Seq(ExecutionState) /\ promised[r] \in Seq(ExecutionState)
  BY <1>1
<1>4. /\ journal'[r] = Append(journal[r], s)
      /\ \A q \in RunId : q # r => journal'[q] = journal[q]
  BY <1>1, <1>2
<1>5. /\ Append(journal[r], s) \in Seq(ExecutionState)
      /\ Len(Append(journal[r], s)) = Len(journal[r]) + 1
      /\ Append(journal[r], s)[Len(journal[r]) + 1] = s
      /\ Append(journal[r], s) # <<>>
  BY <1>3, SMT
<1>6. IsLifecycle(Append(journal[r], s))
  BY <1>2, <1>3, LifecycleAppend DEF DiskInv
<1>7. IsPrefix(promised[r], Append(journal[r], s))
  BY <1>3, PrefixAppend DEF DiskInv
<1>8. DiskTypes'
  BY <1>1, <1>2, <1>5 DEF DiskTypes
<1>9. DiskInv'
  BY <1>2, <1>4, <1>6, <1>7 DEF DiskInv
<1>10. LastState(journal'[r]) = s
  BY <1>4, <1>5 DEF LastState
<1> QED
  BY <1>2, <1>4, <1>5, <1>8, <1>9, <1>10

LEMMA LoseDisk ==
  ASSUME DiskTypes, DiskInv, EventsAreKept, Store!Lose
  PROVE  /\ DiskTypes' /\ DiskInv'
         /\ UNCHANGED kept
         /\ created' \subseteq created
         /\ \A r \in RunId : Len(journal'[r]) <= Len(journal[r])
         /\ \A r \in kept : promised'[r] = promised[r]
<1>1. PICK survivors \in SUBSET created, length \in [RunId -> Store!Lengths] :
        Store!LoseTo(survivors, length)
  BY DEF Store!Lose
<1>2. /\ kept \subseteq survivors
      /\ \A r \in survivors : length[r] \in Len(promised[r]) .. Len(journal[r])
      /\ \A r \in RunId \ survivors : length[r] = 0
      /\ created' = survivors
      /\ journal' = [r \in RunId |-> SubSeq(journal[r], 1, length[r])]
      /\ UNCHANGED <<kept, promised>>
  BY <1>1 DEF Store!LoseTo
<1>3. \A r \in RunId : journal[r] \in Seq(ExecutionState)
                      /\ promised[r] \in Seq(ExecutionState)
  BY DEF DiskTypes
<1>4. \A r \in RunId : length[r] \in 0 .. Len(journal[r])
  <2> SUFFICES ASSUME NEW r \in RunId PROVE length[r] \in 0 .. Len(journal[r])
    OBVIOUS
  <2>1. Len(journal[r]) \in Nat /\ Len(promised[r]) \in Nat
    BY <1>3
  <2> QED
    BY <1>2, <2>1
<1>5. \A r \in RunId : /\ journal'[r] = SubSeq(journal[r], 1, length[r])
                       /\ journal'[r] \in Seq(ExecutionState)
                       /\ Len(journal'[r]) = length[r]
                       /\ IsLifecycle(journal'[r])
  BY <1>2, <1>3, <1>4, CutPointwise, LifecycleCut DEF DiskInv
<1>6. \A r \in RunId \ survivors : promised[r] = <<>>
  BY <1>2, NothingUnkept
<1>7. DiskTypes'
  BY <1>2, <1>3, <1>5 DEF DiskTypes
<1>8. \A r \in RunId : IsPrefix(promised'[r], journal'[r])
  <2>1. ASSUME NEW r \in survivors
        PROVE  IsPrefix(promised[r], SubSeq(journal[r], 1, length[r]))
    <3>1. r \in RunId
      BY DEF DiskTypes
    <3> QED
      BY <1>2, <1>3, <3>1, PrefixCut DEF DiskInv
  <2>2. ASSUME NEW r \in RunId PROVE IsPrefix(<<>>, journal'[r])
    BY <1>5, PrefixEmpty
  <2> QED
    BY <1>2, <1>5, <1>6, <2>1, <2>2
<1>9. DiskInv'
  BY <1>2, <1>5, <1>8 DEF DiskInv
<1>10. \A r \in RunId : Len(journal'[r]) <= Len(journal[r])
  BY <1>3, <1>4, <1>5
<1> QED
  BY <1>2, <1>7, <1>9, <1>10 DEF DiskTypes

-----------------------------------------------------------------------------
(* Calls.                                                                   *)

Points ==
  {"idle", "create", "created", "plan", "planned", "prepare", "persist",
   "written", "execute", "executing", "cleanup", "reconcile"}

Afters == {"return", "handle", "execute", "complete", "clear"}

LEMMA CallTyped ==
  ASSUME NEW pc \in Points, NEW r \in RunId \cup {0},
         NEW request \in Request \cup {None},
         NEW goal \in RunStatus \cup {"Absent"}, NEW after \in Afters
  PROVE  Call(pc, r, request, goal, after) \in Calls
BY DEF Call, Calls, Points, Afters

LEMMA IdleTyped == Idle \in Calls /\ Idle.pc = "idle"
BY DEF Idle, Call, Calls

(* A call moves on within its handler. *)
LEMMA CallMoves ==
  ASSUME call \in Calls, NEW pc \in Points, NEW new,
         new = [call EXCEPT !.pc = pc]
  PROVE  /\ new \in Calls
         /\ new.pc = pc /\ new.run = call.run /\ new.request = call.request
         /\ new.goal = call.goal /\ new.after = call.after
BY DEF Calls, Points

-----------------------------------------------------------------------------
(* The steps of admit.                                                      *)

LEMMA AdmitAgainInv ==
  ASSUME IInv, NEW k \in Keys, NEW d \in Digests, AdmitAgain(k, d)
  PROVE  IInv'
<1> USE DEF IInv, AdmitAgain, memory, disk
<1>1. TypeOK'
  BY DEF TypeOK, Handle, Request, Store!TypeOK
<1>2. DiskInv' /\ Intent' /\ Records' /\ Revoked'
  BY DEF DiskInv, Intent, Records, Revoked, Persisting
<1>3. Admitting' /\ Journaling' /\ Executing'
  BY DEF Admitting, Journaling, Executing, Persisting
<1> QED
  BY <1>1, <1>2, <1>3

LEMMA AdmitNewInv ==
  ASSUME IInv, NEW k \in Keys, NEW d \in Digests, AdmitNew(k, d)
  PROVE  IInv'
<1> USE DEF IInv, AdmitNew, Ready, disk, world
<1>1. call' \in Calls /\ nextId' \in Nat
  BY CallTyped DEF TypeOK, Points, Afters, Request
<1>11. TypeOK'
  BY <1>1 DEF TypeOK, Store!TypeOK
<1>2. DiskInv' /\ Intent'
  BY DEF DiskInv, Intent
<1>3. Records' /\ Revoked'
  BY DEF Records, Revoked, Persisting, Call
<1>4. (call.pc # "idle" => call.run \in RunId)'
      /\ Admitting' /\ Journaling' /\ Executing'
  BY DEF Admitting, Journaling, Executing, Persisting, Call, Request
<1> QED
  BY <1>11, <1>2, <1>3, <1>4

LEMMA CreateWriteInv ==
  ASSUME IInv, CreateWrite
  PROVE  IInv'
<1> USE DEF IInv, CreateWrite, At, memory, world
<1>1. call.run \in RunId /\ call \in Calls /\ DiskTypes
  BY TypesOfDisk DEF TypeOK
<1>2. /\ DiskTypes' /\ DiskInv'
      /\ call.run \notin created /\ created' = created \cup {call.run}
      /\ UNCHANGED <<journal, kept, promised>>
  BY <1>1, CreateDisk DEF Intent, EventsAreKept
<1>3. Len(journal[call.run]) = 0
  BY <1>1, <1>2, JournalLength DEF Intent, DiskInv
<1>4. /\ call' \in Calls /\ call'.pc = "created" /\ call'.run = call.run
      /\ call'.request = call.request
  BY <1>1, CallMoves DEF Points
<1>5. manifest' \in [RunId -> Request \cup {None}]
  BY <1>1 DEF TypeOK, Admitting
<1>6. TypeOK'
  BY <1>2, <1>4, <1>5, TypesOfDisk DEF TypeOK
<1>7. Intent'
  BY <1>2 DEF Intent
<1>8. Records' /\ Revoked'
  BY <1>2, <1>4 DEF Records, Revoked, Persisting
<1>9. (call.pc # "idle" => call.run \in RunId)'
      /\ Admitting' /\ Journaling' /\ Executing'
  BY <1>1, <1>2, <1>3, <1>4 DEF Admitting, Journaling, Executing, Persisting
<1> QED
  BY <1>2, <1>6, <1>7, <1>8, <1>9

LEMMA CreateAckInv ==
  ASSUME IInv, CreateAck
  PROVE  IInv'
<1> USE DEF IInv, CreateAck, At, memory, world
<1>1. call.run \in RunId /\ call \in Calls /\ DiskTypes
  BY TypesOfDisk DEF TypeOK
<1>2. /\ DiskTypes' /\ DiskInv'
      /\ call.run \in created /\ kept' = kept \cup {call.run}
      /\ UNCHANGED <<created, journal, promised>>
  BY <1>1, PromiseRunDisk
<1>3. /\ call' \in Calls /\ call'.pc = "plan" /\ call'.run = call.run
      /\ call'.request = call.request
  BY <1>1, CallMoves DEF Points
<1>4. TypeOK'
  BY <1>2, <1>3, TypesOfDisk DEF TypeOK
<1>5. Intent'
  BY <1>2 DEF Intent
<1>6. Records' /\ Revoked'
  BY <1>2, <1>3 DEF Records, Revoked, Persisting
<1>7. (call.pc # "idle" => call.run \in RunId)'
      /\ Admitting' /\ Journaling' /\ Executing'
  BY <1>1, <1>2, <1>3 DEF Admitting, Journaling, Executing, Persisting
<1> QED
  BY <1>2, <1>4, <1>5, <1>6, <1>7

LEMMA PlanWriteInv ==
  ASSUME IInv, PlanWrite
  PROVE  IInv'
<1> USE DEF IInv, PlanWrite, At, memory, world
<1>1. call.run \in RunId /\ call \in Calls /\ DiskTypes
  BY TypesOfDisk DEF TypeOK
<1>2. ToState("Admitted") = "Planned" /\ "Planned" \in ExecutionState
  BY DEF ToState, ExecutionState
<1>3. /\ DiskTypes' /\ DiskInv'
      /\ UNCHANGED <<created, kept, promised>>
      /\ Len(journal'[call.run]) = Len(journal[call.run]) + 1
      /\ LastState(journal'[call.run]) = "Planned"
      /\ \A q \in RunId : q # call.run => journal'[q] = journal[q]
  BY <1>1, <1>2, ExtendDisk
<1>4. /\ call' \in Calls /\ call'.pc = "planned" /\ call'.run = call.run
      /\ call'.request = call.request
  BY <1>1, CallMoves DEF Points
<1>5. /\ Len(journal[call.run]) = 0 /\ Len(journal'[call.run]) = 1
      /\ call.run \in kept /\ call.run \in created
  BY <1>3 DEF Admitting
<1>51. \A r \in RunId :
         Len(journal'[r]) = IF r = call.run THEN 1 ELSE Len(journal[r])
  BY <1>3, <1>5
<1>6. TypeOK'
  BY <1>3, <1>4, TypesOfDisk DEF TypeOK
<1>7. Intent'
  <2>1. \A r \in RunId : Len(journal'[r]) > 0 => r \in kept
    BY <1>3, <1>5 DEF Intent
  <2>2. \A r \in RunId : Len(journal'[r]) > 1 => Len(promised[r]) > 0
    BY <1>51 DEF Intent
  <2> QED
    BY <1>3, <2>1, <2>2 DEF Intent
<1>8. Records'
  <2>1. UNCHANGED <<up, status, cap>> /\ up
    OBVIOUS
  <2>2. ASSUME NEW r \in RunId
        PROVE  /\ status[r] = "Admitted" => Len(journal'[r]) < 2
               /\ status[r] = "Prepared" => Len(journal'[r]) = 2
    BY <1>5, <1>51 DEF Records, Persisting
  <2> QED
    BY <2>1, <2>2 DEF Records
<1>9. Revoked'
  BY <1>1, <1>3, <1>4 DEF Revoked, TerminalState, TypeOK
<1>10. (call.pc # "idle" => call.run \in RunId)'
      /\ Admitting' /\ Journaling' /\ Executing'
  BY <1>1, <1>3, <1>4, <1>5 DEF Admitting, Journaling, Executing, Persisting
<1> QED
  BY <1>3, <1>6, <1>7, <1>8, <1>9, <1>10

LEMMA PlanAckInv ==
  ASSUME IInv, PlanAck
  PROVE  IInv'
<1> USE DEF IInv, PlanAck, At, memory, world
<1>1. call.run \in RunId /\ call \in Calls /\ DiskTypes
  BY TypesOfDisk DEF TypeOK
<1>2. /\ DiskTypes' /\ DiskInv'
      /\ UNCHANGED <<created, kept, journal>>
      /\ Len(promised'[call.run]) = Len(journal[call.run])
      /\ \A q \in RunId : q # call.run => promised'[q] = promised[q]
  BY <1>1, PromiseEventsDisk
<1>3. /\ call' \in Calls /\ call'.pc = "prepare" /\ call'.run = call.run
      /\ call'.request = call.request
  BY <1>1, CallMoves DEF Points
<1>4. Len(journal[call.run]) = 1 /\ Len(promised[call.run]) \in Nat
      /\ Len(promised[call.run]) <= 1
  BY <1>1, JournalLength DEF Admitting
<1>5. TypeOK'
  BY <1>2, <1>3, TypesOfDisk DEF TypeOK
<1>6. Intent'
  <2>0. \A r \in RunId :
          Len(promised'[r]) = IF r = call.run THEN 1 ELSE Len(promised[r])
    BY <1>2, <1>4
  <2>00. \A r \in RunId : r = call.run => Len(promised[r]) <= 1
    BY <1>4
  <2>1. \A r \in RunId : Len(promised[r]) > 0 => Len(promised'[r]) > 0
    BY <2>0
  <2>2. \A r \in RunId : Len(promised[r]) > 2 => Len(promised'[r]) > 2
    BY <1>1, <1>4, <2>0, <2>00, LengthsAreNat
  <2> QED
    BY <1>2, <2>1, <2>2 DEF Intent, TypeOK
<1>7. Records' /\ Revoked'
  BY <1>2, <1>3 DEF Records, Revoked, Persisting
<1>8. (call.pc # "idle" => call.run \in RunId)'
      /\ Admitting' /\ Journaling' /\ Executing'
  BY <1>1, <1>2, <1>3, <1>4 DEF Admitting, Journaling, Executing, Persisting
<1> QED
  BY <1>2, <1>5, <1>6, <1>7, <1>8

(* A call that is given up leaves the records and the disk as they are. *)
LEMMA GiveUpInv ==
  ASSUME IInv, call.pc \in {"create", "created", "plan", "planned", "prepare",
                            "reconcile"},
         Fault, call' = Idle, debris' \in BOOLEAN,
         UNCHANGED <<up, memory, created, journal, kept, promised, manifest,
                     holds, execs, issued>>
  PROVE  IInv'
<1> USE DEF IInv, memory
<1>1. call' \in Calls /\ call'.pc = "idle"
  BY IdleTyped
<1>2. faults' \in 0 .. MaxFaults
  BY LimitAssumption DEF Fault, TypeOK
<1>3. TypeOK'
  BY <1>1, <1>2 DEF TypeOK, Store!TypeOK
<1>4. DiskInv' /\ Intent'
  BY DEF DiskInv, Intent
<1>5. Records' /\ Revoked'
  BY <1>1 DEF Records, Revoked, Persisting
<1>6. (call.pc # "idle" => call.run \in RunId)'
      /\ Admitting' /\ Journaling' /\ Executing'
  BY <1>1 DEF Admitting, Journaling, Executing, Persisting
<1> QED
  BY <1>3, <1>4, <1>5, <1>6

LEMMA AdmitFailsInv ==
  ASSUME IInv, AdmitFails
  PROVE  IInv'
<1>1. debris' \in BOOLEAN
  BY DEF AdmitFails, IInv, TypeOK
<1> QED
  BY <1>1, GiveUpInv DEF AdmitFails, At

LEMMA PrepareFailsInv ==
  ASSUME IInv, PrepareFails
  PROVE  IInv'
<1>1. debris' \in BOOLEAN
  BY DEF PrepareFails, IInv, TypeOK, disk
<1> QED
  BY <1>1, GiveUpInv DEF PrepareFails, At, disk

LEMMA PrepareInv ==
  ASSUME IInv, Prepare
  PROVE  IInv'
<1> USE DEF IInv, Prepare, At, disk
<1>1. call.run \in RunId /\ call \in Calls /\ call.request \in Request
  BY DEF TypeOK, Admitting
<1>2. call' \in Calls
  BY <1>1, CallTyped DEF Points, Afters, RunStatus
<1>3. /\ call'.pc = "persist" /\ call'.run = call.run
      /\ call'.request = call.request
      /\ call'.goal = "Prepared" /\ call'.after = "handle"
  BY DEF Call
<1>4. /\ Len(journal[call.run]) = 1 /\ Len(promised[call.run]) = 1
      /\ call.run \in kept
  BY DEF Admitting
<1>5. TypeOK'
  <2>1. call.request[1] \in Keys
    BY <1>1 DEF Request
  <2>2. <<"Prepared">> \in Seq(RunStatus)
    BY DEF RunStatus
  <2>3. "Prepared" \in RunStatus
    BY DEF RunStatus
  <2>4. events' \in [RunId -> Seq(RunStatus)]
    BY <1>1, <2>2 DEF TypeOK
  <2>5. binding' \in [Keys -> RunId \cup {0}]
    BY <1>1, <2>1 DEF TypeOK
  <2>6. Store!TypeOK'
    BY DEF TypeOK, Store!TypeOK
  <2> QED
    BY <1>1, <1>2, <2>3, <2>4, <2>5, <2>6 DEF TypeOK
<1>6. DiskInv' /\ Intent'
  <2>1. DiskInv'
    BY DEF DiskInv
  <2>2. \A r \in holds' : Len(promised[r]) > 0
    BY <1>4 DEF Intent
  <2> QED
    BY <2>1, <2>2 DEF Intent
<1>7. status' = [status EXCEPT ![call.run] = "Prepared"]
      /\ cap' = [cap EXCEPT ![call.run] = TRUE]
  OBVIOUS
<1>8. Records'
  BY <1>1, <1>3, <1>7 DEF Records, Persisting, TypeOK
<1>9. LastState(journal[call.run]) = "Planned"
  BY <1>1, <1>4, JournalLength, TypesOfDisk DEF TypeOK
<1>10. Revoked'
  BY <1>1, <1>7, <1>9 DEF Revoked, TypeOK, TerminalState
<1>11. (call.pc # "idle" => call.run \in RunId)'
       /\ Admitting' /\ Executing'
  BY <1>1, <1>3 DEF Admitting, Executing
<1>12. Journaling'
  <2>1. status'[call'.run] = "Prepared"
    BY <1>1, <1>3, <1>7 DEF TypeOK
  <2>2. Len(journal'[call'.run]) = 1 /\ Len(promised'[call'.run]) > 0
    <3>1. /\ journal'[call'.run] = journal[call.run]
          /\ promised'[call'.run] = promised[call.run]
      BY <1>3
    <3> HIDE DEF IInv, Prepare, At, disk
    <3>2. Len(journal'[call'.run]) = 1 /\ Len(promised'[call'.run]) = 1
      BY <1>4, <3>1, Zenon
    <3> QED
      BY <3>2
  <2>3. call'.request \in Request
    BY <1>1, <1>3
  <2> HIDE DEF IInv, Prepare, At, disk
  <2> QED
    BY <1>3, <2>1, <2>2, <2>3 DEF Journaling
<1> QED
  BY <1>5, <1>6, <1>8, <1>10, <1>11, <1>12

-----------------------------------------------------------------------------
(* The steps of persist_for.                                                *)

LEMMA CallFields ==
  ASSUME NEW pc, NEW r, NEW request, NEW goal, NEW after
  PROVE  LET c == Call(pc, r, request, goal, after)
         IN  /\ c.pc = pc /\ c.run = r /\ c.request = request
             /\ c.goal = goal /\ c.after = after
BY DEF Call

(* Where persist_for's caller goes on. *)
LEMMA PersistedCall ==
  ASSUME TypeOK, call.run \in RunId, Persisted
  PROVE  /\ call' \in Calls
         /\ call'.pc = "idle" \/ call'.run = call.run
         /\ call.after = "execute" => call'.pc = "execute"
         /\ call.after = "complete" =>
              /\ call'.pc = "persist"
              /\ call'.goal = "Completed" /\ call'.after = "return"
         /\ call.after \notin {"execute", "complete"} => call'.pc = "idle"
<1>1. CASE call.after = "execute"
  <2>1. call' = Call("execute", call.run, None, "Absent", "return")
    BY <1>1 DEF Persisted
  <2>2. call' \in Calls
    BY <2>1, CallTyped DEF Points, Afters
  <2> QED
    BY <1>1, <2>1, <2>2, CallFields
<1>2. CASE call.after = "complete"
  <2>1. call' = Call("persist", call.run, None, "Completed", "return")
    BY <1>2 DEF Persisted
  <2>2. call' \in Calls
    BY <2>1, CallTyped DEF Points, Afters, RunStatus, TerminalState
  <2> QED
    BY <1>2, <2>1, <2>2, CallFields
<1>3. CASE call.after \notin {"execute", "complete"}
  <2>1. call' = Idle
    BY <1>3 DEF Persisted
  <2> QED
    BY <1>3, <2>1, IdleTyped
<1> QED
  BY <1>1, <1>2, <1>3

(* persist_for has returned Ok.  It had to write Prepared and Running, and  *)
(* its run holds nothing if it is terminal.                                 *)
LEMMA PersistedInv ==
  ASSUME IInv, up, Persisting, Persisted, DiskTypes', DiskInv',
         UNCHANGED <<up, nextId, binding, status, cap, events, created,
                     journal, kept, manifest, debris, holds, execs, faults>>,
         \A r \in RunId : Len(promised[r]) <= Len(promised'[r]),
         call.goal \in {"Prepared", "Running"} =>
           call.pc = "written" /\ Len(promised'[call.run]) = Len(journal[call.run]),
         call.run \in holds => status[call.run] \notin TerminalState
  PROVE  IInv'
<1> USE DEF IInv
<1>1. call.run \in RunId /\ call \in Calls /\ DiskTypes
  BY TypesOfDisk DEF TypeOK, Persisting
<1>2. /\ call' \in Calls
      /\ call'.pc = "idle" \/ call'.run = call.run
      /\ call.after = "execute" => call'.pc = "execute"
      /\ call.after = "complete" =>
           /\ call'.pc = "persist"
           /\ call'.goal = "Completed" /\ call'.after = "return"
      /\ call.after \notin {"execute", "complete"} => call'.pc = "idle"
  BY <1>1, PersistedCall
<1>3. TypeOK'
  <2>1. barrier' \in [RunId -> BOOLEAN]
    BY <1>1 DEF Persisted, TypeOK
  <2>2. call.after = "handle" => call.request \in Request
    BY DEF Journaling, TerminalState
  <2>3. issued' \subseteq Handle
    BY <1>1, <2>2 DEF Persisted, TypeOK, Handle
  <2> QED
    BY <1>2, <2>1, <2>3, TypesOfDisk DEF TypeOK
<1>4. \A r \in RunId : /\ Len(promised[r]) \in Nat /\ Len(promised'[r]) \in Nat
                       /\ Len(journal[r]) \in Nat
  BY <1>1, LengthsAreNat
<1>5. Intent'
  <2>1. \A r \in RunId : Len(promised[r]) > 0 => Len(promised'[r]) > 0
    BY <1>4
  <2>2. \A r \in RunId : Len(promised[r]) > 2 => Len(promised'[r]) > 2
    BY <1>4
  <2> QED
    BY <2>1, <2>2 DEF Intent, TypeOK
<1>6. Records'
  <2>1. status[call.run] = "Prepared" => Len(journal[call.run]) = 2
    BY DEF Journaling, TerminalState
  <2>2. \A r \in RunId : status[r] = "Prepared" => Len(journal[r]) = 2
    BY <2>1 DEF Records
  <2> QED
    BY <2>2 DEF Records
<1>7. Revoked'
  <2>1. \A r \in holds : status[r] \notin TerminalState
    BY DEF Revoked
  <2> QED
    BY <2>1 DEF Revoked
<1>8. (call.pc # "idle" => call.run \in RunId)' /\ Admitting'
  BY <1>1, <1>2 DEF Admitting, Journaling, TerminalState
<1>9. Journaling'
  <2>1. call'.pc = "persist" => call.after = "complete" /\ call'.run = call.run
    BY <1>2
  <2>2. call'.pc # "written"
    BY <1>2
  <2>3. call.after = "complete" => status[call.run] = "Completed"
    BY DEF Journaling
  <2> QED
    BY <1>2, <2>1, <2>2, <2>3 DEF Journaling, Persisting, TerminalState
<1>10. Executing'
  <2>1. call'.pc \in {"execute", "executing", "cleanup"} =>
          call.after = "execute" /\ call'.pc = "execute" /\ call'.run = call.run
    BY <1>2
  <2>2. call.after = "execute" =>
          /\ execs[call.run] = 0 /\ status[call.run] = "Running"
          /\ Len(promised'[call.run]) > 2
    BY DEF Journaling
  <2> QED
    BY <2>1, <2>2 DEF Executing
<1> QED
  BY <1>3, <1>5, <1>6, <1>7, <1>8, <1>9, <1>10

LEMMA PersistSkipInv ==
  ASSUME IInv, PersistSkip
  PROVE  IInv'
<1> USE DEF IInv
<1>1. /\ up /\ call.pc = "persist" /\ Persisted
      /\ LastState(journal[call.run]) = ToState(call.goal)
      /\ UNCHANGED <<up, nextId, binding, status, cap, events, created,
                     journal, kept, promised, manifest, debris, holds, execs,
                     faults>>
  BY DEF PersistSkip, At, PersistLast, disk
<1>2. Persisting /\ call.run \in RunId /\ DiskTypes
  BY <1>1, TypesOfDisk DEF TypeOK, Persisting
<1>3. /\ Len(journal[call.run]) = 0 <=> LastState(journal[call.run]) = NoState
      /\ Len(journal[call.run]) = 1 <=> LastState(journal[call.run]) = "Planned"
      /\ Len(journal[call.run]) = 2 <=> LastState(journal[call.run]) = "Prepared"
      /\ Len(journal[call.run]) \in Nat
  BY <1>2, JournalLength
<1>4. call.goal \notin {"Prepared", "Running"}
  BY <1>1, <1>2, <1>3 DEF Journaling, ToState, TerminalState
<1>5. call.goal \in TerminalState => Len(journal[call.run]) > 1
  <2>1. call.goal \in TerminalState =>
          LastState(journal[call.run]) \notin {NoState, "Planned"}
    BY <1>1 DEF ToState, TerminalState, NoState
  <2> QED
    BY <1>2, <2>1, PastPlanned
<1>6. call.run \in holds => status[call.run] \notin TerminalState
  BY <1>5 DEF Revoked
<1>7. DiskTypes' /\ DiskInv'
  BY <1>1, <1>2 DEF DiskTypes, DiskInv
<1>8. \A r \in RunId : Len(promised[r]) <= Len(promised'[r])
  BY <1>1, <1>2, LengthsAreNat
<1> QED
  BY <1>1, <1>2, <1>4, <1>6, <1>7, <1>8, PersistedInv

LEMMA PersistAckInv ==
  ASSUME IInv, PersistAck
  PROVE  IInv'
<1> USE DEF IInv
<1>1. /\ up /\ call.pc = "written" /\ Persisted
      /\ Store!PromiseEvents(call.run)
      /\ UNCHANGED <<up, nextId, binding, status, cap, events, manifest,
                     debris, holds, execs, faults>>
  BY DEF PersistAck, At
<1>2. Persisting /\ call.run \in RunId /\ DiskTypes
  BY <1>1, TypesOfDisk DEF TypeOK, Persisting
<1>3. /\ DiskTypes' /\ DiskInv'
      /\ UNCHANGED <<created, kept, journal>>
      /\ Len(promised'[call.run]) = Len(journal[call.run])
      /\ \A q \in RunId : q # call.run => promised'[q] = promised[q]
  BY <1>1, <1>2, PromiseEventsDisk
<1>4. call.run \in holds => status[call.run] \notin TerminalState
  BY <1>1 DEF Revoked
<1>5. Len(promised[call.run]) <= Len(promised'[call.run])
  BY <1>2, <1>3, JournalLength
<1>6. \A r \in RunId : Len(promised[r]) <= Len(promised'[r])
  <2> SUFFICES ASSUME NEW r \in RunId
               PROVE  Len(promised[r]) <= Len(promised'[r])
    OBVIOUS
  <2>1. CASE r = call.run
    BY <1>5, <2>1
  <2>2. CASE r # call.run
    BY <1>2, <1>3, <2>2, LengthsAreNat
  <2> QED
    BY <2>1, <2>2
<1> QED
  BY <1>1, <1>2, <1>3, <1>4, <1>6, PersistedInv

LEMMA PersistWriteInv ==
  ASSUME IInv, PersistWrite
  PROVE  IInv'
<1> USE DEF IInv
<1>1. /\ up /\ call.pc = "persist"
      /\ Store!Extend(call.run, ToState(call.goal))
      /\ call' = [call EXCEPT !.pc = "written"]
      /\ UNCHANGED <<up, nextId, binding, status, cap, events, barrier,
                     manifest, debris, holds, execs, issued, faults>>
  BY DEF PersistWrite, At, memory, world
<1>2. Persisting /\ call.run \in RunId /\ call \in Calls /\ DiskTypes
  BY <1>1, TypesOfDisk DEF TypeOK, Persisting
<1>3. ToState(call.goal) = call.goal /\ call.goal \in ExecutionState
  BY <1>2 DEF Journaling, ToState, ExecutionState, TerminalState
<1>4. /\ DiskTypes' /\ DiskInv'
      /\ ValidTransition(LastState(journal[call.run]), call.goal)
      /\ UNCHANGED <<created, kept, promised>>
      /\ Len(journal'[call.run]) = Len(journal[call.run]) + 1
      /\ LastState(journal'[call.run]) = call.goal
      /\ \A q \in RunId : q # call.run => journal'[q] = journal[q]
  BY <1>1, <1>2, <1>3, ExtendDisk
<1>5. /\ call' \in Calls /\ call'.pc = "written" /\ call'.run = call.run
      /\ call'.request = call.request
      /\ call'.goal = call.goal /\ call'.after = call.after
  BY <1>1, <1>2, CallMoves DEF Points
<1>6. /\ Len(journal[call.run]) \in Nat
      /\ Len(journal[call.run]) = 0 <=> LastState(journal[call.run]) = NoState
      /\ Len(journal[call.run]) = 1 <=> LastState(journal[call.run]) = "Planned"
  BY <1>2, JournalLength
<1>7. Len(journal[call.run]) > 0 /\ Len(promised[call.run]) > 0
  <2>1. call.goal # "Planned"
    BY <1>2 DEF Journaling, TerminalState
  <2>20. LastState(journal[call.run]) # NoState
    BY <1>4, <2>1 DEF ValidTransition, NoState
  <2>2. Len(journal[call.run]) > 0
    BY <1>6, <2>20
  <2>3. CASE call.goal = "Prepared"
    BY <1>2, <2>2, <2>3 DEF Journaling, TerminalState
  <2>4. CASE call.goal # "Prepared"
    <3>1. LastState(journal[call.run]) # "Planned"
      BY <1>4, <2>4 DEF ValidTransition, NoState
    <3>2. Len(journal[call.run]) > 1
      BY <1>2, <2>20, <3>1, PastPlanned
    <3> QED
      BY <1>2, <2>2, <3>2 DEF Intent
  <2> QED
    BY <2>3, <2>4
<1>8. \A r \in RunId :
        Len(journal'[r]) = IF r = call.run THEN Len(journal[call.run]) + 1
                           ELSE Len(journal[r])
  BY <1>4
<1>9. TypeOK'
  BY <1>1, <1>4, <1>5, TypesOfDisk DEF TypeOK
<1>10. Intent'
  <2>1. call.run \in kept
    BY <1>2, <1>7 DEF Intent
  <2>2. \A r \in RunId : Len(journal'[r]) > 0 => r \in kept
    BY <1>8, <2>1 DEF Intent
  <2>3. \A r \in RunId : Len(journal'[r]) > 1 => Len(promised[r]) > 0
    BY <1>7, <1>8 DEF Intent
  <2> QED
    BY <1>1, <1>4, <2>2, <2>3 DEF Intent
<1>11. Records'
  <2>1. status[call.run] # "Admitted"
    BY <1>2 DEF Journaling, TerminalState
  <2>2. \A r \in RunId : status[r] = "Admitted" => Len(journal'[r]) < 2
    BY <1>8, <2>1 DEF Records
  <2>3. \A r \in RunId : status[r] = "Prepared" =>
          Len(journal'[r]) = 2 \/ r = call.run
    BY <1>8 DEF Records
  <2> QED
    BY <1>1, <1>5, <2>2, <2>3 DEF Records, Persisting
<1>12. Revoked'
  <2>1. call.run \in holds => status[call.run] \notin TerminalState
    <3>1. call.goal \in TerminalState =>
            LastState(journal[call.run]) \notin {NoState, "Planned"}
      BY <1>4 DEF ValidTransition, TerminalState, NoState
    <3>2. call.goal \in TerminalState => Len(journal[call.run]) > 1
      BY <1>2, <3>1, PastPlanned
    <3> QED
      BY <3>2 DEF Revoked
  <2>2. call.run \in holds => call.goal \notin TerminalState
    BY <1>2, <2>1 DEF Journaling, TerminalState
  <2>3. \A r \in holds : status[r] \notin TerminalState
    BY <2>1 DEF Revoked
  <2>4. \A r \in holds : r \in RunId
    BY DEF TypeOK
  <2>5. \A r \in holds : LastState(journal'[r]) \notin TerminalState
    BY <1>4, <2>2, <2>4 DEF Revoked
  <2> QED
    BY <1>1, <2>3, <2>5 DEF Revoked
<1>13. (call.pc # "idle" => call.run \in RunId)' /\ Admitting' /\ Executing'
  BY <1>2, <1>5 DEF Admitting, Executing
<1>14. Journaling'
  <2>1. /\ call.goal = "Prepared" => Len(journal'[call.run]) = 2
        /\ call.goal = "Running" => Len(journal'[call.run]) = 3
    <3>1. /\ call.goal = "Prepared" => Len(journal[call.run]) = 1
          /\ call.goal = "Running" => Len(journal[call.run]) = 2
      BY <1>1, <1>2 DEF Journaling, TerminalState
    <3> DEFINE n == Len(journal[call.run])
               m == Len(journal'[call.run])
    <3>2. /\ m = n + 1
          /\ call.goal = "Prepared" => n = 1
          /\ call.goal = "Running" => n = 2
      BY <1>4, <3>1
    <3> HIDE DEF n, m
    <3>3. (call.goal = "Prepared" => m = 2) /\ (call.goal = "Running" => m = 3)
      BY <3>2
    <3> QED
      BY <3>3 DEF m
  <2> QED
    BY <1>1, <1>2, <1>4, <1>5, <2>1 DEF Journaling, TerminalState
<1> QED
  BY <1>4, <1>9, <1>10, <1>11, <1>12, <1>13, <1>14

(* A run is fenced: its record says NeedsReconciliation, nothing else does. *)
LEMMA FencedInv ==
  ASSUME IInv, NEW r \in RunId, up, faults' \in 0 .. MaxFaults,
         call.pc # "idle" => call.run = r,
         status' = [status EXCEPT ![r] = "NeedsReconciliation"],
         cap' = [cap EXCEPT ![r] = FALSE],
         barrier' = [barrier EXCEPT ![r] = TRUE],
         events' \in [RunId -> Seq(RunStatus)],
         call' = Idle,
         UNCHANGED <<up, nextId, binding, created, journal, kept, promised,
                     manifest, debris, holds, execs, issued>>
  PROVE  IInv'
<1> USE DEF IInv
<1>1. call' \in Calls /\ call'.pc = "idle"
  BY IdleTyped
<1>3. "NeedsReconciliation" \in RunStatus
  BY DEF RunStatus
<1>4. TypeOK'
  BY <1>1, <1>3 DEF TypeOK, Store!TypeOK
<1>5. DiskInv' /\ Intent'
  BY DEF DiskInv, Intent
<1>6. \A q \in RunId : /\ q = r => status'[q] = "NeedsReconciliation"
                       /\ q # r => status'[q] = status[q] /\ cap'[q] = cap[q]
  BY DEF TypeOK
<1>7. Records'
  <2>1. ASSUME NEW q \in RunId
        PROVE  /\ status'[q] = "Admitted" => Len(journal[q]) < 2
               /\ status'[q] = "Prepared" => Len(journal[q]) = 2
               /\ status'[q] \in {"Prepared", "Running", "Collecting"} => cap'[q]
    <3>1. CASE q = r
      BY <1>6, <3>1
    <3>2. CASE q # r
      <4>1. status'[q] = status[q] /\ cap'[q] = cap[q]
        BY <1>6, <3>2
      <4>2. ~(Persisting /\ call.run = q)
        BY <3>2 DEF Persisting
      <4>3. /\ status[q] = "Admitted" => Len(journal[q]) < 2
            /\ status[q] = "Prepared" => Len(journal[q]) = 2
            /\ status[q] \in {"Prepared", "Running", "Collecting"} => cap[q]
        BY <4>2 DEF Records
      <4> QED
        BY <4>1, <4>3
    <3> QED
      BY <3>1, <3>2
  <2> QED
    BY <2>1 DEF Records
<1>8. Revoked'
  BY <1>1, <1>6 DEF Revoked, TypeOK, TerminalState
<1>9. (call.pc # "idle" => call.run \in RunId)'
      /\ Admitting' /\ Journaling' /\ Executing'
  BY <1>1 DEF Admitting, Journaling, Executing, Persisting
<1> QED
  BY <1>4, <1>5, <1>7, <1>8, <1>9

(* Taking back the last event leaves a sequence of events. *)
LEMMA EventsTaken ==
  ASSUME NEW s \in Seq(RunStatus), s # <<>>
  PROVE  Front(s) \in Seq(RunStatus)
<1>1. Len(s) - 1 \in 0 .. Len(s)
  BY SMT
<1> QED
  BY <1>1, CutPointwise DEF Front

LEMMA FenceInv ==
  ASSUME IInv, up, Persisting, Fence, faults' \in 0 .. MaxFaults,
         UNCHANGED <<up, disk, holds, execs, issued>>
  PROVE  IInv'
<1> USE DEF IInv
<1>1. call.run \in RunId
  BY DEF Persisting
<1>2. events' \in [RunId -> Seq(RunStatus)]
  <2>1. events[call.run] # <<>> => Front(events[call.run]) \in Seq(RunStatus)
    BY <1>1, EventsTaken DEF TypeOK
  <2> QED
    BY <1>1, <2>1 DEF Fence, TypeOK
<1> QED
  BY <1>1, <1>2, FencedInv DEF Fence, disk

LEMMA PersistRefusedInv ==
  ASSUME IInv, PersistRefused
  PROVE  IInv'
<1>1. faults' \in 0 .. MaxFaults
  BY DEF PersistRefused, world, IInv, TypeOK
<1> QED
  BY <1>1, FenceInv DEF PersistRefused, At, Persisting, world

LEMMA PersistFailsInv ==
  ASSUME IInv, PersistFails
  PROVE  IInv'
<1>1. faults' \in 0 .. MaxFaults
  BY LimitAssumption DEF PersistFails, Fault, IInv, TypeOK
<1> QED
  BY <1>1, FenceInv DEF PersistFails, At, Persisting

LEMMA CleanupFailsInv ==
  ASSUME IInv, CleanupFails
  PROVE  IInv'
<1>1. faults' \in 0 .. MaxFaults
  BY LimitAssumption DEF CleanupFails, Fault, IInv, TypeOK
<1>2. call.run \in RunId /\ events' \in [RunId -> Seq(RunStatus)]
  BY DEF CleanupFails, At, IInv, TypeOK
<1> QED
  BY <1>1, <1>2, FencedInv DEF CleanupFails, At, disk

-----------------------------------------------------------------------------
(* The steps of start and execute.                                          *)

LEMMA BeginInv ==
  ASSUME IInv, NEW r \in RunId, NEW after \in {"return", "execute"},
         Begin(r, after)
  PROVE  IInv'
<1> USE DEF IInv
<1>1. /\ up /\ call.pc = "idle" /\ status[r] = "Prepared"
      /\ status' = [status EXCEPT ![r] = "Running"]
      /\ events' = [events EXCEPT ![r] = Append(@, "Running")]
      /\ call' = Call("persist", r, None, "Running", after)
      /\ UNCHANGED <<up, nextId, binding, cap, barrier, created, journal,
                     kept, promised, manifest, debris, holds, execs, issued,
                     faults>>
  BY DEF Begin, Ready, disk, world
<1>2. call' \in Calls
  BY <1>1, CallTyped DEF Points, Afters, RunStatus
<1>3. /\ call'.pc = "persist" /\ call'.run = r
      /\ call'.goal = "Running" /\ call'.after = after
  BY <1>1, CallFields
<1>4. /\ status'[r] = "Running"
      /\ \A q \in RunId : q # r => status'[q] = status[q]
  BY <1>1 DEF TypeOK
<1>5. Len(journal[r]) = 2 /\ cap[r]
  BY <1>1 DEF Records, Persisting
<1>6. execs[r] = 0
  <2> DEFINE n == Len(promised[r])
             m == Len(journal[r])
  <2>1. n <= m /\ n \in Nat /\ m = 2
    BY <1>5, JournalLength, TypesOfDisk DEF TypeOK
  <2>2. execs[r] \in {0, 1} /\ (execs[r] = 1 => n > 2)
    BY DEF Intent
  <2> HIDE DEF n, m
  <2> QED
    BY <2>1, <2>2
<1>7. TypeOK'
  <2>1. "Running" \in RunStatus
    BY DEF RunStatus
  <2>2. Append(events[r], "Running") \in Seq(RunStatus)
    BY <2>1 DEF TypeOK
  <2>3. events' \in [RunId -> Seq(RunStatus)]
    BY <1>1, <2>2 DEF TypeOK
  <2> QED
    BY <1>1, <1>2, <2>1, <2>3 DEF TypeOK, Store!TypeOK
<1>8. DiskInv' /\ Intent'
  BY <1>1 DEF DiskInv, Intent
<1>9. Records'
  <2>1. ASSUME NEW q \in RunId
        PROVE  /\ status'[q] = "Admitted" => Len(journal[q]) < 2
               /\ status'[q] = "Prepared" => Len(journal[q]) = 2
               /\ status'[q] \in {"Prepared", "Running", "Collecting"} => cap[q]
    <3>1. CASE q = r
      BY <1>4, <1>5, <3>1
    <3>2. CASE q # r
      BY <1>1, <1>4, <3>2 DEF Records, Persisting
    <3> QED
      BY <3>1, <3>2
  <2> QED
    BY <1>1, <2>1 DEF Records
<1>10. Revoked'
  BY <1>1, <1>4 DEF Revoked, TypeOK, TerminalState
<1>11. (call.pc # "idle" => call.run \in RunId)' /\ Admitting' /\ Executing'
  BY <1>3 DEF Admitting, Executing
<1>12. Journaling'
  <2>1. journal' = journal /\ execs' = execs
    BY <1>1
  <2>2. Len(journal'[r]) = 2 /\ execs'[r] = 0
    BY <1>5, <1>6, <2>1
  <2> QED
    BY <1>3, <1>4, <2>2 DEF Journaling
<1> QED
  BY <1>7, <1>8, <1>9, <1>10, <1>11, <1>12

LEMMA ExecuteUntilInv ==
  ASSUME IInv, ExecuteUntil
  PROVE  IInv'
<1> USE DEF IInv
<1>1. /\ up /\ call.pc = "execute"
      /\ execs' = [execs EXCEPT ![call.run] = @ + 1]
      /\ call' = [call EXCEPT !.pc = "executing"]
      /\ UNCHANGED <<up, nextId, binding, status, cap, events, barrier,
                     created, journal, kept, promised, manifest, debris,
                     holds, issued, faults>>
  BY DEF ExecuteUntil, At, memory, disk
<1>2. call.run \in RunId /\ call \in Calls
  BY <1>1 DEF TypeOK
<1>3. /\ call' \in Calls /\ call'.pc = "executing" /\ call'.run = call.run
  BY <1>1, <1>2, CallMoves DEF Points
<1>4. execs[call.run] = 0 /\ Len(promised[call.run]) > 2
  BY <1>1 DEF Executing
<1>5. execs' = [execs EXCEPT ![call.run] = 1]
  BY <1>1, <1>2, <1>4 DEF TypeOK
<1>6. TypeOK'
  BY <1>1, <1>2, <1>3, <1>5 DEF TypeOK, Store!TypeOK
<1>7. DiskInv' /\ Records' /\ Revoked'
  BY <1>1, <1>3 DEF DiskInv, Records, Revoked, Persisting
<1>8. Intent'
  <2>1. \A r \in RunId : /\ execs'[r] \in {0, 1}
                         /\ execs'[r] = 1 => Len(promised[r]) > 2
    BY <1>2, <1>4, <1>5 DEF Intent, TypeOK
  <2> QED
    BY <1>1, <2>1 DEF Intent
<1>9. (call.pc # "idle" => call.run \in RunId)'
      /\ Admitting' /\ Journaling' /\ Executing'
  BY <1>1, <1>2, <1>3 DEF Admitting, Journaling, Executing, Persisting
<1> QED
  BY <1>6, <1>7, <1>8, <1>9

LEMMA ExecuteReturnsInv ==
  ASSUME IInv, ExecuteReturns
  PROVE  IInv'
<1> USE DEF IInv
<1>1. /\ up /\ call.pc = "executing"
      /\ UNCHANGED <<up, nextId, binding, status, cap, events, barrier,
                     created, journal, kept, promised, manifest, debris,
                     holds, execs, issued, faults>>
  BY DEF ExecuteReturns, At, memory, disk, world
<1>2. PICK goal \in {"Failed", "Collecting"}, after \in {"return", "complete"} :
        /\ goal = "Collecting" <=> after = "complete"
        /\ call' = Call("cleanup", call.run, None, goal, after)
  BY DEF ExecuteReturns
<1>3. call.run \in RunId
  BY <1>1
<1>4. call' \in Calls
  BY <1>2, <1>3, CallTyped DEF Points, Afters, RunStatus, TerminalState
<1>5. /\ call'.pc = "cleanup" /\ call'.run = call.run
      /\ call'.goal = goal /\ call'.after = after
  BY <1>2, CallFields
<1>6. TypeOK'
  BY <1>1, <1>4 DEF TypeOK, Store!TypeOK
<1>7. DiskInv' /\ Intent' /\ Records' /\ Revoked'
  BY <1>1, <1>5 DEF DiskInv, Intent, Records, Revoked, Persisting
<1>8. (call.pc # "idle" => call.run \in RunId)' /\ Admitting' /\ Journaling'
  BY <1>3, <1>5 DEF Admitting, Journaling, Persisting
<1>9. Executing'
  BY <1>1, <1>2, <1>5 DEF Executing, TerminalState
<1> QED
  BY <1>6, <1>7, <1>8, <1>9

-----------------------------------------------------------------------------
(* Concluding a run.                                                        *)

(* A conclusion is about to be journaled. *)
LEMMA ConcludedInv ==
  ASSUME IInv, NEW r \in RunId, up,
         NEW goal, NEW after, NEW s,
         \/ goal = "Collecting" /\ after = "complete" /\ s = "Completed"
         \/ goal \in TerminalState /\ after \in {"return", "clear"} /\ s = goal,
         ~Persisting,
         status' = [status EXCEPT ![r] = s],
         cap' = [cap EXCEPT ![r] = FALSE],
         events' \in [RunId -> Seq(RunStatus)],
         call' = Call("persist", r, None, goal, after),
         holds' \subseteq holds,
         r \in holds' => goal \in TerminalState /\ Len(journal[r]) < 2,
         UNCHANGED <<up, nextId, binding, barrier, created, journal, kept,
                     promised, manifest, debris, execs, issued, faults>>
  PROVE  IInv'
<1> USE DEF IInv
<1>1. goal \in RunStatus /\ s \in TerminalState /\ s \in RunStatus
  BY DEF RunStatus, TerminalState
<1>2. call' \in Calls
  BY <1>1, CallTyped DEF Points, Afters
<1>3. /\ call'.pc = "persist" /\ call'.run = r
      /\ call'.goal = goal /\ call'.after = after
  BY CallFields
<1>4. /\ status'[r] = s
      /\ \A q \in RunId : q # r => status'[q] = status[q] /\ cap'[q] = cap[q]
  BY DEF TypeOK
<1>5. TypeOK'
  BY <1>1, <1>2 DEF TypeOK, Store!TypeOK
<1>6. DiskInv' /\ Intent'
  BY DEF DiskInv, Intent
<1>7. Records'
  <2>1. ASSUME NEW q \in RunId
        PROVE  /\ status'[q] = "Admitted" => Len(journal[q]) < 2
               /\ status'[q] = "Prepared" => Len(journal[q]) = 2
               /\ status'[q] \in {"Prepared", "Running", "Collecting"} => cap'[q]
    <3>1. CASE q = r
      BY <1>1, <1>4, <3>1 DEF TerminalState
    <3>2. CASE q # r
      BY <1>4, <3>2 DEF Records
    <3> QED
      BY <3>1, <3>2
  <2> QED
    BY <2>1 DEF Records
<1>8. Revoked'
  <2>1. \A q \in holds' : LastState(journal[q]) \notin TerminalState
    BY DEF Revoked
  <2>2. ASSUME NEW q \in holds', status'[q] \in TerminalState
        PROVE  q = r
    BY <1>4, <2>2 DEF Revoked, Persisting, TypeOK
  <2> QED
    BY <1>3, <2>1, <2>2 DEF Revoked
<1>9. (call.pc # "idle" => call.run \in RunId)' /\ Admitting' /\ Executing'
  BY <1>3 DEF Admitting, Executing
<1>10. Journaling'
  BY <1>1, <1>3, <1>4 DEF Journaling
<1> QED
  BY <1>5, <1>6, <1>7, <1>8, <1>9, <1>10

(* There was no room for a conclusion's events. *)
LEMMA NoRoomInv ==
  ASSUME IInv, NEW r \in RunId, up, ~Persisting,
         \/ status' = status
         \/ status' = [status EXCEPT ![r] = "Collecting"] /\ cap[r],
         events' \in [RunId -> Seq(RunStatus)],
         call' = Idle,
         holds' \subseteq holds,
         UNCHANGED <<up, nextId, binding, cap, barrier, created, journal,
                     kept, promised, manifest, debris, execs, issued, faults>>
  PROVE  IInv'
<1> USE DEF IInv
<1>1. call' \in Calls /\ call'.pc = "idle"
  BY IdleTyped
<1>2. \A q \in RunId : \/ status'[q] = status[q]
                       \/ status'[q] = "Collecting" /\ cap[q]
  BY DEF TypeOK
<1>3. TypeOK'
  BY <1>1 DEF TypeOK, Store!TypeOK, RunStatus
<1>4. DiskInv' /\ Intent'
  BY DEF DiskInv, Intent
<1>5. Records'
  BY <1>2 DEF Records
<1>6. Revoked'
  BY <1>2 DEF Revoked, Persisting, TypeOK, TerminalState
<1>7. (call.pc # "idle" => call.run \in RunId)'
      /\ Admitting' /\ Journaling' /\ Executing'
  BY <1>1 DEF Admitting, Journaling, Executing, Persisting
<1> QED
  BY <1>3, <1>4, <1>5, <1>6, <1>7

LEMMA FinishInv ==
  ASSUME IInv, NEW r \in RunId, up,
         NEW goal, NEW after,
         \/ goal = "Collecting" /\ after = "complete" /\ cap[r]
         \/ goal \in TerminalState /\ after = "return",
         ~Persisting,
         Finish(r, goal, after),
         holds' \subseteq holds,
         r \in holds' => goal \in TerminalState /\ Len(journal[r]) < 2,
         UNCHANGED <<up, disk, execs, issued, faults>>
  PROVE  IInv'
<1> DEFINE pushes == IF after = "complete" THEN <<goal, "Completed">>
                     ELSE <<goal>>
           room == MaxEvents - Len(events[r])
           n == IF room >= Len(pushes) THEN Len(pushes)
                ELSE IF room > 0 THEN room ELSE 0
<1>1. /\ events' = [events EXCEPT ![r] = @ \o SubSeq(pushes, 1, n)]
      /\ status' = [status EXCEPT ![r] = IF n = 0 THEN @ ELSE pushes[n]]
      /\ cap' = [cap EXCEPT ![r] = @ /\ n < Len(pushes)]
      /\ call' = IF n = Len(pushes) THEN Call("persist", r, None, goal, after)
                 ELSE Idle
      /\ UNCHANGED <<nextId, binding, barrier>>
  BY DEF Finish
<1>2. TypeOK /\ events[r] \in Seq(RunStatus)
  BY DEF IInv, TypeOK
<1>3. pushes \in Seq(RunStatus)
      /\ Len(pushes) = IF after = "complete" THEN 2 ELSE 1
  <2>1. goal \in RunStatus /\ "Completed" \in RunStatus
    BY DEF RunStatus, TerminalState
  <2>2. CASE after = "complete"
    BY <2>1, <2>2
  <2>3. CASE after # "complete"
    BY <2>1, <2>3
  <2> QED
    BY <2>2, <2>3
<1>4. pushes[1] = goal /\ (after = "complete" => pushes[2] = "Completed")
  OBVIOUS
<1>5. Len(events[r]) \in Nat /\ MaxEvents \in Nat
  BY <1>2, LimitAssumption
<1>6. n \in 0 .. Len(pushes) /\ Len(pushes) \in {1, 2}
  <2> DEFINE e == Len(events[r])
             p == Len(pushes)
  <2>1. e \in Nat /\ MaxEvents \in Nat /\ p \in {1, 2}
    BY <1>3, <1>5
  <2> HIDE DEF e, p, pushes
  <2> QED
    BY <2>1 DEF p
<1> HIDE DEF n, room, pushes
<1>7. events' \in [RunId -> Seq(RunStatus)]
  <2>1. SubSeq(pushes, 1, n) \in Seq(RunStatus)
    BY <1>3, <1>6, CutPointwise
  <2>2. events[r] \o SubSeq(pushes, 1, n) \in Seq(RunStatus)
    BY <1>2, <2>1
  <2> QED
    BY <1>1, <1>2, <2>2 DEF TypeOK
<1>8. CASE n = Len(pushes)
  <2> DEFINE s == IF after = "complete" THEN "Completed" ELSE goal
  <2>1. n # 0 /\ pushes[n] = s
    BY <1>3, <1>4, <1>8
  <2>2. status' = [status EXCEPT ![r] = s]
    BY <1>1, <2>1
  <2>3. ~(n < Len(pushes))
    BY <1>6, <1>8
  <2>4. cap' = [cap EXCEPT ![r] = FALSE]
    BY <1>1, <2>3
  <2>5. call' = Call("persist", r, None, goal, after)
    BY <1>1, <1>8
  <2>6. \/ goal = "Collecting" /\ after = "complete" /\ s = "Completed"
        \/ goal \in TerminalState /\ after \in {"return", "clear"} /\ s = goal
    OBVIOUS
  <2>7. UNCHANGED <<up, nextId, binding, barrier, created, journal, kept,
                    promised, manifest, debris, execs, issued, faults>>
    BY <1>1 DEF disk
  <2> HIDE DEF s
  <2> QED
    BY <1>7, <2>2, <2>4, <2>5, <2>6, <2>7, ConcludedInv, Zenon
<1>9. CASE n # Len(pushes)
  <2>1. call' = Idle
    BY <1>1, <1>9
  <2>2. n < Len(pushes)
    BY <1>6, <1>9
  <2>3. cap' = cap
    BY <1>1, <1>2, <2>2 DEF TypeOK
  <2>4. \/ status' = status
        \/ status' = [status EXCEPT ![r] = "Collecting"] /\ cap[r]
    <3>1. CASE n = 0
      BY <1>1, <1>2, <3>1 DEF TypeOK
    <3>2. CASE n # 0
      <4>1. n = 1 /\ after = "complete"
        BY <1>3, <1>6, <2>2, <3>2
      <4>2. pushes[n] = "Collecting" /\ cap[r]
        BY <1>4, <4>1 DEF TerminalState
      <4> QED
        BY <1>1, <3>2, <4>2
    <3> QED
      BY <3>1, <3>2
  <2> QED
    BY <1>1, <1>7, <2>1, <2>3, <2>4, NoRoomInv DEF disk
<1> QED
  BY <1>8, <1>9

LEMMA ExecuteCancelledInv ==
  ASSUME IInv, ExecuteCancelled
  PROVE  IInv'
<1>1. /\ up /\ call.pc = "executing" /\ call.run \in RunId
      /\ call.run \notin holds' /\ holds' \subseteq holds
  BY DEF ExecuteCancelled, At, IInv
<1>2. ~Persisting /\ "Cancelled" \in TerminalState
  BY <1>1 DEF Persisting, TerminalState
<1> QED
  BY <1>1, <1>2, FinishInv DEF ExecuteCancelled

LEMMA CleanupInv ==
  ASSUME IInv, Cleanup
  PROVE  IInv'
<1>1. /\ up /\ call.pc = "cleanup" /\ call.run \in RunId
      /\ call.run \notin holds' /\ holds' \subseteq holds
  BY DEF Cleanup, At, IInv
<1>2. \/ /\ call.goal = "Collecting" /\ call.after = "complete"
         /\ status[call.run] = "Running"
      \/ call.goal \in TerminalState /\ call.after = "return"
  BY <1>1 DEF Executing, IInv
<1>3. status[call.run] = "Running" => cap[call.run]
  BY <1>1 DEF Records, IInv
<1>4. ~Persisting
  BY <1>1 DEF Persisting
<1> QED
  BY <1>1, <1>2, <1>3, <1>4, FinishInv DEF Cleanup

(* cancel or complete has looked at the record. *)
LEMMA ConcludeInv ==
  ASSUME IInv, NEW r \in RunId, NEW goal \in TerminalState, Ready,
         status[r] \notin TerminalState,
         cap[r] \/ status[r] = "Admitted",
         Conclude(r, goal), UNCHANGED <<up, disk, world>>
  PROVE  IInv'
<1> USE DEF IInv
<1>1. up /\ call.pc = "idle" /\ ~Persisting
  BY DEF Ready, Persisting
<1>2. CASE cap[r]
  <2>1. call' = Call("cleanup", r, None, goal, "return") /\ UNCHANGED memory
    BY <1>2 DEF Conclude
  <2>2. call' \in Calls
    BY <2>1, CallTyped DEF Points, Afters, RunStatus
  <2>3. /\ call'.pc = "cleanup" /\ call'.run = r
        /\ call'.goal = goal /\ call'.after = "return"
    BY <2>1, CallFields
  <2>4. TypeOK'
    BY <2>1, <2>2 DEF TypeOK, Store!TypeOK, memory, disk, world
  <2>5. DiskInv' /\ Intent' /\ Records' /\ Revoked'
    BY <1>1, <2>1, <2>3
    DEF DiskInv, Intent, Records, Revoked, Persisting, memory, disk, world
  <2>6. (call.pc # "idle" => call.run \in RunId)'
        /\ Admitting' /\ Journaling' /\ Executing'
    BY <2>1, <2>3 DEF Admitting, Journaling, Executing, Persisting, memory
  <2> QED
    BY <2>4, <2>5, <2>6
<1>3. CASE ~cap[r]
  <2>1. Finish(r, goal, "return")
    BY <1>3 DEF Conclude
  <2>2. Len(journal[r]) < 2
    BY <1>3 DEF Records
  <2>3. holds' \subseteq holds /\ UNCHANGED <<up, disk, execs, issued, faults>>
    BY DEF world
  <2> QED
    BY <1>1, <2>1, <2>2, <2>3, FinishInv
<1> QED
  BY <1>2, <1>3

LEMMA CancelInv ==
  ASSUME IInv, NEW r \in RunId, Cancel(r)
  PROVE  IInv'
<1>1. /\ Ready /\ Conclude(r, "Cancelled") /\ UNCHANGED <<up, disk, world>>
      /\ status[r] \notin TerminalState \cup {"NeedsReconciliation", "Absent"}
  BY DEF Cancel, Known
<1>2. cap[r] \/ status[r] = "Admitted"
  BY <1>1 DEF IInv, TypeOK, RunStatus, Records
<1> QED
  BY <1>1, <1>2, ConcludeInv DEF TerminalState

LEMMA CompleteInv ==
  ASSUME IInv, NEW r \in RunId, Complete(r)
  PROVE  IInv'
<1>1. /\ Ready /\ Conclude(r, "Completed") /\ UNCHANGED <<up, disk, world>>
      /\ status[r] \in {"Running", "Collecting"}
  BY DEF Complete
<1>2. cap[r] /\ status[r] \notin TerminalState
  BY <1>1 DEF IInv, Records, TerminalState
<1> QED
  BY <1>1, <1>2, ConcludeInv DEF TerminalState

LEMMA ReconcileInv ==
  ASSUME IInv, NEW r \in RunId, Reconcile(r)
  PROVE  IInv'
<1> USE DEF IInv
<1>1. /\ up /\ call.pc = "idle" /\ status[r] = "NeedsReconciliation"
      /\ call' = Call("reconcile", r, None, "Absent", "return")
      /\ UNCHANGED <<up, memory, disk, world>>
  BY DEF Reconcile, Ready
<1>2. call' \in Calls
  BY <1>1, CallTyped DEF Points, Afters
<1>3. call'.pc = "reconcile" /\ call'.run = r
  BY <1>1, CallFields
<1>4. TypeOK'
  BY <1>1, <1>2 DEF TypeOK, Store!TypeOK, memory, disk, world
<1>5. DiskInv' /\ Intent' /\ Records' /\ Revoked'
  BY <1>1, <1>3
  DEF DiskInv, Intent, Records, Revoked, Persisting, memory, disk, world
<1>6. (call.pc # "idle" => call.run \in RunId)'
      /\ Admitting' /\ Journaling' /\ Executing'
  BY <1>3 DEF Admitting, Journaling, Executing, Persisting
<1> QED
  BY <1>4, <1>5, <1>6

LEMMA ReconcileTeardownInv ==
  ASSUME IInv, ReconcileTeardown
  PROVE  IInv'
<1>1. /\ up /\ call.pc = "reconcile" /\ call.run \in RunId
      /\ call.run \notin holds' /\ holds' \subseteq holds
      /\ events' \in [RunId -> Seq(RunStatus)]
  BY DEF ReconcileTeardown, At, IInv, TypeOK
<1>2. ~Persisting /\ "Failed" \in TerminalState
  BY <1>1 DEF Persisting, TerminalState
<1>3. /\ status' = [status EXCEPT ![call.run] = "Failed"]
      /\ cap' = [cap EXCEPT ![call.run] = FALSE]
      /\ call' = Call("persist", call.run, None, "Failed", "clear")
      /\ UNCHANGED <<up, nextId, binding, barrier, created, journal, kept,
                     promised, manifest, debris, execs, issued, faults>>
  BY DEF ReconcileTeardown, disk
<1> QED
  BY <1>1, <1>2, <1>3, ConcludedInv

LEMMA ReconcileFailsInv ==
  ASSUME IInv, ReconcileFails
  PROVE  IInv'
<1>1. debris' \in BOOLEAN
  BY DEF ReconcileFails, IInv, TypeOK, disk
<1> QED
  BY <1>1, GiveUpInv DEF ReconcileFails, At, disk

-----------------------------------------------------------------------------
(* Process death, power loss, restart.                                      *)

(* Whatever becomes of the disk and the authority, a process that is down   *)
(* has no records to be wrong.                                              *)
LEMMA DownInv ==
  ASSUME IInv, up' = FALSE, Blank, faults' \in 0 .. MaxFaults,
         debris' \in BOOLEAN, manifest' \in [RunId -> Request \cup {None}],
         DiskTypes', DiskInv', Intent',
         \A r \in holds' : LastState(journal'[r]) \notin TerminalState,
         holds' \subseteq RunId,
         UNCHANGED <<execs, issued>>
  PROVE  IInv'
<1> USE DEF IInv
<1>1. call' = Idle /\ call' \in Calls /\ call'.pc = "idle"
  BY IdleTyped DEF Blank
<1>2. \A r \in RunId : status'[r] = "Absent"
  BY DEF Blank
<1>3. TypeOK'
  <2>1. <<>> \in Seq(RunStatus)
    OBVIOUS
  <2>2. /\ nextId' \in Nat
        /\ binding' \in [Keys -> RunId \cup {0}]
        /\ status' \in [RunId -> RunStatus \cup {"Absent"}]
        /\ cap' \in [RunId -> BOOLEAN]
        /\ events' \in [RunId -> Seq(RunStatus)]
        /\ barrier' \in [RunId -> BOOLEAN]
    BY <2>1 DEF Blank
  <2> QED
    BY <1>1, <2>2, TypesOfDisk DEF TypeOK
<1>4. Records'
  BY <1>1, <1>2 DEF Records
<1>5. Revoked'
  BY <1>2 DEF Revoked, TerminalState
<1>6. (call.pc # "idle" => call.run \in RunId)'
      /\ Admitting' /\ Journaling' /\ Executing'
  BY <1>1 DEF Admitting, Journaling, Executing, Persisting
<1> QED
  BY <1>3, <1>4, <1>5, <1>6

LEMMA CrashInv ==
  ASSUME IInv, Crash
  PROVE  IInv'
<1>1. /\ up' = FALSE /\ Blank
      /\ UNCHANGED <<created, journal, kept, promised, manifest, holds,
                     execs, issued>>
  BY DEF Crash
<1>2. faults' \in 0 .. MaxFaults
  BY LimitAssumption DEF Crash, Fault, IInv, TypeOK
<1>3. debris' \in BOOLEAN
  BY DEF Crash, IInv, TypeOK
<1>4. /\ manifest' \in [RunId -> Request \cup {None}] /\ holds' \subseteq RunId
      /\ DiskTypes
  BY <1>1, TypesOfDisk DEF IInv, TypeOK
<1>5. DiskTypes' /\ DiskInv' /\ Intent'
  BY <1>1, <1>4 DEF DiskTypes, DiskInv, Intent, IInv
<1>6. \A r \in holds' : LastState(journal'[r]) \notin TerminalState
  BY <1>1 DEF IInv, Revoked
<1> QED
  BY <1>1, <1>2, <1>3, <1>4, <1>5, <1>6, DownInv

LEMMA PowerLossInv ==
  ASSUME IInv, PowerLoss
  PROVE  IInv'
<1>1. /\ up' = FALSE /\ Blank /\ Store!Lose /\ holds' = {}
      /\ UNCHANGED <<execs, issued>>
  BY DEF PowerLoss
<1>2. faults' \in 0 .. MaxFaults
  BY LimitAssumption DEF PowerLoss, Fault, IInv, TypeOK
<1>3. debris' \in BOOLEAN
  BY DEF PowerLoss, IInv, TypeOK
<1>4. manifest' \in [RunId -> Request \cup {None}]
  BY DEF PowerLoss, IInv, TypeOK
<1>5. DiskTypes /\ DiskInv /\ Intent
  BY TypesOfDisk DEF IInv, TypeOK
<1>6. /\ DiskTypes' /\ DiskInv'
      /\ UNCHANGED kept
      /\ \A r \in RunId : Len(journal'[r]) <= Len(journal[r])
      /\ \A r \in kept : promised'[r] = promised[r]
  BY <1>1, <1>5, LoseDisk DEF Intent, EventsAreKept
<1>7. Intent'
  <2>1. \A r \in RunId : Len(journal[r]) \in Nat /\ Len(journal'[r]) \in Nat
                         /\ Len(promised[r]) \in Nat
    BY <1>5, <1>6, LengthsAreNat
  <2>2. \A r \in RunId : Len(journal'[r]) > 0 => r \in kept
    BY <1>5, <1>6, <2>1 DEF Intent
  <2>3. \A r \in RunId : Len(journal'[r]) > 1 => Len(promised[r]) > 0
    BY <1>5, <1>6, <2>1 DEF Intent
  <2>4. \A r \in RunId : Len(journal'[r]) > 1 => Len(journal'[r]) > 0
    BY <2>1
  <2>5. \A r \in RunId : Len(journal'[r]) > 1 => Len(promised'[r]) > 0
    BY <1>6, <2>2, <2>3, <2>4
  <2>6. \A r \in RunId : execs[r] = 1 => r \in kept
    <3> SUFFICES ASSUME NEW r \in RunId, execs[r] = 1 PROVE r \in kept
      OBVIOUS
    <3>1. Len(promised[r]) > 2 /\ Len(promised[r]) <= Len(journal[r])
      BY <1>5, JournalLength DEF Intent
    <3>2. Len(journal[r]) > 0
      BY <2>1, <3>1
    <3> QED
      BY <1>5, <3>2 DEF Intent
  <2>7. \A r \in RunId : execs[r] = 1 => Len(promised'[r]) > 2
    BY <1>5, <1>6, <2>6 DEF Intent
  <2> QED
    BY <1>1, <1>5, <1>6, <2>2, <2>5, <2>7 DEF Intent
<1> QED
  BY <1>1, <1>2, <1>3, <1>4, <1>6, <1>7, DownInv

(* What open makes of the last event of a run. *)
LEMMA FromStateFacts ==
  ASSUME NEW l \in ExecutionState \cup {NoState}
  PROVE  /\ FromState(l) \in RunStatus
         /\ FromState(l) = "Admitted" => l \in {NoState, "Planned"}
         /\ FromState(l) = "Prepared" => l = "Prepared"
         /\ FromState(l) \notin {"Running", "Collecting"}
         /\ FromState(l) \in TerminalState => l \in TerminalState
         /\ RecoveryDecision(l) = "Resume" <=> l = "Prepared"
BY DEF FromState, RecoveryDecision, ExecutionState, RunStatus, TerminalState,
       NoState

LEMMA ResumableFacts ==
  ASSUME IInv, NEW r \in RunId
  PROVE  r \in Resumable => /\ LastState(journal[r]) = "Prepared"
                            /\ Len(promised[r]) > 0
<1> USE DEF IInv
<1>1. DiskTypes
  BY TypesOfDisk DEF TypeOK
<1>2. r \in Resumable => LastState(journal[r]) = "Prepared"
  BY <1>1, JournalLength, FromStateFacts DEF Resumable
<1>3. LastState(journal[r]) = "Prepared" => Len(journal[r]) > 1
  <2> DEFINE n == Len(journal[r])
  <2>1. LastState(journal[r]) = "Prepared" => n = 2
    BY <1>1, JournalLength
  <2> HIDE DEF n
  <2>2. n = 2 => n > 1
    OBVIOUS
  <2> QED
    BY <2>1, <2>2 DEF n
<1> QED
  BY <1>2, <1>3 DEF Intent

LEMMA OpenInv ==
  ASSUME IInv, Open
  PROVE  IInv'
<1> USE DEF IInv
<1>1. /\ up' = TRUE /\ call' = Idle /\ holds' = holds \cup Resumable
      /\ UNCHANGED <<created, journal, kept, promised, manifest, debris,
                     execs, issued, faults>>
  BY DEF Open, disk
<1>2. call' \in Calls /\ call'.pc = "idle" /\ DiskTypes
  BY <1>1, IdleTyped, TypesOfDisk DEF TypeOK
<1>3. \A r \in RunId : LastState(journal[r]) \in ExecutionState \cup {NoState}
  BY <1>2, JournalLength
<1>4. Resumable \subseteq created /\ created \subseteq RunId
  BY <1>2 DEF Resumable, DiskTypes
<1>5. \A r \in RunId :
        /\ status'[r] = IF r \in created THEN FromState(LastState(journal[r]))
                        ELSE "Absent"
        /\ cap'[r] = (r \in Resumable)
  BY DEF Open
<1>6. TypeOK'
  <2>1. status' \in [RunId -> RunStatus \cup {"Absent"}]
    BY <1>3, FromStateFacts DEF Open
  <2>2. \A r \in RunId : \A i \in 1 .. Len(journal[r]) :
          FromState(journal[r][i]) \in RunStatus
    <3> SUFFICES ASSUME NEW r \in RunId, NEW i \in 1 .. Len(journal[r])
                 PROVE  FromState(journal[r][i]) \in RunStatus
      OBVIOUS
    <3>1. journal[r][i] \in ExecutionState
      BY <1>2 DEF DiskTypes
    <3> QED
      BY <3>1, FromStateFacts
  <2>3. events' \in [RunId -> Seq(RunStatus)]
    <3>1. ASSUME NEW r \in RunId
          PROVE  [i \in 1 .. Len(journal[r]) |-> FromState(journal[r][i])]
                   \in Seq(RunStatus)
      <4>1. Len(journal[r]) \in Nat
        BY <1>2, LengthsAreNat
      <4> QED
        BY <2>2, <4>1
    <3> QED
      BY <3>1 DEF Open
  <2>4. nextId' \in Nat
    BY IdAssumption DEF Open, Unused
  <2>5. /\ binding' \in [Keys -> RunId \cup {0}]
        /\ cap' \in [RunId -> BOOLEAN]
        /\ barrier' \in [RunId -> BOOLEAN]
    BY DEF Open
  <2> QED
    BY <1>1, <1>2, <1>4, <2>1, <2>3, <2>4, <2>5 DEF TypeOK, Store!TypeOK
<1>7. DiskInv'
  BY <1>1 DEF DiskInv
<1>8. Intent'
  <2>1. \A r \in Resumable : Len(promised[r]) > 0
    BY <1>4, ResumableFacts
  <2> QED
    BY <1>1, <2>1 DEF Intent
<1>9. Records'
  <2>1. ASSUME NEW r \in RunId
        PROVE  /\ status'[r] = "Admitted" => Len(journal[r]) < 2
               /\ status'[r] = "Prepared" => Len(journal[r]) = 2
               /\ status'[r] \in {"Prepared", "Running", "Collecting"} => cap'[r]
    <3>1. CASE r \in created
      <4> DEFINE l == LastState(journal[r])
                 n == Len(journal[r])
      <4>1. /\ l \in ExecutionState \cup {NoState} /\ status'[r] = FromState(l)
            /\ n \in Nat
            /\ n = 0 <=> l = NoState
            /\ n = 1 <=> l = "Planned"
            /\ n = 2 <=> l = "Prepared"
        BY <1>2, <1>3, <1>5, <3>1, JournalLength
      <4>2. /\ FromState(l) = "Admitted" => l \in {NoState, "Planned"}
            /\ FromState(l) = "Prepared" => l = "Prepared"
            /\ FromState(l) \notin {"Running", "Collecting"}
            /\ RecoveryDecision(l) = "Resume" <=> l = "Prepared"
        BY <4>1, FromStateFacts
      <4>3. l = "Prepared" => cap'[r]
        BY <1>5, <3>1, <4>2 DEF Resumable
      <4> HIDE DEF l, n
      <4>4. /\ status'[r] = "Admitted" => n < 2
            /\ status'[r] = "Prepared" => n = 2
        BY <4>1, <4>2
      <4> QED
        BY <4>1, <4>2, <4>3, <4>4 DEF n
    <3>2. CASE r \notin created
      BY <1>5, <3>2
    <3> QED
      BY <3>1, <3>2
  <2> QED
    BY <1>1, <2>1 DEF Records
<1>10. Revoked'
  <2>1. ASSUME NEW r \in holds'
        PROVE  LastState(journal[r]) \notin TerminalState /\ r \in RunId
    <3>1. CASE r \in holds
      BY <3>1 DEF Revoked, TypeOK
    <3>2. CASE r \in Resumable
      BY <1>4, <3>2, ResumableFacts DEF TerminalState
    <3> QED
      BY <1>1, <3>1, <3>2
  <2>2. ASSUME NEW r \in holds' PROVE status'[r] \notin TerminalState
    <3>1. CASE r \in created
      BY <1>3, <1>5, <2>1, <3>1, FromStateFacts
    <3>2. CASE r \notin created
      BY <1>5, <2>1, <3>2 DEF TerminalState
    <3> QED
      BY <3>1, <3>2
  <2> QED
    BY <1>1, <2>1, <2>2 DEF Revoked
<1>11. (call.pc # "idle" => call.run \in RunId)'
       /\ Admitting' /\ Journaling' /\ Executing'
  BY <1>2 DEF Admitting, Journaling, Executing, Persisting
<1> QED
  BY <1>6, <1>7, <1>8, <1>9, <1>10, <1>11

LEMMA OpenFailsInv ==
  ASSUME IInv, OpenFails
  PROVE  IInv'
<1> USE DEF IInv
<1>1. /\ ~up
      /\ UNCHANGED <<up, nextId, binding, status, cap, events, barrier, call,
                     created, journal, kept, promised, manifest, debris,
                     execs, issued>>
  BY DEF OpenFails, memory, disk
<1>2. PICK S \in SUBSET Resumable : holds' = holds \cup S
  BY DEF OpenFails
<1>3. Resumable \subseteq RunId
  BY TypesOfDisk DEF Resumable, DiskTypes, TypeOK
<1>4. faults' \in 0 .. MaxFaults
  BY LimitAssumption DEF OpenFails, Fault, TypeOK
<1>5. TypeOK'
  BY <1>1, <1>2, <1>3, <1>4 DEF TypeOK, Store!TypeOK
<1>6. \A r \in S : /\ LastState(journal[r]) = "Prepared"
                   /\ Len(promised[r]) > 0 /\ status[r] = "Absent"
  BY <1>1, <1>2, <1>3, ResumableFacts DEF Records
<1>7. DiskInv' /\ Intent'
  BY <1>1, <1>2, <1>6 DEF DiskInv, Intent
<1>8. Records'
  BY <1>1 DEF Records, Persisting
<1>9. Revoked'
  BY <1>1, <1>2, <1>6 DEF Revoked, TerminalState
<1>10. (call.pc # "idle" => call.run \in RunId)'
       /\ Admitting' /\ Journaling' /\ Executing'
  BY <1>1 DEF Admitting, Journaling, Executing, Persisting
<1> QED
  BY <1>5, <1>7, <1>8, <1>9, <1>10


-----------------------------------------------------------------------------
(* Every behaviour.                                                         *)

LEMMA InitInv == Init => IInv
<1> SUFFICES ASSUME Init PROVE IInv
  OBVIOUS
<1> DEFINE none == <<>>
<1>1. none \in Seq(ExecutionState) /\ none \in Seq(RunStatus) /\ Len(none) = 0
  OBVIOUS
<1>2. /\ created = {} /\ kept = {} /\ holds = {} /\ call = Idle /\ up = TRUE
      /\ \A r \in RunId : /\ journal[r] = none /\ promised[r] = none
                          /\ status[r] = "Absent" /\ execs[r] = 0
  BY DEF Init, Store!Init
<1>3. DiskTypes
  BY <1>1 DEF DiskTypes, Init, Store!Init
<1>4. DiskInv
  <2>1. IsPrefix(none, none)
    BY <1>1, PrefixReflexive
  <2>2. IsLifecycle(none)
    BY DEF IsLifecycle
  <2> HIDE DEF none
  <2> QED
    BY <1>2, <2>1, <2>2 DEF DiskInv
<1>5. TypeOK
  <2>1. Store!TypeOK
    BY <1>3, TypesOfDisk
  <2>2. FirstId \in Nat /\ 0 \in 0 .. MaxFaults
    BY IdAssumption, LimitAssumption
  <2> QED
    BY <1>1, <2>1, <2>2, IdleTyped DEF TypeOK, Init
<1> HIDE DEF none
<1>6. \A r \in RunId : Len(journal[r]) = 0
  BY <1>1, <1>2, Zenon
<1>7. call.pc = "idle"
  BY <1>2, IdleTyped
<1>8. Intent
  BY <1>2, <1>6 DEF Intent
<1>9. Admitting /\ Journaling /\ Executing
  BY <1>7 DEF Admitting, Journaling, Executing, Persisting
<1>10. Records /\ Revoked
  BY <1>2 DEF Records, Revoked
<1> QED
  BY <1>4, <1>5, <1>7, <1>8, <1>9, <1>10 DEF IInv

LEMMA StutterInv ==
  ASSUME IInv, UNCHANGED vars
  PROVE  IInv'
<1>1. UNCHANGED <<up, nextId, binding, status, cap, events, barrier, call,
                  created, journal, kept, promised, manifest, debris,
                  holds, execs, issued, faults>>
  BY DEF vars, memory, disk, world
<1>2. TypeOK'
  BY <1>1 DEF IInv, TypeOK, Store!TypeOK
<1> QED
  BY <1>1, <1>2 DEF IInv, DiskInv, Intent, Admitting, Journaling, Executing,
                    Records, Revoked, Persisting

LEMMA NextInv == IInv /\ [Next]_vars => IInv'
<1> SUFFICES ASSUME IInv, [Next]_vars PROVE IInv'
  OBVIOUS
<1>1. ASSUME NEW k \in Keys, NEW d \in Digests, AdmitAgain(k, d) \/ AdmitNew(k, d)
      PROVE  IInv'
  BY <1>1, AdmitAgainInv, AdmitNewInv
<1>2. ASSUME NEW r \in RunId, Operate(r) PROVE IInv'
  <2>1. CASE Start(r)
    BY <2>1, BeginInv DEF Start
  <2>2. CASE Execute(r)
    BY <2>2, BeginInv DEF Execute
  <2> QED
    BY <1>2, <2>1, <2>2, CancelInv, CompleteInv, ReconcileInv DEF Operate
<1>3. ASSUME Proceed PROVE IInv'
  BY <1>3, CreateWriteInv, CreateAckInv, PlanWriteInv, PlanAckInv, PrepareInv,
     PersistSkipInv, PersistWriteInv, PersistAckInv, PersistRefusedInv,
     ExecuteUntilInv, ExecuteCancelledInv, ExecuteReturnsInv, CleanupInv,
     ReconcileTeardownInv DEF Proceed
<1>4. ASSUME Fail PROVE IInv'
  BY <1>4, AdmitFailsInv, PrepareFailsInv, PersistFailsInv, CleanupFailsInv,
     ReconcileFailsInv, CrashInv, PowerLossInv, OpenFailsInv DEF Fail
<1> QED
  BY <1>1, <1>2, <1>3, <1>4, OpenInv, StutterInv DEF Next

(* Every reachable state satisfies the invariant. *)
THEOREM Invariant == Spec => []IInv
BY InitInv, NextInv, PTL DEF Spec

(* The service's records, the disk and the runtime keep their types. *)
THEOREM TypeCorrect == Spec => []TypeOK
<1>1. IInv => TypeOK
  BY DEF IInv
<1> QED
  BY <1>1, Invariant, PTL

(* execute enters the authority source at most once per run, whatever       *)
(* crashes, power losses, store errors and restarts happen: Running is      *)
(* promised before, and a run whose journal is past Prepared is never       *)
(* begun again.                                                             *)
THEOREM ExecutedAtMostOnce == Spec => []AtMostOneExecution
<1>1. IInv => AtMostOneExecution
  <2> SUFFICES ASSUME IInv, NEW r \in RunId PROVE execs[r] <= 1
    BY DEF AtMostOneExecution
  <2>1. execs[r] \in {0, 1}
    BY DEF IInv, Intent
  <2> QED
    BY <2>1
<1> QED
  BY <1>1, Invariant, PTL

(* Event i of the journal is on disk for good once i events are promised.   *)
LEMMA PromisedEvents ==
  ASSUME DiskTypes, DiskInv, NEW r \in RunId
  PROVE  /\ Len(promised[r]) > 0 => "Planned" \in ToSet(promised[r])
         /\ Len(promised[r]) > 2 => "Running" \in ToSet(promised[r])
<1>1. journal[r] \in Seq(ExecutionState) /\ promised[r] \in Seq(ExecutionState)
  BY DEF DiskTypes
<1>2. IsLifecycle(journal[r]) /\ IsPrefix(promised[r], journal[r])
  BY DEF DiskInv
<1>3. /\ Len(promised[r]) <= Len(journal[r])
      /\ \A i \in 1 .. Len(promised[r]) : promised[r][i] = journal[r][i]
  BY <1>1, <1>2, PrefixPointwise
<1>4. /\ 1 \in 1 .. Len(journal[r]) => journal[r][1] = "Planned"
      /\ 3 \in 1 .. Len(journal[r]) => journal[r][3] = "Running"
  BY <1>1, <1>2, LifecyclePositions
<1>5. /\ Len(promised[r]) > 0 => 1 \in 1 .. Len(promised[r]) /\ 1 \in 1 .. Len(journal[r])
      /\ Len(promised[r]) > 2 => 3 \in 1 .. Len(promised[r]) /\ 3 \in 1 .. Len(journal[r])
  BY <1>1, <1>3, SMT
<1>6. /\ Len(promised[r]) > 0 => 1 \in 1 .. Len(promised[r]) /\ promised[r][1] = "Planned"
      /\ Len(promised[r]) > 2 => 3 \in 1 .. Len(promised[r]) /\ promised[r][3] = "Running"
  BY <1>3, <1>4, <1>5, Zenon
<1>7. 1 .. Len(promised[r]) = DOMAIN promised[r]
  BY <1>1, SMT
<1> QED
  BY <1>6, <1>7, Zenon DEF ToSet

(* No authority is prepared before Planned, and no attempt executed before  *)
(* Running, is on disk for good.                                            *)
THEOREM IntentFirst == Spec => []IntentBeforeEffect
<1>1. IInv => IntentBeforeEffect
  <2> SUFFICES ASSUME IInv PROVE IntentBeforeEffect
    OBVIOUS
  <2>1. DiskTypes /\ DiskInv /\ Intent /\ holds \subseteq RunId
    BY TypesOfDisk DEF IInv, TypeOK
  <2>2. \A r \in RunId : Len(promised[r]) > 0 => r \in kept
    <3> SUFFICES ASSUME NEW r \in RunId, Len(promised[r]) > 0 PROVE r \in kept
      OBVIOUS
    <3>1. Len(journal[r]) > 0
      BY <2>1, JournalLength
    <3> QED
      BY <2>1, <3>1 DEF Intent
  <2>3. \A r \in holds : Len(promised[r]) > 0
    BY <2>1 DEF Intent
  <2>4. ASSUME NEW r \in RunId, execs[r] > 0
        PROVE  Len(promised[r]) > 2 /\ Len(promised[r]) > 0
    <3>1. execs[r] = 1
      BY <2>1, <2>4 DEF Intent
    <3>2. Len(promised[r]) > 2 /\ Len(promised[r]) \in Nat
      BY <2>1, <3>1, JournalLength DEF Intent
    <3> QED
      BY <3>2
  <2> QED
    BY <2>1, <2>2, <2>3, <2>4, PromisedEvents DEF IntentBeforeEffect
<1> QED
  BY <1>1, Invariant, PTL

(* Between calls a run that is reported terminal holds no authority.        *)
THEOREM TerminalRunsHoldNothing == Spec => []TerminalHoldsNothing
<1>1. IInv => TerminalHoldsNothing
  BY DEF IInv, Revoked, TerminalHoldsNothing, Ready
<1> QED
  BY <1>1, Invariant, PTL

-----------------------------------------------------------------------------
(* One execution per key.                                                   *)

AdmitPoints == {"create", "created", "plan", "planned", "prepare"}

(* Run r came past Planned: its admission reached Prepared. *)
Begun(r) == Len(journal[r]) > 1

KeyOf(r) == manifest[r][1]

(* While a live process knows of a run of key k that came past Planned, k   *)
(* is bound, though not always to that run; so k is not admitted anew, and  *)
(* no second run of it gets that far.                                       *)
OneBegun ==
  \A r, q \in RunId : Begun(r) /\ Begun(q) /\ KeyOf(r) = KeyOf(q) => r = q

BegunAreBound == up => \A r \in RunId : Begun(r) => binding[KeyOf(r)] # 0

Alone(k, n) == \A q \in RunId : Begun(q) /\ KeyOf(q) = k => q = n

Handing == Persisting /\ call.after = "handle"

Holding ==
  /\ \A r \in created : manifest[r] \in Request
  /\ call.pc \in AdmitPoints => binding[call.request[1]] = 0
  /\ call.pc \in AdmitPoints \ {"create"} => manifest[call.run] = call.request
  /\ Handing => /\ manifest[call.run] = call.request
                /\ binding[call.request[1]] # 0
                /\ Alone(call.request[1], call.run)

KeyInv == OneBegun /\ BegunAreBound /\ Holding

LEMMA KeyFacts ==
  ASSUME IInv
  PROVE  /\ created \subseteq RunId /\ 0 \notin RunId
         /\ manifest \in [RunId -> Request \cup {None}] /\ binding \in [Keys -> RunId \cup {0}]
         /\ call \in Calls
         /\ \A q \in Request : q[1] \in Keys
         /\ call.pc \in AdmitPoints => call.request \in Request /\ call.run \in RunId
         /\ ~up => call.pc = "idle"
         /\ Handing => call.request \in Request /\ call.run \in RunId
<1>1. TypeOK /\ DiskTypes
  BY TypesOfDisk DEF IInv, TypeOK
<1>2. 0 \notin RunId
  BY IdAssumption DEF RunId
<1>3. \A q \in Request : q[1] \in Keys
  BY DEF Request
<1>4. call.pc \in AdmitPoints => call.request \in Request /\ call.run \in RunId
  BY DEF IInv, Admitting, AdmitPoints
<1>5. ~up => call.pc = "idle"
  BY IdleTyped DEF IInv, Records
<1>6. Handing => call.request \in Request /\ call.run \in RunId
  BY DEF Handing, IInv, Journaling, Persisting, TerminalState
<1> QED
  BY <1>1, <1>2, <1>3, <1>4, <1>5, <1>6 DEF TypeOK, DiskTypes

(* A run that came past Planned was acknowledged. *)
LEMMA BegunIsKept ==
  ASSUME IInv, NEW r \in RunId, Begun(r)
  PROVE  r \in kept /\ r \in created
<1>1. Len(journal[r]) \in Nat
  BY TypesOfDisk, LengthsAreNat DEF IInv, TypeOK
<1>2. Len(journal[r]) > 0
  BY <1>1 DEF Begun
<1> QED
  BY <1>2 DEF IInv, Intent, DiskInv

(* Steps after which no further run is past Planned. *)
LEMMA QuietKeys ==
  ASSUME KeyInv, UNCHANGED <<up, binding, created, manifest>>,
         \A r \in RunId : Begun(r)' => Begun(r),
         \/ call' = call
         \/ /\ call'.pc \notin AdmitPoints
            /\ ~(call'.pc \in {"persist", "written"} /\ call'.after = "handle")
         \/ /\ call'.pc \in AdmitPoints \ {"create"} /\ call.pc \in AdmitPoints \ {"create"}
            /\ call'.run = call.run /\ call'.request = call.request
  PROVE  KeyInv'
<1>1. \A r : KeyOf(r)' = KeyOf(r)
  BY DEF KeyOf
<1>2. OneBegun' /\ BegunAreBound'
  BY <1>1 DEF KeyInv, OneBegun, BegunAreBound
<1>3. \A k, n : Alone(k, n) => Alone(k, n)'
  BY <1>1 DEF Alone
<1>4. Handing' => Handing /\ call'.run = call.run /\ call'.request = call.request
  BY DEF Handing, Persisting, AdmitPoints
<1>5. Handing' => Alone(call.request[1], call.run)'
  <2> SUFFICES ASSUME Handing' PROVE Alone(call.request[1], call.run)'
    OBVIOUS
  <2>1. PICK k, n : k = call.request[1] /\ n = call.run
    OBVIOUS
  <2>2. Alone(k, n) /\ call'.request[1] = k /\ call'.run = n
    BY <1>4, <2>1 DEF KeyInv, Holding
  <2> QED
    BY <1>3, <2>2 DEF Alone
<1>6. Holding'
  BY <1>4, <1>5 DEF KeyInv, Holding
<1> QED
  BY <1>2, <1>6 DEF KeyInv

LEMMA SameJournal == journal' = journal => \A r \in RunId : Begun(r)' <=> Begun(r)
BY DEF Begun

LEMMA AdmitNewKeys ==
  ASSUME IInv, KeyInv, NEW k \in Keys, NEW d \in Digests, AdmitNew(k, d)
  PROVE  KeyInv'
<1>1. /\ binding[k] = 0
      /\ call' = Call("create", nextId, <<k, d>>, "Absent", "return")
      /\ UNCHANGED <<up, binding, created, manifest, journal>>
  BY DEF AdmitNew, disk
<1>2. call'.pc = "create" /\ call'.request[1] = k
  BY <1>1, CallFields
<1>3. OneBegun' /\ BegunAreBound'
  BY <1>1, SameJournal DEF KeyInv, OneBegun, BegunAreBound, KeyOf
<1>4. Holding'
  BY <1>1, <1>2 DEF KeyInv, Holding, Handing, Persisting, AdmitPoints
<1> QED
  BY <1>3, <1>4 DEF KeyInv

(* The new run has no events yet. *)
LEMMA CreateWriteKeys ==
  ASSUME IInv, KeyInv, CreateWrite
  PROVE  KeyInv'
<1>1. PICK n, req : n = call.run /\ req = call.request
  OBVIOUS
<1>2. /\ call.pc = "create" /\ n \notin created /\ created' = created \cup {n}
      /\ manifest' = [manifest EXCEPT ![n] = req]
      /\ call' = [call EXCEPT !.pc = "created"]
      /\ UNCHANGED <<up, binding, journal>>
  BY <1>1 DEF CreateWrite, At, memory, Store!Create
<1>3. /\ n \in RunId /\ req \in Request /\ call \in Calls
      /\ manifest \in [RunId -> Request \cup {None}]
  BY <1>1, <1>2, KeyFacts DEF AdmitPoints
<1>4. call'.pc = "created" /\ call'.run = n /\ call'.request = req
  BY <1>1, <1>2, <1>3, CallMoves DEF Points
<1>5. manifest'[n] = req /\ \A r \in RunId : r # n => manifest'[r] = manifest[r]
  BY <1>2, <1>3
<1>6. \A r \in RunId : Begun(r)' => Begun(r) /\ KeyOf(r)' = KeyOf(r)
  BY <1>2, <1>5, BegunIsKept, SameJournal DEF KeyOf
<1>7. OneBegun' /\ BegunAreBound'
  BY <1>2, <1>6 DEF KeyInv, OneBegun, BegunAreBound
<1>8. Holding'
  <2>1. \A r \in created' : manifest'[r] \in Request
    BY <1>2, <1>3, <1>5, KeyFacts DEF KeyInv, Holding
  <2>2. binding[req[1]] = 0
    BY <1>1, <1>2 DEF KeyInv, Holding, AdmitPoints
  <2> QED
    BY <1>2, <1>4, <1>5, <2>1, <2>2 DEF Holding, Handing, Persisting, AdmitPoints
<1> QED
  BY <1>7, <1>8 DEF KeyInv

(* append_state(Admitted) writes the first event. *)
LEMMA PlanWriteKeys ==
  ASSUME IInv, IInv', KeyInv, PlanWrite
  PROVE  KeyInv'
<1>0. PICK n : n = call.run
  OBVIOUS
<1>1. /\ call.pc = "plan" /\ call' = [call EXCEPT !.pc = "planned"]
      /\ UNCHANGED <<up, binding, created, manifest>>
      /\ Store!Extend(n, ToState("Admitted"))
  BY <1>0 DEF PlanWrite, At, memory, Store!Extend
<1>2. /\ call'.pc = "planned" /\ call'.run = n /\ call'.request = call.request
      /\ n \in RunId
  BY <1>0, <1>1, CallMoves, KeyFacts DEF Points, AdmitPoints
<1>3. Len(journal'[n]) = 1
  BY <1>2 DEF IInv, Admitting
<1>4. \A r \in RunId : r # n => journal'[r] = journal[r]
  BY <1>1, TypesOfDisk DEF Store!Extend, IInv, TypeOK, DiskTypes
<1>5. \A r \in RunId : Begun(r)' => Begun(r)
  <2> SUFFICES ASSUME NEW r \in RunId, Begun(r)'
               PROVE  Begun(r)
    OBVIOUS
  <2>1. PICK len : len = Len(journal'[r])
    OBVIOUS
  <2>2. len > 1
    BY <2>1, Zenon DEF Begun
  <2>3. ASSUME r = n PROVE FALSE
    <3>1. len = 1
      BY <1>3, <2>1, <2>3, Zenon
    <3> QED
      BY <2>2, <3>1
  <2> QED
    BY <1>4, <2>3 DEF Begun
<1> QED
  BY <1>0, <1>1, <1>2, <1>5, QuietKeys DEF AdmitPoints

(* The key is bound; no run of it came past Planned before. *)
LEMMA PrepareKeys ==
  ASSUME IInv, KeyInv, Prepare
  PROVE  KeyInv'
<1>1. PICK n, req : n = call.run /\ req = call.request
  OBVIOUS
<1>2. /\ up /\ call.pc = "prepare"
      /\ binding' = [binding EXCEPT ![req[1]] = n]
      /\ call' = Call("persist", n, req, "Prepared", "handle")
      /\ UNCHANGED <<up, created, manifest, journal>>
  BY <1>1 DEF Prepare, At, disk
<1>3. /\ n \in RunId /\ n # 0 /\ req \in Request /\ req[1] \in Keys
      /\ binding \in [Keys -> RunId \cup {0}]
  BY <1>1, <1>2, KeyFacts DEF AdmitPoints
<1>4. binding'[req[1]] = n /\ \A k \in Keys : k # req[1] => binding'[k] = binding[k]
  BY <1>2, <1>3
<1>5. call'.pc = "persist" /\ call'.run = n /\ call'.request = req /\ call'.after = "handle"
  BY <1>2, CallFields
<1>6. manifest[n] = req /\ binding[req[1]] = 0
  BY <1>1, <1>2 DEF KeyInv, Holding, AdmitPoints
<1>7. \A r \in RunId : Begun(r) => KeyOf(r) # req[1] /\ KeyOf(r) \in Keys
  <2> SUFFICES ASSUME NEW r \in RunId, Begun(r)
               PROVE  KeyOf(r) # req[1] /\ KeyOf(r) \in Keys
    OBVIOUS
  <2>1. binding[KeyOf(r)] # 0
    BY <1>2 DEF KeyInv, BegunAreBound
  <2>2. manifest[r] \in Request
    BY BegunIsKept DEF KeyInv, Holding
  <2> QED
    BY <1>6, <2>1, <2>2, KeyFacts DEF KeyOf
<1>8. \A r \in RunId : (Begun(r)' <=> Begun(r)) /\ KeyOf(r)' = KeyOf(r)
  BY <1>2, SameJournal DEF KeyOf
<1>9. OneBegun' /\ BegunAreBound'
  BY <1>2, <1>4, <1>7, <1>8 DEF KeyInv, OneBegun, BegunAreBound
<1>10. Alone(req[1], n)'
  BY <1>7, <1>8 DEF Alone
<1>11. Holding'
  <2>1. \A r \in created' : manifest'[r] \in Request
    BY <1>2 DEF KeyInv, Holding
  <2>2. Alone(call.request[1], call.run)'
    BY <1>5, <1>10 DEF Alone
  <2> QED
    BY <1>2, <1>3, <1>4, <1>5, <1>6, <2>1, <2>2 DEF Holding, AdmitPoints
<1> QED
  BY <1>9, <1>11 DEF KeyInv

(* Only the append of Prepared takes a run past Planned. *)
LEMMA PersistWriteKeys ==
  ASSUME IInv, KeyInv, PersistWrite
  PROVE  KeyInv'
<1>1. PICK n, req : n = call.run /\ req = call.request
  OBVIOUS
<1>2. /\ up /\ call.pc = "persist" /\ call' = [call EXCEPT !.pc = "written"]
      /\ UNCHANGED <<up, binding, created, manifest>>
      /\ Store!Extend(n, ToState(call.goal))
  BY <1>1 DEF PersistWrite, At, memory, Store!Extend
<1>3. n \in RunId /\ call \in Calls /\ DiskTypes /\ DiskInv /\ Persisting
  BY <1>1, <1>2, TypesOfDisk DEF IInv, TypeOK, Persisting
<1>4. /\ call'.pc = "written" /\ call'.run = n /\ call'.request = req
      /\ call'.after = call.after
  BY <1>1, <1>2, <1>3, CallMoves DEF Points
<1>5. /\ ValidTransition(LastState(journal[n]), ToState(call.goal))
      /\ \A r \in RunId : r # n => journal'[r] = journal[r]
  BY <1>2, <1>3, StoreVocabulary DEF Store!Extend, DiskTypes
<1>6. \A r \in RunId : r # n => (Begun(r)' <=> Begun(r))
  BY <1>5 DEF Begun
<1>7. \A r : KeyOf(r)' = KeyOf(r)
  BY <1>2 DEF KeyOf
<1>8. CASE call.after = "handle"
  <2>1. /\ manifest[n] = req /\ binding[req[1]] # 0 /\ Alone(req[1], n) /\ KeyOf(n) = req[1]
    BY <1>1, <1>3, <1>8 DEF KeyInv, Holding, Handing, KeyOf
  <2>2. OneBegun'
    BY <1>6, <1>7, <2>1 DEF KeyInv, OneBegun, Alone
  <2>3. BegunAreBound'
    BY <1>2, <1>6, <1>7, <2>1 DEF KeyInv, BegunAreBound
  <2>4. Alone(call.request[1], call.run)'
    BY <1>4, <1>6, <1>7, <2>1 DEF Alone
  <2>5. Holding'
    BY <1>2, <1>4, <2>1, <2>4 DEF KeyInv, Holding, AdmitPoints
  <2> QED
    BY <2>2, <2>3, <2>5 DEF KeyInv
<1>9. CASE call.after # "handle"
  <2>1. Begun(n)
    <3>1. call.goal = "Running" \/ call.goal = "Collecting" \/ call.goal \in TerminalState
      BY <1>3, <1>9 DEF IInv, Journaling
    <3>2. LastState(journal[n]) \in {"Prepared", "Running", "Collecting"}
      BY <1>5, <3>1 DEF ValidTransition, ToState, TerminalState, NoState
    <3>3. LastState(journal[n]) \notin {NoState, "Planned"}
      BY <3>2 DEF NoState
    <3> QED
      BY <1>3, <3>3, PastPlanned DEF Begun
  <2>2. \A r \in RunId : Begun(r)' => Begun(r)
    BY <1>6, <2>1
  <2> QED
    BY <1>2, <1>4, <1>9, <2>2, QuietKeys DEF AdmitPoints
<1> QED
  BY <1>8, <1>9

(* A process that is down has no keys. *)
LEMMA DownKeys ==
  ASSUME IInv, KeyInv, Crash \/ PowerLoss
  PROVE  KeyInv'
<1>1. /\ up' = FALSE /\ call' = Idle
      /\ \A r \in created' : r \in created /\ manifest'[r] = manifest[r]
      /\ \A r \in RunId : Begun(r)' => Begun(r) /\ r \in created'
  <2>1. CASE Crash
    BY <2>1, BegunIsKept DEF Crash, Blank, Begun
  <2>2. CASE PowerLoss
    <3>1. DiskTypes /\ DiskInv /\ EventsAreKept /\ Store!Lose
      BY <2>2, TypesOfDisk DEF IInv, TypeOK, Intent, EventsAreKept, PowerLoss
    <3>2. /\ DiskTypes' /\ DiskInv' /\ UNCHANGED kept /\ created' \subseteq created
          /\ \A r \in RunId : Len(journal'[r]) <= Len(journal[r])
      BY <3>1, LoseDisk
    <3>3. \A r \in RunId : Len(journal[r]) \in Nat /\ Len(journal'[r]) \in Nat
      BY <3>1, <3>2, LengthsAreNat
    <3>4. \A r \in RunId : Begun(r)' => Begun(r)
      BY <3>2, <3>3 DEF Begun
    <3>5. \A r \in created' : r \in created /\ manifest'[r] = manifest[r]
      BY <2>2, <3>2 DEF PowerLoss, DiskTypes
    <3> QED
      BY <2>2, <3>2, <3>4, <3>5, BegunIsKept DEF PowerLoss, Blank, DiskInv
  <2> QED
    BY <2>1, <2>2
<1>2. call'.pc = "idle"
  BY <1>1, IdleTyped
<1>3. OneBegun'
  BY <1>1 DEF KeyInv, OneBegun, KeyOf
<1>4. Holding' /\ BegunAreBound'
  BY <1>1, <1>2 DEF KeyInv, Holding, BegunAreBound, Handing, Persisting, AdmitPoints
<1> QED
  BY <1>3, <1>4 DEF KeyInv

(* open binds every key that a run on disk has, though to the run whose     *)
(* name sorts last and not to the one that was admitted last.               *)
LEMMA OpenKeys ==
  ASSUME IInv, KeyInv, Open
  PROVE  KeyInv'
<1>1. /\ up' = TRUE /\ call' = Idle
      /\ \A k \in Keys : binding'[k] \in Bound(k)
      /\ UNCHANGED <<created, manifest, journal>>
  BY DEF Open, disk
<1>2. call'.pc = "idle"
  BY <1>1, IdleTyped
<1>3. ASSUME NEW r \in RunId, Begun(r) PROVE binding'[KeyOf(r)] # 0
  <2>1. r \in created /\ manifest[r] \in Request
    BY <1>3, BegunIsKept DEF KeyInv, Holding
  <2>2. KeyOf(r) \in Keys /\ r \in WithKey(KeyOf(r))
    BY <2>1, KeyFacts DEF KeyOf, WithKey
  <2>3. binding'[KeyOf(r)] \in WithKey(KeyOf(r))
    BY <1>1, <2>2 DEF Bound
  <2> QED
    BY <2>3, KeyFacts DEF WithKey
<1>4. BegunAreBound'
  BY <1>1, <1>3, SameJournal DEF BegunAreBound, KeyOf
<1>5. OneBegun'
  BY <1>1, SameJournal DEF KeyInv, OneBegun, KeyOf
<1>6. Holding'
  BY <1>1, <1>2 DEF KeyInv, Holding, Handing, Persisting, AdmitPoints
<1> QED
  BY <1>4, <1>5, <1>6 DEF KeyInv

(* The rest of the handlers. *)
LEMMA FinishKeys ==
  ASSUME KeyInv, NEW r, NEW goal, NEW after, Finish(r, goal, after), after # "handle",
         UNCHANGED <<up, created, manifest, journal>>
  PROVE  KeyInv'
<1>1. call' = Idle \/ call' = Call("persist", r, None, goal, after)
  BY DEF Finish
<1>2. /\ call'.pc \notin AdmitPoints
      /\ ~(call'.pc \in {"persist", "written"} /\ call'.after = "handle")
  BY <1>1, IdleTyped, CallFields DEF AdmitPoints
<1>3. UNCHANGED binding
  BY DEF Finish
<1> QED
  BY <1>2, <1>3, SameJournal, QuietKeys

LEMMA OperateKeys ==
  ASSUME IInv, KeyInv, NEW r \in RunId, Operate(r)
  PROVE  KeyInv'
<1>1. UNCHANGED <<up, created, manifest, journal>>
  BY DEF Operate, Start, Execute, Begin, Cancel, Complete, Reconcile, disk
<1>2. CASE Start(r) \/ Execute(r)
  <2>1. PICK after \in {"return", "execute"} : Begin(r, after)
    BY <1>2 DEF Start, Execute
  <2>2. call' = Call("persist", r, None, "Running", after) /\ UNCHANGED binding
    BY <2>1 DEF Begin
  <2>3. call'.pc = "persist" /\ call'.after # "handle"
    BY <2>2, CallFields
  <2> QED
    BY <1>1, <2>2, <2>3, SameJournal, QuietKeys DEF AdmitPoints
<1>3. CASE Cancel(r) \/ Complete(r)
  <2>1. PICK goal \in {"Cancelled", "Completed"} : Conclude(r, goal)
    BY <1>3 DEF Cancel, Complete
  <2>2. CASE Finish(r, goal, "return")
    BY <1>1, <2>2, FinishKeys
  <2>3. CASE call' = Call("cleanup", r, None, goal, "return") /\ UNCHANGED memory
    <3>1. call'.pc = "cleanup" /\ UNCHANGED binding
      BY <2>3, CallFields DEF memory
    <3> QED
      BY <1>1, <3>1, SameJournal, QuietKeys DEF AdmitPoints
  <2> QED
    BY <2>1, <2>2, <2>3 DEF Conclude
<1>4. CASE Reconcile(r)
  <2>1. call'.pc = "reconcile" /\ UNCHANGED binding
    BY <1>4, CallFields DEF Reconcile, memory
  <2> QED
    BY <1>1, <2>1, SameJournal, QuietKeys DEF AdmitPoints
<1> QED
  BY <1>2, <1>3, <1>4 DEF Operate

LEMMA ProceedKeys ==
  ASSUME IInv, IInv', KeyInv, Proceed
  PROVE  KeyInv'
<1>1. call \in Calls
  BY KeyFacts
<1>2. CASE CreateAck \/ PlanAck
  <2>1. PICK pc \in {"plan", "prepare"} : call' = [call EXCEPT !.pc = pc]
    BY <1>2 DEF CreateAck, PlanAck
  <2>2. call'.pc = pc /\ call'.run = call.run /\ call'.request = call.request
    BY <1>1, <2>1, CallMoves DEF Points
  <2>3. /\ call.pc \in AdmitPoints \ {"create"}
        /\ UNCHANGED <<up, binding, created, manifest, journal>>
    BY <1>2 DEF CreateAck, PlanAck, At, memory, AdmitPoints,
                Store!PromiseRun, Store!PromiseEvents
  <2> QED
    BY <2>2, <2>3, SameJournal, QuietKeys DEF AdmitPoints
<1>3. CASE PersistSkip \/ PersistAck
  <2>1. Persisting /\ Persisted /\ UNCHANGED <<up, binding, created, manifest, journal>>
    BY <1>3 DEF PersistSkip, PersistAck, At, Persisting, disk, Store!PromiseEvents
  <2>2. call.run \in RunId /\ TypeOK
    BY <2>1 DEF IInv, Persisting
  <2>3. call'.pc \in {"idle", "execute"} \/ (call'.pc = "persist" /\ call'.after = "return")
    BY <2>1, <2>2, PersistedCall
  <2> QED
    BY <2>1, <2>3, SameJournal, QuietKeys DEF AdmitPoints
<1>4. CASE PersistRefused
  <2>1. call'.pc = "idle" /\ UNCHANGED <<up, binding, created, manifest, journal>>
    BY <1>4, IdleTyped DEF PersistRefused, Fence, disk
  <2> QED
    BY <2>1, SameJournal, QuietKeys DEF AdmitPoints
<1>5. CASE ExecuteUntil
  <2>1. /\ call' = [call EXCEPT !.pc = "executing"]
        /\ UNCHANGED <<up, binding, created, manifest, journal>>
    BY <1>5 DEF ExecuteUntil, memory, disk
  <2>2. call'.pc = "executing"
    BY <1>1, <2>1, CallMoves DEF Points
  <2> QED
    BY <2>1, <2>2, SameJournal, QuietKeys DEF AdmitPoints
<1>6. CASE ExecuteCancelled
  BY <1>6, FinishKeys DEF ExecuteCancelled, disk
<1>7. CASE ExecuteReturns
  <2>1. call'.pc = "cleanup" /\ UNCHANGED <<up, binding, created, manifest, journal>>
    BY <1>7, CallFields DEF ExecuteReturns, memory, disk
  <2> QED
    BY <2>1, SameJournal, QuietKeys DEF AdmitPoints
<1>8. CASE Cleanup
  <2>1. call.after # "handle"
    BY <1>8 DEF Cleanup, At, IInv, Executing
  <2> QED
    BY <1>8, <2>1, FinishKeys DEF Cleanup, disk
<1>9. CASE ReconcileTeardown
  <2>1. /\ call'.pc = "persist" /\ call'.after = "clear"
        /\ UNCHANGED <<up, binding, created, manifest, journal>>
    BY <1>9, CallFields DEF ReconcileTeardown, disk
  <2> QED
    BY <2>1, SameJournal, QuietKeys DEF AdmitPoints
<1> QED
  BY <1>2, <1>3, <1>4, <1>5, <1>6, <1>7, <1>8, <1>9, CreateWriteKeys, PlanWriteKeys,
     PrepareKeys, PersistWriteKeys DEF Proceed

LEMMA FailKeys ==
  ASSUME IInv, KeyInv, Fail
  PROVE  KeyInv'
<1>1. CASE AdmitFails \/ PrepareFails \/ PersistFails \/ CleanupFails \/ ReconcileFails
  <2>1. call'.pc = "idle" /\ UNCHANGED <<up, binding, created, manifest, journal>>
    BY <1>1, IdleTyped DEF AdmitFails, PrepareFails, PersistFails, Fence, CleanupFails,
                           ReconcileFails, memory, disk
  <2> QED
    BY <2>1, SameJournal, QuietKeys DEF AdmitPoints
<1>2. CASE OpenFails
  <2>1. UNCHANGED <<call, up, binding, created, manifest, journal>>
    BY <1>2 DEF OpenFails, memory, disk
  <2> QED
    BY <2>1, SameJournal, QuietKeys
<1> QED
  BY <1>1, <1>2, DownKeys DEF Fail

(* No two runs of one idempotency key are both executed, for any history of *)
(* failed admissions, process deaths, power losses and restarts, and for    *)
(* run numbers whose names do not sort as they were given out.              *)
THEOREM KeysExecuteOnce == Spec => []OneExecutionPerKey
<1>1. Init => KeyInv
  <2> SUFFICES ASSUME Init PROVE KeyInv
    OBVIOUS
  <2>1. created = {} /\ call.pc = "idle" /\ \A r \in RunId : journal[r] = <<>>
    BY IdleTyped DEF Init, Store!Init
  <2>2. \A r \in RunId : ~Begun(r)
    BY <2>1 DEF Begun
  <2> QED
    BY <2>1, <2>2 DEF KeyInv, OneBegun, BegunAreBound, Holding, Handing, Persisting, AdmitPoints
<1>2. IInv /\ IInv' /\ KeyInv /\ [Next]_vars => KeyInv'
  <2> SUFFICES ASSUME IInv, IInv', KeyInv, [Next]_vars PROVE KeyInv'
    OBVIOUS
  <2>1. ASSUME UNCHANGED <<call, up, binding, created, manifest, journal>> PROVE KeyInv'
    BY <2>1, SameJournal, QuietKeys
  <2>2. CASE UNCHANGED vars
    BY <2>1, <2>2 DEF vars, memory, disk
  <2>3. ASSUME NEW k \in Keys, NEW d \in Digests, AdmitAgain(k, d) PROVE KeyInv'
    BY <2>1, <2>3 DEF AdmitAgain, memory, disk
  <2> QED
    BY <2>2, <2>3, AdmitNewKeys, OperateKeys, ProceedKeys, FailKeys, OpenKeys DEF Next
<1>3. IInv /\ KeyInv => OneExecutionPerKey
  <2> SUFFICES ASSUME IInv, KeyInv, NEW r \in RunId, execs[r] > 0 PROVE Begun(r)
    BY DEF OneExecutionPerKey, KeyInv, OneBegun, KeyOf
  <2>1. execs[r] = 1 /\ Len(promised[r]) > 2
    BY DEF IInv, Intent
  <2>2. /\ Len(journal[r]) \in Nat /\ Len(promised[r]) \in Nat
        /\ Len(promised[r]) <= Len(journal[r])
    BY TypesOfDisk, JournalLength DEF IInv, TypeOK
  <2> QED
    BY <2>1, <2>2 DEF Begun
<1> QED
  BY Invariant, <1>1, <1>2, <1>3, PTL DEF Spec

-----------------------------------------------------------------------------
(* What is reported is journaled.                                           *)

Writing(r) == Persisting /\ call.run = r

(* A record against the disk and its own room for events: whatever it says, *)
(* two more events fit, and between calls the journal says the same.        *)
Reported(r) ==
  /\ status[r] # "Absent" => r \in created
  /\ up /\ status[r] = "Absent" => Len(journal[r]) <= 1
  /\ status[r] # "Collecting"
  /\ status[r] = "Admitted" => Len(events[r]) <= 1
  /\ status[r] = "Prepared" => Len(events[r]) <= 2
  /\ status[r] = "Running" =>
       /\ Len(events[r]) <= 3
       /\ LastState(journal[r]) = "Running" \/ Writing(r)
       /\ execs[r] # 0 => call.run = r /\ call.pc \in {"executing", "cleanup"}
  /\ status[r] \in TerminalState =>
       LastState(journal[r]) = status[r] \/ Writing(r)

InCall ==
  /\ call.pc \in {"created", "plan", "planned", "prepare"} =>
       status[call.run] = "Absent"
  /\ call.pc = "cleanup" => status[call.run] \in {"Admitted", "Prepared", "Running"}
  /\ call.pc = "reconcile" => status[call.run] = "NeedsReconciliation"
  /\ Persisting /\ call.goal \in TerminalState => status[call.run] = call.goal
  /\ call.pc = "written" => LastState(journal[call.run]) = ToState(call.goal)

StatusInv == InCall /\ \A r \in RunId : Reported(r)

(* A step of one run's handler leaves what is reported of the others. *)
LEMMA Elsewhere ==
  ASSUME StatusInv, NEW r \in RunId, call.pc = "idle" \/ call.run = r,
         UNCHANGED up, created \subseteq created',
         \A q \in RunId : q # r =>
           /\ status'[q] = status[q] /\ events'[q] = events[q]
           /\ journal'[q] = journal[q] /\ execs'[q] = execs[q],
         InCall', Reported(r)'
  PROVE  StatusInv'
<1> SUFFICES ASSUME NEW q \in RunId, q # r PROVE Reported(q)'
  BY DEF StatusInv
<1>1. Reported(q) /\ ~Writing(q)
  BY DEF StatusInv, Writing, Persisting
<1>2. status[q] = "Running" => execs[q] = 0
  BY <1>1 DEF Reported
<1>3. /\ status'[q] = status[q] /\ events'[q] = events[q]
      /\ journal'[q] = journal[q] /\ execs'[q] = execs[q]
  OBVIOUS
<1> QED
  BY <1>1, <1>2, <1>3 DEF Reported

(* A step that only moves the call on. *)
LEMMA QuietReports ==
  ASSUME StatusInv, NEW r \in RunId, call.pc = "idle" \/ call.run = r,
         UNCHANGED <<up, status, events, journal, execs>>, created \subseteq created',
         InCall', ~Persisting,
         call.pc \in {"executing", "cleanup"} => call'.run = r /\ call'.pc \in {"executing", "cleanup"}
  PROVE  StatusInv'
<1>1. Reported(r) /\ ~Writing(r)
  BY DEF StatusInv, Writing
<1>2. Reported(r)'
  BY <1>1 DEF Reported
<1> QED
  BY <1>2, Elsewhere

ToStateFacts == \A s \in TerminalState \cup {"Prepared", "Running", "Collecting"} : ToState(s) = s

LEMMA ToStateIsIdentity == ToStateFacts
BY DEF ToStateFacts, ToState, TerminalState

LEMMA ReportFacts ==
  ASSUME IInv
  PROVE  /\ DiskTypes /\ DiskInv /\ call \in Calls
         /\ \A r \in RunId : /\ Len(journal[r]) \in Nat /\ Len(events[r]) \in Nat
                             /\ events[r] \in Seq(RunStatus)
                             /\ execs[r] \in {0, 1}
                             /\ execs[r] = 1 => Len(journal[r]) > 2
                             /\ status[r] \in RunStatus \cup {"Absent"}
         /\ status \in [RunId -> RunStatus \cup {"Absent"}]
         /\ events \in [RunId -> Seq(RunStatus)]
         /\ execs \in [RunId -> Nat]
<1>1. DiskTypes /\ DiskInv
  BY TypesOfDisk DEF IInv, TypeOK
<1>2. ASSUME NEW r \in RunId PROVE execs[r] = 1 => Len(journal[r]) > 2
  <2>1. /\ execs[r] = 1 => Len(promised[r]) > 2
        /\ Len(promised[r]) <= Len(journal[r]) /\ Len(journal[r]) \in Nat /\ Len(promised[r]) \in Nat
    BY <1>1, JournalLength DEF IInv, Intent
  <2> QED
    BY <2>1
<1>3. /\ status \in [RunId -> RunStatus \cup {"Absent"}]
      /\ events \in [RunId -> Seq(RunStatus)]
      /\ execs \in [RunId -> Nat] /\ call \in Calls
  BY DEF IInv, TypeOK
<1>4. \A r \in RunId : execs[r] \in {0, 1}
  BY DEF IInv, Intent
<1>5. \A r \in RunId : Len(journal[r]) \in Nat
  BY <1>1, LengthsAreNat
<1> QED
  BY <1>1, <1>2, <1>3, <1>4, <1>5

LEMMA AdmitReports ==
  ASSUME IInv, StatusInv, NEW k \in Keys, NEW d \in Digests, AdmitNew(k, d)
  PROVE  StatusInv'
<1>1. /\ call.pc = "idle" /\ nextId \in RunId /\ call'.pc = "create"
      /\ UNCHANGED <<up, status, events, journal, execs, created>>
  BY CallFields DEF AdmitNew, Ready, disk, world
<1>2. InCall' /\ ~Persisting
  BY <1>1 DEF InCall, Persisting
<1> QED
  BY <1>1, <1>2, QuietReports

(* A call that is given up, or moves on, before a record exists. *)
LEMMA AdmittingReports ==
  ASSUME IInv, StatusInv,
         CreateWrite \/ CreateAck \/ PlanWrite \/ PlanAck
  PROVE  StatusInv'
<1>0. PICK r \in RunId : r = call.run
  BY DEF IInv, CreateWrite, CreateAck, PlanWrite, PlanAck, At
<1> USE <1>0
<1>1. r \in RunId /\ call.pc \in {"create", "created", "plan", "planned"} /\ call \in Calls
  BY ReportFacts DEF IInv, CreateWrite, CreateAck, PlanWrite, PlanAck, At
<1>2. UNCHANGED <<up, status, events, execs>>
  BY DEF CreateWrite, CreateAck, PlanWrite, PlanAck, memory, world
<1>3. status[r] = "Absent" /\ Reported(r)
  <2>1. Reported(r)
    BY <1>1 DEF StatusInv
  <2>2. CASE CreateWrite
    BY <2>1, <2>2 DEF CreateWrite, Store!Create, Reported
  <2>3. CASE ~CreateWrite
    <3>1. call.pc \in {"created", "plan", "planned"}
      BY <2>3 DEF CreateAck, PlanWrite, PlanAck, At
    <3> QED
      BY <2>1, <3>1 DEF StatusInv, InCall
  <2> QED
    BY <2>1, <2>2, <2>3
<1>4. PICK pc \in {"created", "plan", "planned", "prepare"} : call' = [call EXCEPT !.pc = pc]
  BY DEF CreateWrite, CreateAck, PlanWrite, PlanAck
<1>5. call'.pc = pc /\ call'.run = r
  BY <1>1, <1>4, CallMoves DEF Points
<1>6. InCall'
  BY <1>2, <1>3, <1>5 DEF InCall, Persisting
<1>7. created \subseteq created' /\ \A q \in RunId : q # r => journal'[q] = journal[q]
  <2>1. CASE PlanWrite
    <3>1. Store!Extend(r, "Planned")
      BY <2>1 DEF PlanWrite, ToState
    <3> QED
      BY <1>1, <3>1, ReportFacts, ExtendDisk DEF ExecutionState
  <2>2. CASE ~PlanWrite
    BY <2>2 DEF CreateWrite, CreateAck, PlanAck, Store!Create, Store!PromiseRun, Store!PromiseEvents
  <2> QED
    BY <2>1, <2>2
<1>8. Len(journal'[r]) <= 1
  <2>1. CASE PlanWrite
    <3>1. Store!Extend(r, "Planned") /\ Len(journal[r]) = 0
      BY <2>1 DEF PlanWrite, ToState, IInv, Admitting, At
    <3>2. Len(journal'[r]) = Len(journal[r]) + 1
      BY <1>1, <3>1, ReportFacts, ExtendDisk DEF ExecutionState
    <3> QED
      BY <3>1, <3>2
  <2>2. CASE ~PlanWrite
    <3>1. UNCHANGED journal /\ up
      BY <2>2 DEF CreateWrite, CreateAck, PlanAck, Store!Create, Store!PromiseRun, Store!PromiseEvents, At
    <3> QED
      BY <1>3, <3>1 DEF Reported
  <2> QED
    BY <2>1, <2>2
<1>9. Reported(r)'
  BY <1>2, <1>3, <1>8 DEF Reported, TerminalState
<1> QED
  BY <1>1, <1>2, <1>6, <1>7, <1>9, Elsewhere

LEMMA PrepareReports ==
  ASSUME IInv, StatusInv, Prepare
  PROVE  StatusInv'
<1>0. PICK r \in RunId : r = call.run
  BY DEF IInv, Prepare, At
<1> USE <1>0
<1>1. r \in RunId /\ call.pc = "prepare" /\ r \in created
  BY DEF IInv, Prepare, At, Admitting
<1>2. /\ status' = [status EXCEPT ![r] = "Prepared"] /\ events' = [events EXCEPT ![r] = <<"Prepared">>]
      /\ call' = Call("persist", r, call.request, "Prepared", "handle")
      /\ UNCHANGED <<up, journal, execs, created>>
  BY DEF Prepare, disk
<1>3. call'.pc = "persist" /\ call'.run = r /\ call'.goal = "Prepared"
  BY <1>2, CallFields
<1>4. /\ status'[r] = "Prepared" /\ events'[r] = <<"Prepared">>
      /\ \A q \in RunId : q # r => status'[q] = status[q] /\ events'[q] = events[q]
  BY <1>1, <1>2, ReportFacts
<1>5. Len(events'[r]) <= 2
  BY <1>4
<1>6. InCall'
  BY <1>3 DEF InCall, TerminalState
<1>7. Reported(r)'
  BY <1>1, <1>2, <1>4, <1>5 DEF Reported, TerminalState
<1> QED
  BY <1>1, <1>2, <1>4, <1>6, <1>7, Elsewhere

(* persist_for has returned Ok: the journal ends in the goal. *)
LEMMA PersistedReports ==
  ASSUME IInv, StatusInv, up, Persisting, Persisted,
         UNCHANGED <<up, status, events, journal, execs, created>>,
         LastState(journal[call.run]) = ToState(call.goal)
  PROVE  StatusInv'
<1>0. PICK r \in RunId : r = call.run
  BY DEF IInv, Persisting
<1> USE <1>0
<1>1. r \in RunId /\ TypeOK
  BY DEF IInv, Persisting
<1>2. Reported(r) /\ InCall /\ Journaling
  BY <1>1 DEF StatusInv, IInv
<1>3. /\ call'.pc = "idle" \/ call'.run = r
      /\ call.after = "execute" => call'.pc = "execute"
      /\ call.after = "complete" => call'.pc = "persist" /\ call'.goal = "Completed"
      /\ call.after \notin {"execute", "complete"} => call'.pc = "idle"
  BY <1>1, PersistedCall
<1>4. status[r] = "Running" => execs[r] = 0
  BY <1>2 DEF Reported, Persisting
<1>5. InCall'
  BY <1>2, <1>3 DEF InCall, Persisting, Journaling
<1>6. status[r] = "Running" => LastState(journal[r]) = "Running"
  BY <1>2, ToStateIsIdentity DEF Journaling, ToStateFacts, TerminalState
<1>7. status[r] \in TerminalState => LastState(journal[r]) = status[r] \/ Writing(r)'
  <2>1. CASE call.goal \in TerminalState
    BY <1>2, <2>1, ToStateIsIdentity DEF InCall, ToStateFacts
  <2>2. CASE call.goal = "Collecting" /\ call.after = "complete"
    BY <1>3, <2>2 DEF Writing, Persisting
  <2> QED
    BY <1>2, <2>1, <2>2 DEF Journaling, TerminalState
<1>8. Reported(r)'
  BY <1>2, <1>4, <1>6, <1>7 DEF Reported
<1> QED
  BY <1>1, <1>5, <1>8, Elsewhere

LEMMA PersistWriteReports ==
  ASSUME IInv, StatusInv, PersistWrite
  PROVE  StatusInv'
<1>0. PICK r \in RunId : r = call.run
  BY DEF IInv, PersistWrite, At
<1> USE <1>0
<1>1. r \in RunId /\ call \in Calls /\ Persisting /\ call.pc = "persist"
  BY ReportFacts DEF IInv, PersistWrite, At, Persisting
<1>2. Reported(r) /\ InCall /\ Journaling
  BY <1>1 DEF StatusInv, IInv
<1>3. ToState(call.goal) \in ExecutionState
  BY <1>1, <1>2, ToStateIsIdentity DEF Journaling, ToStateFacts, ExecutionState
<1>4. Store!Extend(r, ToState(call.goal)) /\ UNCHANGED <<up, status, events, execs>>
  BY DEF PersistWrite, memory, world
<1>5. /\ UNCHANGED created /\ LastState(journal'[r]) = ToState(call.goal)
      /\ \A q \in RunId : q # r => journal'[q] = journal[q]
  BY <1>1, <1>3, <1>4, ReportFacts, ExtendDisk
<1>6. call'.pc = "written" /\ call'.run = r /\ call'.goal = call.goal
  BY <1>1, CallMoves DEF PersistWrite, Points
<1>7. InCall'
  BY <1>1, <1>2, <1>4, <1>5, <1>6 DEF InCall, Persisting
<1>8. Writing(r)' /\ status[r] # "Absent"
  BY <1>1, <1>2, <1>6 DEF Writing, Persisting, Journaling, TerminalState
<1>9. status[r] = "Running" => execs[r] = 0
  BY <1>1, <1>2 DEF Reported
<1>10. Reported(r)'
  BY <1>2, <1>4, <1>5, <1>8, <1>9 DEF Reported
<1> QED
  BY <1>1, <1>4, <1>5, <1>7, <1>10, Elsewhere

(* The run of the call is fenced. *)
LEMMA FencedReports ==
  ASSUME IInv, StatusInv, up, NEW r \in RunId, r = call.run, r \in created,
         status' = [status EXCEPT ![r] = "NeedsReconciliation"],
         \A q \in RunId : q # r => events'[q] = events[q],
         UNCHANGED <<up, journal, execs, created>>, call' = Idle
  PROVE  StatusInv'
<1>1. /\ status'[r] = "NeedsReconciliation"
      /\ \A q \in RunId : q # r => status'[q] = status[q]
  BY ReportFacts
<1>2. InCall'
  BY IdleTyped DEF InCall, Persisting
<1>3. Reported(r)'
  BY <1>1 DEF Reported, TerminalState
<1> QED
  BY <1>1, <1>2, <1>3, Elsewhere

LEMMA FailingReports ==
  ASSUME IInv, StatusInv, PersistRefused \/ PersistFails \/ CleanupFails
  PROVE  StatusInv'
<1>1. PICK r \in RunId : r = call.run
  BY DEF IInv, PersistRefused, PersistFails, CleanupFails, At
<1>2. up /\ call.pc \in {"persist", "written", "cleanup"}
  BY DEF PersistRefused, PersistFails, CleanupFails, At
<1>3. /\ status' = [status EXCEPT ![r] = "NeedsReconciliation"]
      /\ call' = Idle /\ UNCHANGED <<up, journal, execs, created>>
  BY <1>1 DEF PersistRefused, PersistFails, CleanupFails, Fence, disk, world
<1>4. \A q \in RunId : q # r => events'[q] = events[q]
  <2>1. CASE Fence
    BY <1>1, <2>1, ReportFacts DEF Fence
  <2>2. CASE CleanupFails
    BY <2>2 DEF CleanupFails
  <2> QED
    BY <2>1, <2>2 DEF PersistRefused, PersistFails
<1>5. status[r] # "Absent"
  BY <1>1, <1>2 DEF StatusInv, InCall, IInv, Journaling, Persisting, TerminalState
<1>6. r \in created
  BY <1>5 DEF StatusInv, Reported
<1> QED
  BY <1>1, <1>2, <1>3, <1>4, <1>6, FencedReports

LEMMA BeginReports ==
  ASSUME IInv, StatusInv, NEW r \in RunId, NEW after, Begin(r, after)
  PROVE  StatusInv'
<1>1. /\ up /\ call.pc = "idle" /\ status[r] = "Prepared"
      /\ status' = [status EXCEPT ![r] = "Running"]
      /\ events' = [events EXCEPT ![r] = Append(@, "Running")]
      /\ call' = Call("persist", r, None, "Running", after)
      /\ UNCHANGED <<up, journal, execs, created>>
  BY DEF Begin, Ready, disk, world
<1>2. /\ status'[r] = "Running" /\ events'[r] = Append(events[r], "Running")
      /\ \A q \in RunId : q # r => status'[q] = status[q] /\ events'[q] = events[q]
  BY <1>1, ReportFacts
<1>3. call'.pc = "persist" /\ call'.run = r /\ call'.goal = "Running"
  BY <1>1, CallFields
<1>4. Reported(r) /\ r \in created /\ Len(events[r]) <= 2
  BY <1>1 DEF StatusInv, Reported
<1>5. Len(events'[r]) <= 3
  BY <1>2, <1>4, ReportFacts
<1>6. execs[r] = 0
  <2>1. Len(journal[r]) = 2
    BY <1>1 DEF IInv, Records, Persisting
  <2>2. execs[r] \in {0, 1} /\ (execs[r] = 1 => Len(journal[r]) > 2)
    BY ReportFacts
  <2> QED
    BY <2>1, <2>2
<1>7. Writing(r)' /\ InCall'
  BY <1>3 DEF Writing, Persisting, InCall, TerminalState
<1>8. Reported(r)'
  BY <1>1, <1>2, <1>4, <1>5, <1>6, <1>7 DEF Reported, TerminalState
<1> QED
  BY <1>1, <1>2, <1>7, <1>8, Elsewhere

LEMMA ExecuteUntilReports ==
  ASSUME IInv, StatusInv, ExecuteUntil
  PROVE  StatusInv'
<1>1. PICK r \in RunId : r = call.run
  BY DEF IInv, ExecuteUntil, At
<1>2. /\ call.pc = "execute" /\ call' = [call EXCEPT !.pc = "executing"]
      /\ execs' = [execs EXCEPT ![r] = @ + 1]
      /\ UNCHANGED <<up, status, events, journal, created>>
  BY <1>1 DEF ExecuteUntil, At, memory, disk
<1>3. call'.pc = "executing" /\ call'.run = r
  BY <1>1, <1>2, ReportFacts, CallMoves DEF Points
<1>4. \A q \in RunId : q # r => execs'[q] = execs[q]
  BY <1>2, ReportFacts
<1>5. Reported(r) /\ ~Writing(r)
  BY <1>2 DEF StatusInv, Writing, Persisting
<1>6. InCall' /\ Reported(r)'
  BY <1>2, <1>3, <1>5 DEF InCall, Persisting, Reported
<1> QED
  BY <1>1, <1>2, <1>4, <1>6, Elsewhere

(* Steps that change no record and no journal, with a call in progress. *)
LEMMA MovingReports ==
  ASSUME IInv, StatusInv,
         ExecuteReturns \/ AdmitFails \/ PrepareFails \/ ReconcileFails
  PROVE  StatusInv'
<1>1. PICK r \in RunId : r = call.run
  BY DEF IInv, ExecuteReturns, AdmitFails, PrepareFails, ReconcileFails, At
<1>2. UNCHANGED <<up, status, events, journal, execs, created>>
  BY DEF ExecuteReturns, AdmitFails, PrepareFails, ReconcileFails, memory, disk, world
<1>3. CASE ExecuteReturns
  <2>1. call.pc = "executing" /\ call'.pc = "cleanup" /\ call'.run = r
    BY <1>1, <1>3, CallFields DEF ExecuteReturns, At
  <2>2. status[r] = "Running" /\ ~Persisting
    BY <1>1, <2>1 DEF IInv, Executing, Persisting
  <2>3. InCall'
    BY <1>2, <2>1, <2>2 DEF InCall, Persisting
  <2> QED
    BY <1>1, <1>2, <2>1, <2>2, <2>3, QuietReports
<1>4. CASE ~ExecuteReturns
  <2>1. /\ call.pc \in {"create", "created", "plan", "planned", "prepare", "reconcile"}
        /\ call'.pc = "idle"
    BY <1>4, IdleTyped DEF AdmitFails, PrepareFails, ReconcileFails, At
  <2>2. InCall' /\ ~Persisting
    BY <2>1 DEF InCall, Persisting
  <2> QED
    BY <1>1, <1>2, <2>1, <2>2, QuietReports
<1> QED
  BY <1>3, <1>4

(* With room for five events the pushes of a conclusion all fit. *)
LEMMA FinishReports ==
  ASSUME IInv, StatusInv, MaxEvents >= 5, NEW r \in RunId, up,
         call.pc = "idle" \/ call.run = r,
         status[r] \in {"Admitted", "Prepared", "Running"},
         NEW goal, NEW after,
         \/ goal = "Collecting" /\ after = "complete"
         \/ goal \in TerminalState /\ after = "return",
         Finish(r, goal, after), UNCHANGED <<up, disk, execs>>
  PROVE  StatusInv'
<1> DEFINE pushes == IF after = "complete" THEN <<goal, "Completed">> ELSE <<goal>>
           final == IF after = "complete" THEN "Completed" ELSE goal
           room == MaxEvents - Len(events[r])
           n == IF room >= Len(pushes) THEN Len(pushes)
                ELSE IF room > 0 THEN room ELSE 0
<1>1. /\ events' = [events EXCEPT ![r] = @ \o SubSeq(pushes, 1, n)]
      /\ status' = [status EXCEPT ![r] = IF n = 0 THEN @ ELSE pushes[n]]
      /\ call' = IF n = Len(pushes) THEN Call("persist", r, None, goal, after) ELSE Idle
  BY DEF Finish
<1>2. Reported(r) /\ r \in created
  BY DEF StatusInv, Reported
<1>3. Len(events[r]) <= 3 /\ Len(events[r]) \in Nat
  BY <1>2, ReportFacts DEF Reported
<1>4. Len(pushes) \in {1, 2} /\ pushes[Len(pushes)] = final
  OBVIOUS
<1>5. MaxEvents \in Nat
  BY LimitAssumption
<1> HIDE DEF pushes
<1>6. n = Len(pushes) /\ n # 0
  <2> DEFINE have == Len(events[r])
             want == Len(pushes)
  <2>1. have <= 3 /\ have \in Nat /\ want \in {1, 2}
    BY <1>3, <1>4
  <2> HIDE DEF have, want
  <2>2. MaxEvents - have >= want
    BY <1>5, <2>1
  <2>3. room >= want
    BY <2>2 DEF have
  <2> HIDE DEF room
  <2>4. n = want
    BY <2>3 DEF want
  <2>5. want # 0
    BY <2>1
  <2> QED
    BY <2>4, <2>5 DEF want
<1> HIDE DEF n
<1>7. /\ status'[r] = final
      /\ \A q \in RunId : q # r => status'[q] = status[q] /\ events'[q] = events[q]
  BY <1>1, <1>4, <1>6, ReportFacts
<1>8. call'.pc = "persist" /\ call'.run = r /\ call'.goal = goal
  BY <1>1, <1>6, CallFields
<1>9. final \in TerminalState /\ (goal \in TerminalState => final = goal)
  BY DEF TerminalState
<1> HIDE DEF final
<1>10. Writing(r)' /\ InCall'
  BY <1>7, <1>8, <1>9 DEF Writing, Persisting, InCall
<1>11. UNCHANGED <<up, journal, execs, created>>
  BY DEF disk
<1>12. Reported(r)'
  BY <1>2, <1>7, <1>9, <1>10, <1>11 DEF Reported, TerminalState
<1> QED
  BY <1>7, <1>10, <1>11, <1>12, Elsewhere

LEMMA EndingReports ==
  ASSUME IInv, StatusInv, MaxEvents >= 5, ExecuteCancelled \/ Cleanup
  PROVE  StatusInv'
<1>1. PICK r \in RunId : r = call.run
  BY DEF IInv, ExecuteCancelled, Cleanup, At
<1>2. up /\ UNCHANGED <<up, disk, execs>>
  BY DEF ExecuteCancelled, Cleanup, At
<1>3. CASE ExecuteCancelled
  <2>1. call.pc = "executing" /\ Finish(r, "Cancelled", "return")
    BY <1>1, <1>3 DEF ExecuteCancelled, At
  <2>2. status[r] = "Running"
    BY <1>1, <2>1 DEF IInv, Executing
  <2> QED
    BY <1>1, <1>2, <2>1, <2>2, FinishReports DEF TerminalState
<1>4. CASE Cleanup
  <2>1. call.pc = "cleanup" /\ Finish(r, call.goal, call.after)
    BY <1>1, <1>4 DEF Cleanup, At
  <2>2. status[r] \in {"Admitted", "Prepared", "Running"}
    BY <1>1, <2>1 DEF StatusInv, InCall
  <2>3. \/ call.goal = "Collecting" /\ call.after = "complete"
        \/ call.goal \in TerminalState /\ call.after = "return"
    BY <2>1 DEF IInv, Executing
  <2> QED
    BY <1>1, <1>2, <2>1, <2>2, <2>3, FinishReports
<1> QED
  BY <1>3, <1>4

LEMMA OperateReports ==
  ASSUME IInv, StatusInv, MaxEvents >= 5, NEW r \in RunId, Operate(r)
  PROVE  StatusInv'
<1>1. CASE Start(r) \/ Execute(r)
  BY <1>1, BeginReports DEF Start, Execute
<1>2. CASE Cancel(r) \/ Complete(r)
  <2>1. PICK goal \in TerminalState : Conclude(r, goal)
    BY <1>2 DEF Cancel, Complete, TerminalState
  <2>2. up /\ call.pc = "idle" /\ UNCHANGED <<up, disk, execs>>
    BY <1>2 DEF Cancel, Complete, Ready, world
  <2>3. status[r] \in {"Admitted", "Prepared", "Running"}
    <3>1. status[r] \in RunStatus \cup {"Absent"} /\ status[r] # "Collecting"
      BY ReportFacts DEF StatusInv, Reported
    <3> QED
      BY <1>2, <3>1 DEF Cancel, Complete, Known, RunStatus, TerminalState
  <2>4. CASE Finish(r, goal, "return")
    BY <2>2, <2>3, <2>4, FinishReports
  <2>5. CASE call' = Call("cleanup", r, None, goal, "return") /\ UNCHANGED memory
    <3>1. call'.pc = "cleanup" /\ call'.run = r /\ UNCHANGED <<status, events, journal, created>>
      BY <2>2, <2>5, CallFields DEF memory, disk
    <3>2. InCall' /\ ~Persisting
      BY <2>2, <2>3, <3>1 DEF InCall, Persisting
    <3> QED
      BY <2>2, <3>1, <3>2, QuietReports
  <2> QED
    BY <2>1, <2>4, <2>5 DEF Conclude
<1>3. CASE Reconcile(r)
  <2>1. /\ call.pc = "idle" /\ call'.pc = "reconcile" /\ call'.run = r
        /\ status[r] = "NeedsReconciliation"
        /\ UNCHANGED <<up, status, events, journal, execs, created>>
    BY <1>3, CallFields DEF Reconcile, Ready, memory, disk, world
  <2>2. InCall' /\ ~Persisting
    BY <2>1 DEF InCall, Persisting
  <2> QED
    BY <2>1, <2>2, QuietReports
<1> QED
  BY <1>1, <1>2, <1>3 DEF Operate

LEMMA TeardownReports ==
  ASSUME IInv, StatusInv, ReconcileTeardown
  PROVE  StatusInv'
<1>1. PICK r \in RunId : r = call.run
  BY DEF IInv, ReconcileTeardown, At
<1>2. /\ call.pc = "reconcile" /\ status' = [status EXCEPT ![r] = "Failed"]
      /\ call' = Call("persist", r, None, "Failed", "clear")
      /\ UNCHANGED <<up, events, journal, execs, created>>
  BY <1>1 DEF ReconcileTeardown, At, disk
<1>3. status'[r] = "Failed" /\ \A q \in RunId : q # r => status'[q] = status[q]
  BY <1>2, ReportFacts
<1>4. call'.pc = "persist" /\ call'.run = r /\ call'.goal = "Failed"
  BY <1>2, CallFields
<1>5. r \in created
  BY <1>1, <1>2 DEF StatusInv, InCall, Reported
<1>6. InCall' /\ Writing(r)'
  BY <1>3, <1>4 DEF InCall, Writing, Persisting
<1>7. Reported(r)'
  BY <1>2, <1>3, <1>5, <1>6 DEF Reported
<1> QED
  BY <1>1, <1>2, <1>3, <1>6, <1>7, Elsewhere

(* A dead process reports nothing. *)
LEMMA DownReports ==
  ASSUME Crash \/ PowerLoss
  PROVE  StatusInv'
<1>1. ~up' /\ call'.pc = "idle" /\ \A r \in RunId : status'[r] = "Absent"
  BY IdleTyped DEF Crash, PowerLoss, Blank
<1> QED
  BY <1>1 DEF StatusInv, InCall, Reported, Persisting, TerminalState

(* open reports what it reads. *)
LEMMA OpenReports ==
  ASSUME IInv, Open
  PROVE  StatusInv'
<1>1. call'.pc = "idle" /\ UNCHANGED <<created, journal>>
  BY IdleTyped DEF Open, disk
<1>2. InCall'
  BY <1>1 DEF InCall, Persisting
<1>3. ASSUME NEW r \in RunId PROVE Reported(r)'
  <2> DEFINE l == LastState(journal[r])
             m == Len(journal[r])
  <2>1. status'[r] = IF r \in created THEN FromState(l) ELSE "Absent"
    BY DEF Open
  <2>2. events'[r] = [i \in 1 .. m |-> FromState(journal[r][i])]
    BY DEF Open
  <2>3. /\ m \in Nat /\ l \in ExecutionState \cup {NoState}
        /\ (m = 0 <=> l = NoState) /\ (m = 1 <=> l = "Planned") /\ (m = 2 <=> l = "Prepared")
    BY ReportFacts, JournalLength
  <2>4. r \notin created => ~(m > 0)
    BY ReportFacts DEF IInv, Intent, DiskInv
  <2>5. FromState(l) \in TerminalState => FromState(l) = l
    BY <2>3 DEF FromState, TerminalState, NoState
  <2> HIDE DEF l, m
  <2>6. Len(events'[r]) = m
    BY <2>2, <2>3
  <2>7. CASE r \notin created
    <3>1. m <= 1 /\ status'[r] = "Absent"
      BY <2>1, <2>3, <2>4, <2>7
    <3> QED
      BY <1>1, <3>1 DEF Reported, TerminalState, m
  <2>8. CASE r \in created
    <3>1. /\ status'[r] = FromState(l) /\ FromState(l) \in RunStatus
          /\ FromState(l) = "Admitted" => l \in {NoState, "Planned"}
          /\ FromState(l) = "Prepared" => l = "Prepared"
          /\ FromState(l) \notin {"Running", "Collecting"}
      BY <2>1, <2>3, <2>8, FromStateFacts
    <3>2. /\ status'[r] \in RunStatus \ {"Running", "Collecting"}
          /\ status'[r] = "Admitted" => m <= 1
          /\ status'[r] = "Prepared" => m <= 2
          /\ status'[r] \in TerminalState => status'[r] = l
      BY <2>3, <2>5, <3>1
    <3>3. /\ status'[r] = "Admitted" => Len(events'[r]) <= 1
          /\ status'[r] = "Prepared" => Len(events'[r]) <= 2
          /\ status'[r] \in TerminalState => LastState(journal'[r]) = status'[r]
      BY <1>1, <2>6, <3>2 DEF l
    <3> QED
      BY <1>1, <2>8, <3>2, <3>3 DEF Reported, RunStatus, TerminalState
  <2> QED
    BY <2>7, <2>8
<1> QED
  BY <1>2, <1>3 DEF StatusInv

LEMMA ProceedReports ==
  ASSUME IInv, StatusInv, MaxEvents >= 5, Proceed
  PROVE  StatusInv'
<1>1. CASE PersistSkip \/ PersistAck
  <2>1. up /\ Persisting /\ Persisted /\ UNCHANGED <<up, status, events, journal, execs, created>>
    BY <1>1 DEF PersistSkip, PersistAck, At, Persisting, disk, Store!PromiseEvents
  <2>2. LastState(journal[call.run]) = ToState(call.goal)
    BY <1>1 DEF PersistSkip, PersistLast, PersistAck, At, StatusInv, InCall
  <2> QED
    BY <2>1, <2>2, PersistedReports
<1> QED
  BY <1>1, AdmittingReports, PrepareReports, PersistWriteReports, FailingReports,
     ExecuteUntilReports, MovingReports, EndingReports, TeardownReports DEF Proceed

LEMMA UnchangedReports ==
  ASSUME StatusInv, UNCHANGED <<up, call, status, events, journal, execs, created>>
  PROVE  StatusInv'
BY DEF StatusInv, InCall, Reported, Writing, Persisting

LEMMA FailReports ==
  ASSUME IInv, StatusInv, Fail
  PROVE  StatusInv'
<1>1. CASE OpenFails
  BY <1>1, UnchangedReports DEF OpenFails, memory, disk
<1> QED
  BY <1>1, MovingReports, FailingReports, DownReports DEF Fail

(* Records agree with the journal, with room for all events of a run. *)
LEMMA StatusInvariant ==
  ASSUME MaxEvents >= 5
  PROVE  Spec => [](IInv /\ StatusInv)
<1>1. Init => StatusInv
  <2> SUFFICES ASSUME Init PROVE StatusInv
    OBVIOUS
  <2>1. call.pc = "idle" /\ \A r \in RunId : status[r] = "Absent" /\ journal[r] = <<>>
    BY IdleTyped DEF Init, Store!Init
  <2>2. Len(<<>>) <= 1
    OBVIOUS
  <2> QED
    BY <2>1, <2>2 DEF StatusInv, InCall, Reported, Persisting, TerminalState
<1>2. IInv /\ StatusInv /\ [Next]_vars => StatusInv'
  <2> SUFFICES ASSUME IInv, StatusInv, [Next]_vars PROVE StatusInv'
    OBVIOUS
  <2>1. CASE UNCHANGED vars
    BY <2>1, UnchangedReports DEF vars, memory, disk, world
  <2>2. ASSUME NEW k \in Keys, NEW d \in Digests, AdmitAgain(k, d)
        PROVE  StatusInv'
    BY <2>2, UnchangedReports DEF AdmitAgain, memory, disk
  <2> QED
    BY <2>1, <2>2, AdmitReports, OperateReports, ProceedReports, FailReports, OpenReports DEF Next
<1> QED
  BY Invariant, <1>1, <1>2, PTL DEF Spec

(* Between calls nobody is told what the journal does not say: whatever     *)
(* writes fail and processes die, a run that is not marked for              *)
(* reconciliation has the status a restart would find.  A run has up to     *)
(* five events (Admitted, Prepared, Running, Collecting, Completed); with   *)
(* less room a conclusion stops half-way.                                   *)
THEOREM StatusIsJournaled ==
  ASSUME MaxEvents >= 5
  PROVE  Spec => []StatusMatchesJournal
<1>1. IInv /\ StatusInv => StatusMatchesJournal
  <2> SUFFICES ASSUME IInv, StatusInv, Ready, NEW r \in RunId,
                      status[r] \notin {"Absent", "NeedsReconciliation"}
               PROVE  r \in created /\ LastState(journal[r]) \in
                        IF status[r] = "Admitted" THEN {NoState, "Planned"}
                        ELSE {ToState(status[r])}
    BY DEF StatusMatchesJournal
  <2>1. Reported(r) /\ ~Persisting /\ status[r] \in RunStatus
    BY ReportFacts DEF StatusInv, Ready, Persisting
  <2>2. r \in created /\ status[r] # "Collecting"
    BY <2>1 DEF Reported
  <2> DEFINE m == Len(journal[r])
  <2>3. m \in Nat /\ (m = 0 <=> LastState(journal[r]) = NoState)
        /\ (m = 1 <=> LastState(journal[r]) = "Planned")
        /\ (m = 2 <=> LastState(journal[r]) = "Prepared")
    BY ReportFacts, JournalLength
  <2>4. (status[r] = "Admitted" => m < 2) /\ (status[r] = "Prepared" => m = 2)
    BY <2>1 DEF IInv, Records
  <2> HIDE DEF m
  <2>5. CASE status[r] = "Admitted"
    <3>1. m = 0 \/ m = 1
      BY <2>3, <2>4, <2>5
    <3> QED
      BY <2>2, <2>3, <2>5, <3>1
  <2>6. CASE status[r] = "Prepared"
    BY <2>2, <2>3, <2>4, <2>6, ToStateIsIdentity DEF ToStateFacts
  <2>7. CASE status[r] \in TerminalState \cup {"Running"}
    <3>1. LastState(journal[r]) = status[r] /\ status[r] # "Admitted"
      BY <2>1, <2>7 DEF Reported, Writing, TerminalState
    <3> QED
      BY <2>2, <2>7, <3>1, ToStateIsIdentity DEF ToStateFacts
  <2> QED
    BY <2>1, <2>2, <2>5, <2>6, <2>7 DEF RunStatus
<1> QED
  BY <1>1, StatusInvariant, PTL

(* Between calls an executed run is settled or fenced, for any history of   *)
(* failures and restarts: it can be neither started nor executed again.     *)
THEOREM ExecutedRunsSettle ==
  ASSUME MaxEvents >= 5
  PROVE  Spec => []ExecutedRunsAreSettled
<1>1. IInv /\ StatusInv => ExecutedRunsAreSettled
  <2> SUFFICES ASSUME IInv, StatusInv, Ready, NEW r \in RunId, execs[r] > 0
               PROVE  status[r] \in TerminalState \cup {"NeedsReconciliation"}
    BY DEF ExecutedRunsAreSettled
  <2>1. Reported(r) /\ ~Persisting /\ status[r] \in RunStatus \cup {"Absent"} /\ up
    BY ReportFacts DEF StatusInv, Ready, Persisting
  <2> DEFINE m == Len(journal[r])
  <2>2. execs[r] # 0 /\ m \in Nat /\ m > 2
    BY ReportFacts
  <2>3. /\ status[r] = "Absent" => m <= 1
        /\ status[r] = "Admitted" => m < 2
        /\ status[r] = "Prepared" => m = 2
        /\ status[r] \notin {"Running", "Collecting"}
    BY <2>1, <2>2 DEF Reported, IInv, Records, Ready
  <2> HIDE DEF m
  <2>4. status[r] \notin {"Absent", "Admitted", "Prepared", "Running", "Collecting"}
    BY <2>2, <2>3
  <2> QED
    BY <2>1, <2>4 DEF RunStatus
<1> QED
  BY <1>1, StatusInvariant, PTL

-----------------------------------------------------------------------------
(* The service on its store.  Whatever the service does, faults, process    *)
(* deaths, power losses and restarts included, its disk moves as the        *)
(* contract of the store allows, with the numbers of its runs for the runs  *)
(* of the contract.                                                         *)

ImplementsStore == Store!Spec

(* Only states of the journal's vocabulary can be appended. *)
LEMMA ExtendIsStep ==
  ASSUME IInv, NEW r, NEW s, Store!Extend(r, s)
  PROVE  Store!Next
<1>1. r \in RunId
  BY DEF IInv, TypeOK, Store!TypeOK, Store!Extend
<1>2. s \in ExecutionState
  <2>1. ValidTransition(LastState(journal[r]), s)
    BY StoreVocabulary DEF Store!Extend
  <2> QED
    BY <2>1 DEF ValidTransition, ExecutionState, TerminalState
<1> QED
  BY <1>1, <1>2, StoreVocabulary DEF Store!Next

LEMMA PromiseIsStep ==
  ASSUME IInv, NEW r, Store!PromiseRun(r) \/ Store!PromiseEvents(r)
  PROVE  Store!Next
<1>1. r \in RunId
  BY DEF IInv, TypeOK, Store!TypeOK, Store!PromiseRun, Store!PromiseEvents
<1> QED
  BY <1>1 DEF Store!Next

LEMMA CreateIsStep ==
  ASSUME IInv, CreateWrite
  PROVE  Store!Next
<1>1. call.run \in RunId
  BY DEF IInv, TypeOK, CreateWrite, At
<1> QED
  BY <1>1 DEF CreateWrite, Store!Next

(* Every other step leaves the disk of the store alone. *)
LEMMA StoreStep == IInv /\ [Next]_vars => [Store!Next]_Store!vars
<1> SUFFICES ASSUME IInv, [Next]_vars PROVE Store!Next \/ UNCHANGED Store!vars
  OBVIOUS
<1> DEFINE Quiet == UNCHANGED <<created, journal, kept, promised>>
<1>1. Quiet => UNCHANGED Store!vars
  BY DEF Store!vars
<1>2. ASSUME NEW k \in Keys, NEW d \in Digests, AdmitAgain(k, d) \/ AdmitNew(k, d)
      PROVE  Quiet
  BY <1>2 DEF AdmitAgain, AdmitNew, disk
<1>3. ASSUME NEW r \in RunId, Operate(r) PROVE Quiet
  BY <1>3 DEF Operate, Start, Execute, Begin, Cancel, Complete, Reconcile, disk
<1>4. ASSUME Proceed PROVE Store!Next \/ Quiet
  <2>1. CASE CreateWrite
    BY <2>1, CreateIsStep
  <2>2. CASE CreateAck \/ PlanAck \/ PersistAck
    BY <2>2, PromiseIsStep DEF CreateAck, PlanAck, PersistAck
  <2>3. CASE PlanWrite \/ PersistWrite
    BY <2>3, ExtendIsStep DEF PlanWrite, PersistWrite
  <2>4. CASE Prepare \/ PersistSkip \/ PersistRefused \/ ExecuteUntil
              \/ ExecuteCancelled \/ ExecuteReturns \/ Cleanup \/ ReconcileTeardown
    BY <2>4 DEF Prepare, PersistSkip, PersistRefused, ExecuteUntil, ExecuteCancelled,
       ExecuteReturns, Cleanup, ReconcileTeardown, disk
  <2> QED
    BY <1>4, <2>1, <2>2, <2>3, <2>4 DEF Proceed
<1>5. ASSUME Fail PROVE Store!Next \/ Quiet
  <2>1. CASE PowerLoss
    BY <2>1 DEF PowerLoss, Store!Next
  <2>2. CASE ~PowerLoss
    BY <1>5, <2>2 DEF Fail, AdmitFails, PrepareFails, PersistFails, CleanupFails,
       ReconcileFails, Crash, OpenFails, disk
  <2> QED
    BY <2>1, <2>2
<1>6. CASE Open
  BY <1>1, <1>6 DEF Open, disk
<1>7. CASE UNCHANGED vars
  BY <1>1, <1>7 DEF vars, disk
<1> QED
  BY <1>1, <1>2, <1>3, <1>4, <1>5, <1>6, <1>7 DEF Next

(* The service is a client that keeps to the contract of the store: it      *)
(* creates a run once, appends valid transitions only, and promises what is *)
(* visible.  With AtomicStore's own refinement of the same contract, what   *)
(* is proved of the service on the contract holds of it on the real store.  *)
THEOREM ServiceImplementsStore == Spec => ImplementsStore
<1>1. Init => Store!Init
  BY DEF Init
<1>2. Spec => [][Store!Next]_Store!vars
  BY Invariant, StoreStep, PTL DEF Spec
<1> QED
  BY <1>1, <1>2, PTL DEF Spec, ImplementsStore, Store!Spec

-----------------------------------------------------------------------------
(* Settled runs.                                                            *)

Settled(r) == LastState(promised[r]) \in TerminalState

(* Once the outcome of a run was acknowledged nothing ever happens to it    *)
(* again: no event is added or lost, no attempt is executed and no          *)
(* authority is prepared for it, by no call, failure, power loss or restart.*)
SettledRunsRest ==
  [][\A r \in RunId : Settled(r) =>
       /\ journal'[r] = journal[r] /\ promised'[r] = promised[r]
       /\ execs'[r] = execs[r] /\ r \notin holds']_vars

(* The attempt is about to be executed, and Running is its last event.      *)
Entered == call.pc = "execute" => LastState(journal[call.run]) = "Running"

LEMMA EnteredStep == IInv /\ Entered /\ [Next]_vars => Entered'
<1> SUFFICES ASSUME IInv, Entered, [Next]_vars, call'.pc = "execute"
             PROVE  LastState(journal'[call'.run]) = "Running"
  BY DEF Entered
<1>1. CASE PersistSkip \/ PersistAck
  <2>1. Persisted /\ Persisting
    BY <1>1 DEF PersistSkip, PersistAck, At, Persisting
  <2>2. call.after = "execute" /\ call'.run = call.run
    BY <2>1, IdleTyped DEF Persisted, Call
  <2>3. /\ call.goal = "Running" /\ call.run \in RunId
        /\ Len(journal[call.run]) = IF call.pc = "persist" THEN 2 ELSE 3
    BY <2>1, <2>2 DEF IInv, Journaling, Persisting
  <2>4. /\ journal[call.run] \in Seq(ExecutionState) /\ IsLifecycle(journal[call.run])
    BY <2>3, TypesOfDisk DEF IInv, TypeOK, DiskTypes, DiskInv
  <2>5. CASE PersistSkip
    BY <2>2, <2>3, <2>5 DEF PersistSkip, PersistLast, ToState, disk
  <2>6. CASE PersistAck
    <3>1. Len(journal[call.run]) = 3 /\ journal' = journal
      BY <2>3, <2>6 DEF PersistAck, At, Store!PromiseEvents
    <3> QED
      BY <2>2, <2>4, <3>1, LifecycleLast
  <2> QED
    BY <1>1, <2>5, <2>6
<1>2. CASE ~(PersistSkip \/ PersistAck)
  <2>1. call' = call /\ journal' = journal
    <3>0. ASSUME NEW r, NEW goal, NEW after, Finish(r, goal, after)
          PROVE  FALSE
      <4>1. call'.pc \in {"persist", "idle"}
        BY <3>0, IdleTyped DEF Finish, Call
      <4> QED
        BY <4>1
    <3>1. ASSUME NEW k \in Keys, NEW d \in Digests, AdmitAgain(k, d) \/ AdmitNew(k, d)
          PROVE  call' = call /\ journal' = journal
      BY <3>1 DEF AdmitAgain, AdmitNew, Call, disk
    <3>2. ASSUME NEW r \in RunId, Operate(r) PROVE FALSE
      <4>1. CASE Start(r) \/ Execute(r)
        BY <4>1 DEF Start, Execute, Begin, Call
      <4>2. CASE Cancel(r) \/ Complete(r)
        <5>1. PICK goal : Conclude(r, goal)
          BY <4>2 DEF Cancel, Complete
        <5>2. call'.pc = "cleanup" \/ Finish(r, goal, "return")
          BY <5>1 DEF Conclude, Call
        <5> QED
          BY <3>0, <5>2
      <4>3. CASE Reconcile(r)
        BY <4>3 DEF Reconcile, Call
      <4> QED
        BY <3>2, <4>1, <4>2, <4>3 DEF Operate
    <3>3. ~Proceed
      <4>1. ~(CreateWrite \/ CreateAck \/ PlanWrite \/ PlanAck \/ PersistWrite \/ ExecuteUntil)
        BY DEF CreateWrite, CreateAck, PlanWrite, PlanAck, PersistWrite, ExecuteUntil,
           IInv, TypeOK, Calls
      <4>2. ~(Prepare \/ PersistRefused \/ ExecuteCancelled \/ ExecuteReturns \/ Cleanup
               \/ ReconcileTeardown)
        <5>1. ~Prepare /\ ~PersistRefused /\ ~ReconcileTeardown
          BY IdleTyped DEF Prepare, PersistRefused, Fence, ReconcileTeardown, Call
        <5>2. ~ExecuteCancelled /\ ~Cleanup
          BY <3>0, IdleTyped DEF ExecuteCancelled, Cleanup, Call
        <5>3. ~ExecuteReturns
          BY <3>0, IdleTyped DEF ExecuteReturns, Call
        <5> QED
          BY <5>1, <5>2, <5>3
      <4> QED
        BY <1>2, <4>1, <4>2 DEF Proceed
    <3>4. ASSUME Fail PROVE call' = call /\ journal' = journal
      BY <3>4, IdleTyped DEF Fail, AdmitFails, PrepareFails, PersistFails, Fence, CleanupFails,
         ReconcileFails, Crash, PowerLoss, Blank, OpenFails, disk
    <3>5. ~Open
      BY IdleTyped DEF Open
    <3>6. CASE UNCHANGED vars
      BY <3>6 DEF vars, disk
    <3> QED
      BY <3>1, <3>2, <3>3, <3>4, <3>5, <3>6 DEF Next
  <2> QED
    BY <2>1 DEF Entered
<1> QED
  BY <1>1, <1>2

(* The events of a settled run, whatever happens to the disk. *)
LEMMA SettledDisk ==
  ASSUME IInv, NEW r \in RunId, Settled(r), Store!Next
  PROVE  journal'[r] = journal[r] /\ promised'[r] = promised[r]
<1>1. /\ journal \in [RunId -> Seq(ExecutionState)] /\ promised \in [RunId -> Seq(ExecutionState)]
      /\ journal[r] \in Seq(ExecutionState) /\ promised[r] \in Seq(ExecutionState)
      /\ IsLifecycle(journal[r]) /\ IsPrefix(promised[r], journal[r])
  BY TypesOfDisk DEF IInv, TypeOK, DiskTypes, DiskInv
<1>2. /\ Len(promised[r]) = Len(journal[r]) /\ LastState(journal[r]) \in TerminalState
  BY <1>1, NothingAfterTerminal DEF Settled
<1>3. Len(journal[r]) \in Nat /\ promised[r] = journal[r]
  <2>1. \A i \in 1 .. Len(promised[r]) : promised[r][i] = journal[r][i]
    BY <1>1, PrefixPointwise
  <2> QED
    BY <1>1, <1>2, <2>1
<1>4. ASSUME NEW q \in RunId, Store!Create(q) \/ Store!PromiseRun(q)
      PROVE  journal' = journal /\ promised' = promised
  <2>1. CASE Store!Create(q)
    <3>1. DiskTypes /\ DiskInv /\ EventsAreKept
      BY TypesOfDisk DEF IInv, TypeOK, Intent, EventsAreKept
    <3> QED
      BY <2>1, <3>1, CreateDisk
  <2>2. CASE Store!PromiseRun(q)
    BY <2>2 DEF Store!PromiseRun
  <2> QED
    BY <1>4, <2>1, <2>2
<1>5. ASSUME NEW q \in RunId, Store!PromiseEvents(q)
      PROVE  journal'[r] = journal[r] /\ promised'[r] = promised[r]
  BY <1>1, <1>3, <1>5 DEF Store!PromiseEvents
<1>6. ASSUME NEW q \in RunId, NEW s \in ExecutionState, Store!Extend(q, s)
      PROVE  journal'[r] = journal[r] /\ promised'[r] = promised[r]
  <2>1. q # r
    BY <1>2, <1>6, StoreVocabulary DEF Store!Extend, ValidTransition, TerminalState, NoState
  <2> QED
    BY <1>1, <1>6, <2>1 DEF Store!Extend
<1>7. CASE Store!Lose
  <2>1. PICK survivors \in SUBSET created, length \in [RunId -> Store!Lengths] :
          Store!LoseTo(survivors, length)
    BY <1>7 DEF Store!Lose
  <2>2. r \in kept
    <3>1. Len(journal[r]) > 0
      BY <1>1, <1>2 DEF LastState, TerminalState, NoState
    <3> QED
      BY <3>1 DEF IInv, Intent
  <2>3. /\ r \in survivors /\ length[r] \in Len(promised[r]) .. Len(journal[r])
        /\ journal'[r] = SubSeq(journal[r], 1, length[r]) /\ promised'[r] = promised[r]
    BY <2>1, <2>2 DEF Store!LoseTo
  <2>4. length[r] = Len(journal[r])
    BY <1>2, <1>3, <2>3
  <2> QED
    BY <1>1, <2>3, <2>4
<1> QED
  BY <1>4, <1>5, <1>6, <1>7, StoreVocabulary DEF Store!Next

LEMMA SettledStep ==
  ASSUME IInv, IInv', Entered, [Next]_vars, NEW r \in RunId, Settled(r)
  PROVE  /\ journal'[r] = journal[r] /\ promised'[r] = promised[r]
         /\ execs'[r] = execs[r] /\ r \notin holds'
<1>1. journal'[r] = journal[r] /\ promised'[r] = promised[r]
  <2>1. CASE Store!Next
    BY <2>1, SettledDisk
  <2>2. CASE UNCHANGED Store!vars
    BY <2>2 DEF Store!vars
  <2> QED
    BY <2>1, <2>2, StoreStep
<1>2. LastState(journal[r]) \in TerminalState
  <2>1. /\ journal[r] \in Seq(ExecutionState) /\ promised[r] \in Seq(ExecutionState)
        /\ IsLifecycle(journal[r]) /\ IsPrefix(promised[r], journal[r])
    BY TypesOfDisk DEF IInv, TypeOK, DiskTypes, DiskInv
  <2> QED
    BY <2>1, NothingAfterTerminal DEF Settled
<1>3. r \notin holds'
  BY <1>1, <1>2 DEF IInv, Revoked
<1>4. execs'[r] = execs[r]
  <2>1. CASE ExecuteUntil
    <3>1. call.pc = "execute" /\ call.run # r
      BY <1>2, <2>1 DEF ExecuteUntil, At, Entered, TerminalState
    <3> QED
      BY <2>1, <3>1 DEF ExecuteUntil, IInv, TypeOK
  <2>2. CASE ~ExecuteUntil
    <3>1. ASSUME NEW k \in Keys, NEW d \in Digests, AdmitAgain(k, d) \/ AdmitNew(k, d)
          PROVE  execs' = execs
      BY <3>1 DEF AdmitAgain, AdmitNew, world
    <3>2. ASSUME NEW q \in RunId, Operate(q) PROVE execs' = execs
      BY <3>2 DEF Operate, Start, Execute, Begin, Cancel, Complete, Reconcile, world
    <3>3. ASSUME Proceed PROVE execs' = execs
      BY <2>2, <3>3 DEF Proceed, CreateWrite, CreateAck, PlanWrite, PlanAck, Prepare,
         PersistSkip, PersistWrite, PersistAck, PersistRefused, ExecuteCancelled,
         ExecuteReturns, Cleanup, ReconcileTeardown, world
    <3>4. ASSUME Fail PROVE execs' = execs
      BY <3>4 DEF Fail, AdmitFails, PrepareFails, PersistFails, CleanupFails,
         ReconcileFails, Crash, PowerLoss, OpenFails
    <3>5. Open \/ UNCHANGED vars => execs' = execs
      BY DEF Open, vars, world
    <3> QED
      BY <3>1, <3>2, <3>3, <3>4, <3>5 DEF Next
  <2> QED
    BY <2>1, <2>2
<1> QED
  BY <1>1, <1>3, <1>4

(* What was acknowledged as an outcome is final, across any number of       *)
(* restarts and power losses, for the journal as well as for the world.     *)
THEOREM OutcomesAreFinal == Spec => SettledRunsRest
<1>1. Init => Entered
  BY IdleTyped DEF Init, Entered
<1>2. Spec => []Entered
  BY <1>1, Invariant, EnteredStep, PTL DEF Spec
<1>3. IInv /\ IInv' /\ Entered /\ [Next]_vars =>
        [\A r \in RunId : Settled(r) =>
           /\ journal'[r] = journal[r] /\ promised'[r] = promised[r]
           /\ execs'[r] = execs[r] /\ r \notin holds']_vars
  BY SettledStep
<1> QED
  BY <1>2, <1>3, Invariant, PTL DEF Spec, SettledRunsRest

=============================================================================
