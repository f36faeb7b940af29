---------------------------- MODULE AtomicStore ----------------------------
(***************************************************************************)
(* asb-store: processes that share one store root.  Every call takes the   *)
(* store's file lock, works on temporary names, renames, syncs the parent  *)
(* directory and returns.  A call is split where a process can die or an   *)
(* I/O operation can fail: after the staged bytes are synced, after the    *)
(* rename, after the directory sync.                                       *)
(*                                                                         *)
(* "Visible" state is what the running kernel shows to every process;      *)
(* "disk" state is what is certain to be there after a power loss.  A call *)
(* that is refused before it writes (stale attempt, wrong sequence, invalid*)
(* transition, missing or existing run, exceeded size limit) changes       *)
(* nothing, and is a stuttering step.                                      *)
(***************************************************************************)
EXTENDS Lifecycle

CONSTANTS
  Writers, Runs, Attempts, Digests,
  MaxJournal,   \* the events that fit max_journal_bytes
  None

ASSUME NoneAssumption == None \notin Writers \cup Runs \cup Attempts \cup Digests
ASSUME MaxJournalAssumption == MaxJournal \in Nat

VARIABLES
  lock,         \* the writer that holds store.lock, or None
  pc,           \* pc[w]: how far the call of w has come
  req,          \* req[w]: the run and the staged content of that call
  manifest,     \* manifest[r]: attempt_id of the visible runs/r, or None
  journal,      \* journal[r]: visible journal.ndjson
  blobs,        \* blobs[r]: visible files of runs/r/artifacts
  debris,       \* runs with an orphaned stage directory visible in runs/
  diskRuns,     \* runs whose entry in runs/ is on disk
  diskJournal,  \* diskJournal[r]: the journal entry on disk
  diskBlobs,    \* diskBlobs[r]: the artifact entries on disk
  diskStages,   \* runs whose stage directory entry may still be on disk
  ackedRuns,    \* runs whose create_run returned Ok
  acked,        \* acked[r]: journal content whose append returned Ok, and
  ackedBlobs    \* ackedBlobs[r]: digests whose put_artifact returned Ok, since
                \* r was last created; a power loss changes neither

visible == <<manifest, journal, blobs, debris>>
disk == <<diskRuns, diskJournal, diskBlobs, diskStages>>
acks == <<ackedRuns, acked, ackedBlobs>>
vars == <<lock, pc, req, visible, disk, acks>>

(* The runs with a directory of their own name in runs/. *)
Exists == {r \in Runs : manifest[r] # None}

Req(r, a, j, d) == [run |-> r, attempt |-> a, events |-> j, digest |-> d]

Idle == Req(None, None, <<>>, None)

Request ==
  [run : Runs \cup {None}, attempt : Attempts \cup {None},
   events : Seq(ExecutionState), digest : Digests \cup {None}]

Steps ==
  {"idle", "append", "appended", "create", "created", "put", "placed"}

TypeOK ==
  /\ lock \in Writers \cup {None}
  /\ pc \in [Writers -> Steps]
  /\ req \in [Writers -> Request]
  /\ manifest \in [Runs -> Attempts \cup {None}]
  /\ journal \in [Runs -> Seq(ExecutionState)]
  /\ blobs \in [Runs -> SUBSET Digests]
  /\ debris \in SUBSET Runs
  /\ diskRuns \in SUBSET Runs
  /\ diskJournal \in [Runs -> Seq(ExecutionState)]
  /\ diskBlobs \in [Runs -> SUBSET Digests]
  /\ diskStages \in SUBSET Runs
  /\ ackedRuns \in SUBSET Runs
  /\ acked \in [Runs -> Seq(ExecutionState)]
  /\ ackedBlobs \in [Runs -> SUBSET Digests]

Init ==
  /\ lock = None
  /\ pc = [w \in Writers |-> "idle"]
  /\ req = [w \in Writers |-> Idle]
  /\ manifest = [r \in Runs |-> None]
  /\ journal = [r \in Runs |-> <<>>]
  /\ blobs = [r \in Runs |-> {}]
  /\ debris = {}
  /\ diskRuns = {}
  /\ diskJournal = [r \in Runs |-> <<>>]
  /\ diskBlobs = [r \in Runs |-> {}]
  /\ diskStages = {}
  /\ ackedRuns = {}
  /\ acked = [r \in Runs |-> <<>>]
  /\ ackedBlobs = [r \in Runs |-> {}]

-----------------------------------------------------------------------------
(* The lock and the control flow shared by every call.                      *)

(* Mutant: the file lock is taken in shared mode. *)
MutLockFree == TRUE

LockFree == lock = None

Acquire(w, step, request) ==
  /\ pc[w] = "idle"
  /\ LockFree
  /\ lock' = w
  /\ pc' = [pc EXCEPT ![w] = step]
  /\ req' = [req EXCEPT ![w] = request]

Advance(w, from, to) ==
  /\ pc[w] = from
  /\ pc' = [pc EXCEPT ![w] = to]
  /\ UNCHANGED <<lock, req>>

(* Every return, Ok or Err, drops the StoreLock guard. *)
Return(w) ==
  /\ lock' = None
  /\ pc' = [pc EXCEPT ![w] = "idle"]
  /\ req' = [req EXCEPT ![w] = Idle]

-----------------------------------------------------------------------------
(* append(run_id, event): event carries attempt a, sequence n and state s.  *)

(* Mutant: append without validate_transition. *)
MutAppendStage(w, r, a, n, s) ==
  /\ r \in Exists
  /\ a = manifest[r]
  /\ n = Len(journal[r])
  /\ n < MaxJournal
  /\ Acquire(w, "append", Req(r, None, Append(journal[r], s), None))
  /\ UNCHANGED <<visible, disk, acks>>

(* The checks under the lock, then the staged copy of the whole journal,    *)
(* written and synced under a temporary name.                               *)
AppendStage(w, r, a, n, s) ==
  /\ r \in Exists
  /\ a = manifest[r]
  /\ n = Len(journal[r])
  /\ ValidTransition(LastState(journal[r]), s)
  /\ n < MaxJournal
  /\ Acquire(w, "append", Req(r, None, Append(journal[r], s), None))
  /\ UNCHANGED <<visible, disk, acks>>

(* fs::rename over journal.ndjson: visible to every process from here on.   *)
AppendRename(w) ==
  /\ Advance(w, "append", "appended")
  /\ journal' = [journal EXCEPT ![req[w].run] = req[w].events]
  /\ UNCHANGED <<manifest, blobs, debris, disk, acks>>

(* Mutant: append returns without sync_dir. *)
MutAppendSync(w) ==
  /\ pc[w] = "appended"
  /\ acked' = [acked EXCEPT ![req[w].run] = req[w].events]
  /\ Return(w)
  /\ UNCHANGED <<visible, disk, ackedRuns, ackedBlobs>>

(* sync_dir of the run directory and Ok(()).                                *)
AppendSync(w) ==
  LET r == req[w].run IN
  /\ pc[w] = "appended"
  /\ diskJournal' = [diskJournal EXCEPT ![r] = journal[r]]
  /\ acked' = [acked EXCEPT ![r] = req[w].events]
  /\ Return(w)
  /\ UNCHANGED <<visible, diskRuns, diskBlobs, diskStages, ackedRuns, ackedBlobs>>

-----------------------------------------------------------------------------
(* create_run(manifest): run r with attempt a.                              *)

(* Mutant: create_run without the check for an existing destination. *)
MutCreateStage(w, r, a) ==
  /\ Acquire(w, "create", Req(r, a, <<>>, None))
  /\ diskRuns' = Exists
  /\ diskStages' = {r}
  /\ UNCHANGED <<visible, diskJournal, diskBlobs, acks>>

(* private_dir(&stage) creates the stage directory and syncs runs/, which   *)
(* also settles every earlier entry of runs/; then the stage is filled.     *)
CreateStage(w, r, a) ==
  /\ r \notin Exists
  /\ Acquire(w, "create", Req(r, a, <<>>, None))
  /\ diskRuns' = Exists
  /\ diskStages' = {r}
  /\ UNCHANGED <<visible, diskJournal, diskBlobs, acks>>

(* private_dir(&stage)? failing after its mkdir returns before the closure  *)
(* whose error path removes the stage.                                      *)
CreateStageFails(w, r) ==
  /\ pc[w] = "idle"
  /\ LockFree
  /\ r \notin Exists
  /\ debris' = debris \cup {r}
  /\ UNCHANGED <<lock, pc, req, manifest, journal, blobs, disk, acks>>

(* History: what was acknowledged of an earlier run of this name, which a   *)
(* power loss has taken before its creation was, does not bind the new one. *)
ForgetLost(r) ==
  /\ acked' = [acked EXCEPT ![r] = IF r \in ackedRuns THEN @ ELSE <<>>]
  /\ ackedBlobs' = [ackedBlobs EXCEPT ![r] = IF r \in ackedRuns THEN @ ELSE {}]

(* Mutant: the manifest is written with its two identities swapped. *)
MutCreateRename(w) ==
  /\ Advance(w, "create", "created")
  /\ manifest' = [manifest EXCEPT ![req[w].run] = req[w].run]
  /\ journal' = [journal EXCEPT ![req[w].run] = <<>>]
  /\ diskJournal' = [diskJournal EXCEPT ![req[w].run] = <<>>]
  /\ ForgetLost(req[w].run)
  /\ UNCHANGED <<blobs, debris, diskRuns, diskBlobs, diskStages, ackedRuns>>

(* fs::rename of the stage to runs/r, with an empty journal and no artifact. *)
CreateRename(w) ==
  /\ Advance(w, "create", "created")
  /\ manifest' = [manifest EXCEPT ![req[w].run] = req[w].attempt]
  /\ journal' = [journal EXCEPT ![req[w].run] = <<>>]
  /\ diskJournal' = [diskJournal EXCEPT ![req[w].run] = <<>>]
  /\ ForgetLost(req[w].run)
  /\ UNCHANGED <<blobs, debris, diskRuns, diskBlobs, diskStages, ackedRuns>>

(* Mutant: create_run returns without syncing runs/. *)
MutCreateSync(w) ==
  /\ pc[w] = "created"
  /\ ackedRuns' = ackedRuns \cup {req[w].run}
  /\ Return(w)
  /\ UNCHANGED <<visible, disk, acked, ackedBlobs>>

CreateSync(w) ==
  /\ pc[w] = "created"
  /\ diskRuns' = Exists
  /\ diskStages' = {}
  /\ ackedRuns' = ackedRuns \cup {req[w].run}
  /\ Return(w)
  /\ UNCHANGED <<visible, diskJournal, diskBlobs, acked, ackedBlobs>>

(* A step between mkdir and rename fails: the stage is removed, or          *)
(* remove_dir_all fails too and it stays.                                   *)
CreateFails(w) ==
  /\ pc[w] = "create"
  /\ debris' \in {debris, debris \cup {req[w].run}}
  /\ Return(w)
  /\ UNCHANGED <<manifest, journal, blobs, disk, acks>>

-----------------------------------------------------------------------------
(* put_artifact(run_id, name, input): input has content digest d.           *)

PutStage(w, r, d) ==
  /\ r \in Exists
  /\ d \notin blobs[r]
  /\ Acquire(w, "put", Req(r, None, <<>>, d))
  /\ UNCHANGED <<visible, disk, acks>>

(* The destination exists: it is verified, the temporary file is removed    *)
(* and the call returns Ok without a directory sync.                        *)
PutExisting(w, r, d) ==
  /\ pc[w] = "idle"
  /\ LockFree
  /\ r \in Exists
  /\ d \in blobs[r]
  /\ ackedBlobs' = [ackedBlobs EXCEPT ![r] = @ \cup {d}]
  /\ UNCHANGED <<lock, pc, req, visible, disk, ackedRuns, acked>>

PutRename(w) ==
  /\ Advance(w, "put", "placed")
  /\ blobs' = [blobs EXCEPT ![req[w].run] = @ \cup {req[w].digest}]
  /\ UNCHANGED <<manifest, journal, debris, disk, acks>>

PutSync(w) ==
  LET r == req[w].run IN
  /\ pc[w] = "placed"
  /\ diskBlobs' = [diskBlobs EXCEPT ![r] = blobs[r]]
  /\ ackedBlobs' = [ackedBlobs EXCEPT ![r] = @ \cup {req[w].digest}]
  /\ Return(w)
  /\ UNCHANGED <<visible, diskRuns, diskJournal, diskStages, ackedRuns, acked>>

-----------------------------------------------------------------------------
(* Failures.                                                                *)

(* An I/O error: before the rename the temporary file is removed, after it  *)
(* (sync_dir failed) the new content stays visible and the caller gets Err. *)
CallFails(w) ==
  /\ pc[w] \in {"append", "appended", "created", "put", "placed"}
  /\ Return(w)
  /\ UNCHANGED <<visible, disk, acks>>

(* The process dies inside a call.  The kernel drops its file lock; a stage *)
(* directory stays behind, temporary files are never read again.            *)
Crash(w) ==
  /\ pc[w] # "idle"
  /\ lock' = IF lock = w THEN None ELSE lock
  /\ pc' = [pc EXCEPT ![w] = "idle"]
  /\ req' = [req EXCEPT ![w] = Idle]
  /\ debris' = IF pc[w] = "create" THEN debris \cup {req[w].run} ELSE debris
  /\ UNCHANGED <<manifest, journal, blobs, disk, acks>>

(* Every process dies and the unsynced directory entries may be lost: runs  *)
(* outside diskRuns, and the journal and artifact entries beyond the disk   *)
(* copy.  A stage directory may be found again under its old name.          *)
PowerLossTo(survivors, length, files, stages) ==
  /\ diskRuns \subseteq survivors
  /\ \A r \in survivors :
       /\ length[r] \in Len(diskJournal[r]) .. Len(journal[r])
       /\ diskBlobs[r] \subseteq files[r] /\ files[r] \subseteq blobs[r]
  /\ \A r \in Runs \ survivors : length[r] = 0 /\ files[r] = {}
  /\ lock' = None
  /\ pc' = [w \in Writers |-> "idle"]
  /\ req' = [w \in Writers |-> Idle]
  /\ manifest' = [r \in Runs |-> IF r \in survivors THEN manifest[r] ELSE None]
  /\ journal' = [r \in Runs |-> SubSeq(journal[r], 1, length[r])]
  /\ blobs' = files
  /\ debris' = stages
  /\ diskRuns' = survivors
  /\ diskJournal' = journal'
  /\ diskBlobs' = files
  /\ diskStages' = {}
  /\ UNCHANGED acks

Lengths == UNION {0 .. Len(journal[r]) : r \in Runs}

PowerLoss ==
  \E survivors \in SUBSET Exists, length \in [Runs -> Lengths],
     files \in [Runs -> SUBSET Digests],
     stages \in SUBSET (debris \cup diskStages) :
    PowerLossTo(survivors, length, files, stages)

-----------------------------------------------------------------------------

(* The steps of a call that holds the lock. *)
Proceed(w) ==
  \/ AppendRename(w) \/ AppendSync(w)
  \/ CreateRename(w) \/ CreateSync(w) \/ CreateFails(w)
  \/ PutRename(w) \/ PutSync(w)
  \/ CallFails(w)

Call(w) ==
  \E r \in Runs :
    \/ \E a \in Attempts, n \in Lengths, s \in ExecutionState :
         AppendStage(w, r, a, n, s)
    \/ \E a \in Attempts : CreateStage(w, r, a)
    \/ CreateStageFails(w, r)
    \/ \E d \in Digests : PutStage(w, r, d) \/ PutExisting(w, r, d)

Next ==
  \/ \E w \in Writers : Call(w) \/ Proceed(w) \/ Crash(w)
  \/ PowerLoss

Spec == Init /\ [][Next]_vars

-----------------------------------------------------------------------------

(* The abstract journal this store implements. *)
Promises == INSTANCE JournalSpec
              WITH created <- Exists, kept <- ackedRuns, promised <- acked

(* A run whose create_run returned Ok, and every event appended to it with  *)
(* Ok, outlive crashes, power losses, failed syncs and other writers: both  *)
(* calls return Ok only after the rename and a directory sync.  A run whose *)
(* create_run failed in its last sync_dir is visible but not yet safe, and  *)
(* append syncs only the run's own directory: such a run keeps its          *)
(* acknowledged events as long as it is there, and may be lost with them.   *)
AckedSurvive == Promises!PromisesHold

(* decode_journal re-validates every transition when a journal is read;     *)
(* what append wrote, also as a power loss left it, always passes.          *)
JournalsDecode == Promises!JournalsAreLifecycles

(* "Refuse duplicate execution when the last durable state is uncertain":   *)
(* once an append of Running was acknowledged, recovery_decision never      *)
(* again answers that the run may be started or resumed.                    *)
NoSecondStart ==
  \A r \in ackedRuns :
    "Running" \in ToSet(acked[r]) =>
      RecoveryDecision(LastState(journal[r])) \in
        {"NeedsReconciliation", "Terminal"}

(* A run whose terminal event was acknowledged keeps its journal for good,  *)
(* whoever appends to it and whatever is lost.                              *)
TerminalIsFinal ==
  [][\A r \in ackedRuns :
       LastState(acked[r]) \in TerminalState => journal'[r] = journal[r]]_vars

(* The store implements the journal its callers rely on.                    *)
ImplementsJournal == Promises!Spec

(* run_ids: "List durable run identities in lexical order for restart       *)
(* rehydration".  It lists every directory of runs/, and a restart loads    *)
(* each one; a stage directory is not a run and fails to load.              *)
RunIds ==
  {<<"run", r>> : r \in Exists} \cup {<<"stage", r>> : r \in debris}

ListedRunsLoad == LockFree => \A id \in RunIds : id[1] = "run"

=============================================================================
