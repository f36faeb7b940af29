------------------------- MODULE AtomicStoreProofs -------------------------
(***************************************************************************)
(* AtomicStore is correct for every set of writers, runs, attempts and     *)
(* digests: acknowledged data survives, journals decode, no second start,  *)
(* and the store implements JournalSpec, which keeps its own promises.     *)
(***************************************************************************)
EXTENDS AtomicStore, LifecycleProofs

(* The file lock admits one call at a time. *)
OneCall == \A w \in Writers : pc[w] # "idle" => lock = w

(* What a call has staged still fits the files it is about to replace,      *)
(* because nobody else got the lock since it looked at them.                *)
Staged(w) ==
  LET r == req[w].run IN
  /\ pc[w] # "idle" => r \in Runs
  /\ pc[w] = "append" =>
       /\ r \in Exists
       /\ \E s \in ExecutionState :
            /\ ValidTransition(LastState(journal[r]), s)
            /\ req[w].events = Append(journal[r], s)
  /\ pc[w] = "appended" => r \in Exists /\ req[w].events = journal[r]
  /\ pc[w] = "create" => r \notin Exists /\ req[w].attempt \in Attempts
  /\ pc[w] = "created" => r \in Exists
  /\ pc[w] \in {"put", "placed"} => req[w].digest \in Digests

(* What was acknowledged of a run that is there is on disk, disk content is *)
(* visible, and the name of a run that does not exist is blank.             *)
Durable ==
  /\ ackedRuns \subseteq diskRuns
  /\ diskRuns \subseteq Exists
  /\ \A r \in Exists : IsPrefix(acked[r], diskJournal[r])
  /\ \A r \in Runs : IsPrefix(diskJournal[r], journal[r])
  /\ \A r \in Runs \ Exists : journal[r] = <<>>

(* Planned, Prepared and Running are the first, second and third event of a *)
(* journal and occur nowhere else.                                          *)
Shape(j) ==
  \A i \in 1 .. Len(j) :
    /\ i = 1 <=> j[i] = "Planned"
    /\ i = 2 <=> j[i] = "Prepared"
    /\ i = 3 <=> j[i] = "Running"

Shapes == \A r \in Runs : IsLifecycle(journal[r]) /\ Shape(journal[r])

IInv ==
  /\ TypeOK
  /\ OneCall
  /\ \A w \in Writers : Staged(w)
  /\ Durable
  /\ Shapes

-----------------------------------------------------------------------------
(* Journals.                                                                *)

(* The position n of an event l fixes whether its successor s is early. *)
LEMMA ShapeStep ==
  ASSUME NEW n \in Nat, n # 0, NEW l \in ExecutionState, NEW s,
         n = 1 <=> l = "Planned",
         n = 2 <=> l = "Prepared",
         n = 3 <=> l = "Running",
         ValidTransition(l, s)
  PROVE  /\ n + 1 = 1 <=> s = "Planned"
         /\ n + 1 = 2 <=> s = "Prepared"
         /\ n + 1 = 3 <=> s = "Running"
<1>1. CASE n = 1
  BY <1>1 DEF ValidTransition, NoState
<1>2. CASE n = 2
  BY <1>2 DEF ValidTransition, NoState
<1>3. CASE n > 2
  <2>1. l \notin {"Planned", "Prepared", NoState}
    BY <1>3 DEF NoState, ExecutionState, TerminalState
  <2>2. s \notin {"Planned", "Prepared", "Running"}
    BY <2>1 DEF ValidTransition
  <2> QED
    BY <1>3, <2>2
<1> QED
  BY <1>1, <1>2, <1>3

LEMMA ShapeAppend ==
  ASSUME NEW j \in Seq(ExecutionState), NEW s \in ExecutionState,
         Shape(j), ValidTransition(LastState(j), s)
  PROVE  Shape(Append(j, s))
<1>1. /\ Len(Append(j, s)) = Len(j) + 1
      /\ Append(j, s)[Len(j) + 1] = s
      /\ \A i \in 1 .. Len(j) : Append(j, s)[i] = j[i]
  BY SMT
<1>2. Len(j) \in Nat /\ (j = <<>> <=> Len(j) = 0)
  BY SMT
<1>3. ASSUME NEW i \in 1 .. Len(j) + 1
      PROVE  /\ i = 1 <=> Append(j, s)[i] = "Planned"
             /\ i = 2 <=> Append(j, s)[i] = "Prepared"
             /\ i = 3 <=> Append(j, s)[i] = "Running"
  <2>1. CASE i \in 1 .. Len(j)
    BY <1>1, <2>1 DEF Shape
  <2>2. CASE i = Len(j) + 1 /\ Len(j) = 0
    BY <1>1, <1>2, <2>2 DEF LastState, ValidTransition, NoState
  <2>3. CASE i = Len(j) + 1 /\ Len(j) # 0
    <3>1. /\ Len(j) \in 1 .. Len(j)
          /\ LastState(j) = j[Len(j)]
          /\ j[Len(j)] \in ExecutionState
      BY <1>2, <2>3 DEF LastState
    <3>2. /\ Len(j) = 1 <=> j[Len(j)] = "Planned"
          /\ Len(j) = 2 <=> j[Len(j)] = "Prepared"
          /\ Len(j) = 3 <=> j[Len(j)] = "Running"
      BY <3>1 DEF Shape
    <3>3. /\ Len(j) + 1 = 1 <=> s = "Planned"
          /\ Len(j) + 1 = 2 <=> s = "Prepared"
          /\ Len(j) + 1 = 3 <=> s = "Running"
      BY <1>2, <2>3, <3>1, <3>2, ShapeStep
    <3> QED
      BY <1>1, <2>3, <3>3
  <2> QED
    BY <1>2, <1>3, <2>1, <2>2, <2>3
<1> QED
  BY <1>1, <1>3 DEF Shape

LEMMA ShapeCut ==
  ASSUME NEW j \in Seq(ExecutionState), NEW n \in 0 .. Len(j), Shape(j)
  PROVE  Shape(SubSeq(j, 1, n))
BY CutPointwise DEF Shape

-----------------------------------------------------------------------------
(* The lock.                                                                *)

LEMMA FreeMeansIdle ==
  ASSUME IInv, LockFree
  PROVE  \A w \in Writers : pc[w] = "idle"
BY NoneAssumption DEF IInv, OneCall, LockFree

LEMMA HeldAlone ==
  ASSUME IInv, NEW w \in Writers, pc[w] # "idle"
  PROVE  \A v \in Writers : v # w => pc[v] = "idle"
BY DEF IInv, OneCall

(* After a return no call is in progress. *)
LEMMA ReturnIdle ==
  ASSUME IInv, NEW w \in Writers, pc[w] # "idle", Return(w)
  PROVE  /\ lock' = None
         /\ pc' \in [Writers -> Steps]
         /\ req' \in [Writers -> Request]
         /\ \A v \in Writers : pc'[v] = "idle"
         /\ OneCall'
         /\ \A v \in Writers : Staged(v)'
<1>1. pc \in [Writers -> Steps] /\ req \in [Writers -> Request]
  BY DEF IInv, TypeOK
<1>2. Idle \in Request
  BY DEF Idle, Req, Request
<1>3. pc' \in [Writers -> Steps] /\ req' \in [Writers -> Request]
  BY <1>1, <1>2 DEF Return, Steps
<1>4. \A v \in Writers : pc'[v] = "idle"
  BY <1>1, HeldAlone DEF Return
<1>5. OneCall'
  BY <1>4 DEF OneCall
<1>6. \A v \in Writers : Staged(v)'
  BY <1>4 DEF Staged
<1> QED
  BY <1>3, <1>4, <1>5, <1>6 DEF Return

(* After an acquisition only the acquiring call is in progress. *)
LEMMA AcquireAlone ==
  ASSUME IInv, NEW w \in Writers, NEW step \in Steps, NEW q \in Request,
         Acquire(w, step, q)
  PROVE  /\ lock' \in Writers \cup {None}
         /\ pc' \in [Writers -> Steps]
         /\ req' \in [Writers -> Request]
         /\ pc'[w] = step /\ req'[w] = q
         /\ \A v \in Writers : v # w => pc'[v] = "idle"
         /\ OneCall'
<1>1. pc \in [Writers -> Steps] /\ req \in [Writers -> Request]
  BY DEF IInv, TypeOK
<1>2. \A v \in Writers : pc[v] = "idle"
  BY FreeMeansIdle DEF Acquire
<1>3. /\ pc' \in [Writers -> Steps]
      /\ req' \in [Writers -> Request]
      /\ pc'[w] = step /\ req'[w] = q
  BY <1>1 DEF Acquire
<1>4. \A v \in Writers : v # w => pc'[v] = "idle"
  BY <1>1, <1>2 DEF Acquire
<1>5. OneCall'
  BY <1>4 DEF OneCall, Acquire
<1> QED
  BY <1>3, <1>4, <1>5 DEF Acquire

LEMMA AdvanceAlone ==
  ASSUME IInv, NEW w \in Writers, NEW from \in Steps \ {"idle"},
         NEW to \in Steps, Advance(w, from, to)
  PROVE  /\ pc' \in [Writers -> Steps]
         /\ pc'[w] = to /\ req' = req /\ lock' = lock
         /\ \A v \in Writers : v # w => pc'[v] = "idle"
         /\ OneCall'
<1>1. pc \in [Writers -> Steps] /\ pc[w] # "idle"
  BY DEF IInv, TypeOK, Advance
<1>2. pc' \in [Writers -> Steps] /\ pc'[w] = to /\ req' = req /\ lock' = lock
  BY <1>1 DEF Advance
<1>3. \A v \in Writers : v # w => pc'[v] = "idle"
  BY <1>1, HeldAlone DEF Advance
<1>4. OneCall'
  BY <1>1, <1>2, <1>3 DEF OneCall, IInv
<1> QED
  BY <1>2, <1>3, <1>4

-----------------------------------------------------------------------------
(* Every action keeps the inductive invariant.                              *)

LEMMA InitInv == Init => IInv
<1> SUFFICES ASSUME Init PROVE IInv
  OBVIOUS
<1>1. Idle \in Request
  BY DEF Idle, Req, Request
<1>2. TypeOK
  BY <1>1 DEF Init, TypeOK, Steps
<1>3. OneCall /\ \A w \in Writers : Staged(w)
  BY DEF Init, OneCall, Staged
<1>4. Exists = {} /\ \A r \in Runs : journal[r] = <<>>
  BY DEF Init, Exists
<1>5. <<>> \in Seq(ExecutionState)
  OBVIOUS
<1>6. IsPrefix(<<>>, <<>>)
  BY <1>5, PrefixEmpty
<1>7. Durable
  BY <1>4, <1>6 DEF Init, Durable
<1>8. Shapes
  BY <1>4 DEF Shapes, IsLifecycle, Shape
<1> QED
  BY <1>2, <1>3, <1>7, <1>8 DEF IInv

LEMMA AppendStageInv ==
  ASSUME IInv, NEW w \in Writers, NEW r \in Runs, NEW a \in Attempts,
         NEW n \in Lengths, NEW s \in ExecutionState, AppendStage(w, r, a, n, s)
  PROVE  IInv'
<1> DEFINE q == Req(r, None, Append(journal[r], s), None)
<1>1. Append(journal[r], s) \in Seq(ExecutionState)
  BY DEF IInv, TypeOK
<1>2. q \in Request /\ q.run = r /\ q.events = Append(journal[r], s)
  BY <1>1 DEF Req, Request
<1>3. Acquire(w, "append", q) /\ "append" \in Steps
  BY DEF AppendStage, Steps
<1> HIDE DEF q
<1>4. /\ lock' \in Writers \cup {None}
      /\ pc' \in [Writers -> Steps]
      /\ req' \in [Writers -> Request]
      /\ pc'[w] = "append" /\ req'[w] = q
      /\ \A v \in Writers : v # w => pc'[v] = "idle"
      /\ OneCall'
  BY <1>2, <1>3, AcquireAlone
<1>5. TypeOK'
  BY <1>4 DEF IInv, TypeOK, AppendStage, visible, disk, acks
<1>6. UNCHANGED <<journal, manifest>> /\ Exists' = Exists
  BY DEF AppendStage, visible, Exists
<1>7. Staged(w)'
  <2>1. r \in Exists /\ ValidTransition(LastState(journal[r]), s)
    BY DEF AppendStage
  <2> QED
    BY <1>2, <1>4, <1>6, <2>1 DEF Staged
<1>8. \A v \in Writers : Staged(v)'
  BY <1>4, <1>7 DEF Staged
<1>9. Durable' /\ Shapes'
  BY <1>6 DEF IInv, Durable, Shapes, AppendStage, visible, disk, acks
<1> QED
  BY <1>4, <1>5, <1>8, <1>9 DEF IInv

LEMMA AppendRenameInv ==
  ASSUME IInv, NEW w \in Writers, AppendRename(w)
  PROVE  IInv'
<1> DEFINE r == req[w].run
<1>1. /\ pc' \in [Writers -> Steps]
      /\ pc'[w] = "appended" /\ req' = req /\ lock' = lock
      /\ \A v \in Writers : v # w => pc'[v] = "idle"
      /\ OneCall'
  BY AdvanceAlone DEF AppendRename, Steps
<1>2. pc[w] = "append"
  BY DEF AppendRename, Advance
<1>3. Staged(w) /\ TypeOK /\ Durable /\ Shapes
  BY DEF IInv
<1>4. r \in Runs /\ r \in Exists
  BY <1>2, <1>3 DEF Staged
<1>5. PICK s \in ExecutionState :
        /\ ValidTransition(LastState(journal[r]), s)
        /\ req[w].events = Append(journal[r], s)
  BY <1>2, <1>3 DEF Staged
<1>6. journal \in [Runs -> Seq(ExecutionState)] /\ journal[r] \in Seq(ExecutionState)
  BY <1>3, <1>4 DEF TypeOK
<1>7. /\ journal' \in [Runs -> Seq(ExecutionState)]
      /\ journal'[r] = Append(journal[r], s)
      /\ \A x \in Runs : x # r => journal'[x] = journal[x]
  BY <1>4, <1>5, <1>6 DEF AppendRename
<1>8. manifest' = manifest /\ Exists' = Exists
  BY DEF AppendRename, Exists
<1>9. TypeOK'
  BY <1>1, <1>3, <1>7 DEF TypeOK, AppendRename, disk, acks
<1>10. \A v \in Writers : Staged(v)'
  <2>1. Staged(w)'
    BY <1>1, <1>4, <1>5, <1>7, <1>8 DEF Staged
  <2> QED
    BY <1>1, <2>1 DEF Staged
<1>11. Durable'
  <2>1. diskJournal[r] \in Seq(ExecutionState) /\ IsPrefix(diskJournal[r], journal[r])
    BY <1>3, <1>4 DEF TypeOK, Durable
  <2>2. IsPrefix(diskJournal[r], journal'[r])
    BY <1>6, <1>7, <2>1, PrefixAppend
  <2>3. \A x \in Runs : IsPrefix(diskJournal[x], journal'[x])
    BY <1>3, <1>7, <2>2 DEF Durable
  <2>4. UNCHANGED <<diskRuns, diskJournal, ackedRuns, acked>>
    BY DEF AppendRename, disk, acks
  <2> QED
    BY <1>3, <1>4, <1>7, <1>8, <2>3, <2>4 DEF Durable
<1>12. Shapes'
  <2>1. IsLifecycle(journal'[r]) /\ Shape(journal'[r])
    BY <1>3, <1>4, <1>5, <1>6, <1>7, LifecycleAppend, ShapeAppend DEF Shapes
  <2> QED
    BY <1>3, <1>7, <2>1 DEF Shapes
<1> QED
  BY <1>1, <1>9, <1>10, <1>11, <1>12 DEF IInv

LEMMA AppendSyncInv ==
  ASSUME IInv, NEW w \in Writers, AppendSync(w)
  PROVE  IInv'
<1> DEFINE r == req[w].run
<1>1. pc[w] = "appended" /\ Return(w)
  BY DEF AppendSync
<1>2. Staged(w) /\ TypeOK /\ Durable /\ Shapes
  BY DEF IInv
<1>3. r \in Runs /\ req[w].events = journal[r]
  BY <1>1, <1>2 DEF Staged
<1>4. /\ lock' = None
      /\ pc' \in [Writers -> Steps]
      /\ req' \in [Writers -> Request]
      /\ OneCall'
      /\ \A v \in Writers : Staged(v)'
  BY <1>1, ReturnIdle
<1>5. journal[r] \in Seq(ExecutionState)
  BY <1>2, <1>3 DEF TypeOK
<1>6. UNCHANGED <<manifest, journal>> /\ Exists' = Exists
  BY DEF AppendSync, visible, Exists
<1>7. /\ diskJournal'[r] = journal[r] /\ acked'[r] = journal[r]
      /\ \A x \in Runs : x # r => /\ diskJournal'[x] = diskJournal[x]
                                  /\ acked'[x] = acked[x]
  BY <1>2, <1>3 DEF TypeOK, AppendSync
<1>8. TypeOK'
  BY <1>2, <1>3, <1>4, <1>5 DEF TypeOK, AppendSync, visible
<1>9. Durable'
  <2>1. IsPrefix(journal[r], journal[r])
    BY <1>5, PrefixReflexive
  <2>2. UNCHANGED <<diskRuns, ackedRuns>>
    BY DEF AppendSync
  <2> QED
    BY <1>2, <1>6, <1>7, <2>1, <2>2 DEF Durable, Exists
<1>10. Shapes'
  BY <1>2, <1>6 DEF Shapes
<1> QED
  BY <1>4, <1>8, <1>9, <1>10 DEF IInv

LEMMA CreateStageInv ==
  ASSUME IInv, NEW w \in Writers, NEW r \in Runs, NEW a \in Attempts,
         CreateStage(w, r, a)
  PROVE  IInv'
<1> DEFINE q == Req(r, a, <<>>, None)
<1>1. q \in Request /\ q.run = r /\ q.attempt = a
  BY DEF Req, Request
<1>2. Acquire(w, "create", q) /\ "create" \in Steps
  BY DEF CreateStage, Steps
<1> HIDE DEF q
<1>3. /\ lock' \in Writers \cup {None}
      /\ pc' \in [Writers -> Steps]
      /\ req' \in [Writers -> Request]
      /\ pc'[w] = "create" /\ req'[w] = q
      /\ \A v \in Writers : v # w => pc'[v] = "idle"
      /\ OneCall'
  BY <1>1, <1>2, AcquireAlone
<1>4. UNCHANGED <<journal, manifest>> /\ Exists' = Exists /\ Exists \subseteq Runs
  BY DEF CreateStage, visible, Exists
<1>5. TypeOK'
  BY <1>3, <1>4 DEF IInv, TypeOK, CreateStage, visible, acks
<1>6. \A v \in Writers : Staged(v)'
  <2>1. Staged(w)'
    BY <1>1, <1>3, <1>4 DEF Staged, CreateStage
  <2> QED
    BY <1>3, <2>1 DEF Staged
<1>7. Durable' /\ Shapes'
  BY <1>4 DEF IInv, Durable, Shapes, CreateStage, acks
<1> QED
  BY <1>3, <1>5, <1>6, <1>7 DEF IInv

LEMMA CreateRenameInv ==
  ASSUME IInv, NEW w \in Writers, CreateRename(w)
  PROVE  IInv'
<1> DEFINE r == req[w].run
<1>1. /\ pc' \in [Writers -> Steps]
      /\ pc'[w] = "created" /\ req' = req /\ lock' = lock
      /\ \A v \in Writers : v # w => pc'[v] = "idle"
      /\ OneCall'
  BY AdvanceAlone DEF CreateRename, Steps
<1>2. pc[w] = "create"
  BY DEF CreateRename, Advance
<1>3. Staged(w) /\ TypeOK /\ Durable /\ Shapes
  BY DEF IInv
<1>4. r \in Runs /\ r \notin Exists /\ req[w].attempt \in Attempts
  BY <1>2, <1>3 DEF Staged
<1>5. <<>> \in Seq(ExecutionState)
  OBVIOUS
<1>5a. /\ acked' = [acked EXCEPT ![r] = <<>>]
       /\ ackedBlobs' = [ackedBlobs EXCEPT ![r] = {}]
  <2>1. r \notin ackedRuns
    BY <1>3, <1>4 DEF Durable
  <2> QED
    BY <2>1 DEF CreateRename, ForgetLost
<1>6. journal[r] = <<>>
  BY <1>3, <1>4 DEF Durable
<1>7. journal' = journal
  BY <1>3, <1>4, <1>6 DEF TypeOK, CreateRename
<1>8. diskJournal[r] = <<>>
  <2>1. /\ diskJournal[r] \in Seq(ExecutionState)
        /\ IsPrefix(diskJournal[r], <<>>)
    BY <1>3, <1>4, <1>6 DEF Durable, TypeOK
  <2>2. Len(diskJournal[r]) <= Len(<<>>)
    BY <2>1 DEF IsPrefix
  <2> QED
    BY <2>1, <2>2
<1>9. diskJournal' = diskJournal
  BY <1>3, <1>4, <1>8 DEF TypeOK, CreateRename
<1>10. /\ manifest' \in [Runs -> Attempts \cup {None}]
       /\ manifest'[r] = req[w].attempt
       /\ \A x \in Runs : x # r => manifest'[x] = manifest[x]
  BY <1>3, <1>4 DEF TypeOK, CreateRename
<1>11. Exists' = Exists \cup {r}
  BY <1>4, <1>10, NoneAssumption DEF Exists
<1>12. TypeOK'
  BY <1>1, <1>3, <1>4, <1>5, <1>7, <1>9, <1>10, <1>5a DEF TypeOK, CreateRename
<1>13. \A v \in Writers : Staged(v)'
  <2>1. Staged(w)'
    BY <1>1, <1>4, <1>11 DEF Staged
  <2> QED
    BY <1>1, <2>1 DEF Staged
<1>14. Durable'
  <2>1. acked'[r] = <<>> /\ \A x \in Runs : x # r => acked'[x] = acked[x]
    BY <1>3, <1>4, <1>5a DEF TypeOK
  <2>2. IsPrefix(acked'[r], diskJournal'[r])
    BY <1>5, <1>8, <1>9, <2>1, PrefixEmpty
  <2>3. Exists \subseteq Runs
    BY DEF Exists
  <2>4. \A x \in Exists' : IsPrefix(acked'[x], diskJournal'[x])
    BY <1>3, <1>9, <1>11, <2>1, <2>2, <2>3 DEF Durable
  <2>5. UNCHANGED <<diskRuns, ackedRuns>>
    BY DEF CreateRename
  <2> QED
    BY <1>3, <1>7, <1>9, <1>11, <2>4, <2>5 DEF Durable
<1>15. Shapes'
  BY <1>3, <1>7 DEF Shapes
<1> QED
  BY <1>1, <1>12, <1>13, <1>14, <1>15 DEF IInv

LEMMA CreateSyncInv ==
  ASSUME IInv, NEW w \in Writers, CreateSync(w)
  PROVE  IInv'
<1>1. pc[w] = "created" /\ Return(w)
  BY DEF CreateSync
<1>2. Staged(w) /\ TypeOK /\ Durable /\ Shapes
  BY DEF IInv
<1>3. req[w].run \in Runs /\ req[w].run \in Exists
  BY <1>1, <1>2 DEF Staged
<1>4. /\ lock' = None
      /\ pc' \in [Writers -> Steps]
      /\ req' \in [Writers -> Request]
      /\ OneCall'
      /\ \A v \in Writers : Staged(v)'
  BY <1>1, ReturnIdle
<1>5. UNCHANGED <<manifest, journal>> /\ Exists' = Exists /\ Exists \subseteq Runs
  BY DEF CreateSync, visible, Exists
<1>6. TypeOK'
  BY <1>2, <1>3, <1>4, <1>5 DEF TypeOK, CreateSync, visible
<1>7. Durable' /\ Shapes'
  BY <1>2, <1>3, <1>5 DEF Durable, Shapes, CreateSync
<1> QED
  BY <1>4, <1>6, <1>7 DEF IInv

(* The calls that return without having changed a journal or a manifest.    *)
LEMMA FailureInv ==
  ASSUME IInv, NEW w \in Writers, CreateFails(w) \/ CallFails(w) \/ PutSync(w)
  PROVE  IInv'
<1>1. pc[w] # "idle" /\ Return(w)
  BY DEF CreateFails, CallFails, PutSync
<1>2. Staged(w) /\ TypeOK /\ Durable /\ Shapes
  BY DEF IInv
<1>3. /\ lock' = None
      /\ pc' \in [Writers -> Steps]
      /\ req' \in [Writers -> Request]
      /\ OneCall'
      /\ \A v \in Writers : Staged(v)'
  BY <1>1, ReturnIdle
<1>4. UNCHANGED <<manifest, journal, blobs, diskRuns, diskJournal, diskStages, ackedRuns, acked>>
  BY DEF CreateFails, CallFails, PutSync, visible, disk, acks
<1>5. debris' \in SUBSET Runs
  BY <1>1, <1>2 DEF CreateFails, CallFails, PutSync, visible, Staged, TypeOK
<1>6. diskBlobs' \in [Runs -> SUBSET Digests] /\ ackedBlobs' \in [Runs -> SUBSET Digests]
  <2>1. CASE CreateFails(w) \/ CallFails(w)
    BY <1>2, <2>1 DEF CreateFails, CallFails, disk, acks, TypeOK
  <2>2. CASE PutSync(w)
    <3>1. /\ req[w].run \in Runs /\ req[w].digest \in Digests
          /\ blobs \in [Runs -> SUBSET Digests]
          /\ diskBlobs \in [Runs -> SUBSET Digests]
          /\ ackedBlobs \in [Runs -> SUBSET Digests]
      BY <1>2, <2>2 DEF PutSync, Staged, TypeOK
    <3> QED
      BY <2>2, <3>1 DEF PutSync
  <2> QED
    BY <2>1, <2>2
<1>7. TypeOK'
  BY <1>2, <1>3, <1>4, <1>5, <1>6 DEF TypeOK
<1>8. Exists' = Exists
  BY <1>4 DEF Exists
<1>9. Durable' /\ Shapes'
  BY <1>2, <1>4, <1>8 DEF Durable, Shapes
<1> QED
  BY <1>3, <1>7, <1>9 DEF IInv

LEMMA PutStageInv ==
  ASSUME IInv, NEW w \in Writers, NEW r \in Runs, NEW d \in Digests,
         PutStage(w, r, d)
  PROVE  IInv'
<1> DEFINE q == Req(r, None, <<>>, d)
<1>1. q \in Request /\ q.run = r /\ q.digest = d
  BY DEF Req, Request
<1>2. Acquire(w, "put", q) /\ "put" \in Steps
  BY DEF PutStage, Steps
<1> HIDE DEF q
<1>3. /\ lock' \in Writers \cup {None}
      /\ pc' \in [Writers -> Steps]
      /\ req' \in [Writers -> Request]
      /\ pc'[w] = "put" /\ req'[w] = q
      /\ \A v \in Writers : v # w => pc'[v] = "idle"
      /\ OneCall'
  BY <1>1, <1>2, AcquireAlone
<1>4. Exists' = Exists
  BY DEF PutStage, visible, Exists
<1>5. TypeOK'
  BY <1>3 DEF IInv, TypeOK, PutStage, visible, disk, acks
<1>6. \A v \in Writers : Staged(v)'
  <2>1. Staged(w)'
    BY <1>1, <1>3, <1>4 DEF Staged
  <2> QED
    BY <1>3, <2>1 DEF Staged
<1>7. Durable' /\ Shapes'
  BY <1>4 DEF IInv, Durable, Shapes, PutStage, visible, disk, acks
<1> QED
  BY <1>3, <1>5, <1>6, <1>7 DEF IInv

LEMMA PutRenameInv ==
  ASSUME IInv, NEW w \in Writers, PutRename(w)
  PROVE  IInv'
<1>1. /\ pc' \in [Writers -> Steps]
      /\ pc'[w] = "placed" /\ req' = req /\ lock' = lock
      /\ \A v \in Writers : v # w => pc'[v] = "idle"
      /\ OneCall'
  BY AdvanceAlone DEF PutRename, Steps
<1>2. pc[w] = "put"
  BY DEF PutRename, Advance
<1>3. Staged(w) /\ TypeOK /\ Durable /\ Shapes
  BY DEF IInv
<1>4. req[w].run \in Runs /\ req[w].digest \in Digests
  BY <1>2, <1>3 DEF Staged
<1>5. Exists' = Exists
  BY DEF PutRename, Exists
<1>6. TypeOK'
  BY <1>1, <1>3, <1>4 DEF TypeOK, PutRename, disk, acks
<1>7. \A v \in Writers : Staged(v)'
  <2>1. Staged(w)'
    BY <1>1, <1>4 DEF Staged
  <2> QED
    BY <1>1, <2>1 DEF Staged
<1>8. Durable' /\ Shapes'
  BY <1>3, <1>5 DEF Durable, Shapes, PutRename, disk, acks
<1> QED
  BY <1>1, <1>6, <1>7, <1>8 DEF IInv

(* The atomic calls that change neither a call in progress nor a journal.   *)
LEMMA OneStepInv ==
  ASSUME IInv, NEW w \in Writers, NEW r \in Runs,
         CreateStageFails(w, r) \/ \E d \in Digests : PutExisting(w, r, d)
  PROVE  IInv'
<1>1. UNCHANGED <<lock, pc, req, manifest, journal, blobs, disk, ackedRuns, acked>>
  BY DEF CreateStageFails, PutExisting, visible, acks
<1>2. debris' \in SUBSET Runs /\ ackedBlobs' \in [Runs -> SUBSET Digests]
  <2>1. TypeOK
    BY DEF IInv
  <2>2. CASE CreateStageFails(w, r)
    BY <2>1, <2>2 DEF CreateStageFails, acks, TypeOK
  <2>3. ASSUME NEW d \in Digests, PutExisting(w, r, d)
        PROVE  debris' \in SUBSET Runs /\ ackedBlobs' \in [Runs -> SUBSET Digests]
    BY <2>1, <2>3 DEF PutExisting, visible, TypeOK
  <2> QED
    BY <2>2, <2>3
<1>3. TypeOK'
  BY <1>1, <1>2 DEF IInv, TypeOK, disk
<1>4. Exists' = Exists
  BY <1>1 DEF Exists
<1>5. OneCall' /\ \A v \in Writers : Staged(v)'
  BY <1>1, <1>4 DEF IInv, OneCall, Staged
<1>6. Durable' /\ Shapes'
  BY <1>1, <1>4 DEF IInv, Durable, Shapes, disk
<1> QED
  BY <1>3, <1>5, <1>6 DEF IInv

LEMMA CrashInv ==
  ASSUME IInv, NEW w \in Writers, Crash(w)
  PROVE  IInv'
<1>1. pc[w] # "idle" /\ lock = w
  BY DEF Crash, IInv, OneCall
<1>2. Return(w)
  BY <1>1 DEF Crash, Return
<1>3. Staged(w) /\ TypeOK /\ Durable /\ Shapes
  BY DEF IInv
<1>4. /\ lock' = None
      /\ pc' \in [Writers -> Steps]
      /\ req' \in [Writers -> Request]
      /\ OneCall'
      /\ \A v \in Writers : Staged(v)'
  BY <1>1, <1>2, ReturnIdle
<1>5. debris' \in SUBSET Runs
  BY <1>1, <1>3 DEF Crash, Staged, TypeOK
<1>6. Exists' = Exists
  BY DEF Crash, Exists
<1>7. TypeOK'
  BY <1>3, <1>4, <1>5 DEF TypeOK, Crash, disk, acks
<1>8. Durable' /\ Shapes'
  BY <1>3, <1>6 DEF Durable, Shapes, Crash, disk, acks
<1> QED
  BY <1>4, <1>7, <1>8 DEF IInv

LEMMA PowerLossInv ==
  ASSUME IInv, PowerLoss
  PROVE  IInv'
<1>1. PICK survivors \in SUBSET Exists, length \in [Runs -> Lengths],
           files \in [Runs -> SUBSET Digests],
           stages \in SUBSET (debris \cup diskStages) :
        PowerLossTo(survivors, length, files, stages)
  BY DEF PowerLoss
<1>2. TypeOK /\ Durable /\ Shapes
  BY DEF IInv
<1>3. Exists \subseteq Runs
  BY DEF Exists
<1>4. \A r \in Runs :
        /\ journal[r] \in Seq(ExecutionState)
        /\ diskJournal[r] \in Seq(ExecutionState)
        /\ acked[r] \in Seq(ExecutionState)
  BY <1>2 DEF TypeOK
<1>5. \A r \in Runs : length[r] \in 0 .. Len(journal[r])
  <2> SUFFICES ASSUME NEW r \in Runs PROVE length[r] \in 0 .. Len(journal[r])
    OBVIOUS
  <2>1. Len(journal[r]) \in Nat /\ Len(diskJournal[r]) \in Nat
    BY <1>4
  <2> QED
    BY <1>1, <2>1 DEF PowerLossTo
<1>6. \A r \in Runs : journal'[r] = SubSeq(journal[r], 1, length[r])
  BY <1>1 DEF PowerLossTo
<1>7. \A r \in Runs : journal'[r] \in Seq(ExecutionState)
  <2> SUFFICES ASSUME NEW r \in Runs PROVE journal'[r] \in Seq(ExecutionState)
    OBVIOUS
  <2>1. /\ journal[r] \in Seq(ExecutionState) /\ length[r] \in 0 .. Len(journal[r])
        /\ journal'[r] = SubSeq(journal[r], 1, length[r])
    BY <1>4, <1>5, <1>6
  <2> QED
    BY <2>1, CutPointwise
<1>8. \A v \in Writers : pc'[v] = "idle"
  BY <1>1 DEF PowerLossTo
<1>9. OneCall' /\ \A v \in Writers : Staged(v)'
  BY <1>8 DEF OneCall, Staged
<1>10. /\ \A r \in survivors : manifest'[r] = manifest[r]
       /\ \A r \in Runs \ survivors : manifest'[r] = None
  BY <1>1, <1>3 DEF PowerLossTo
<1>11. Exists' = survivors
  BY <1>1, <1>3, <1>10 DEF Exists
<1>12. TypeOK'
  <2>1. Idle \in Request /\ "idle" \in Steps
    BY DEF Idle, Req, Request, Steps
  <2>2. lock' = None /\ pc' \in [Writers -> Steps] /\ req' \in [Writers -> Request]
    BY <1>1, <2>1 DEF PowerLossTo
  <2>3. manifest' \in [Runs -> Attempts \cup {None}]
    BY <1>1, <1>2 DEF PowerLossTo, TypeOK
  <2>4. /\ journal' \in [Runs -> Seq(ExecutionState)]
        /\ diskJournal' \in [Runs -> Seq(ExecutionState)]
    BY <1>1, <1>6, <1>7 DEF PowerLossTo
  <2>5. UNCHANGED <<ackedRuns, acked, ackedBlobs>>
    BY <1>1 DEF PowerLossTo, acks
  <2>6. /\ debris' \in SUBSET Runs /\ diskRuns' \in SUBSET Runs
        /\ diskStages' \in SUBSET Runs
        /\ blobs' \in [Runs -> SUBSET Digests]
        /\ diskBlobs' \in [Runs -> SUBSET Digests]
    BY <1>1, <1>2, <1>3 DEF PowerLossTo, TypeOK
  <2> QED
    BY <1>2, <2>2, <2>3, <2>4, <2>5, <2>6 DEF TypeOK
<1>13. Durable'
  <2>1. ASSUME NEW r \in survivors
        PROVE  IsPrefix(acked[r], SubSeq(journal[r], 1, length[r]))
    <3>1. r \in Runs
      BY <1>3
    <3>2. IsPrefix(acked[r], diskJournal[r]) /\ IsPrefix(diskJournal[r], journal[r])
      BY <1>1, <1>2, <3>1 DEF Durable
    <3>3. length[r] \in Len(diskJournal[r]) .. Len(journal[r])
      BY <1>1 DEF PowerLossTo
    <3>4. IsPrefix(diskJournal[r], SubSeq(journal[r], 1, length[r]))
      BY <1>4, <3>1, <3>2, <3>3, PrefixCut
    <3> QED
      BY <1>4, <1>6, <1>7, <3>1, <3>2, <3>4, PrefixTransitive
  <2>2. UNCHANGED <<ackedRuns, acked>>
    BY <1>1 DEF PowerLossTo, acks
  <2>3. \A r \in Runs : diskJournal'[r] = journal'[r]
    BY <1>1 DEF PowerLossTo
  <2>4. \A r \in survivors : IsPrefix(acked'[r], diskJournal'[r])
    BY <1>1, <1>3, <1>6, <2>1, <2>2, <2>3
  <2>5. \A r \in Runs : IsPrefix(diskJournal'[r], journal'[r])
    BY <1>7, <2>3, PrefixReflexive
  <2>6. \A r \in Runs \ survivors : journal'[r] = <<>>
    <3> SUFFICES ASSUME NEW r \in Runs \ survivors PROVE journal'[r] = <<>>
      OBVIOUS
    <3>1. length[r] = 0
      BY <1>1 DEF PowerLossTo
    <3>2. Len(journal'[r]) = 0
      BY <1>4, <1>5, <1>6, <3>1, CutPointwise
    <3> QED
      BY <1>7, <3>2
  <2> QED
    BY <1>1, <1>2, <1>11, <2>2, <2>4, <2>5, <2>6 DEF Durable, PowerLossTo
<1>14. Shapes'
  BY <1>2, <1>4, <1>5, <1>6, LifecycleCut, ShapeCut DEF Shapes
<1> QED
  BY <1>9, <1>12, <1>13, <1>14 DEF IInv

LEMMA StutterInv ==
  ASSUME IInv, UNCHANGED vars
  PROVE  IInv'
<1>1. UNCHANGED <<lock, pc, req, manifest, journal, blobs, debris, disk, acks>>
  BY DEF vars, visible
<1>2. Exists' = Exists
  BY <1>1 DEF Exists
<1> QED
  BY <1>1, <1>2
  DEF IInv, TypeOK, OneCall, Staged, Durable, Shapes, disk, acks

LEMMA NextInv == IInv /\ [Next]_vars => IInv'
<1> SUFFICES ASSUME IInv, [Next]_vars PROVE IInv'
  OBVIOUS
<1>1. ASSUME NEW w \in Writers, Proceed(w) PROVE IInv'
  BY <1>1, AppendRenameInv, AppendSyncInv, CreateRenameInv, CreateSyncInv,
     FailureInv, PutRenameInv DEF Proceed
<1>2. ASSUME NEW w \in Writers, Call(w) PROVE IInv'
  BY <1>2, AppendStageInv, CreateStageInv, PutStageInv, OneStepInv DEF Call
<1> QED
  BY <1>1, <1>2, CrashInv, PowerLossInv, StutterInv DEF Next

THEOREM Invariant == Spec => []IInv
BY InitInv, NextInv, PTL DEF Spec

-----------------------------------------------------------------------------
(* What the invariant gives.                                                *)

(* The variables keep their types: every call stages a value of the right   *)
(* kind and every rename and power loss leaves one.                         *)
THEOREM TypeCorrect == Spec => []TypeOK
<1>1. IInv => TypeOK
  BY DEF IInv
<1> QED
  BY <1>1, Invariant, PTL

(* The instance of JournalSpec has its own copy of the vocabulary.          *)
LEMMA SameVocabulary ==
  /\ Promises!ExecutionState = ExecutionState
  /\ \A f, s : Promises!ValidTransition(f, s) <=> ValidTransition(f, s)
  /\ \A j : Promises!LastState(j) = LastState(j)
  /\ \A j : Promises!IsLifecycle(j) <=> IsLifecycle(j)
  /\ \A i, j : Promises!IsPrefix(i, j) <=> IsPrefix(i, j)
<1>1. /\ Promises!ExecutionState = ExecutionState
      /\ \A f, s : Promises!ValidTransition(f, s) <=> ValidTransition(f, s)
      /\ \A j : Promises!LastState(j) = LastState(j)
  BY DEF Promises!ExecutionState, ExecutionState, Promises!TerminalState,
         TerminalState, Promises!ValidTransition, ValidTransition,
         Promises!LastState, LastState, Promises!NoState, NoState
<1>2. \A j : Promises!IsLifecycle(j) <=> IsLifecycle(j)
  BY <1>1 DEF Promises!IsLifecycle, IsLifecycle, Promises!NoState, NoState
<1>3. \A i, j : Promises!IsPrefix(i, j) <=> IsPrefix(i, j)
  BY DEF Promises!IsPrefix, IsPrefix
<1> QED
  BY <1>1, <1>2, <1>3

(* Acknowledged runs and their acknowledged events survive any interleaving *)
(* of calls, I/O errors, process deaths and power losses; the events of a   *)
(* run that was not acknowledged survive as long as the run does.  The      *)
(* history of acknowledgements is not touched by the power loss.            *)
THEOREM AckedDataSurvives == Spec => []AckedSurvive
<1>1. IInv => AckedSurvive
  <2> SUFFICES ASSUME IInv PROVE AckedSurvive
    OBVIOUS
  <2>1. TypeOK /\ Durable
    BY DEF IInv
  <2>2. \A r \in Exists : IsPrefix(acked[r], journal[r])
    BY <2>1, PrefixTransitive DEF TypeOK, Durable, Exists
  <2> QED
    BY <2>1, <2>2, SameVocabulary DEF AckedSurvive, Promises!PromisesHold, Durable
<1> QED
  BY <1>1, Invariant, PTL

(* A journal can always be read back. *)
THEOREM JournalsAlwaysDecode == Spec => []JournalsDecode
<1>1. IInv => JournalsDecode
  BY SameVocabulary DEF IInv, Shapes, JournalsDecode, Promises!JournalsAreLifecycles
<1> QED
  BY <1>1, Invariant, PTL

(* A journal of the right shape with three events or more is past Running.  *)
LEMMA PastRunning ==
  ASSUME NEW j \in Seq(ExecutionState), Shape(j), Len(j) >= 3
  PROVE  RecoveryDecision(LastState(j)) \in {"NeedsReconciliation", "Terminal"}
<1>1. j # <<>> /\ Len(j) \in 1 .. Len(j) /\ j[Len(j)] \in ExecutionState
  OBVIOUS
<1>2. LastState(j) = j[Len(j)]
  BY <1>1 DEF LastState
<1>3. j[Len(j)] \notin {"Planned", "Prepared"}
  BY <1>1 DEF Shape
<1> QED
  BY <1>1, <1>2, <1>3
  DEF RecoveryDecision, ExecutionState, TerminalState, NoState

(* Once Running was acknowledged, no restart is told to start or resume.    *)
THEOREM NeverStartedTwice == Spec => []NoSecondStart
<1>1. IInv => NoSecondStart
  <2> SUFFICES ASSUME IInv, NEW r \in ackedRuns, "Running" \in ToSet(acked[r])
               PROVE  RecoveryDecision(LastState(journal[r])) \in
                        {"NeedsReconciliation", "Terminal"}
    BY DEF NoSecondStart
  <2>1. r \in Runs /\ TypeOK /\ Durable /\ Shapes
    BY DEF IInv, TypeOK
  <2>2. journal[r] \in Seq(ExecutionState) /\ acked[r] \in Seq(ExecutionState)
    BY <2>1 DEF TypeOK
  <2>3. IsPrefix(acked[r], journal[r])
    BY <2>1, <2>2, PrefixTransitive DEF TypeOK, Durable
  <2>4. PICK i \in 1 .. Len(acked[r]) : acked[r][i] = "Running"
    BY <2>2 DEF ToSet
  <2>5. i \in 1 .. Len(journal[r]) /\ journal[r][i] = "Running"
    <3>1. /\ Len(acked[r]) <= Len(journal[r])
          /\ \A k \in 1 .. Len(acked[r]) : acked[r][k] = journal[r][k]
      BY <2>2, <2>3, PrefixPointwise
    <3> QED
      BY <2>2, <2>4, <3>1
  <2>6. Len(journal[r]) >= 3
    BY <2>1, <2>2, <2>5 DEF Shapes, Shape
  <2> QED
    BY <2>1, <2>2, <2>6, PastRunning DEF Shapes
<1> QED
  BY <1>1, Invariant, PTL

LEMMA TerminalStep ==
  ASSUME IInv, [Next]_vars, NEW r \in ackedRuns, LastState(acked[r]) \in TerminalState
  PROVE  journal'[r] = journal[r]
<1>1. TypeOK /\ Durable /\ Shapes /\ r \in Runs /\ r \in Exists
  BY DEF IInv, TypeOK, Durable
<1>2. /\ journal \in [Runs -> Seq(ExecutionState)]
      /\ journal[r] \in Seq(ExecutionState) /\ acked[r] \in Seq(ExecutionState)
      /\ diskJournal[r] \in Seq(ExecutionState)
  BY <1>1 DEF TypeOK
<1>3. Len(acked[r]) = Len(journal[r]) /\ LastState(journal[r]) \in TerminalState
  <2>1. IsPrefix(acked[r], journal[r]) /\ IsLifecycle(journal[r])
    BY <1>1, <1>2, PrefixTransitive DEF Durable, Shapes
  <2> QED
    BY <1>2, <2>1, NothingAfterTerminal
<1>4. ASSUME NEW w \in Writers, AppendRename(w) PROVE journal'[r] = journal[r]
  <2>1. pc[w] = "append" /\ Staged(w)
    BY <1>4 DEF AppendRename, Advance, IInv
  <2>2. PICK s \in ExecutionState : ValidTransition(LastState(journal[req[w].run]), s)
    BY <2>1 DEF Staged
  <2>3. req[w].run # r
    BY <1>3, <2>2 DEF ValidTransition, TerminalState, NoState
  <2> QED
    BY <1>2, <1>4, <2>3 DEF AppendRename
<1>5. ASSUME NEW w \in Writers, CreateRename(w) PROVE journal'[r] = journal[r]
  <2>1. pc[w] = "create" /\ Staged(w)
    BY <1>5 DEF CreateRename, Advance, IInv
  <2>2. req[w].run # r
    BY <1>1, <2>1 DEF Staged
  <2> QED
    BY <1>2, <1>5, <2>2 DEF CreateRename
<1>6. CASE PowerLoss
  <2>1. PICK survivors \in SUBSET Exists, length \in [Runs -> Lengths],
             files \in [Runs -> SUBSET Digests],
             stages \in SUBSET (debris \cup diskStages) :
          PowerLossTo(survivors, length, files, stages)
    BY <1>6 DEF PowerLoss
  <2>2. /\ r \in survivors /\ length[r] \in Len(diskJournal[r]) .. Len(journal[r])
        /\ journal'[r] = SubSeq(journal[r], 1, length[r])
    BY <1>1, <2>1 DEF PowerLossTo, Durable
  <2>3. Len(acked[r]) <= Len(diskJournal[r])
    BY <1>1, <1>2, PrefixPointwise DEF Durable
  <2>4. length[r] = Len(journal[r])
    <3>1. Len(acked[r]) \in Nat /\ Len(diskJournal[r]) \in Nat /\ Len(journal[r]) \in Nat
      BY <1>2
    <3> QED
      BY <1>3, <2>2, <2>3, <3>1
  <2> QED
    BY <1>2, <2>2, <2>4
<1>7. ASSUME NEW w \in Writers,
             \/ Call(w) \/ Crash(w) \/ AppendSync(w) \/ CreateSync(w) \/ CreateFails(w)
             \/ PutRename(w) \/ PutSync(w) \/ CallFails(w)
      PROVE  journal' = journal
  BY <1>7 DEF Call, AppendStage, CreateStage, CreateStageFails, PutStage, PutExisting, Crash,
              AppendSync, CreateSync, CreateFails, PutRename, PutSync, CallFails, visible
<1>8. UNCHANGED vars => journal' = journal
  BY DEF vars, visible
<1> QED
  BY <1>4, <1>5, <1>6, <1>7, <1>8 DEF Next, Proceed

(* Appends of any process, failed calls, deaths and power losses: the       *)
(* journal of a run whose terminal event was acknowledged is never changed. *)
THEOREM TerminalJournalsAreFinal == Spec => TerminalIsFinal
<1>1. IInv /\ [Next]_vars =>
        [\A r \in ackedRuns :
           LastState(acked[r]) \in TerminalState => journal'[r] = journal[r]]_vars
  BY TerminalStep
<1> QED
  BY <1>1, Invariant, PTL DEF Spec, TerminalIsFinal

-----------------------------------------------------------------------------
(* The store implements JournalSpec.                                        *)

LEMMA RefineAppendRename ==
  ASSUME IInv, NEW w \in Writers, AppendRename(w)
  PROVE  Promises!Next
<1> DEFINE r == req[w].run
<1>1. pc[w] = "append" /\ Staged(w) /\ TypeOK
  BY DEF AppendRename, Advance, IInv
<1>2. r \in Runs /\ r \in Exists
  BY <1>1 DEF Staged
<1>3. PICK s \in ExecutionState :
        /\ ValidTransition(LastState(journal[r]), s)
        /\ req[w].events = Append(journal[r], s)
  BY <1>1 DEF Staged
<1>4. journal' = [journal EXCEPT ![r] = Append(@, s)]
  BY <1>3 DEF AppendRename
<1>5. Exists' = Exists /\ UNCHANGED <<ackedRuns, acked>>
  BY DEF AppendRename, Exists, acks
<1>6. Promises!Extend(r, s)
  BY <1>2, <1>3, <1>4, <1>5, SameVocabulary DEF Promises!Extend
<1> QED
  BY <1>2, <1>3, <1>6, SameVocabulary DEF Promises!Next

LEMMA RefineAppendSync ==
  ASSUME IInv, NEW w \in Writers, AppendSync(w)
  PROVE  Promises!Next
<1> DEFINE r == req[w].run
<1>1. pc[w] = "appended" /\ Staged(w)
  BY DEF AppendSync, IInv
<1>2. r \in Runs /\ r \in Exists /\ req[w].events = journal[r]
  BY <1>1 DEF Staged
<1>3. Exists' = Exists /\ UNCHANGED <<journal, ackedRuns>>
  BY DEF AppendSync, Exists, visible
<1>4. Promises!PromiseEvents(r)
  BY <1>2, <1>3 DEF Promises!PromiseEvents, AppendSync
<1> QED
  BY <1>2, <1>4 DEF Promises!Next

LEMMA RefineCreateRename ==
  ASSUME IInv, NEW w \in Writers, CreateRename(w)
  PROVE  Promises!Next
<1> DEFINE r == req[w].run
<1>1. pc[w] = "create" /\ Staged(w) /\ TypeOK /\ Durable
  BY DEF CreateRename, Advance, IInv
<1>2. r \in Runs /\ r \notin Exists /\ req[w].attempt \in Attempts
  BY <1>1 DEF Staged
<1>3. journal' = journal
  BY <1>1, <1>2 DEF CreateRename, Durable, TypeOK
<1>4. Exists' = Exists \cup {r}
  BY <1>1, <1>2, NoneAssumption DEF Exists, CreateRename, TypeOK
<1>5. acked' = [acked EXCEPT ![r] = <<>>]
  <2>1. r \notin ackedRuns
    BY <1>1, <1>2 DEF Durable
  <2> QED
    BY <2>1 DEF CreateRename, ForgetLost
<1>6. Promises!Create(r)
  BY <1>2, <1>3, <1>4, <1>5 DEF Promises!Create, CreateRename
<1> QED
  BY <1>2, <1>6 DEF Promises!Next

LEMMA RefineCreateSync ==
  ASSUME IInv, NEW w \in Writers, CreateSync(w)
  PROVE  Promises!Next
<1> DEFINE r == req[w].run
<1>1. pc[w] = "created" /\ Staged(w)
  BY DEF CreateSync, IInv
<1>2. r \in Runs /\ r \in Exists
  BY <1>1 DEF Staged
<1>3. Exists' = Exists
  BY DEF CreateSync, Exists, visible
<1>4. Promises!PromiseRun(r)
  BY <1>2, <1>3 DEF Promises!PromiseRun, CreateSync, visible
<1> QED
  BY <1>2, <1>4 DEF Promises!Next

LEMMA RefinePowerLoss ==
  ASSUME IInv, PowerLoss
  PROVE  Promises!Next
<1>1. PICK survivors \in SUBSET Exists, length \in [Runs -> Lengths],
           files \in [Runs -> SUBSET Digests],
           stages \in SUBSET (debris \cup diskStages) :
        PowerLossTo(survivors, length, files, stages)
  BY DEF PowerLoss
<1>2. TypeOK /\ Durable /\ Exists \subseteq Runs
  BY DEF IInv, Exists
<1>3. \A r \in survivors : length[r] \in Len(acked[r]) .. Len(journal[r])
  <2> SUFFICES ASSUME NEW r \in survivors
               PROVE  length[r] \in Len(acked[r]) .. Len(journal[r])
    OBVIOUS
  <2>1. /\ r \in Runs /\ r \in Exists
        /\ length[r] \in Len(diskJournal[r]) .. Len(journal[r])
    BY <1>1, <1>2 DEF PowerLossTo
  <2>2. Len(acked[r]) <= Len(diskJournal[r])
    BY <1>2, <2>1 DEF Durable, IsPrefix
  <2>3. Len(acked[r]) \in Nat /\ Len(diskJournal[r]) \in Nat /\ Len(journal[r]) \in Nat
    BY <1>2, <2>1 DEF TypeOK
  <2> QED
    BY <2>1, <2>2, <2>3
<1>4. Exists' = survivors
  BY <1>1, <1>2 DEF Exists, PowerLossTo
<1>5. ackedRuns \subseteq survivors
  BY <1>1, <1>2 DEF Durable, PowerLossTo
<1>6. length \in [Runs -> Promises!Lengths]
  BY <1>1 DEF Promises!Lengths, Lengths
<1>7. Promises!LoseTo(survivors, length)
  BY <1>1, <1>3, <1>4, <1>5 DEF Promises!LoseTo, PowerLossTo, acks
<1>8. Promises!Lose
  BY <1>1, <1>6, <1>7 DEF Promises!Lose
<1> QED
  BY <1>8 DEF Promises!Next

(* Every other step is invisible to the journal's readers. *)
LEMMA RefineStutter ==
  ASSUME UNCHANGED <<manifest, journal, ackedRuns, acked>>
  PROVE  UNCHANGED Promises!vars
BY DEF Promises!vars, Exists

LEMMA RefineStep == IInv /\ [Next]_vars => [Promises!Next]_Promises!vars
<1> SUFFICES ASSUME IInv, [Next]_vars PROVE [Promises!Next]_Promises!vars
  OBVIOUS
<1>1. ASSUME NEW w \in Writers, Proceed(w) PROVE [Promises!Next]_Promises!vars
  <2>1. CASE CreateFails(w) \/ PutRename(w) \/ PutSync(w) \/ CallFails(w)
    <3>1. UNCHANGED <<manifest, journal, ackedRuns, acked>>
      BY <2>1 DEF CreateFails, PutRename, PutSync, CallFails, visible, acks
    <3> QED
      BY <3>1, RefineStutter
  <2> QED
    BY <1>1, <2>1, RefineAppendRename, RefineAppendSync, RefineCreateRename,
       RefineCreateSync DEF Proceed
<1>2. ASSUME NEW w \in Writers, Call(w) \/ Crash(w)
      PROVE  [Promises!Next]_Promises!vars
  <2>1. UNCHANGED <<manifest, journal, ackedRuns, acked>>
    BY <1>2 DEF Call, Crash, AppendStage, CreateStage, CreateStageFails,
                PutStage, PutExisting, visible, acks
  <2> QED
    BY <2>1, RefineStutter
<1>3. CASE UNCHANGED vars
  <2>1. UNCHANGED <<manifest, journal, ackedRuns, acked>>
    BY <1>3 DEF vars, visible, acks
  <2> QED
    BY <2>1, RefineStutter
<1> QED
  BY <1>1, <1>2, <1>3, RefinePowerLoss DEF Next

(* What callers see of the store is a behaviour of JournalSpec. *)
THEOREM Refinement == Spec => ImplementsJournal
<1>1. Init => Promises!Init
  BY DEF Init, Promises!Init, Exists
<1>2. Spec => [][Promises!Next]_Promises!vars
  BY Invariant, RefineStep, PTL DEF Spec
<1> QED
  BY <1>1, <1>2, PTL DEF Spec, ImplementsJournal, Promises!Spec

-----------------------------------------------------------------------------
(* The contract by itself: whatever implements JournalSpec, no step of it,  *)
(* the power loss included, takes back what was promised or leaves a        *)
(* journal that is not a lifecycle.                                         *)

ContractTypes ==
  /\ Exists \subseteq Runs /\ ackedRuns \subseteq Runs
  /\ journal \in [Runs -> Seq(ExecutionState)]
  /\ acked \in [Runs -> Seq(ExecutionState)]

AllLifecycles == \A r \in Runs : IsLifecycle(journal[r])

PromisesKept ==
  /\ ackedRuns \subseteq Exists
  /\ \A r \in Exists : IsPrefix(acked[r], journal[r])

Contract == ContractTypes /\ AllLifecycles /\ PromisesKept

LEMMA ContractInit == Promises!Init => Contract
<1> SUFFICES ASSUME Promises!Init PROVE Contract
  OBVIOUS
<1>1. ContractTypes
  BY DEF Promises!Init, ContractTypes
<1>2. AllLifecycles
  BY DEF Promises!Init, AllLifecycles, IsLifecycle
<1>3. PromisesKept
  <2>1. <<>> \in Seq(ExecutionState)
    OBVIOUS
  <2>2. IsPrefix(<<>>, <<>>)
    BY <2>1, PrefixEmpty
  <2> QED
    BY <2>2 DEF Promises!Init, PromisesKept
<1> QED
  BY <1>1, <1>2, <1>3 DEF Contract

LEMMA ContractExtend ==
  ASSUME Contract, NEW r \in Runs, NEW s \in ExecutionState,
         Promises!Extend(r, s)
  PROVE  Contract'
<1> USE DEF Contract
<1>1. journal[r] \in Seq(ExecutionState) /\ acked \in [Runs -> Seq(ExecutionState)]
  BY DEF ContractTypes
<1>2. ContractTypes'
  BY <1>1 DEF ContractTypes, Promises!Extend
<1>3. /\ journal'[r] = Append(journal[r], s)
      /\ \A q \in Runs : q # r => journal'[q] = journal[q]
  BY DEF ContractTypes, Promises!Extend
<1>4. AllLifecycles'
  BY <1>1, <1>3, LifecycleAppend, SameVocabulary DEF AllLifecycles, Promises!Extend
<1>5. PromisesKept'
  <2>1. \A q \in Exists : IsPrefix(acked[q], journal'[q])
    BY <1>1, <1>3, PrefixAppend DEF PromisesKept, ContractTypes
  <2> QED
    BY <2>1 DEF PromisesKept, Promises!Extend
<1> QED
  BY <1>2, <1>4, <1>5

LEMMA ContractLose ==
  ASSUME Contract, Promises!Lose
  PROVE  Contract'
<1> USE DEF Contract
<1>1. PICK survivors \in SUBSET Exists, length \in [Runs -> Promises!Lengths] :
        Promises!LoseTo(survivors, length)
  BY DEF Promises!Lose
<1>2. \A r \in Runs : length[r] \in 0 .. Len(journal[r])
  <2> SUFFICES ASSUME NEW r \in Runs PROVE length[r] \in 0 .. Len(journal[r])
    OBVIOUS
  <2>1. Len(journal[r]) \in Nat /\ Len(acked[r]) \in Nat
    BY DEF ContractTypes
  <2> QED
    BY <1>1, <2>1 DEF Promises!LoseTo
<1>3. \A r \in Runs : journal'[r] = SubSeq(journal[r], 1, length[r])
  BY <1>1 DEF Promises!LoseTo
<1>4. \A r \in Runs : journal[r] \in Seq(ExecutionState)
  BY DEF ContractTypes
<1>5. \A r \in Runs : journal'[r] \in Seq(ExecutionState)
  BY <1>2, <1>3, <1>4, CutPointwise
<1>6. ContractTypes'
  <2>1. journal' \in [Runs -> Seq(ExecutionState)]
    BY <1>1, <1>3, <1>5 DEF Promises!LoseTo
  <2> QED
    BY <1>1, <2>1 DEF Promises!LoseTo, ContractTypes
<1>7. AllLifecycles'
  BY <1>2, <1>3, <1>4, LifecycleCut DEF AllLifecycles
<1>8. PromisesKept'
  <2>1. ASSUME NEW r \in survivors
        PROVE  IsPrefix(acked[r], SubSeq(journal[r], 1, length[r]))
    <3>1. r \in Runs
      BY DEF ContractTypes
    <3>2. acked[r] \in Seq(ExecutionState) /\ IsPrefix(acked[r], journal[r])
      BY <1>1, <3>1 DEF ContractTypes, PromisesKept
    <3> QED
      BY <1>1, <1>4, <3>1, <3>2, PrefixCut DEF Promises!LoseTo
  <2>2. /\ Exists' = survivors /\ survivors \subseteq Runs
        /\ UNCHANGED <<ackedRuns, acked>> /\ ackedRuns \subseteq survivors
    BY <1>1 DEF Promises!LoseTo, ContractTypes
  <2> QED
    BY <1>3, <2>1, <2>2 DEF PromisesKept
<1> QED
  BY <1>6, <1>7, <1>8

LEMMA ContractNext == Contract /\ [Promises!Next]_Promises!vars => Contract'
<1> SUFFICES ASSUME Contract, [Promises!Next]_Promises!vars PROVE Contract'
  OBVIOUS
<1> USE DEF Contract
<1>1. ASSUME NEW r \in Runs, Promises!Create(r) PROVE Contract'
  <2>1. <<>> \in Seq(ExecutionState)
    OBVIOUS
  <2>2. ContractTypes' /\ AllLifecycles'
    BY <1>1, <2>1 DEF Promises!Create, ContractTypes, AllLifecycles
  <2>3. /\ acked'[r] = <<>> /\ journal'[r] \in Seq(ExecutionState)
        /\ \A x \in Runs : x # r => acked'[x] = acked[x]
    BY <1>1 DEF Promises!Create, ContractTypes
  <2>4. IsPrefix(acked'[r], journal'[r])
    BY <2>3, PrefixEmpty
  <2> QED
    BY <1>1, <2>2, <2>3, <2>4 DEF Promises!Create, ContractTypes, PromisesKept
<1>2. ASSUME NEW r \in Runs, Promises!PromiseRun(r) PROVE Contract'
  BY <1>2 DEF Promises!PromiseRun, ContractTypes, AllLifecycles, PromisesKept
<1>3. ASSUME NEW r \in Runs, Promises!PromiseEvents(r) PROVE Contract'
  <2>1. journal[r] \in Seq(ExecutionState)
    BY DEF ContractTypes
  <2>2. IsPrefix(journal[r], journal[r])
    BY <2>1, PrefixReflexive
  <2> QED
    BY <1>3, <2>1, <2>2
    DEF Promises!PromiseEvents, ContractTypes, AllLifecycles, PromisesKept
<1>4. CASE UNCHANGED Promises!vars
  BY <1>4 DEF Promises!vars, ContractTypes, AllLifecycles, PromisesKept
<1> QED
  BY <1>1, <1>2, <1>3, <1>4, ContractExtend, ContractLose, SameVocabulary DEF Promises!Next

(* The contract holds its promises, though a loss leaves their record as it *)
(* is, and its journals always decode, for any set of runs and through any  *)
(* number of power losses.                                                  *)
THEOREM PromisesAreKept ==
  Promises!Spec => [](Promises!PromisesHold /\ Promises!JournalsAreLifecycles)
<1>1. Contract => Promises!PromisesHold /\ Promises!JournalsAreLifecycles
  BY SameVocabulary DEF Contract, AllLifecycles, PromisesKept,
     Promises!PromisesHold, Promises!JournalsAreLifecycles
<1> QED
  BY <1>1, ContractInit, ContractNext, PTL DEF Promises!Spec

=============================================================================
