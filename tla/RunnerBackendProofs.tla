------------------------ MODULE RunnerBackendProofs ------------------------
(***************************************************************************)
(* The control backend for any number of clients, keys, plans, runs, calls *)
(* and failures, and for plans that share a run id: a launch executes once *)
(* and only when it is committed, an acknowledged cancellation is durable, *)
(* a key answers one request, and every catalog on disk can be loaded.     *)
(*                                                                         *)
(* Each call owns the key of its mutation from its intent to its end, and  *)
(* the catalog mutex while it needs more than the key.  What the catalog   *)
(* says of a run's end was read from the orchestrator, which had journaled *)
(* it.                                                                     *)
(***************************************************************************)
EXTENDS RunnerBackend, TLAPS

Launching == {"admit", "intent", "start", "send"}
Cancelling == {"signal", "poll", "polling", "cancelled", "finished"}

(* What a call asks for at each of its points. *)
Asked(c) ==
  LET pc == call[c].pc
      ask == call[c].ask IN
  pc # "idle" =>
    /\ ask \in Ask /\ (ask.op = "status" <=> call[c].key = None)
    /\ pc \in Launching => ask.op = "launch"
    /\ pc = "refresh" => ask.op = "status"
    /\ pc \in Cancelling => ask.op = "cancel"

Intended(c, state) ==
  catalog.muts[call[c].key] = [ask |-> call[c].ask, state |-> state]

(* What it has established there. *)
Called(c) ==
  LET pc == call[c].pc
      ask == call[c].ask
      r == RunFor(ask) IN
  /\ pc \in {"refresh", "start", "send"} \cup Cancelling => catalog.runs[r] # None
  /\ pc \in Cancelling \cup {"start"} => Intended(c, "Intent")
  /\ pc \in {"admit", "intent"} => catalog.muts[call[c].key] = None
  /\ pc = "intent" => catalog.runs[r] = None
  /\ pc \in {"intent", "start", "send"} => source[r] # None /\ svc[r] # "Absent"
  /\ pc \in {"start", "send"} => ran[r] = <<>>
  /\ pc = "start" => worker[r].pc = "none"
  /\ pc = "send" => /\ Intended(c, "Committed")
                    /\ worker[r].pc = "gate"
                    /\ \A a \in answers : a[1] # call[c].key

Mutex ==
  \A c, d \in Clients : call[c].pc \in Holding /\ call[d].pc \in Holding => c = d

(* Two cancellations in progress have different keys. *)
Distinct ==
  \A c, d \in Clients :
    /\ call[c].pc \in Cancelling /\ call[d].pc \in Cancelling
    /\ call[c].key = call[d].key
    => c = d

(* What was answered is committed under its key. *)
Answered ==
  \A a \in answers : catalog.muts[a[1]] = [ask |-> a[2], state |-> "Committed"]

(* The launch of r is committed. *)
Evidence(r) ==
  \E k \in Keys :
    /\ catalog.muts[k] # None
    /\ catalog.muts[k].ask.op = "launch"
    /\ RunFor(catalog.muts[k].ask) = r
    /\ catalog.muts[k].state = "Committed"

Threaded(r) ==
  LET w == worker[r] IN
  /\ w.pc # "none" => catalog.runs[r] # None /\ source[r] # None
  /\ w.pc \in Executing => svc[r] = "Running"
  /\ w.pc = "concluding" => w.goal \in TerminalState
  /\ w.pc \notin {"none", "gate"} => Evidence(r)

(* Orchestrator, journal and catalog of a run. *)
Journaled(r) ==
  /\ up /\ svc[r] = "Absent" =>
       journal[r] \in {NoState, "Planned"} /\ catalog.runs[r] = None
  /\ svc[r] \in {"Prepared", "Running"} \cup TerminalState => journal[r] = svc[r]
  /\ svc[r] # "Absent" => journal[r] # NoState
  /\ svc[r] # "Collecting"
  /\ catalog.runs[r] # None => journal[r] # NoState
  /\ HasState(catalog, r, TerminalState) => journal[r] = catalog.runs[r].state
  /\ catalog.runs[r] # None => RunOf[catalog.runs[r].plan] = r
  /\ source[r] # None => RunOf[source[r]] = r

Begun == {"Running", "Collecting"} \cup TerminalState

Executed(r) ==
  ran[r] # <<>> => /\ Len(ran[r]) = 1 /\ RunOf[ran[r][1]] = r
                   /\ journal[r] \in Begun /\ Evidence(r)

(* A dead process has no calls, no threads and no records. *)
Down ==
  ~up => /\ \A c \in Clients : call[c] = Idle
         /\ \A r \in Runs : worker[r] = NoThread /\ svc[r] = "Absent"

RunsOK == \A r \in Runs : Threaded(r) /\ Journaled(r) /\ Executed(r)
CallsOK == \A c \in Clients : Asked(c) /\ Called(c)

BackendInv ==
  /\ TypeOK
  /\ Down
  /\ Mutex
  /\ Distinct
  /\ Answered
  /\ Valid(catalog)
  /\ CallsOK
  /\ RunsOK

-----------------------------------------------------------------------------
(* Types.                                                                   *)

Places == {"idle", "look", "poll", "cancelled", "finished"} \cup Holding
CallRecord == [pc : Places, key : Keys \cup {None}, ask : Ask \cup {None}]
WorkerRecord ==
  [pc : {"none", "gate", "go", "report"} \cup Executing,
   goal : TerminalState \cup {"Absent"}]

LEMMA IdleFacts == Idle \in CallRecord /\ Idle.pc = "idle"
BY DEF Idle, CallRecord, Places

LEMMA ThreadFacts ==
  /\ NoThread \in WorkerRecord /\ NoThread.pc = "none" /\ NoThread.goal = "Absent"
  /\ \A pc, goal : Thread(pc, goal).pc = pc /\ Thread(pc, goal).goal = goal
  /\ \A pc \in {"none", "gate", "go", "report"} \cup Executing,
        goal \in TerminalState \cup {"Absent"} : Thread(pc, goal) \in WorkerRecord
BY DEF NoThread, Thread, WorkerRecord

LEMMA Types ==
  ASSUME TypeOK
  PROVE  /\ catalog \in Catalog
         /\ call \in [Clients -> CallRecord]
         /\ worker \in [Runs -> WorkerRecord]
BY DEF TypeOK, CallRecord, WorkerRecord, Places

(* The parts of a catalog. *)
LEMMA CatalogParts ==
  ASSUME NEW c \in Catalog
  PROVE  /\ c.plans \subseteq Plans
         /\ c.runs \in [Runs -> RunRecord \cup {None}]
         /\ c.latest \in [Runs -> EventKind \cup {None}]
         /\ c.muts \in [Keys -> MutationRecord \cup {None}]
         /\ \A r \in Runs : c.runs[r] # None =>
              c.runs[r] \in RunRecord /\ c.runs[r].plan \in Plans /\ c.runs[r].state \in PublicState
         /\ \A k \in Keys : c.muts[k] # None =>
              c.muts[k] \in MutationRecord /\ c.muts[k].ask \in Ask
BY DEF Catalog, RunRecord, MutationRecord

LEMMA RunForIsRun ==
  ASSUME NEW ask \in Ask, ask.op # "create"
  PROVE  RunFor(ask) \in Runs /\ (ask.op # "launch" => RunFor(ask) = ask.on)
         /\ (ask.op = "launch" => ask.on \in Plans /\ RunFor(ask) = RunOf[ask.on])
BY PlanAssumption DEF Ask, RunFor

LEMMA KindIsEvent == \A s \in PublicState : Kind(s) \in EventKind
BY DEF Kind, EventKind, PublicState, TerminalState

(* A run's state and a mutation's state change nothing else. *)
Restated(n, c, r, state) ==
  /\ n \in Catalog
  /\ n.plans = c.plans /\ n.muts = c.muts
  /\ n.runs[r] # None /\ n.runs[r].state = state
  /\ n.runs[r].plan = c.runs[r].plan
  /\ \A q \in Runs : q # r => n.runs[q] = c.runs[q]

LEMMA SetRunParts ==
  ASSUME NEW c \in Catalog, NEW r \in Runs, c.runs[r] # None,
         NEW state \in PublicState, NEW kind \in EventKind
  PROVE  Restated(SetRun(c, r, state, kind), c, r, state)
<1> DEFINE n == SetRun(c, r, state, kind)
           e == [c.runs[r] EXCEPT !.state = state]
<1>1. /\ c.plans \subseteq Plans /\ c.runs \in [Runs -> RunRecord \cup {None}]
      /\ c.latest \in [Runs -> EventKind \cup {None}]
      /\ c.muts \in [Keys -> MutationRecord \cup {None}]
      /\ c.runs[r] \in RunRecord
  BY CatalogParts
<1>2. e \in RunRecord /\ e.state = state /\ e.plan = c.runs[r].plan
  BY <1>1 DEF RunRecord
<1>3. e # None
  BY <1>2, NoneAssumption
<1>4. n = [c EXCEPT !.runs = [@ EXCEPT ![r] = e], !.latest = [@ EXCEPT ![r] = kind]]
  BY <1>1 DEF SetRun, Catalog
<1> HIDE DEF n, e
<1>5. /\ n.plans = c.plans /\ n.muts = c.muts
      /\ n.runs = [c.runs EXCEPT ![r] = e] /\ n.latest = [c.latest EXCEPT ![r] = kind]
      /\ n = [plans |-> n.plans, runs |-> n.runs, latest |-> n.latest, muts |-> n.muts]
  BY <1>4 DEF Catalog
<1>6. n.runs \in [Runs -> RunRecord \cup {None}] /\ n.latest \in [Runs -> EventKind \cup {None}]
  BY <1>1, <1>2, <1>5
<1>7. n \in Catalog
  BY <1>1, <1>5, <1>6 DEF Catalog
<1>8. n.runs[r] = e /\ \A q \in Runs : q # r => n.runs[q] = c.runs[q]
  BY <1>1, <1>5
<1> QED
  BY <1>2, <1>3, <1>5, <1>7, <1>8 DEF n, Restated

Rewritten(n, c, k, ask, state) ==
  /\ n \in Catalog
  /\ n.plans = c.plans /\ n.runs = c.runs
  /\ n.muts[k] = [ask |-> ask, state |-> state] /\ n.muts[k] # None
  /\ \A j \in Keys : j # k => n.muts[j] = c.muts[j]

LEMMA SetMutParts ==
  ASSUME NEW c \in Catalog, NEW k \in Keys, NEW ask \in Ask,
         NEW state \in {"Intent", "Committed", "NeedsReconciliation"}
  PROVE  Rewritten(SetMut(c, k, ask, state), c, k, ask, state)
<1> DEFINE n == SetMut(c, k, ask, state)
           e == [ask |-> ask, state |-> state]
<1>1. e \in MutationRecord
  BY DEF MutationRecord
<1>2. e # None
  BY <1>1, NoneAssumption
<1>3. c.muts \in [Keys -> MutationRecord \cup {None}]
  BY CatalogParts
<1>4. n = [c EXCEPT !.muts = [@ EXCEPT ![k] = e]]
  BY DEF SetMut, Catalog
<1> HIDE DEF n, e
<1>5. /\ n.plans = c.plans /\ n.runs = c.runs /\ n.latest = c.latest
      /\ n.muts = [c.muts EXCEPT ![k] = e]
      /\ n = [plans |-> n.plans, runs |-> n.runs, latest |-> n.latest, muts |-> n.muts]
  BY <1>4 DEF Catalog
<1>6. n.muts \in [Keys -> MutationRecord \cup {None}]
  BY <1>1, <1>3, <1>5
<1>7. n \in Catalog
  BY <1>5, <1>6 DEF Catalog
<1>8. n.muts[k] = e /\ \A j \in Keys : j # k => n.muts[j] = c.muts[j]
  BY <1>3, <1>5
<1> QED
  BY <1>2, <1>5, <1>7, <1>8 DEF n, e, Rewritten

-----------------------------------------------------------------------------
(* Frames: what a step that leaves a call or a run alone preserves.         *)

LEMMA InvParts ==
  ASSUME BackendInv
  PROVE  /\ TypeOK /\ Down /\ Mutex /\ Distinct /\ Answered
         /\ Valid(catalog) /\ CallsOK /\ RunsOK
         /\ \A c \in Clients : call[c] \in CallRecord /\ Asked(c) /\ Called(c)
         /\ \A r \in Runs : worker[r] \in WorkerRecord /\ Threaded(r)
                              /\ Journaled(r) /\ Executed(r)
BY Types DEF BackendInv, CallsOK, RunsOK

(* A call that does not hold the catalog relies on its run and its key. *)
LEMMA OtherCall ==
  ASSUME NEW d \in Clients, Asked(d), Called(d),
         call'[d] = call[d], call[d].pc \notin Holding,
         \A r \in Runs : catalog.runs[r] # None => catalog'.runs[r] # None,
         call[d].pc \in Cancelling =>
           catalog'.muts[call[d].key] = catalog.muts[call[d].key]
  PROVE  Asked(d)' /\ Called(d)'
<1>1. Asked(d)'
  BY DEF Asked
<1>2. /\ call[d].pc \notin {"refresh", "start", "send", "admit", "intent"}
  BY DEF Holding
<1>3. CASE call[d].pc \in Cancelling
  <2>1. call[d].ask \in Ask /\ call[d].ask.op = "cancel"
    BY <1>3 DEF Asked, Cancelling
  <2>2. RunFor(call[d].ask) \in Runs
    BY <2>1, RunForIsRun
  <2>3. catalog'.runs[RunFor(call[d].ask)] # None
    BY <1>3, <2>2 DEF Called
  <2>4. Intended(d, "Intent")'
    BY <1>3 DEF Called, Intended
  <2> QED
    BY <1>1, <1>2, <1>3, <2>3, <2>4 DEF Called, RunFor
<1>4. CASE call[d].pc \notin Cancelling
  BY <1>1, <1>2, <1>4 DEF Called
<1> QED
  BY <1>3, <1>4

(* A call is not disturbed by a step that changes nothing it can see. *)
LEMMA QuietCall ==
  ASSUME NEW d \in Clients, Asked(d), Called(d), call'[d] = call[d],
         UNCHANGED <<catalog, worker, svc, source, ran, answers>>
  PROVE  Asked(d)' /\ Called(d)'
BY DEF Asked, Called, Intended, RunFor

(* A step that moves one call keeps the mutex, and the keys apart. *)
LEMMA CallMoves ==
  ASSUME BackendInv, NEW c \in Clients, NEW x \in CallRecord,
         call' = [call EXCEPT ![c] = x],
         x.pc \in Holding => \A d \in Clients \ {c} : call[d].pc \notin Holding,
         x.pc \in Cancelling =>
           /\ x.key = call[c].key
           /\ \A d \in Clients \ {c} :
                call[d].pc \in Cancelling => call[d].key # call[c].key
  PROVE  /\ call' \in [Clients -> CallRecord]
         /\ Mutex' /\ Distinct'
         /\ call'[c] = x
         /\ \A d \in Clients \ {c} : call'[d] = call[d]
<1>1. call \in [Clients -> CallRecord]
  BY Types DEF BackendInv
<1>2. call' \in [Clients -> CallRecord] /\ call'[c] = x
      /\ \A d \in Clients \ {c} : call'[d] = call[d]
  BY <1>1
<1>3. Mutex'
  BY <1>2 DEF Mutex, BackendInv
<1>4. Distinct'
  BY <1>2 DEF Distinct, BackendInv
<1> QED
  BY <1>2, <1>3, <1>4

(* The key of a mutation in progress belongs to its call: nothing was       *)
(* answered under it and no other cancellation waits under it.              *)
Owned(c) ==
  \/ catalog.muts[call[c].key] = None
  \/ call[c].pc \in Cancelling \cup {"start", "send"}

LEMMA OwnKey ==
  ASSUME BackendInv, NEW c \in Clients, Owned(c)
  PROVE  /\ \A a \in answers : a[1] # call[c].key
         /\ \A d \in Clients \ {c} :
              call[d].pc \in Cancelling => call[d].key # call[c].key
<1>1. /\ \A d \in Clients : Asked(d) /\ Called(d)
      /\ Answered /\ Distinct
  BY InvParts
<1>2. \A a \in answers : a[1] # call[c].key
  <2>1. CASE catalog.muts[call[c].key] = None
    <3> SUFFICES ASSUME NEW a \in answers, a[1] = call[c].key PROVE FALSE
      OBVIOUS
    <3>1. catalog.muts[a[1]] = [ask |-> a[2], state |-> "Committed"] /\ a[2] \in Ask
      BY <1>1 DEF Answered, BackendInv, TypeOK
    <3>2. [ask |-> a[2], state |-> "Committed"] \in MutationRecord
      BY <3>1 DEF MutationRecord
    <3> QED
      BY <2>1, <3>1, <3>2, NoneAssumption
  <2>2. CASE call[c].pc \in Cancelling \cup {"start"}
    <3>1. catalog.muts[call[c].key] = [ask |-> call[c].ask, state |-> "Intent"]
      BY <1>1, <2>2 DEF Called, Intended
    <3> SUFFICES ASSUME NEW a \in answers, a[1] = call[c].key PROVE FALSE
      OBVIOUS
    <3>2. catalog.muts[call[c].key] = [ask |-> a[2], state |-> "Committed"]
      BY <1>1 DEF Answered
    <3>3. catalog.muts[call[c].key].state = "Committed"
      BY <3>2
    <3>4. catalog.muts[call[c].key].state = "Intent"
      BY <3>1
    <3> QED
      BY <3>3, <3>4
  <2>3. CASE call[c].pc = "send"
    BY <1>1, <2>3 DEF Called
  <2> QED
    BY <2>1, <2>2, <2>3 DEF Owned
<1>3. ASSUME NEW d \in Clients \ {c}, call[d].pc \in Cancelling,
             call[d].key = call[c].key
      PROVE  FALSE
  <2>1. /\ call[d].ask \in Ask /\ call[d].ask.op = "cancel"
        /\ catalog.muts[call[c].key] = [ask |-> call[d].ask, state |-> "Intent"]
    BY <1>1, <1>3 DEF Called, Intended, Asked, Cancelling
  <2>2. [ask |-> call[d].ask, state |-> "Intent"] \in MutationRecord
    BY <2>1 DEF MutationRecord
  <2>3. catalog.muts[call[c].key] # None
    BY <2>1, <2>2, NoneAssumption
  <2>4. call[c].pc \notin Cancelling
    BY <1>1, <1>3 DEF Distinct
  <2>5. CASE call[c].pc = "start"
    <3>1. catalog.muts[call[c].key] = [ask |-> call[c].ask, state |-> "Intent"]
      BY <1>1, <2>5 DEF Called, Intended
    <3>2. call[c].ask.op = "launch"
      BY <1>1, <2>5 DEF Asked, Launching
    <3> QED
      BY <2>1, <3>1, <3>2
  <2>6. CASE call[c].pc = "send"
    <3>1. catalog.muts[call[c].key] = [ask |-> call[c].ask, state |-> "Committed"]
      BY <1>1, <2>6 DEF Called, Intended
    <3> QED
      BY <2>1, <3>1
  <2> QED
    BY <2>3, <2>4, <2>5, <2>6 DEF Owned
<1> QED
  BY <1>2, <1>3

-----------------------------------------------------------------------------
(* Commits.                                                                 *)

(* What every commit of a live process does to the runs of the catalog:     *)
(* none is lost, a new one is known to the orchestrator, an end is the      *)
(* journaled one, and the plan is one with this run id.                     *)
GrowsTo(new) ==
  \A r \in Runs :
    /\ catalog.runs[r] # None => new.runs[r] # None
    /\ new.runs[r] # None => svc[r] # "Absent"
    /\ HasState(new, r, TerminalState) => journal[r] = new.runs[r].state
    /\ new.runs[r] # None => RunOf[new.runs[r].plan] = r

LEMMA Stays ==
  ASSUME BackendInv, up
  PROVE  GrowsTo(catalog)
BY InvParts DEF GrowsTo, Journaled

LEMMA CommitCases ==
  ASSUME BackendInv, up, NEW staged \in Catalog, NEW deadline,
         GrowsTo(staged), Commits(staged) \/ CommitFails(staged, deadline)
  PROVE  /\ catalog' \in Catalog /\ Valid(catalog') /\ GrowsTo(catalog')
         /\ catalog' \in {catalog, staged}
         /\ faults' \in 0 .. MaxFaults
<1>1. catalog \in Catalog /\ Valid(catalog) /\ faults \in 0 .. MaxFaults
  BY DEF BackendInv, TypeOK
<1>2. GrowsTo(catalog)
  BY Stays
<1>3. catalog' = catalog \/ (catalog' = staged /\ Valid(staged))
  BY DEF Commits, CommitFails
<1>4. faults' \in 0 .. MaxFaults
  BY <1>1, BoundAssumption DEF Commits, CommitFails, Fault
<1> QED
  BY <1>1, <1>2, <1>3, <1>4

LEMMA RunKept ==
  ASSUME NEW r \in Runs, Journaled(r), Executed(r), up, up', GrowsTo(catalog'),
         svc'[r] = svc[r], journal'[r] = journal[r], ran'[r] = ran[r],
         source'[r] = source[r], ran[r] # <<>> /\ Evidence(r) => Evidence(r)'
  PROVE  Journaled(r)' /\ Executed(r)'
<1>1. Journaled(r)'
  BY DEF Journaled, GrowsTo, HasState
<1>2. Executed(r)'
  BY DEF Executed
<1> QED
  BY <1>1, <1>2

LEMMA ThreadKept ==
  ASSUME NEW r \in Runs, Threaded(r), worker'[r] = worker[r],
         svc'[r] = svc[r], source'[r] = source[r],
         catalog.runs[r] # None => catalog'.runs[r] # None,
         worker[r].pc \notin {"none", "gate"} /\ Evidence(r) => Evidence(r)'
  PROVE  Threaded(r)'
BY DEF Threaded

(* Evidence is only overwritten by a launch that has not executed. *)
LEMMA EvidenceKept ==
  ASSUME BackendInv, NEW c \in Clients, Owned(c), NEW r \in Runs, Evidence(r),
         \A j \in Keys \ {call[c].key} : catalog'.muts[j] = catalog.muts[j],
         ~(call[c].pc = "send" /\ RunFor(call[c].ask) = r)
  PROVE  Evidence(r)'
<1>1. PICK k \in Keys : /\ catalog.muts[k] # None
                        /\ catalog.muts[k].ask.op = "launch"
                        /\ RunFor(catalog.muts[k].ask) = r
                        /\ catalog.muts[k].state = "Committed"
  BY DEF Evidence
<1>2. Asked(c) /\ Called(c)
  BY InvParts
<1>3. k # call[c].key
  <2> SUFFICES ASSUME k = call[c].key PROVE FALSE
    OBVIOUS
  <2>1. CASE call[c].pc \in Cancelling
    <3>1. catalog.muts[k] = [ask |-> call[c].ask, state |-> "Intent"]
      BY <1>2, <2>1 DEF Called, Intended
    <3> QED
      BY <1>1, <3>1
  <2>2. CASE call[c].pc = "start"
    <3>1. catalog.muts[k] = [ask |-> call[c].ask, state |-> "Intent"]
      BY <1>2, <2>2 DEF Called, Intended
    <3> QED
      BY <1>1, <3>1
  <2>3. CASE call[c].pc = "send"
    <3>1. catalog.muts[k] = [ask |-> call[c].ask, state |-> "Committed"]
      BY <1>2, <2>3 DEF Called, Intended
    <3> QED
      BY <1>1, <2>3, <3>1
  <2> QED
    BY <1>1, <2>1, <2>2, <2>3 DEF Owned
<1>4. catalog'.muts[k] = catalog.muts[k]
  BY <1>3
<1> QED
  BY <1>1, <1>4 DEF Evidence, RunFor

(* A call that holds the catalog, or takes it when it is free, commits.     *)
LEMMA CallCommits ==
  ASSUME BackendInv, up, NEW c \in Clients, NEW x \in CallRecord,
         \A d \in Clients \ {c} : call[d].pc \notin Holding,
         UNCHANGED <<up, service, ran, calls>>,
         faults' \in 0 .. MaxFaults,
         catalog' \in Catalog, Valid(catalog'), GrowsTo(catalog'),
         \A j \in Keys :
           catalog'.muts[j] = catalog.muts[j] \/ (j = call[c].key /\ Owned(c)),
         call' = [call EXCEPT ![c] = x],
         x.pc \in Cancelling =>
           x.key = call[c].key /\ (call[c].pc \in Cancelling \/ Owned(c)),
         \/ answers' = answers
         \/ /\ answers' = answers \cup {<<call[c].key, call[c].ask>>}
            /\ call[c].key \in Keys /\ call[c].ask \in Ask
            /\ catalog'.muts[call[c].key] =
                 [ask |-> call[c].ask, state |-> "Committed"],
         Asked(c)' /\ Called(c)',
         worker' \in [Runs -> WorkerRecord],
         \A r \in Runs : worker'[r] = worker[r] \/ Threaded(r)',
         call[c].pc = "send" =>
           \/ catalog'.muts = catalog.muts
           \/ \A r \in Runs : RunFor(call[c].ask) = r => Threaded(r)'
  PROVE  BackendInv'
<1>1. /\ TypeOK /\ Down /\ Answered
      /\ \A d \in Clients : call[d] \in CallRecord /\ Asked(d) /\ Called(d)
      /\ \A r \in Runs : Threaded(r) /\ Journaled(r) /\ Executed(r)
  BY InvParts
<1>2. Owned(c) => /\ \A a \in answers : a[1] # call[c].key
                  /\ \A d \in Clients \ {c} :
                       call[d].pc \in Cancelling => call[d].key # call[c].key
  BY OwnKey
<1>3. x.pc \in Cancelling =>
        /\ x.key = call[c].key
        /\ \A d \in Clients \ {c} :
             call[d].pc \in Cancelling => call[d].key # call[c].key
  BY <1>2 DEF Owned
<1>4. /\ call' \in [Clients -> CallRecord] /\ Mutex' /\ Distinct'
      /\ call'[c] = x
      /\ \A d \in Clients \ {c} : call'[d] = call[d]
  BY <1>3, CallMoves
<1>5. answers' \subseteq Keys \X Ask
  BY <1>1 DEF TypeOK
<1>6. TypeOK'
  BY <1>1, <1>4, <1>5 DEF TypeOK, service, CallRecord, WorkerRecord, Places
<1>7. Answered'
  <2> SUFFICES ASSUME NEW a \in answers'
               PROVE  catalog'.muts[a[1]] = [ask |-> a[2], state |-> "Committed"]
    BY DEF Answered
  <2>1. CASE a \in answers
    <3>1. a[1] \in Keys
      BY <1>1, <2>1 DEF TypeOK
    <3>2. catalog'.muts[a[1]] = catalog.muts[a[1]]
      BY <1>2, <2>1, <3>1
    <3> QED
      BY <1>1, <2>1, <3>2 DEF Answered
  <2>2. CASE a \notin answers
    BY <2>2
  <2> QED
    BY <2>1, <2>2
<1>8. CallsOK'
  <2> SUFFICES ASSUME NEW d \in Clients PROVE Asked(d)' /\ Called(d)'
    BY DEF CallsOK
  <2>1. CASE d # c
    <3>1. call[d].pc \in Cancelling => call[d].key \in Keys
      BY <1>1, NoneAssumption DEF Asked, CallRecord, Cancelling
    <3>2. call[d].pc \in Cancelling =>
            catalog'.muts[call[d].key] = catalog.muts[call[d].key]
      BY <1>2, <2>1, <3>1
    <3>3. \A r \in Runs : catalog.runs[r] # None => catalog'.runs[r] # None
      BY DEF GrowsTo
    <3> QED
      BY <1>1, <1>4, <2>1, <3>2, <3>3, OtherCall
  <2> QED
    BY <2>1
<1>9. RunsOK'
  <2> SUFFICES ASSUME NEW r \in Runs
               PROVE  Threaded(r)' /\ Journaled(r)' /\ Executed(r)'
    BY DEF RunsOK
  <2>1. /\ svc' = svc /\ source' = source /\ journal' = journal /\ ran' = ran
        /\ up'
    BY DEF service
  <2>2. ASSUME Evidence(r), ~Evidence(r)'
        PROVE  /\ Owned(c) /\ call[c].pc = "send" /\ RunFor(call[c].ask) = r
               /\ catalog'.muts # catalog.muts
    <3>1. catalog'.muts # catalog.muts
      BY <2>2 DEF Evidence, RunFor
    <3>2. CASE Owned(c)
      BY <2>2, <3>1, <3>2, EvidenceKept
    <3>3. CASE ~Owned(c)
      <4>1. \A j \in Keys : catalog'.muts[j] = catalog.muts[j]
        BY <3>3
      <4> QED
        BY <2>2, <4>1 DEF Evidence, RunFor
    <3> QED
      BY <3>2, <3>3
  <2>3. ran[r] # <<>> /\ Evidence(r) => Evidence(r)'
    BY <1>1, <2>2 DEF Called
  <2>4. Journaled(r)' /\ Executed(r)'
    BY <1>1, <2>1, <2>3, RunKept
  <2>5. Threaded(r)'
    <3>1. CASE worker'[r] = worker[r] /\ ~Threaded(r)'
      <4>1. catalog.runs[r] # None => catalog'.runs[r] # None
        BY DEF GrowsTo
      <4>2. Evidence(r) => Evidence(r)'
        BY <2>2, <3>1
      <4> QED
        BY <1>1, <2>1, <3>1, <4>1, <4>2, ThreadKept
    <3> QED
      BY <3>1
  <2> QED
    BY <2>4, <2>5
<1>10. Down'
  BY DEF Down
<1> QED
  BY <1>4, <1>6, <1>7, <1>8, <1>9, <1>10 DEF BackendInv

(* A call that moves and leaves the catalog and the workers alone.          *)
LEMMA CallSteps ==
  ASSUME BackendInv, up, NEW c \in Clients, NEW x \in CallRecord,
         call' = [call EXCEPT ![c] = x],
         UNCHANGED <<catalog, up, worker, ran>>,
         svc' \in [Runs -> RunStatus \cup {"Absent"}],
         flag' \in [Runs -> {"none", "clear", "set"}],
         source' \in [Runs -> Plans \cup {None}],
         asked' \in [Runs -> {RequestOf[p] : p \in Plans} \cup {None}],
         journal' \in [Runs -> ExecutionState \cup {NoState}],
         faults' \in 0 .. MaxFaults, calls' \in 0 .. MaxCalls,
         \/ x.pc \notin Holding /\ UNCHANGED <<svc, source, answers>>
         \/ \A d \in Clients \ {c} : call[d].pc \notin Holding,
         x.pc \in Cancelling => x.key = call[c].key /\ call[c].pc \in Cancelling,
         \/ answers' = answers
         \/ /\ answers' = answers \cup {<<call[c].key, call[c].ask>>}
            /\ call[c].key \in Keys /\ call[c].ask \in Ask
            /\ catalog.muts[call[c].key] =
                 [ask |-> call[c].ask, state |-> "Committed"],
         Asked(c)' /\ Called(c)',
         \A r \in Runs :
           \/ svc'[r] = svc[r] /\ source'[r] = source[r] /\ journal'[r] = journal[r]
           \/ Threaded(r)' /\ Journaled(r)' /\ Executed(r)'
  PROVE  BackendInv'
<1>1. /\ TypeOK /\ Down /\ Answered /\ Valid(catalog)
      /\ \A d \in Clients : call[d] \in CallRecord /\ Asked(d) /\ Called(d)
      /\ \A r \in Runs : Threaded(r) /\ Journaled(r) /\ Executed(r)
  BY InvParts
<1>2. x.pc \in Cancelling =>
        /\ x.key = call[c].key
        /\ \A d \in Clients \ {c} :
             call[d].pc \in Cancelling => call[d].key # call[c].key
  BY OwnKey DEF Owned
<1>3. /\ call' \in [Clients -> CallRecord] /\ Mutex' /\ Distinct'
      /\ call'[c] = x
      /\ \A d \in Clients \ {c} : call'[d] = call[d]
  BY <1>2, CallMoves
<1>4. TypeOK'
  BY <1>1, <1>3 DEF TypeOK, CallRecord, WorkerRecord, Places
<1>5. Answered'
  <2> SUFFICES ASSUME NEW a \in answers'
               PROVE  catalog.muts[a[1]] = [ask |-> a[2], state |-> "Committed"]
    BY DEF Answered
  <2>1. CASE a \in answers
    BY <1>1, <2>1 DEF Answered
  <2>2. CASE a \notin answers
    BY <2>2
  <2> QED
    BY <2>1, <2>2
<1>6. CallsOK'
  <2> SUFFICES ASSUME NEW d \in Clients \ {c} PROVE Asked(d)' /\ Called(d)'
    BY DEF CallsOK
  <2>1. CASE call[d].pc \notin Holding
    BY <1>1, <1>3, <2>1, OtherCall
  <2>2. CASE UNCHANGED <<svc, source, answers>>
    BY <1>1, <1>3, <2>2, QuietCall
  <2> QED
    BY <2>1, <2>2
<1>7. RunsOK'
  <2> SUFFICES ASSUME NEW r \in Runs
               PROVE  Threaded(r)' /\ Journaled(r)' /\ Executed(r)'
    BY DEF RunsOK
  <2>1. CASE svc'[r] = svc[r] /\ source'[r] = source[r] /\ journal'[r] = journal[r]
    <3>1. Evidence(r)' <=> Evidence(r)
      BY DEF Evidence, RunFor
    <3>2. Threaded(r)'
      BY <1>1, <2>1, <3>1, ThreadKept
    <3>3. Journaled(r)'
      BY <1>1, <2>1, <3>1 DEF Journaled, HasState
    <3>4. Executed(r)'
      BY <1>1, <2>1, <3>1 DEF Executed
    <3> QED
      BY <3>2, <3>3, <3>4
  <2> QED
    BY <2>1
<1>8. Down' /\ Valid(catalog)'
  BY <1>1 DEF Down, Valid, ValidMutation, HasState, RunFor
<1> QED
  BY <1>3, <1>4, <1>5, <1>6, <1>7, <1>8 DEF BackendInv

-----------------------------------------------------------------------------
(* Calls that only move.                                                    *)

LEMMA Moved ==
  ASSUME NEW c \in Clients, call \in [Clients -> CallRecord], NEW pc \in Places
  PROVE  /\ [call[c] EXCEPT !.pc = pc] \in CallRecord
         /\ [call[c] EXCEPT !.pc = pc].pc = pc
         /\ [call[c] EXCEPT !.pc = pc].key = call[c].key
         /\ [call[c] EXCEPT !.pc = pc].ask = call[c].ask
         /\ [call EXCEPT ![c].pc = pc] = [call EXCEPT ![c] = [call[c] EXCEPT !.pc = pc]]
BY DEF CallRecord

(* What Called asks of a call about to answer its launch.                   *)
LEMMA SendCalled ==
  ASSUME NEW c \in Clients, NEW r \in Runs,
         call'[c].pc = "send", RunFor(call'[c].ask) = r,
         Intended(c, "Committed")', catalog'.runs[r] # None,
         source'[r] # None, svc'[r] # "Absent", ran'[r] = <<>>,
         worker'[r].pc = "gate", \A a \in answers' : a[1] # call'[c].key
  PROVE  Called(c)'
BY DEF Called, Cancelling, RunFor

LEMMA IdleCalled ==
  ASSUME NEW c \in Clients, call'[c] = Idle
  PROVE  Asked(c)' /\ Called(c)'
BY IdleFacts DEF Asked, Called, Launching, Cancelling

LEMMA FreeCatalog ==
  ASSUME CatalogFree
  PROVE  up /\ \A c \in Clients : call[c].pc \notin Holding
BY DEF CatalogFree

(* A request arrives; a call ends without effect, or answers what is        *)
(* recorded.                                                                *)
LEMMA ArriveKeeps ==
  ASSUME BackendInv, NEW c \in Clients, NEW k \in Keys \cup {None}, NEW a \in Ask,
         Arrive(c, k, a)
  PROVE  BackendInv'
<1> DEFINE x == [pc |-> "look", key |-> k, ask |-> a]
<1>1. TypeOK /\ up
  BY DEF BackendInv, Arrive, At
<1>2. x \in CallRecord /\ x.pc = "look" /\ x.key = k /\ x.ask = a
  BY DEF CallRecord, Places
<1>3. call' = [call EXCEPT ![c] = x]
  BY DEF Arrive
<1> HIDE DEF x
<1>4. call'[c] = x
  BY <1>1, <1>3, Types
<1>5. calls' \in 0 .. MaxCalls
  BY <1>1, BoundAssumption DEF TypeOK, Arrive
<1>6. Asked(c)'
  BY <1>2, <1>4 DEF Asked, Arrive, Launching, Cancelling
<1>7. Called(c)'
  BY <1>2, <1>4 DEF Called, Cancelling
<1>8. x.pc \notin Holding /\ x.pc \notin Cancelling
  BY <1>2 DEF Holding, Cancelling
<1>9. UNCHANGED <<catalog, up, worker, ran, svc, flag, source, asked, journal, answers, faults>>
  BY DEF Arrive, service
<1> QED
  BY <1>1, <1>2, <1>3, <1>5, <1>6, <1>7, <1>8, <1>9, CallSteps DEF TypeOK

LEMMA EndKeeps ==
  ASSUME BackendInv, up, NEW c \in Clients,
         UNCHANGED <<catalog, up, worker, ran, svc, source, asked, journal, faults, calls>>,
         flag' \in [Runs -> {"none", "clear", "set"}],
         \/ Err(c)
         \/ /\ Ok(c) /\ call[c].key \in Keys /\ call[c].ask \in Ask
            /\ catalog.muts[call[c].key] =
                 [ask |-> call[c].ask, state |-> "Committed"]
            /\ \A d \in Clients \ {c} : call[d].pc \notin Holding
  PROVE  BackendInv'
<1>1. TypeOK
  BY DEF BackendInv
<1>2. call' = [call EXCEPT ![c] = Idle]
  BY DEF Err, Ok
<1>3. call'[c] = Idle
  BY <1>1, <1>2, Types
<1>4. Asked(c)' /\ Called(c)'
  BY <1>3, IdleCalled
<1>5. Idle \in CallRecord /\ Idle.pc \notin Holding /\ Idle.pc \notin Cancelling
  BY IdleFacts DEF Holding, Cancelling
<1> QED
  BY <1>1, <1>2, <1>4, <1>5, CallSteps DEF TypeOK, Err, Ok

LEMMA GoKeeps ==
  ASSUME BackendInv, up, NEW c \in Clients, NEW pc \in Places, Go(c, pc),
         UNCHANGED <<catalog, up, worker, ran, svc, source, asked, journal, faults, calls>>,
         flag' \in [Runs -> {"none", "clear", "set"}],
         pc \in Holding => \A d \in Clients \ {c} : call[d].pc \notin Holding,
         call[c].ask \in Ask, call[c].ask.op = "status" <=> call[c].key = None,
         \/ /\ pc = "admit" /\ call[c].ask.op = "launch"
            /\ catalog.muts[call[c].key] = None
         \/ /\ pc = "refresh" /\ call[c].ask.op = "status"
            /\ catalog.runs[call[c].ask.on] # None
         \/ pc \in Cancelling /\ call[c].pc \in Cancelling
  PROVE  BackendInv'
<1>1. TypeOK /\ Asked(c) /\ Called(c) /\ call \in [Clients -> CallRecord]
  BY Types, InvParts
<1>2. PICK x \in CallRecord : /\ x.pc = pc /\ x.key = call[c].key /\ x.ask = call[c].ask
                              /\ call' = [call EXCEPT ![c] = x]
  BY <1>1, Moved DEF Go
<1>3. call'[c] = x
  BY <1>1, <1>2
<1>4. Asked(c)'
  BY <1>1, <1>2, <1>3 DEF Asked, Launching, Cancelling
<1>5. Called(c)'
  <2>1. CASE pc \in Cancelling
    <3>0. call[c].pc \in Cancelling
      BY <2>1 DEF Cancelling
    <3>1. Intended(c, "Intent")' /\ catalog.runs[RunFor(x.ask)] # None
      BY <1>1, <1>2, <1>3, <3>0 DEF Called, Intended
    <3> QED
      BY <1>2, <1>3, <2>1, <3>1 DEF Called, Cancelling, RunFor
  <2>2. CASE pc = "refresh"
    BY <1>2, <1>3, <2>2 DEF Called, Cancelling, RunFor
  <2>3. CASE pc = "admit"
    BY <1>2, <1>3, <2>3 DEF Called, Cancelling, RunFor
  <2> QED
    BY <2>1, <2>2, <2>3
<1>6. x.pc \in Cancelling => x.key = call[c].key /\ call[c].pc \in Cancelling
  BY <1>2 DEF Cancelling
<1>7. answers' = answers
  BY DEF Go
<1> QED
  BY <1>1, <1>2, <1>4, <1>5, <1>6, <1>7, CallSteps DEF TypeOK

LEMMA MovesKeep ==
  ASSUME BackendInv, NEW c \in Clients,
         \/ Retry(c) \/ Refuse(c) \/ LaunchLook(c) \/ StatusLook(c)
         \/ Signal(c) \/ Poll(c) \/ Expire(c)
  PROVE  BackendInv'
<1>1. TypeOK /\ Asked(c) /\ Called(c) /\ call[c] \in CallRecord
  BY InvParts
<1>2. CASE Retry(c)
  <2>1. /\ up /\ \A d \in Clients : call[d].pc \notin Holding
        /\ UNCHANGED <<catalog, up, worker, ran, svc, flag, source, asked, journal, faults, calls>>
        /\ call[c].ask \in Ask /\ call[c].key # None
    BY <1>1, <1>2, FreeCatalog DEF Retry, At, Asked, service
  <2>2. Err(c) \/ (Ok(c) /\ catalog.muts[call[c].key] =
                              [ask |-> call[c].ask, state |-> "Committed"])
    BY <1>2 DEF Retry
  <2>3. call[c].key \in Keys
    BY <1>1, <2>1 DEF CallRecord
  <2> QED
    BY <1>1, <2>1, <2>2, <2>3, EndKeeps DEF TypeOK
<1>3. CASE Refuse(c) \/ Expire(c)
  <2>1. /\ up /\ Err(c)
        /\ UNCHANGED <<catalog, up, worker, ran, svc, flag, source, asked, journal, faults, calls>>
    BY <1>3 DEF Refuse, Expire, At, service
  <2> QED
    BY <1>1, <2>1, EndKeeps DEF TypeOK
<1>4. CASE LaunchLook(c)
  <2>1. /\ up /\ \A d \in Clients : call[d].pc \notin Holding
        /\ UNCHANGED <<catalog, up, worker, ran, svc, flag, source, asked, journal, faults, calls>>
        /\ call[c].ask.op = "launch" /\ catalog.muts[call[c].key] = None
        /\ call[c].pc = "look" /\ Go(c, "admit")
    BY <1>4, FreeCatalog DEF LaunchLook, AtOp, At, NewKey, service
  <2>2. call[c].ask \in Ask /\ (call[c].ask.op = "status" <=> call[c].key = None)
    BY <1>1, <2>1 DEF Asked
  <2>3. "admit" \in Places
    BY DEF Places, Holding
  <2> QED
    BY <1>1, <2>1, <2>2, <2>3, GoKeeps DEF TypeOK
<1>5. CASE StatusLook(c)
  <2>1. /\ up /\ \A d \in Clients : call[d].pc \notin Holding
        /\ UNCHANGED <<catalog, up, worker, ran, svc, flag, source, asked, journal, faults, calls>>
        /\ call[c].ask.op = "status" /\ catalog.runs[call[c].ask.on] # None
        /\ call[c].pc = "look" /\ Go(c, "refresh")
    BY <1>5, FreeCatalog DEF StatusLook, AtOp, At, service
  <2>2. call[c].ask \in Ask /\ (call[c].ask.op = "status" <=> call[c].key = None)
    BY <1>1, <2>1 DEF Asked
  <2>3. "refresh" \in Places
    BY DEF Places, Holding
  <2> QED
    BY <1>1, <2>1, <2>2, <2>3, GoKeeps DEF TypeOK
<1>6. CASE Poll(c)
  <2>1. /\ up /\ \A d \in Clients : call[d].pc \notin Holding
        /\ UNCHANGED <<catalog, up, worker, ran, svc, flag, source, asked, journal, faults, calls>>
        /\ call[c].pc = "poll" /\ Go(c, "polling")
    BY <1>6, FreeCatalog DEF Poll, At, service
  <2>2. call[c].ask \in Ask /\ (call[c].ask.op = "status" <=> call[c].key = None)
    BY <1>1, <2>1 DEF Asked
  <2>3. "polling" \in Places /\ "polling" \in Cancelling /\ "poll" \in Cancelling
    BY DEF Places, Holding, Cancelling
  <2> QED
    BY <1>1, <2>1, <2>2, <2>3, GoKeeps DEF TypeOK
<1>7. CASE Signal(c)
  <2>1. /\ up /\ UNCHANGED <<catalog, up, worker, ran, svc, source, asked, journal, faults, calls>>
        /\ call[c].pc = "signal"
    BY <1>7 DEF Signal, At
  <2>2. call[c].ask \in Ask /\ (call[c].ask.op = "status" <=> call[c].key = None)
    BY <1>1, <2>1 DEF Asked
  <2>3. /\ "poll" \in Places /\ "poll" \notin Holding /\ "poll" \in Cancelling
        /\ "signal" \in Cancelling
    BY DEF Places, Holding, Cancelling
  <2>4. flag' \in [Runs -> {"none", "clear", "set"}] /\ (Err(c) \/ Go(c, "poll"))
    BY <1>1, <1>7 DEF Signal, TypeOK
  <2>5. CASE Err(c)
    BY <2>1, <2>4, <2>5, EndKeeps
  <2>6. CASE Go(c, "poll")
    BY <2>1, <2>2, <2>3, <2>4, <2>6, GoKeeps
  <2> QED
    BY <2>4, <2>5, <2>6
<1> QED
  BY <1>2, <1>3, <1>4, <1>5, <1>6, <1>7

-----------------------------------------------------------------------------
(* Admission, by the launch that holds the catalog.                         *)

LEMMA HolderAlone ==
  ASSUME BackendInv, NEW c \in Clients, call[c].pc \in Holding
  PROVE  \A d \in Clients \ {c} : call[d].pc \notin Holding
BY DEF BackendInv, Mutex

(* A run without a record has not begun: no thread, no execution. *)
LEMMA AbsentRun ==
  ASSUME BackendInv, up, NEW r \in Runs, svc[r] = "Absent"
  PROVE  /\ catalog.runs[r] = None /\ worker[r].pc = "none" /\ ran[r] = <<>>
         /\ journal[r] \in {NoState, "Planned"}
<1>1. Threaded(r) /\ Journaled(r) /\ Executed(r)
  BY InvParts
<1>2. catalog.runs[r] = None /\ journal[r] \in {NoState, "Planned"}
  BY <1>1 DEF Journaled
<1>3. worker[r].pc = "none"
  BY <1>1, <1>2 DEF Threaded
<1>4. journal[r] \notin Begun
  BY <1>2 DEF Begun, TerminalState, NoState
<1> QED
  BY <1>1, <1>2, <1>3, <1>4 DEF Executed

LEMMA AdmitKeeps ==
  ASSUME BackendInv, NEW c \in Clients, NEW p \in Plans, NEW r \in Runs,
         At(c, "admit"), p = call[c].ask.on, r = RunOf[p],
         UNCHANGED <<catalog, up, worker, ran, calls>>, faults' \in 0 .. MaxFaults,
         source' = [source EXCEPT ![r] = p],
         svc' \in [Runs -> RunStatus \cup {"Absent"}],
         flag' \in [Runs -> {"none", "clear", "set"}],
         asked' \in [Runs -> {RequestOf[q] : q \in Plans} \cup {None}],
         journal' \in [Runs -> ExecutionState \cup {NoState}],
         \A q \in Runs \ {r} : svc'[q] = svc[q] /\ journal'[q] = journal[q],
         svc'[r] = svc[r] \/ worker[r].pc = "none",
         Journaled(r)', Executed(r)',
         \/ Err(c)
         \/ Go(c, "intent") /\ catalog.runs[r] = None /\ svc'[r] # "Absent"
  PROVE  BackendInv'
<1>1. /\ TypeOK /\ Asked(c) /\ Called(c) /\ Threaded(r)
      /\ call \in [Clients -> CallRecord]
  BY Types, InvParts
<1>2. /\ up /\ call[c].pc = "admit" /\ call[c].pc \in Holding
      /\ call[c].ask \in Ask /\ call[c].ask.op = "launch" /\ call[c].key # None
      /\ catalog.muts[call[c].key] = None
  BY <1>1 DEF At, Asked, Called, Launching, Holding
<1>3. \A d \in Clients \ {c} : call[d].pc \notin Holding
  BY <1>2, HolderAlone
<1>4. /\ source' \in [Runs -> Plans \cup {None}]
      /\ source'[r] = p /\ p # None
      /\ \A q \in Runs \ {r} : source'[q] = source[q]
  <2>1. source \in [Runs -> Plans \cup {None}]
    BY <1>1 DEF TypeOK
  <2>2. p # None
    BY PlanAssumption
  <2> QED
    BY <2>1, <2>2
<1>5. Threaded(r)'
  <2>1. Evidence(r)' <=> Evidence(r)
    BY DEF Evidence, RunFor
  <2>2. worker[r].pc = "none" => worker[r].pc \notin Executing
    BY DEF Executing
  <2> QED
    BY <1>1, <1>4, <2>1, <2>2 DEF Threaded
<1>6. \A q \in Runs :
        \/ svc'[q] = svc[q] /\ source'[q] = source[q] /\ journal'[q] = journal[q]
        \/ Threaded(q)' /\ Journaled(q)' /\ Executed(q)'
  BY <1>4, <1>5
<1>7. answers' = answers
  BY DEF Err, Go
<1>8. CASE Err(c)
  <2>1. call' = [call EXCEPT ![c] = Idle] /\ call'[c] = Idle
    BY <1>1, <1>8 DEF Err
  <2>2. Asked(c)' /\ Called(c)'
    BY <2>1, IdleCalled
  <2>3. Idle \in CallRecord /\ Idle.pc \notin Cancelling
    BY IdleFacts DEF Cancelling
  <2>4. calls' \in 0 .. MaxCalls
    BY <1>1 DEF TypeOK
  <2> QED
    BY <1>2, <1>3, <1>4, <1>6, <1>7, <2>1, <2>2, <2>3, <2>4, CallSteps
<1>9. CASE Go(c, "intent") /\ catalog.runs[r] = None /\ svc'[r] # "Absent"
  <2>1. "intent" \in Places
    BY DEF Places, Holding
  <2>2. PICK x \in CallRecord :
          /\ x.pc = "intent" /\ x.key = call[c].key /\ x.ask = call[c].ask
          /\ call' = [call EXCEPT ![c] = x]
    <3>1. call' = [call EXCEPT ![c].pc = "intent"]
      BY <1>9 DEF Go
    <3>2. /\ [call[c] EXCEPT !.pc = "intent"] \in CallRecord
          /\ [call[c] EXCEPT !.pc = "intent"].pc = "intent"
          /\ [call[c] EXCEPT !.pc = "intent"].key = call[c].key
          /\ [call[c] EXCEPT !.pc = "intent"].ask = call[c].ask
          /\ [call EXCEPT ![c].pc = "intent"]
               = [call EXCEPT ![c] = [call[c] EXCEPT !.pc = "intent"]]
      BY <1>1, <2>1, Moved, Zenon
    <3> QED
      BY <3>1, <3>2, Zenon
  <2>3. call'[c] = x
    BY <1>1, <2>2
  <2>4. Asked(c)'
    BY <1>2, <2>2, <2>3 DEF Asked, Launching, Cancelling
  <2>5. x.ask.op = "launch" /\ RunOf[x.ask.on] = r /\ catalog' = catalog
    BY <1>2, <2>2
  <2>6. Called(c)'
    <3>1. catalog'.muts[x.key] = None /\ catalog'.runs[r] = None
      BY <1>2, <1>9, <2>2, <2>5
    <3>2. source'[r] # None /\ svc'[r] # "Absent"
      BY <1>4, <1>9
    <3>3. RunFor(x.ask) = r
      BY <2>5 DEF RunFor
    <3>4. x.pc = "intent" /\ x.pc \notin Cancelling
      BY <2>2 DEF Cancelling
    <3> QED
      BY <2>3, <3>1, <3>2, <3>3, <3>4 DEF Called, RunFor
  <2>7. x.pc \notin Cancelling
    BY <2>2 DEF Cancelling
  <2>8. calls' \in 0 .. MaxCalls
    BY <1>1 DEF TypeOK
  <2> QED
    BY <1>2, <1>3, <1>4, <1>6, <1>7, <2>2, <2>4, <2>6, <2>7, <2>8, CallSteps
<1> QED
  BY <1>8, <1>9

LEMMA AdmissionsKeep ==
  ASSUME BackendInv, NEW c \in Clients,
         AdmitKnown(c) \/ AdmitNew(c) \/ AdmitFails(c)
  PROVE  BackendInv'
<1>1. TypeOK /\ Asked(c) /\ Called(c) /\ up /\ call[c].pc = "admit" /\ At(c, "admit")
  BY InvParts DEF AdmitKnown, AdmitNew, AdmitFails, At
<1>2. call[c].ask \in Ask /\ call[c].ask.op = "launch"
  BY <1>1 DEF Asked, Launching
<1>3. PICK p \in Plans : p = call[c].ask.on
  BY <1>2, RunForIsRun
<1>4. PICK r \in Runs : r = RunOf[p]
  BY PlanAssumption
<1>5. Journaled(r) /\ Executed(r)
  BY InvParts
<1>6. UNCHANGED <<catalog, up, worker, ran, calls>> /\ source' = [source EXCEPT ![r] = p]
  BY <1>3, <1>4 DEF AdmitKnown, AdmitNew, AdmitFails
<1>7. Evidence(r)' <=> Evidence(r)
  BY <1>6 DEF Evidence, RunFor
<1>8. source'[r] = p
  BY <1>1, <1>6 DEF TypeOK
<1>9. CASE AdmitKnown(c)
  <2>1. UNCHANGED <<svc, flag, asked, journal, faults>>
    BY <1>9 DEF AdmitKnown
  <2>2. Journaled(r)' /\ Executed(r)'
    BY <1>4, <1>5, <1>6, <1>7, <1>8, <2>1 DEF Journaled, Executed, HasState
  <2>3. Err(c) \/ (Go(c, "intent") /\ catalog.runs[r] = None /\ svc'[r] # "Absent")
    BY <1>3, <1>4, <1>9, <2>1 DEF AdmitKnown, Admitted
  <2> QED
    BY <1>1, <1>3, <1>4, <1>6, <2>1, <2>2, <2>3, AdmitKeeps DEF TypeOK
<1>10. CASE AdmitNew(c) \/ AdmitFails(c)
  <2>1. svc[r] = "Absent"
    BY <1>3, <1>4, <1>10 DEF AdmitNew, AdmitFails
  <2>2. /\ catalog.runs[r] = None /\ worker[r].pc = "none" /\ ran[r] = <<>>
        /\ journal[r] \in {NoState, "Planned"}
    BY <1>1, <2>1, AbsentRun
  <2>3. Executed(r)'
    BY <1>6, <2>2 DEF Executed
  <2>4. /\ svc' \in [Runs -> RunStatus \cup {"Absent"}]
        /\ flag' \in [Runs -> {"none", "clear", "set"}]
        /\ asked' \in [Runs -> {RequestOf[q] : q \in Plans} \cup {None}]
        /\ journal' \in [Runs -> ExecutionState \cup {NoState}]
        /\ faults' \in 0 .. MaxFaults
    <3>1. /\ svc' = svc \/ \E s \in {"Prepared", "NeedsReconciliation"} :
                              svc' = [svc EXCEPT ![r] = s]
          /\ flag' = flag \/ flag' = [flag EXCEPT ![r] = IF @ = "none" THEN "clear" ELSE @]
          /\ asked' = asked \/ asked' = [asked EXCEPT ![r] = RequestOf[p]]
          /\ journal' = journal \/ \E s \in {"Planned", "Prepared"} :
                              journal' = [journal EXCEPT ![r] = s]
      BY <1>3, <1>4, <1>10 DEF AdmitNew, AdmitFails
    <3>2. svc' \in [Runs -> RunStatus \cup {"Absent"}]
      BY <1>1, <3>1 DEF TypeOK, RunStatus
    <3>3. journal' \in [Runs -> ExecutionState \cup {NoState}]
      BY <1>1, <3>1 DEF TypeOK, ExecutionState
    <3>4. flag' \in [Runs -> {"none", "clear", "set"}]
      <4>1. /\ flag \in [Runs -> {"none", "clear", "set"}]
            /\ (IF flag[r] = "none" THEN "clear" ELSE flag[r]) \in {"none", "clear", "set"}
        BY <1>1 DEF TypeOK
      <4> QED
        BY <3>1, <4>1
    <3>5. asked' \in [Runs -> {RequestOf[q] : q \in Plans} \cup {None}]
      <4>1. RequestOf[p] \in {RequestOf[q] : q \in Plans}
        OBVIOUS
      <4> QED
        BY <1>1, <3>1, <4>1 DEF TypeOK
    <3>6. faults' \in 0 .. MaxFaults
      <4>1. faults' = faults \/ (faults < MaxFaults /\ faults' = faults + 1)
        BY <1>10 DEF AdmitNew, AdmitFails, Fault
      <4> QED
        BY <1>1, <4>1, BoundAssumption DEF TypeOK
    <3> QED
      BY <3>2, <3>3, <3>4, <3>5, <3>6
  <2>5. \A q \in Runs \ {r} : svc'[q] = svc[q] /\ journal'[q] = journal[q]
    BY <1>1, <1>3, <1>4, <1>10 DEF AdmitNew, AdmitFails, TypeOK
  <2>6. \/ svc'[r] = svc[r] /\ journal'[r] = journal[r]
        \/ svc'[r] = svc[r] /\ journal'[r] = "Planned"
        \/ svc'[r] = "NeedsReconciliation" /\ journal'[r] \in {"Planned", "Prepared"}
        \/ svc'[r] = "Prepared" /\ journal'[r] = "Prepared"
    BY <1>1, <1>3, <1>4, <1>10 DEF AdmitNew, AdmitFails, TypeOK
  <2>7. Journaled(r)'
    <3>1. catalog'.runs[r] = None
      BY <1>6, <2>2
    <3> QED
      BY <1>4, <1>8, <2>1, <2>2, <2>6, <3>1
         DEF Journaled, HasState, TerminalState, NoState
  <2>8. Err(c) \/ (Go(c, "intent") /\ catalog.runs[r] = None /\ svc'[r] # "Absent")
    BY <1>1, <1>3, <1>4, <1>10, <2>2 DEF AdmitNew, AdmitFails, Admitted, TypeOK
  <2> QED
    BY <1>1, <1>3, <1>4, <1>6, <2>2, <2>3, <2>4, <2>5, <2>7, <2>8, AdmitKeeps
<1> QED
  BY <1>9, <1>10

-----------------------------------------------------------------------------
(* The commits of calls.                                                    *)

LEMMA SameRunsGrow ==
  ASSUME BackendInv, up, NEW new, new.runs = catalog.runs
  PROVE  GrowsTo(new)
BY Stays DEF GrowsTo, HasState

LEMMA RestatedGrows ==
  ASSUME BackendInv, up, NEW r \in Runs, NEW state, NEW mid, NEW new,
         Restated(mid, catalog, r, state), new.runs = mid.runs,
         catalog.runs[r] # None, state \in TerminalState => journal[r] = state
  PROVE  GrowsTo(new)
BY Stays DEF GrowsTo, HasState, Restated

(* A commit that writes the call's own mutation and ends the call. *)
LEMMA MutationCommits ==
  ASSUME BackendInv, up, NEW c \in Clients, Owned(c),
         call[c].key \in Keys, call[c].ask \in Ask,
         \A d \in Clients \ {c} : call[d].pc \notin Holding,
         UNCHANGED <<up, service, ran, calls>>,
         NEW staged \in Catalog, GrowsTo(staged), NEW deadline,
         \A j \in Keys : j # call[c].key => staged.muts[j] = catalog.muts[j],
         \/ (Commits(staged) \/ CommitFails(staged, deadline)) /\ Err(c)
         \/ /\ Commits(staged) /\ Ok(c)
            /\ staged.muts[call[c].key] = [ask |-> call[c].ask, state |-> "Committed"],
         worker' \in [Runs -> WorkerRecord],
         \A r \in Runs : worker'[r] = worker[r] \/ Threaded(r)',
         call[c].pc = "send" =>
           \A r \in Runs : RunFor(call[c].ask) = r => Threaded(r)'
  PROVE  BackendInv'
<1>1. /\ catalog' \in Catalog /\ Valid(catalog') /\ GrowsTo(catalog')
      /\ catalog' \in {catalog, staged}
      /\ faults' \in 0 .. MaxFaults
  BY CommitCases
<1>2. \A j \in Keys : catalog'.muts[j] = catalog.muts[j] \/ j = call[c].key
  BY <1>1
<1>3. TypeOK /\ call \in [Clients -> CallRecord]
  BY InvParts, Types
<1>4. call' = [call EXCEPT ![c] = Idle] /\ call'[c] = Idle
  BY <1>3 DEF Err, Ok
<1>5. Asked(c)' /\ Called(c)'
  BY <1>4, IdleCalled
<1>6. Idle \in CallRecord /\ Idle.pc \notin Cancelling
  BY IdleFacts DEF Cancelling
<1>7. \/ answers' = answers
      \/ /\ answers' = answers \cup {<<call[c].key, call[c].ask>>}
         /\ catalog'.muts[call[c].key] = [ask |-> call[c].ask, state |-> "Committed"]
  BY DEF Err, Ok, Commits
<1> QED
  BY <1>1, <1>2, <1>4, <1>5, <1>6, <1>7, CallCommits

LEMMA MutateKeeps ==
  ASSUME BackendInv, NEW c \in Clients, Mutate(c)
  PROVE  BackendInv'
<1>1. TypeOK /\ Asked(c) /\ call[c] \in CallRecord /\ catalog \in Catalog
      /\ worker \in [Runs -> WorkerRecord]
  BY InvParts, Types
<1>2. /\ up /\ \A d \in Clients : call[d].pc \notin Holding
      /\ call[c].pc = "look" /\ call[c].ask.op \in {"create", "repeat"}
      /\ Owned(c) /\ UNCHANGED <<up, worker, service, ran, calls>>
  BY FreeCatalog DEF Mutate, AtOp, At, NewKey, Owned
<1>3. call[c].ask \in Ask /\ call[c].key \in Keys
  BY <1>1, <1>2 DEF Asked, CallRecord
<1>4. PICK p \in IF call[c].ask.op = "create" THEN {call[c].ask.on} ELSE Fresh :
        LET staged == SetMut([catalog EXCEPT !.plans = @ \cup {p}],
                             call[c].key, call[c].ask, "Committed")
        IN \/ Commits(staged) /\ Ok(c)
           \/ CommitFails(staged, TRUE) /\ Err(c)
  BY DEF Mutate
<1>5. p \in Plans
  BY <1>3, <1>4 DEF Ask, Fresh
<1> DEFINE more == [catalog EXCEPT !.plans = @ \cup {p}]
           staged == SetMut(more, call[c].key, call[c].ask, "Committed")
<1>6. more \in Catalog /\ more.runs = catalog.runs /\ more.muts = catalog.muts
  BY <1>1, <1>5 DEF Catalog
<1>7. \/ Commits(staged) /\ Ok(c)
      \/ CommitFails(staged, TRUE) /\ Err(c)
  BY <1>4
<1> HIDE DEF more
<1>8. /\ staged \in Catalog /\ staged.runs = catalog.runs
      /\ staged.muts[call[c].key] = [ask |-> call[c].ask, state |-> "Committed"]
      /\ \A j \in Keys : j # call[c].key => staged.muts[j] = catalog.muts[j]
  <2>1. Rewritten(staged, more, call[c].key, call[c].ask, "Committed")
    BY <1>3, <1>6, SetMutParts
  <2> QED
    BY <1>6, <2>1 DEF Rewritten
<1> HIDE DEF staged
<1>9. GrowsTo(staged)
  BY <1>2, <1>8, SameRunsGrow
<1> QED
  BY <1>1, <1>2, <1>3, <1>7, <1>8, <1>9, MutationCommits

LEMMA SettleKeeps ==
  ASSUME BackendInv, NEW c \in Clients, Settle(c)
  PROVE  BackendInv'
<1> DEFINE done == SetMut(catalog, call[c].key, call[c].ask, "Committed")
           void == [catalog EXCEPT !.muts[call[c].key] = None]
<1>1. TypeOK /\ Asked(c) /\ call[c] \in CallRecord /\ catalog \in Catalog
      /\ worker \in [Runs -> WorkerRecord]
  BY InvParts, Types
<1>2. /\ up /\ \A d \in Clients : call[d].pc \notin Holding
      /\ call[c].pc \in {"cancelled", "finished"}
      /\ UNCHANGED <<up, worker, service, ran, calls>>
  BY FreeCatalog DEF Settle, At
<1>3. call[c].ask \in Ask /\ call[c].key \in Keys /\ Owned(c)
  BY <1>1, <1>2 DEF Asked, CallRecord, Cancelling, Owned
<1>4. \/ Commits(done) /\ Ok(c)
      \/ CommitFails(done, TRUE) /\ Err(c)
      \/ (Commits(void) \/ CommitFails(void, TRUE)) /\ Err(c)
  BY DEF Settle
<1>5. /\ done \in Catalog /\ done.runs = catalog.runs
      /\ done.muts[call[c].key] = [ask |-> call[c].ask, state |-> "Committed"]
      /\ \A j \in Keys : j # call[c].key => done.muts[j] = catalog.muts[j]
  <2>1. Rewritten(done, catalog, call[c].key, call[c].ask, "Committed")
    BY <1>1, <1>3, SetMutParts
  <2> QED
    BY <2>1 DEF Rewritten
<1>6. /\ void \in Catalog /\ void.runs = catalog.runs
      /\ \A j \in Keys : j # call[c].key => void.muts[j] = catalog.muts[j]
  BY <1>1, <1>3 DEF Catalog
<1> HIDE DEF done, void
<1>7. GrowsTo(done) /\ GrowsTo(void)
  BY <1>2, <1>5, <1>6, SameRunsGrow
<1>8. call[c].pc # "send"
  BY <1>2
<1>9. CASE (Commits(done) /\ Ok(c)) \/ (CommitFails(done, TRUE) /\ Err(c))
  BY <1>1, <1>2, <1>3, <1>5, <1>7, <1>8, <1>9, MutationCommits
<1>10. CASE (Commits(void) \/ CommitFails(void, TRUE)) /\ Err(c)
  BY <1>1, <1>2, <1>3, <1>6, <1>7, <1>8, <1>10, MutationCommits
<1> QED
  BY <1>4, <1>9, <1>10

(* The run of a launch or a cancellation, and who may hold the catalog. *)
LEMMA CallRun ==
  ASSUME BackendInv, NEW c \in Clients,
         call[c].pc \in Launching \cup Cancelling \cup {"refresh"}
  PROVE  /\ call[c].ask \in Ask /\ RunFor(call[c].ask) \in Runs
         /\ call[c].pc # "refresh" => call[c].key \in Keys /\ call[c].key # None
         /\ call[c].pc \in Launching =>
              call[c].ask.op = "launch" /\ call[c].ask.on \in Plans
         /\ call[c].pc \notin Launching => RunFor(call[c].ask) = call[c].ask.on
         /\ Called(c)
<1>1. Asked(c) /\ Called(c) /\ call[c] \in CallRecord
  BY InvParts
<1>2. /\ call[c].ask \in Ask
      /\ call[c].pc \in Launching => call[c].ask.op = "launch"
      /\ call[c].pc \in Cancelling => call[c].ask.op = "cancel"
      /\ call[c].pc = "refresh" => call[c].ask.op = "status"
      /\ call[c].ask.op # "status" => call[c].key # None
  BY <1>1 DEF Asked, Launching, Cancelling
<1>3. call[c].ask.op # "create"
  BY <1>2 DEF Launching, Cancelling
<1>4. call[c].pc # "refresh" => call[c].key \in Keys /\ call[c].key # None
  BY <1>1, <1>2 DEF CallRecord, Launching, Cancelling
<1> QED
  BY <1>1, <1>2, <1>3, <1>4, RunForIsRun DEF Launching, Cancelling

LEMMA IntentKeeps ==
  ASSUME BackendInv, NEW c \in Clients, Intent(c)
  PROVE  BackendInv'
<1>1. /\ TypeOK /\ call \in [Clients -> CallRecord] /\ catalog \in Catalog
      /\ worker \in [Runs -> WorkerRecord]
  BY InvParts, Types
<1>2. /\ up /\ call[c].pc = "intent" /\ call[c].pc \in Holding
      /\ UNCHANGED <<up, worker, service, ran, calls>>
  BY DEF Intent, At, Holding
<1>3. /\ call[c].ask \in Ask /\ call[c].key \in Keys /\ call[c].key # None
      /\ call[c].ask.op = "launch" /\ Called(c)
  BY <1>2, CallRun DEF Launching
<1>4. PICK p \in Plans : p = call[c].ask.on
  BY <1>2, CallRun DEF Launching
<1>5. PICK r \in Runs : r = RunOf[p] /\ r = RunFor(call[c].ask)
  BY <1>3, <1>4, PlanAssumption DEF RunFor
<1>6. /\ catalog.runs[r] = None /\ catalog.muts[call[c].key] = None
      /\ source[r] # None /\ svc[r] # "Absent"
  BY <1>2, <1>3, <1>5 DEF Called
<1>7. \A d \in Clients \ {c} : call[d].pc \notin Holding
  BY <1>2, HolderAlone
<1>8. worker[r].pc = "none" /\ ran[r] = <<>>
  <2>1. Threaded(r) /\ Executed(r) /\ Valid(catalog)
    BY InvParts
  <2>2. ~Evidence(r)
    BY <1>6, <2>1 DEF Valid, ValidMutation, Evidence
  <2> QED
    BY <1>6, <2>1, <2>2 DEF Threaded, Executed
<1> DEFINE e == [plan |-> p, state |-> "Planned"]
           added == [catalog EXCEPT !.runs[r] = e, !.latest[r] = "RunUpdated"]
           staged == SetMut(added, call[c].key, call[c].ask, "Intent")
<1>9. e \in RunRecord /\ e.state = "Planned" /\ e.plan = p /\ e # None
  <2>1. e \in RunRecord
    BY DEF RunRecord, PublicState
  <2> QED
    BY <2>1, NoneAssumption
<1>10. \/ Commits(staged) /\ Go(c, "start")
       \/ CommitFails(staged, TRUE) /\ Err(c)
  BY <1>4, <1>5 DEF Intent
<1> HIDE DEF e
<1>11. /\ added \in Catalog /\ added.muts = catalog.muts
       /\ added.runs[r] = e /\ \A q \in Runs : q # r => added.runs[q] = catalog.runs[q]
  BY <1>1, <1>9 DEF Catalog, EventKind
<1> HIDE DEF added
<1>12. Rewritten(staged, added, call[c].key, call[c].ask, "Intent")
  BY <1>3, <1>11, SetMutParts
<1> HIDE DEF staged
<1>13. GrowsTo(staged)
  <2>1. GrowsTo(catalog)
    BY <1>2, Stays
  <2>2. staged.runs = added.runs
    BY <1>12 DEF Rewritten
  <2> SUFFICES ASSUME NEW q \in Runs
               PROVE  /\ catalog.runs[q] # None => staged.runs[q] # None
                      /\ staged.runs[q] # None => svc[q] # "Absent"
                      /\ HasState(staged, q, TerminalState) =>
                           journal[q] = staged.runs[q].state
                      /\ staged.runs[q] # None => RunOf[staged.runs[q].plan] = q
    BY DEF GrowsTo
  <2>3. CASE q = r
    <3>1. staged.runs[q] = e
      BY <1>11, <2>2, <2>3
    <3>2. staged.runs[q].state = "Planned" /\ staged.runs[q].plan = p
      BY <1>9, <3>1
    <3> QED
      BY <1>5, <1>6, <1>9, <2>3, <3>1, <3>2 DEF HasState, TerminalState
  <2>4. CASE q # r
    BY <1>11, <2>1, <2>2, <2>4 DEF GrowsTo, HasState
  <2> QED
    BY <2>3, <2>4
<1>14. Owned(c)
  BY <1>6 DEF Owned
<1>15. /\ staged \in Catalog
       /\ \A j \in Keys : j # call[c].key => staged.muts[j] = catalog.muts[j]
  BY <1>11, <1>12 DEF Rewritten
<1>16. CASE CommitFails(staged, TRUE) /\ Err(c)
  BY <1>1, <1>2, <1>3, <1>7, <1>13, <1>14, <1>15, <1>16, MutationCommits
<1>17. CASE Commits(staged) /\ Go(c, "start")
  <2>1. /\ catalog' = staged /\ Valid(catalog') /\ faults' \in 0 .. MaxFaults
        /\ answers' = answers
    BY <1>1, <1>17 DEF Commits, Go, TypeOK
  <2>2. "start" \in Places
    BY DEF Places, Holding
  <2>3. PICK x \in CallRecord :
          /\ x.pc = "start" /\ x.key = call[c].key /\ x.ask = call[c].ask
          /\ call' = [call EXCEPT ![c] = x]
    BY <1>1, <1>17, <2>2, Moved DEF Go
  <2>4. call'[c] = x /\ x.pc \notin Cancelling
    BY <1>1, <2>3 DEF Cancelling
  <2>5. Asked(c)'
    BY <1>3, <2>3, <2>4 DEF Asked, Launching
  <2>6. Called(c)'
    <3>1. RunFor(x.ask) = r
      BY <1>5, <2>3
    <3>2. Intended(c, "Intent")'
      BY <1>12, <2>1, <2>3, <2>4 DEF Intended, Rewritten
    <3>3. catalog'.runs[r] # None
      BY <1>9, <1>11, <1>12, <2>1 DEF Rewritten
    <3>4. source' = source /\ svc' = svc /\ ran' = ran /\ worker' = worker
      BY <1>2 DEF service
    <3> QED
      BY <1>6, <1>8, <2>3, <2>4, <3>1, <3>2, <3>3, <3>4 DEF Called, RunFor
  <2> QED
    BY <1>1, <1>2, <1>7, <1>13, <1>14, <1>15, <2>1, <2>3, <2>4, <2>5, <2>6, CallCommits
<1> QED
  BY <1>10, <1>16, <1>17

LEMMA CancelIntentKeeps ==
  ASSUME BackendInv, NEW c \in Clients, CancelIntent(c)
  PROVE  BackendInv'
<1>1. /\ TypeOK /\ call \in [Clients -> CallRecord] /\ catalog \in Catalog
      /\ worker \in [Runs -> WorkerRecord] /\ Asked(c) /\ call[c] \in CallRecord
  BY InvParts, Types
<1>2. /\ up /\ \A d \in Clients : call[d].pc \notin Holding
      /\ call[c].pc = "look" /\ call[c].ask.op = "cancel"
      /\ Owned(c) /\ UNCHANGED <<up, worker, service, ran, calls>>
      /\ catalog.runs[call[c].ask.on] # None
  BY FreeCatalog DEF CancelIntent, AtOp, At, NewKey, Owned, HasState
<1>3. call[c].ask \in Ask /\ call[c].key \in Keys /\ call[c].key # None
  BY <1>1, <1>2 DEF Asked, CallRecord
<1> DEFINE staged == SetMut(catalog, call[c].key, call[c].ask, "Intent")
<1>4. \/ Commits(staged) /\ Go(c, "signal")
      \/ CommitFails(staged, TRUE) /\ Err(c)
  BY DEF CancelIntent
<1>5. Rewritten(staged, catalog, call[c].key, call[c].ask, "Intent")
  BY <1>1, <1>3, SetMutParts
<1> HIDE DEF staged
<1>6. /\ staged \in Catalog /\ staged.runs = catalog.runs
      /\ \A j \in Keys : j # call[c].key => staged.muts[j] = catalog.muts[j]
  BY <1>5 DEF Rewritten
<1>7. GrowsTo(staged)
  BY <1>2, <1>6, SameRunsGrow
<1>8. CASE CommitFails(staged, TRUE) /\ Err(c)
  BY <1>1, <1>2, <1>3, <1>6, <1>7, <1>8, MutationCommits
<1>9. CASE Commits(staged) /\ Go(c, "signal")
  <2>1. /\ catalog' = staged /\ Valid(catalog') /\ faults' \in 0 .. MaxFaults
        /\ answers' = answers
    BY <1>1, <1>9 DEF Commits, Go, TypeOK
  <2>2. "signal" \in Places
    BY DEF Places, Holding
  <2>3. PICK x \in CallRecord :
          /\ x.pc = "signal" /\ x.key = call[c].key /\ x.ask = call[c].ask
          /\ call' = [call EXCEPT ![c] = x]
    BY <1>1, <1>9, <2>2, Moved DEF Go
  <2>4. call'[c] = x
    BY <1>1, <2>3
  <2>5. Asked(c)'
    BY <1>2, <1>3, <2>3, <2>4 DEF Asked, Launching
  <2>6. Called(c)'
    <3>1. RunFor(x.ask) = call[c].ask.on
      BY <1>2, <2>3 DEF RunFor
    <3>2. Intended(c, "Intent")'
      BY <1>5, <2>1, <2>3, <2>4 DEF Intended, Rewritten
    <3>3. catalog'.runs[RunFor(x.ask)] # None
      BY <1>2, <1>6, <2>1, <3>1
    <3> QED
      BY <2>3, <2>4, <3>2, <3>3 DEF Called, RunFor
  <2> QED
    BY <1>1, <1>2, <1>6, <1>7, <2>1, <2>3, <2>4, <2>5, <2>6, CallCommits
<1> QED
  BY <1>4, <1>8, <1>9

(* The launch at its commitment: its run, its key, and the catalog it holds. *)
LEMMA LaunchFacts ==
  ASSUME BackendInv, NEW c \in Clients, up, call[c].pc \in {"start", "send"}
  PROVE  /\ call[c].ask \in Ask /\ call[c].ask.op = "launch"
         /\ call[c].key \in Keys /\ call[c].key # None
         /\ RunFor(call[c].ask) \in Runs
         /\ \A r \in Runs : r = RunFor(call[c].ask) =>
              /\ catalog.runs[r] # None /\ source[r] # None
              /\ svc[r] # "Absent" /\ ran[r] = <<>>
         /\ Owned(c) /\ \A a \in answers : a[1] # call[c].key
         /\ \A d \in Clients \ {c} : call[d].pc \notin Holding
<1>1. call[c].pc \in Launching /\ call[c].pc \in Holding /\ Owned(c)
  BY DEF Launching, Holding, Owned
<1>2. /\ call[c].ask \in Ask /\ call[c].ask.op = "launch"
      /\ call[c].key \in Keys /\ call[c].key # None
      /\ RunFor(call[c].ask) \in Runs /\ Called(c)
  BY <1>1, CallRun
<1>3. \A r \in Runs : r = RunFor(call[c].ask) =>
        /\ catalog.runs[r] # None /\ source[r] # None
        /\ svc[r] # "Absent" /\ ran[r] = <<>>
  BY <1>2 DEF Called
<1> QED
  BY <1>1, <1>2, <1>3, HolderAlone, OwnKey

LEMMA StartKeeps ==
  ASSUME BackendInv, NEW c \in Clients, Start(c)
  PROVE  BackendInv'
<1>1. /\ TypeOK /\ call \in [Clients -> CallRecord] /\ catalog \in Catalog
      /\ worker \in [Runs -> WorkerRecord]
  BY InvParts, Types
<1>2. /\ up /\ call[c].pc = "start" /\ UNCHANGED <<up, service, ran, calls>>
  BY DEF Start, At
<1>3. /\ call[c].ask \in Ask /\ call[c].ask.op = "launch"
      /\ call[c].key \in Keys /\ call[c].key # None
      /\ Owned(c) /\ \A a \in answers : a[1] # call[c].key
      /\ \A d \in Clients \ {c} : call[d].pc \notin Holding
  BY <1>2, LaunchFacts
<1>4. PICK r \in Runs : r = RunFor(call[c].ask)
  BY <1>2, LaunchFacts
<1>5. /\ catalog.runs[r] # None /\ source[r] # None
      /\ svc[r] # "Absent" /\ ran[r] = <<>>
  BY <1>2, <1>4, LaunchFacts
<1> DEFINE mid == SetRun(catalog, r, "Running", "RunStarted")
           staged == SetMut(mid, call[c].key, call[c].ask, "Committed")
<1>6. \/ /\ Commits(staged) /\ Go(c, "send")
         /\ worker' = [worker EXCEPT ![r] = Thread("gate", "Absent")]
      \/ CommitFails(staged, FALSE) /\ Err(c) /\ UNCHANGED worker
  BY <1>4 DEF Start
<1>7. Restated(mid, catalog, r, "Running")
  BY <1>1, <1>5, SetRunParts DEF PublicState, EventKind
<1> HIDE DEF mid
<1>8. mid \in Catalog /\ mid.muts = catalog.muts
  BY <1>7 DEF Restated
<1>9. Rewritten(staged, mid, call[c].key, call[c].ask, "Committed")
  BY <1>3, <1>8, SetMutParts
<1> HIDE DEF staged
<1>10. /\ staged \in Catalog /\ staged.runs = mid.runs
       /\ \A j \in Keys : j # call[c].key => staged.muts[j] = catalog.muts[j]
  BY <1>8, <1>9 DEF Rewritten
<1>11. GrowsTo(staged)
  BY <1>2, <1>5, <1>7, <1>10, RestatedGrows DEF TerminalState
<1>12. CASE CommitFails(staged, FALSE) /\ Err(c) /\ UNCHANGED worker
  BY <1>1, <1>2, <1>3, <1>10, <1>11, <1>12, MutationCommits
<1>13. CASE /\ Commits(staged) /\ Go(c, "send")
            /\ worker' = [worker EXCEPT ![r] = Thread("gate", "Absent")]
  <2>1. /\ catalog' = staged /\ Valid(catalog') /\ faults' \in 0 .. MaxFaults
        /\ answers' = answers
    BY <1>1, <1>13 DEF Commits, Go, TypeOK
  <2>2. "send" \in Places
    BY DEF Places, Holding
  <2>3. PICK x \in CallRecord :
          /\ x.pc = "send" /\ x.key = call[c].key /\ x.ask = call[c].ask
          /\ call' = [call EXCEPT ![c] = x]
    BY <1>1, <1>13, <2>2, Moved DEF Go
  <2>4. call'[c] = x /\ x.pc \notin Cancelling
    BY <1>1, <2>3 DEF Cancelling
  <2>5. Asked(c)'
    BY <1>3, <2>3, <2>4 DEF Asked, Launching
  <2>6. /\ worker' \in [Runs -> WorkerRecord] /\ worker'[r].pc = "gate"
        /\ \A q \in Runs : q # r => worker'[q] = worker[q]
    <3>1. Thread("gate", "Absent") \in WorkerRecord /\ Thread("gate", "Absent").pc = "gate"
      BY ThreadFacts
    <3> QED
      BY <1>1, <1>13, <3>1
  <2>7. source' = source /\ svc' = svc /\ ran' = ran
    BY <1>2 DEF service
  <2>8. catalog'.runs[r] # None
    BY <1>7, <1>10, <2>1 DEF Restated
  <2>9. Called(c)'
    <3>1. RunFor(x.ask) = r
      BY <1>4, <2>3
    <3>2. Intended(c, "Committed")'
      BY <1>9, <2>1, <2>3, <2>4 DEF Intended, Rewritten
    <3>3. \A a \in answers' : a[1] # x.key
      BY <1>3, <2>1, <2>3
    <3> QED
      BY <1>5, <2>3, <2>4, <2>6, <2>7, <2>8, <3>1, <3>2, <3>3 DEF Called, RunFor
  <2>10. Threaded(r)'
    BY <1>5, <2>6, <2>7, <2>8 DEF Threaded, Executing
  <2>11. \A q \in Runs : worker'[q] = worker[q] \/ Threaded(q)'
    BY <2>6, <2>10
  <2> QED
    BY <1>1, <1>2, <1>3, <1>10, <1>11, <2>1, <2>3, <2>4, <2>5, <2>6, <2>9, <2>11,
       CallCommits
<1> QED
  BY <1>6, <1>12, <1>13

LEMMA QuarantineKeeps ==
  ASSUME BackendInv, NEW c \in Clients, Quarantine(c)
  PROVE  BackendInv'
<1>1. /\ TypeOK /\ call \in [Clients -> CallRecord] /\ catalog \in Catalog
      /\ worker \in [Runs -> WorkerRecord]
  BY InvParts, Types
<1>2. /\ up /\ call[c].pc \in {"start", "send"} /\ UNCHANGED <<up, service, ran, calls>>
      /\ Err(c)
  BY DEF Quarantine, At
<1>3. /\ call[c].ask \in Ask /\ call[c].key \in Keys /\ Owned(c)
      /\ \A d \in Clients \ {c} : call[d].pc \notin Holding
  BY <1>2, LaunchFacts
<1>4. PICK r \in Runs : r = RunFor(call[c].ask)
  BY <1>2, LaunchFacts
<1>5. catalog.runs[r] # None
  BY <1>2, <1>4, LaunchFacts
<1> DEFINE mid == SetRun(catalog, r, "NeedsReconciliation", "ReconciliationRequired")
           staged == SetMut(mid, call[c].key, call[c].ask, "NeedsReconciliation")
<1>6. /\ Commits(staged) \/ CommitFails(staged, FALSE)
      /\ worker' = [worker EXCEPT ![r] = NoThread]
  BY <1>4 DEF Quarantine
<1>7. Restated(mid, catalog, r, "NeedsReconciliation")
  BY <1>1, <1>5, SetRunParts DEF PublicState, EventKind
<1> HIDE DEF mid
<1>8. mid \in Catalog /\ mid.muts = catalog.muts
  BY <1>7 DEF Restated
<1>9. Rewritten(staged, mid, call[c].key, call[c].ask, "NeedsReconciliation")
  BY <1>3, <1>8, SetMutParts
<1> HIDE DEF staged
<1>10. /\ staged \in Catalog /\ staged.runs = mid.runs
       /\ \A j \in Keys : j # call[c].key => staged.muts[j] = catalog.muts[j]
  BY <1>8, <1>9 DEF Rewritten
<1>11. GrowsTo(staged)
  BY <1>2, <1>5, <1>7, <1>10, RestatedGrows DEF TerminalState
<1>12. /\ worker' \in [Runs -> WorkerRecord] /\ worker'[r].pc = "none"
       /\ \A q \in Runs : q # r => worker'[q] = worker[q]
  BY <1>1, <1>6, ThreadFacts
<1>13. Threaded(r)'
  BY <1>12 DEF Threaded, Executing
<1>14. \A q \in Runs : worker'[q] = worker[q] \/ Threaded(q)'
  BY <1>12, <1>13
<1>15. \A q \in Runs : RunFor(call[c].ask) = q => Threaded(q)'
  BY <1>4, <1>13
<1>16. \/ (Commits(staged) \/ CommitFails(staged, FALSE)) /\ Err(c)
       \/ /\ Commits(staged) /\ Ok(c)
          /\ staged.muts[call[c].key] = [ask |-> call[c].ask, state |-> "Committed"]
  BY <1>2, <1>6
<1>17. call[c].pc = "send" => \A q \in Runs : RunFor(call[c].ask) = q => Threaded(q)'
  BY <1>15
<1>18. up /\ UNCHANGED <<up, service, ran, calls>>
  BY <1>2
<1> QED
  BY <1>3, <1>10, <1>11, <1>12, <1>14, <1>16, <1>17, <1>18, MutationCommits

LEMMA SendKeeps ==
  ASSUME BackendInv, NEW c \in Clients, Send(c)
  PROVE  BackendInv'
<1>1. /\ TypeOK /\ call \in [Clients -> CallRecord] /\ catalog \in Catalog
      /\ worker \in [Runs -> WorkerRecord] /\ Called(c) /\ Valid(catalog)
  BY InvParts, Types
<1>2. /\ up /\ call[c].pc = "send" /\ UNCHANGED <<catalog, up, service, ran, faults, calls>>
      /\ Ok(c)
  BY DEF Send, At
<1>3. /\ call[c].ask \in Ask /\ call[c].key \in Keys
      /\ call[c].ask.op = "launch" /\ Owned(c)
      /\ \A d \in Clients \ {c} : call[d].pc \notin Holding
  BY <1>2, LaunchFacts
<1>4. PICK r \in Runs : r = RunFor(call[c].ask)
  BY <1>2, LaunchFacts
<1>5. catalog.runs[r] # None /\ source[r] # None
  BY <1>2, <1>4, LaunchFacts
<1>6. catalog.muts[call[c].key] = [ask |-> call[c].ask, state |-> "Committed"]
  BY <1>1, <1>2 DEF Called, Intended
<1>7. /\ worker' \in [Runs -> WorkerRecord] /\ worker'[r].pc = "go"
      /\ \A q \in Runs : q # r => worker'[q] = worker[q]
  <2>1. worker' = [worker EXCEPT ![r].pc = "go"]
    BY <1>4 DEF Send
  <2> QED
    BY <1>1, <2>1 DEF WorkerRecord
<1>8. Evidence(r)'
  <2>1. [ask |-> call[c].ask, state |-> "Committed"] \in MutationRecord
    BY <1>3 DEF MutationRecord
  <2>2. catalog.muts[call[c].key] # None
    BY <1>6, <2>1, NoneAssumption
  <2>3. /\ catalog.muts[call[c].key].ask = call[c].ask
        /\ catalog.muts[call[c].key].state = "Committed"
    BY <1>6
  <2>4. Evidence(r)
    BY <1>3, <1>4, <2>2, <2>3 DEF Evidence
  <2> QED
    BY <1>2, <2>4 DEF Evidence, RunFor
<1>9. Threaded(r)'
  BY <1>2, <1>5, <1>7, <1>8 DEF Threaded, Executing, service
<1>10. \A q \in Runs : worker'[q] = worker[q] \/ Threaded(q)'
  BY <1>7, <1>9
<1>11. call' = [call EXCEPT ![c] = Idle] /\ call'[c] = Idle
       /\ answers' = answers \cup {<<call[c].key, call[c].ask>>}
  BY <1>1, <1>2 DEF Ok
<1>12. Asked(c)' /\ Called(c)'
  BY <1>11, IdleCalled
<1>13. Idle \in CallRecord /\ Idle.pc \notin Cancelling
  BY IdleFacts DEF Cancelling
<1>14. GrowsTo(catalog')
  BY <1>2, Stays
<1>15. /\ catalog' \in Catalog /\ Valid(catalog') /\ faults' \in 0 .. MaxFaults
       /\ catalog'.muts = catalog.muts
  BY <1>1, <1>2 DEF TypeOK
<1> QED
  BY <1>2, <1>3, <1>6, <1>7, <1>10, <1>11, <1>12, <1>13, <1>14, <1>15, CallCommits

-----------------------------------------------------------------------------
(* What the orchestrator says is carried into the catalog.                  *)

LEMMA ObservedFacts ==
  ASSUME BackendInv, up, NEW r \in Runs, catalog.runs[r] # None
  PROVE  /\ Observed(r) \in PublicState /\ Kind(Observed(r)) \in EventKind
         /\ Observed(r) \in TerminalState => journal[r] = Observed(r)
<1>1. Journaled(r) /\ svc[r] \in RunStatus \cup {"Absent"}
  BY InvParts DEF TypeOK
<1>2. svc[r] \in RunStatus
  BY <1>1 DEF Journaled
<1>3. Observed(r) \in PublicState
  BY <1>2 DEF Observed, Public, RunStatus, PublicState
<1>4. Observed(r) \in TerminalState => journal[r] = Observed(r)
  BY <1>1 DEF Observed, Public, TerminalState, Journaled
<1> QED
  BY <1>3, <1>4, KindIsEvent

LEMMA RefreshKeeps ==
  ASSUME BackendInv, NEW c \in Clients, Refresh(c)
  PROVE  BackendInv'
<1>1. /\ TypeOK /\ call \in [Clients -> CallRecord] /\ catalog \in Catalog
      /\ worker \in [Runs -> WorkerRecord] /\ Asked(c) /\ Called(c) /\ Valid(catalog)
  BY InvParts, Types
<1>2. /\ up /\ call[c].pc \in {"refresh", "polling"} /\ call[c].pc \in Holding
      /\ UNCHANGED <<up, worker, service, ran, calls>>
  BY DEF Refresh, At, Holding
<1>3. \A d \in Clients \ {c} : call[d].pc \notin Holding
  BY <1>2, HolderAlone
<1>4. PICK r \in Runs : r = call[c].ask.on /\ r = RunFor(call[c].ask)
  BY <1>2, CallRun DEF Launching, Cancelling
<1>5. catalog.runs[r] # None
  BY <1>1, <1>2, <1>4 DEF Called, Cancelling
<1>6. /\ Observed(r) \in PublicState /\ Kind(Observed(r)) \in EventKind
      /\ Observed(r) \in TerminalState => journal[r] = Observed(r)
  BY <1>2, <1>5, ObservedFacts
<1> DEFINE staged == SetRun(catalog, r, Observed(r), Kind(Observed(r)))
<1>7. \/ Refreshed(c, Observed(r)) /\ UNCHANGED <<catalog, faults>>
      \/ Commits(staged) /\ Refreshed(c, Observed(r))
      \/ CommitFails(staged, TRUE) /\ Err(c)
  BY <1>4 DEF Refresh
<1>8. Restated(staged, catalog, r, Observed(r))
  BY <1>1, <1>5, <1>6, SetRunParts
<1> HIDE DEF staged
<1>9. staged \in Catalog /\ GrowsTo(staged) /\ staged.muts = catalog.muts
      /\ staged.runs[r] # None
  BY <1>2, <1>5, <1>6, <1>8, RestatedGrows DEF Restated
<1>10. /\ catalog' \in Catalog /\ Valid(catalog') /\ GrowsTo(catalog')
       /\ catalog'.muts = catalog.muts /\ catalog'.runs[r] # None
       /\ faults' \in 0 .. MaxFaults
  <2>1. CASE UNCHANGED <<catalog, faults>>
    BY <1>1, <1>2, <1>5, <2>1, Stays DEF TypeOK
  <2>2. CASE Commits(staged) \/ CommitFails(staged, TRUE)
    BY <1>2, <1>5, <1>9, <2>2, CommitCases
  <2> QED
    BY <1>7, <2>1, <2>2
<1>11. \/ Err(c)
       \/ /\ call[c].pc = "polling"
          /\ \E pc \in {"cancelled", "finished", "poll"} : Go(c, pc)
  <2>1. Refreshed(c, Observed(r)) \/ Err(c)
    BY <1>7
  <2> HIDE DEF staged
  <2> QED
    BY <1>2, <2>1 DEF Refreshed, At
<1>12. answers' = answers
  BY <1>11 DEF Err, Go
<1>13. CASE Err(c)
  <2>1. call' = [call EXCEPT ![c] = Idle] /\ call'[c] = Idle
    BY <1>1, <1>13 DEF Err
  <2>2. Asked(c)' /\ Called(c)'
    BY <2>1, IdleCalled
  <2>3. Idle \in CallRecord /\ Idle.pc \notin Cancelling /\ call[c].pc # "send"
    BY <1>2, IdleFacts DEF Cancelling
  <2> QED
    BY <1>1, <1>2, <1>3, <1>10, <1>12, <2>1, <2>2, <2>3, CallCommits
<1>14. CASE call[c].pc = "polling" /\ \E pc \in {"cancelled", "finished", "poll"} : Go(c, pc)
  <2>1. PICK pc \in {"cancelled", "finished", "poll"} : Go(c, pc)
    BY <1>14
  <2>2. /\ pc \in Places /\ pc \in Cancelling /\ pc \notin Holding
        /\ call[c].pc \in Cancelling /\ call[c].pc # "send"
    BY <1>14 DEF Places, Cancelling, Holding
  <2>3. PICK x \in CallRecord :
          /\ x.pc = pc /\ x.key = call[c].key /\ x.ask = call[c].ask
          /\ call' = [call EXCEPT ![c] = x]
    BY <1>1, <2>1, <2>2, Moved DEF Go
  <2>4. call'[c] = x
    BY <1>1, <2>3
  <2>5. Asked(c)'
    BY <1>1, <1>14, <2>2, <2>3, <2>4 DEF Asked, Launching, Holding, Cancelling
  <2>6. Called(c)'
    <3>1. Intended(c, "Intent")'
      BY <1>1, <1>10, <2>2, <2>3, <2>4 DEF Called, Intended
    <3>2. catalog'.runs[RunFor(x.ask)] # None
      BY <1>4, <1>10, <2>3
    <3> QED
      BY <2>1, <2>3, <2>4, <3>1, <3>2 DEF Called, RunFor
  <2> QED
    BY <1>1, <1>2, <1>3, <1>10, <1>12, <2>2, <2>3, <2>5, <2>6, CallCommits
<1> QED
  BY <1>11, <1>13, <1>14

(* A worker that holds neither mutex reports, when the catalog is free.     *)
LEMMA ReportKeeps ==
  ASSUME BackendInv, NEW r \in Runs, Report(r)
  PROVE  BackendInv'
<1>1. /\ TypeOK /\ catalog \in Catalog /\ worker \in [Runs -> WorkerRecord]
      /\ Valid(catalog) /\ Answered /\ Mutex /\ Distinct
      /\ \A d \in Clients : Asked(d) /\ Called(d)
      /\ \A q \in Runs : Threaded(q) /\ Journaled(q) /\ Executed(q)
  BY InvParts, Types
<1>2. /\ up /\ \A d \in Clients : call[d].pc \notin Holding
      /\ worker[r].pc = "report" /\ worker' = [worker EXCEPT ![r] = NoThread]
      /\ UNCHANGED <<up, call, service, ran, answers, calls>>
  BY FreeCatalog DEF Report
<1>3. catalog.runs[r] # None
  BY <1>1, <1>2 DEF Threaded
<1> DEFINE state == IF Observed(r) \in TerminalState THEN Observed(r)
                    ELSE "NeedsReconciliation"
           staged == SetRun(catalog, r, state, Kind(state))
<1>4. UNCHANGED <<catalog, faults>> \/ Commits(staged) \/ CommitFails(staged, FALSE)
  BY DEF Report
<1>5. /\ state \in PublicState /\ Kind(state) \in EventKind
      /\ state \in TerminalState => journal[r] = state
  <2>1. Observed(r) \in TerminalState => journal[r] = Observed(r)
    BY <1>2, <1>3, ObservedFacts
  <2>2. state \in PublicState
    BY DEF PublicState
  <2> QED
    BY <2>1, <2>2, KindIsEvent DEF TerminalState
<1> HIDE DEF state
<1>6. Restated(staged, catalog, r, state)
  BY <1>1, <1>3, <1>5, SetRunParts
<1> HIDE DEF staged
<1>7. staged \in Catalog /\ GrowsTo(staged) /\ staged.muts = catalog.muts
  BY <1>2, <1>3, <1>5, <1>6, RestatedGrows DEF Restated
<1>8. /\ catalog' \in Catalog /\ Valid(catalog') /\ GrowsTo(catalog')
      /\ catalog'.muts = catalog.muts /\ faults' \in 0 .. MaxFaults
  <2>1. CASE UNCHANGED <<catalog, faults>>
    BY <1>1, <1>2, <2>1, Stays DEF TypeOK
  <2>2. CASE Commits(staged) \/ CommitFails(staged, FALSE)
    BY <1>2, <1>7, <2>2, CommitCases
  <2> QED
    BY <1>4, <2>1, <2>2
<1>9. /\ worker' \in [Runs -> WorkerRecord] /\ worker'[r].pc = "none"
      /\ \A q \in Runs : q # r => worker'[q] = worker[q]
  BY <1>1, <1>2, ThreadFacts
<1>10. TypeOK'
  BY <1>1, <1>2, <1>8, <1>9 DEF TypeOK, service, WorkerRecord
<1>11. CallsOK'
  <2>1. \A q \in Runs : catalog.runs[q] # None => catalog'.runs[q] # None
    BY <1>8 DEF GrowsTo
  <2> QED
    BY <1>1, <1>2, <1>8, <2>1, OtherCall DEF CallsOK
<1>12. RunsOK'
  <2> SUFFICES ASSUME NEW q \in Runs
               PROVE  Threaded(q)' /\ Journaled(q)' /\ Executed(q)'
    BY DEF RunsOK
  <2>1. Evidence(q)' <=> Evidence(q)
    BY <1>8 DEF Evidence, RunFor
  <2>2. svc' = svc /\ source' = source /\ journal' = journal /\ ran' = ran /\ up'
    BY <1>2 DEF service
  <2>3. Journaled(q)' /\ Executed(q)'
    BY <1>1, <1>2, <1>8, <2>1, <2>2, RunKept
  <2>4. Threaded(q)'
    <3>1. CASE q = r
      BY <1>9, <3>1 DEF Threaded, Executing
    <3>2. CASE q # r
      <4>1. catalog.runs[q] # None => catalog'.runs[q] # None
        BY <1>8 DEF GrowsTo
      <4> QED
        BY <1>1, <1>9, <2>1, <2>2, <3>2, <4>1, ThreadKept
    <3> QED
      BY <3>1, <3>2
  <2> QED
    BY <2>3, <2>4
<1>13. Answered' /\ Mutex' /\ Distinct' /\ Down'
  BY <1>1, <1>2, <1>8 DEF Answered, Mutex, Distinct, Down
<1> QED
  BY <1>8, <1>10, <1>11, <1>12, <1>13 DEF BackendInv

-----------------------------------------------------------------------------
(* The worker and the orchestrator.                                         *)

LEMMA WorkerSteps ==
  ASSUME BackendInv, NEW r \in Runs, worker[r].pc \notin {"none", "gate"},
         UNCHANGED <<catalog, up, call, source, asked, answers, calls>>,
         worker' \in [Runs -> WorkerRecord],
         svc' \in [Runs -> RunStatus \cup {"Absent"}],
         flag' \in [Runs -> {"none", "clear", "set"}],
         journal' \in [Runs -> ExecutionState \cup {NoState}],
         ran' \in [Runs -> Seq(Plans)], faults' \in 0 .. MaxFaults,
         \A q \in Runs \ {r} : /\ worker'[q] = worker[q] /\ svc'[q] = svc[q]
                               /\ journal'[q] = journal[q] /\ ran'[q] = ran[q],
         svc'[r] # "Absent" \/ svc'[r] = svc[r],
         Threaded(r)', Journaled(r)', Executed(r)'
  PROVE  BackendInv'
<1>1. /\ TypeOK /\ Down /\ Valid(catalog) /\ Answered /\ Mutex /\ Distinct
      /\ \A d \in Clients : Asked(d) /\ Called(d)
      /\ \A q \in Runs : Threaded(q) /\ Journaled(q) /\ Executed(q)
  BY InvParts
<1>2. TypeOK'
  BY <1>1 DEF TypeOK, WorkerRecord
<1>3. up /\ up'
  BY <1>1, ThreadFacts DEF Down
<1>4. CallsOK'
  <2> SUFFICES ASSUME NEW d \in Clients PROVE Asked(d)' /\ Called(d)'
    BY DEF CallsOK
  <2>1. Asked(d)'
    BY <1>1 DEF Asked
  <2>2. CASE call[d].pc \notin Holding
    BY <1>1, <2>2, OtherCall
  <2>3. CASE call[d].pc \in {"intent", "start", "send"}
    <3>1. PICK q \in Runs : q = RunFor(call[d].ask)
      BY <2>3, CallRun DEF Launching
    <3>2. q = r => call[d].pc = "intent"
      <4>1. call[d].pc = "start" => worker[q].pc = "none"
        BY <1>1, <3>1 DEF Called
      <4>2. call[d].pc = "send" => worker[q].pc = "gate"
        BY <1>1, <3>1 DEF Called
      <4> QED
        BY <2>3, <4>1, <4>2
    <3>3. call[d].pc # "intent" => worker'[q] = worker[q] /\ ran'[q] = ran[q]
      BY <3>2
    <3>4. svc[q] # "Absent" => svc'[q] # "Absent"
      OBVIOUS
    <3>5. CASE call[d].pc = "intent"
      <4>1. /\ catalog.muts[call[d].key] = None /\ catalog.runs[q] = None
            /\ source[q] # None /\ svc[q] # "Absent"
        BY <1>1, <3>1, <3>5 DEF Called
      <4> QED
        BY <2>1, <3>1, <3>4, <3>5, <4>1 DEF Called, Cancelling, RunFor
    <3>6. CASE call[d].pc = "start"
      <4>1. /\ Intended(d, "Intent") /\ catalog.runs[q] # None
            /\ source[q] # None /\ svc[q] # "Absent" /\ ran[q] = <<>>
            /\ worker[q].pc = "none"
        BY <1>1, <3>1, <3>6 DEF Called
      <4>2. Intended(d, "Intent")'
        BY <4>1 DEF Intended
      <4> QED
        BY <2>1, <3>1, <3>3, <3>4, <3>6, <4>1, <4>2 DEF Called, Cancelling, RunFor
    <3>7. CASE call[d].pc = "send"
      <4>1. /\ Intended(d, "Committed") /\ catalog.runs[q] # None
            /\ source[q] # None /\ svc[q] # "Absent" /\ ran[q] = <<>>
            /\ worker[q].pc = "gate" /\ \A a \in answers : a[1] # call[d].key
        BY <1>1, <3>1, <3>7 DEF Called
      <4>2. Intended(d, "Committed")'
        BY <4>1 DEF Intended
      <4>3. /\ catalog'.runs[q] # None /\ source'[q] # None /\ svc'[q] # "Absent"
            /\ ran'[q] = <<>> /\ worker'[q].pc = "gate"
            /\ \A a \in answers' : a[1] # call'[d].key
        BY <2>1, <3>3, <3>4, <3>7, <4>1
      <4>4. call'[d].pc = "send" /\ RunFor(call'[d].ask) = q
        BY <2>1, <3>1, <3>7 DEF RunFor
      <4> QED
        BY <2>1, <4>2, <4>3, <4>4, SendCalled
    <3> QED
      BY <2>3, <3>5, <3>6, <3>7
  <2>4. CASE call[d].pc \in {"admit", "refresh", "signal", "polling"}
    BY <1>1, <2>1, <2>4 DEF Called, Intended, RunFor, Cancelling
  <2> QED
    BY <2>1, <2>2, <2>3, <2>4 DEF Holding
<1>5. RunsOK'
  <2> SUFFICES ASSUME NEW q \in Runs \ {r}
               PROVE  Threaded(q)' /\ Journaled(q)' /\ Executed(q)'
    BY DEF RunsOK
  <2>1. Evidence(q)' <=> Evidence(q)
    BY DEF Evidence, RunFor
  <2>2. Threaded(q)'
    BY <1>1, <2>1, ThreadKept
  <2>3. Journaled(q)'
    BY <1>1 DEF Journaled, HasState
  <2>4. Executed(q)'
    BY <1>1, <2>1 DEF Executed
  <2> QED
    BY <2>2, <2>3, <2>4
<1>6. Answered' /\ Mutex' /\ Distinct' /\ Down' /\ Valid(catalog)'
  BY <1>1, <1>3 DEF Answered, Mutex, Distinct, Down
<1> QED
  BY <1>2, <1>4, <1>5, <1>6 DEF BackendInv

(* A thread that has not ended keeps what it knows. *)
LEMMA ThreadGoes ==
  ASSUME NEW r \in Runs, Threaded(r), worker[r].pc \notin {"none", "gate"},
         UNCHANGED <<catalog, source>>,
         worker'[r].pc \in Executing => svc'[r] = "Running",
         worker'[r].pc = "concluding" => worker'[r].goal \in TerminalState
  PROVE  Threaded(r)' /\ Evidence(r)'
<1>1. Evidence(r) /\ catalog.runs[r] # None /\ source[r] # None
  BY DEF Threaded
<1>2. Evidence(r)'
  BY <1>1 DEF Evidence, RunFor
<1> QED
  BY <1>1, <1>2 DEF Threaded

LEMMA ExecuteKeeps ==
  ASSUME BackendInv, NEW r \in Runs, Execute(r)
  PROVE  BackendInv'
<1>1. /\ TypeOK /\ worker \in [Runs -> WorkerRecord]
      /\ Threaded(r) /\ Journaled(r) /\ Executed(r)
  BY InvParts, Types
<1>2. /\ worker[r].pc = "go" /\ up
      /\ UNCHANGED <<catalog, up, call, flag, source, asked, answers, calls>>
  BY DEF Execute, ServiceFree
<1>3. catalog.runs[r] # None /\ source[r] \in Plans
  BY <1>1, <1>2 DEF Threaded, TypeOK
<1>4. faults' \in 0 .. MaxFaults
  <2>1. faults' = faults \/ (faults < MaxFaults /\ faults' = faults + 1)
    BY DEF Execute, Fault
  <2> QED
    BY <1>1, <2>1, BoundAssumption DEF TypeOK
<1>5. svc[r] = "Prepared" => /\ journal[r] = "Prepared" /\ ran[r] = <<>>
                             /\ ~HasState(catalog, r, TerminalState)
  BY <1>1 DEF Journaled, Executed, Begun, TerminalState, HasState
<1>6. \A pc \in {"executing", "report"} : worker' = [worker EXCEPT ![r].pc = pc] =>
        /\ worker' \in [Runs -> WorkerRecord] /\ worker'[r].pc = pc
        /\ \A q \in Runs \ {r} : worker'[q] = worker[q]
  BY <1>1 DEF WorkerRecord, Executing
<1>7. CASE /\ svc[r] = "Prepared"
           /\ svc' = [svc EXCEPT ![r] = "Running"]
           /\ journal' = [journal EXCEPT ![r] = "Running"]
           /\ ran' = [ran EXCEPT ![r] = Append(@, source[r])]
           /\ worker' = [worker EXCEPT ![r].pc = "executing"]
  <2>1. /\ svc' \in [Runs -> RunStatus \cup {"Absent"}] /\ svc'[r] = "Running"
        /\ journal' \in [Runs -> ExecutionState \cup {NoState}] /\ journal'[r] = "Running"
        /\ \A q \in Runs \ {r} : svc'[q] = svc[q] /\ journal'[q] = journal[q]
    BY <1>1, <1>7 DEF TypeOK, RunStatus, ExecutionState
  <2>2. /\ ran' \in [Runs -> Seq(Plans)] /\ Len(ran'[r]) = 1
        /\ RunOf[ran'[r][1]] = r
        /\ \A q \in Runs \ {r} : ran'[q] = ran[q]
    <3>1. RunOf[source[r]] = r
      BY <1>1, <1>2 DEF Threaded, Journaled
    <3>2. ran'[r] = Append(<<>>, source[r])
      BY <1>1, <1>5, <1>7 DEF TypeOK
    <3>3. ran' \in [Runs -> Seq(Plans)] /\ \A q \in Runs \ {r} : ran'[q] = ran[q]
      BY <1>1, <1>3, <1>7 DEF TypeOK
    <3>4. Len(ran'[r]) = 1 /\ ran'[r][1] = source[r]
      BY <3>2
    <3> QED
      BY <3>1, <3>3, <3>4
  <2>3. Threaded(r)' /\ Evidence(r)'
    BY <1>1, <1>2, <1>6, <1>7, <2>1, ThreadGoes
  <2>4. Journaled(r)' /\ Executed(r)'
    BY <1>1, <1>2, <1>5, <1>7, <2>1, <2>2, <2>3
       DEF Journaled, Executed, HasState, Begun, NoState, TerminalState
  <2> QED
    BY <1>1, <1>2, <1>4, <1>6, <1>7, <2>1, <2>2, <2>3, <2>4, WorkerSteps DEF TypeOK
<1>8. CASE /\ svc[r] = "Prepared"
           /\ svc' = [svc EXCEPT ![r] = "NeedsReconciliation"]
           /\ \E s \in {"Prepared", "Running"} : journal' = [journal EXCEPT ![r] = s]
           /\ worker' = [worker EXCEPT ![r].pc = "report"]
           /\ UNCHANGED ran
  <2>1. /\ svc' \in [Runs -> RunStatus \cup {"Absent"}]
        /\ svc'[r] = "NeedsReconciliation"
        /\ journal' \in [Runs -> ExecutionState \cup {NoState}]
        /\ journal'[r] \in {"Prepared", "Running"}
        /\ \A q \in Runs \ {r} : svc'[q] = svc[q] /\ journal'[q] = journal[q]
    BY <1>1, <1>8 DEF TypeOK, RunStatus, ExecutionState
  <2>2. Threaded(r)' /\ Evidence(r)'
    BY <1>1, <1>2, <1>6, <1>8, ThreadGoes DEF Executing
  <2>3. Journaled(r)' /\ Executed(r)'
    BY <1>1, <1>2, <1>5, <1>8, <2>1 DEF Journaled, Executed, HasState, NoState, TerminalState
  <2> QED
    BY <1>1, <1>2, <1>4, <1>6, <1>8, <2>1, <2>2, <2>3, WorkerSteps DEF TypeOK
<1>9. CASE /\ worker' = [worker EXCEPT ![r].pc = "report"]
           /\ UNCHANGED <<svc, journal, ran>>
  <2>1. Threaded(r)' /\ Evidence(r)'
    BY <1>1, <1>2, <1>6, <1>9, ThreadGoes DEF Executing
  <2>2. Journaled(r)' /\ Executed(r)'
    BY <1>1, <1>2, <1>9, <2>1 DEF Journaled, Executed, HasState
  <2> QED
    BY <1>1, <1>2, <1>4, <1>6, <1>9, <2>1, <2>2, WorkerSteps DEF TypeOK
<1> QED
  BY <1>7, <1>8, <1>9 DEF Execute

LEMMA WaitKeeps ==
  ASSUME BackendInv, NEW r \in Runs, TimerFires(r) \/ Return(r) \/ ReadFlag(r)
  PROVE  BackendInv'
<1>1. /\ TypeOK /\ worker \in [Runs -> WorkerRecord]
      /\ Threaded(r) /\ Journaled(r) /\ Executed(r)
  BY InvParts, Types
<1>2. /\ worker[r].pc \in Executing /\ worker[r].pc \notin {"none", "gate"}
      /\ UNCHANGED <<catalog, up, call, svc, source, asked, journal, ran, answers, faults, calls>>
  BY ThreadFacts DEF TimerFires, Return, ReadFlag, Executing, service
<1>3. svc[r] = "Running"
  BY <1>1, <1>2 DEF Threaded
<1>4. flag' \in [Runs -> {"none", "clear", "set"}]
  BY <1>1 DEF TimerFires, Return, ReadFlag, service, TypeOK
<1>5. /\ worker' \in [Runs -> WorkerRecord]
      /\ worker'[r].pc = "concluding" => worker'[r].goal \in TerminalState
      /\ \A q \in Runs \ {r} : worker'[q] = worker[q]
  <2>1. CASE TimerFires(r)
    <3>1. worker[r].pc \in {"executing", "returned"}
      BY <2>1, ThreadFacts DEF TimerFires
    <3>2. PICK goal \in {"Failed", worker[r].goal} :
            worker' = [worker EXCEPT ![r].goal = goal]
      BY <1>1, <2>1 DEF TimerFires
    <3> QED
      BY <1>1, <3>1, <3>2 DEF WorkerRecord, TerminalState
  <2>2. CASE Return(r)
    BY <1>1, <2>2 DEF Return, WorkerRecord, Executing, TerminalState
  <2>3. CASE ReadFlag(r)
    <3>1. PICK goal \in TerminalState :
            worker' = [worker EXCEPT ![r] = Thread("concluding", goal)]
      BY <2>3 DEF ReadFlag, TerminalState
    <3>2. Thread("concluding", goal) \in WorkerRecord /\ Thread("concluding", goal).goal = goal
      BY ThreadFacts DEF Executing
    <3> QED
      BY <1>1, <3>1, <3>2
  <2> QED
    BY <2>1, <2>2, <2>3
<1>6. Threaded(r)' /\ Evidence(r)'
  BY <1>1, <1>2, <1>3, <1>5, ThreadGoes
<1>7. Journaled(r)' /\ Executed(r)'
  BY <1>1, <1>2, <1>6 DEF Journaled, Executed, HasState
<1> QED
  BY <1>1, <1>2, <1>4, <1>5, <1>6, <1>7, WorkerSteps DEF TypeOK

LEMMA ConcludeKeeps ==
  ASSUME BackendInv, NEW r \in Runs, Conclude(r)
  PROVE  BackendInv'
<1>1. /\ TypeOK /\ worker \in [Runs -> WorkerRecord]
      /\ Threaded(r) /\ Journaled(r) /\ Executed(r)
  BY InvParts, Types
<1>2. /\ worker[r].pc = "concluding"
      /\ UNCHANGED <<catalog, up, call, source, asked, ran, answers, calls>>
      /\ worker' = [worker EXCEPT ![r] = Thread("report", "Absent")]
      /\ flag' = [flag EXCEPT ![r] = "none"]
  BY DEF Conclude
<1>3. /\ svc[r] = "Running" /\ journal[r] = "Running"
      /\ worker[r].goal \in TerminalState
      /\ catalog.runs[r] # None /\ ~HasState(catalog, r, TerminalState)
  BY <1>1, <1>2 DEF Threaded, Journaled, Executing, TerminalState, HasState
<1>4. faults' \in 0 .. MaxFaults
  <2>1. faults' = faults \/ (faults < MaxFaults /\ faults' = faults + 1)
    BY DEF Conclude, Fault
  <2> QED
    BY <1>1, <2>1, BoundAssumption DEF TypeOK
<1>5. PICK s \in RunStatus, j \in Begun :
        /\ svc' = [svc EXCEPT ![r] = s] /\ journal' = [journal EXCEPT ![r] = j]
        /\ s = j \/ s = "NeedsReconciliation"
        /\ s # "Collecting"
  BY <1>3 DEF Conclude, RunStatus, Begun, TerminalState
<1>6. /\ svc' \in [Runs -> RunStatus \cup {"Absent"}] /\ svc'[r] = s
      /\ journal' \in [Runs -> ExecutionState \cup {NoState}] /\ journal'[r] = j
      /\ flag' \in [Runs -> {"none", "clear", "set"}]
      /\ \A q \in Runs \ {r} : svc'[q] = svc[q] /\ journal'[q] = journal[q]
  BY <1>1, <1>2, <1>5 DEF TypeOK, Begun, ExecutionState
<1>7. /\ worker' \in [Runs -> WorkerRecord] /\ worker'[r].pc = "report"
      /\ \A q \in Runs \ {r} : worker'[q] = worker[q]
  BY <1>1, <1>2, ThreadFacts
<1>8. Threaded(r)' /\ Evidence(r)'
  BY <1>1, <1>2, <1>7, ThreadGoes DEF Executing
<1>9. s # "Absent" /\ j # NoState /\ s \notin {"Admitted"}
  BY <1>5 DEF RunStatus, Begun, TerminalState, NoState
<1>10. Journaled(r)'
  BY <1>1, <1>2, <1>3, <1>5, <1>6, <1>9 DEF Journaled, HasState, TerminalState
<1>11. Executed(r)'
  BY <1>1, <1>2, <1>6, <1>8 DEF Executed
<1> QED
  BY <1>1, <1>2, <1>4, <1>6, <1>7, <1>8, <1>9, <1>10, <1>11, WorkerSteps DEF TypeOK

-----------------------------------------------------------------------------
(* Death and restart.                                                       *)

LEMMA CrashKeeps ==
  ASSUME BackendInv, Crash
  PROVE  BackendInv'
<1>1. /\ TypeOK /\ Valid(catalog) /\ Answered
      /\ \A r \in Runs : Journaled(r) /\ Executed(r)
  BY InvParts
<1>2. /\ up' = FALSE /\ UNCHANGED <<catalog, asked, journal, ran, answers, calls>>
      /\ call' = [c \in Clients |-> Idle] /\ worker' = [r \in Runs |-> NoThread]
      /\ svc' = [r \in Runs |-> "Absent"] /\ flag' = [r \in Runs |-> "none"]
      /\ source' = [r \in Runs |-> None]
  BY DEF Crash
<1>3. faults' \in 0 .. MaxFaults
  BY <1>1, BoundAssumption DEF Crash, Fault, TypeOK
<1>4. call' \in [Clients -> CallRecord] /\ worker' \in [Runs -> WorkerRecord]
  BY <1>2, IdleFacts, ThreadFacts
<1>5. TypeOK'
  BY <1>1, <1>2, <1>3, <1>4 DEF TypeOK, CallRecord, WorkerRecord, Places
<1>6. \A c \in Clients : call'[c] = Idle
  BY <1>2
<1>7. CallsOK'
  BY <1>6, IdleCalled DEF CallsOK
<1>8. Mutex' /\ Distinct' /\ Down'
  BY <1>2, <1>6, IdleFacts DEF Mutex, Distinct, Down, Holding, Cancelling
<1>9. RunsOK'
  <2> SUFFICES ASSUME NEW r \in Runs
               PROVE  Threaded(r)' /\ Journaled(r)' /\ Executed(r)'
    BY DEF RunsOK
  <2>1. worker'[r].pc = "none" /\ svc'[r] = "Absent"
    BY <1>2, ThreadFacts
  <2>2. Threaded(r)'
    BY <2>1 DEF Threaded, Executing
  <2>3. Evidence(r)' <=> Evidence(r)
    BY <1>2 DEF Evidence, RunFor
  <2>4. Journaled(r)'
    BY <1>1, <1>2, <2>1 DEF Journaled, HasState, TerminalState
  <2>5. Executed(r)'
    BY <1>1, <1>2, <2>3 DEF Executed
  <2> QED
    BY <2>2, <2>4, <2>5
<1>10. Answered' /\ Valid(catalog)'
  BY <1>1, <1>2 DEF Answered
<1> QED
  BY <1>5, <1>7, <1>8, <1>9, <1>10 DEF BackendInv

(* The state a restart gives to a run of the catalog. *)
Uncertain(r) ==
  \E k \in Keys : /\ catalog.muts[k] # None
                  /\ catalog.muts[k].ask.op \in {"launch", "cancel"}
                  /\ RunFor(catalog.muts[k].ask) = r

After(r) ==
  IF \/ Public(Reopened(r)) \in {"Running", "Collecting"}
     \/ Uncertain(r) /\ Public(Reopened(r)) \in Live
  THEN "NeedsReconciliation" ELSE Public(Reopened(r))

LEMMA ReopenedFacts ==
  ASSUME BackendInv, NEW r \in Runs
  PROVE  /\ Reopened(r) \in RunStatus \cup {"Absent"}
         /\ Reopened(r) = "Absent" <=> journal[r] = NoState
         /\ Reopened(r) \in {"Prepared", "Running"} \cup TerminalState =>
              journal[r] = Reopened(r)
         /\ journal[r] \in TerminalState => Reopened(r) = journal[r]
         /\ Reopened(r) # "Collecting"
<1>1. journal[r] \in ExecutionState \cup {NoState}
  BY InvParts DEF TypeOK
<1> QED
  BY <1>1 DEF Reopened, FromState, ExecutionState, TerminalState, NoState, RunStatus

LEMMA AfterFacts ==
  ASSUME BackendInv, NEW r \in Runs, catalog.runs[r] # None
  PROVE  /\ After(r) \in PublicState
         /\ After(r) \in TerminalState => journal[r] = After(r)
         /\ journal[r] \in TerminalState => After(r) = journal[r]
<1>1. Journaled(r)
  BY InvParts
<1>2. journal[r] # NoState
  BY <1>1 DEF Journaled
<1>3. /\ Reopened(r) \in RunStatus
      /\ Reopened(r) \in TerminalState => journal[r] = Reopened(r)
      /\ journal[r] \in TerminalState => Reopened(r) = journal[r]
  BY <1>2, ReopenedFacts
<1>4. Public(Reopened(r)) \in PublicState
  BY <1>3 DEF Public, RunStatus, PublicState
<1>5. /\ Public(Reopened(r)) \in TerminalState => journal[r] = Public(Reopened(r))
      /\ journal[r] \in TerminalState => Public(Reopened(r)) = journal[r]
  BY <1>3 DEF Public, TerminalState
<1>6. After(r) \in PublicState
  BY <1>4 DEF After, PublicState
<1>7. After(r) \in TerminalState => journal[r] = After(r)
  BY <1>5 DEF After, TerminalState
<1>8. journal[r] \in TerminalState => After(r) = journal[r]
  BY <1>5 DEF After, TerminalState, Live
<1> QED
  BY <1>6, <1>7, <1>8

LEMMA ReconciledRuns ==
  ASSUME BackendInv
  PROVE  LET n == ReconcileRuns(catalog) IN
         /\ n \in Catalog /\ n.plans = catalog.plans /\ n.muts = catalog.muts
         /\ \A r \in Runs :
              /\ catalog.runs[r] = None => n.runs[r] = None
              /\ catalog.runs[r] # None =>
                   /\ n.runs[r] # None /\ n.runs[r].plan = catalog.runs[r].plan
                   /\ n.runs[r].state = After(r) /\ n.latest[r] = Kind(After(r))
<1> DEFINE moved(r) == catalog.runs[r] # None /\ catalog.runs[r].state # After(r)
           runs == [r \in Runs |-> IF moved(r)
                      THEN [catalog.runs[r] EXCEPT !.state = After(r)]
                      ELSE catalog.runs[r]]
           latest == [r \in Runs |-> IF moved(r) THEN Kind(After(r))
                                     ELSE catalog.latest[r]]
           n == ReconcileRuns(catalog)
<1>1. catalog \in Catalog /\ Valid(catalog)
  BY InvParts, Types
<1>2. n = [catalog EXCEPT !.runs = runs, !.latest = latest]
  BY DEF ReconcileRuns, After, Uncertain
<1> HIDE DEF n
<1>3. \A r \in Runs : catalog.runs[r] # None =>
        /\ catalog.runs[r] \in RunRecord /\ catalog.latest[r] = Kind(catalog.runs[r].state)
        /\ After(r) \in PublicState /\ Kind(After(r)) \in EventKind
  BY <1>1, CatalogParts, AfterFacts, KindIsEvent DEF Valid
<1>4. \A r \in Runs : catalog.runs[r] # None =>
        LET e == [catalog.runs[r] EXCEPT !.state = After(r)] IN
        e \in RunRecord /\ e.plan = catalog.runs[r].plan /\ e.state = After(r)
  BY <1>3 DEF RunRecord
<1>5. /\ catalog.runs \in [Runs -> RunRecord \cup {None}]
      /\ catalog.latest \in [Runs -> EventKind \cup {None}]
  BY <1>1, CatalogParts
<1>6. runs \in [Runs -> RunRecord \cup {None}]
  BY <1>4, <1>5
<1>7. latest \in [Runs -> EventKind \cup {None}]
  BY <1>3, <1>5
<1>8. \A r \in Runs :
        /\ catalog.runs[r] = None => runs[r] = None
        /\ catalog.runs[r] # None =>
             /\ runs[r] # None /\ runs[r].plan = catalog.runs[r].plan
             /\ runs[r].state = After(r) /\ latest[r] = Kind(After(r))
  <2> SUFFICES ASSUME NEW r \in Runs, catalog.runs[r] # None
               PROVE  /\ runs[r] # None /\ runs[r].plan = catalog.runs[r].plan
                      /\ runs[r].state = After(r) /\ latest[r] = Kind(After(r))
    OBVIOUS
  <2>1. CASE moved(r)
    <3>1. runs[r] = [catalog.runs[r] EXCEPT !.state = After(r)] /\ latest[r] = Kind(After(r))
      BY <2>1
    <3> HIDE DEF runs, latest, moved
    <3>2. runs[r] \in RunRecord /\ runs[r].plan = catalog.runs[r].plan
          /\ runs[r].state = After(r)
      BY <1>4, <3>1
    <3> QED
      BY <3>1, <3>2, NoneAssumption
  <2>2. CASE ~moved(r)
    BY <1>3, <2>2
  <2> QED
    BY <2>1, <2>2
<1> HIDE DEF runs, latest, moved
<1>9. n \in Catalog /\ n.plans = catalog.plans /\ n.muts = catalog.muts
      /\ n.runs = runs /\ n.latest = latest
  BY <1>1, <1>2, <1>6, <1>7 DEF Catalog
<1> QED
  BY <1>8, <1>9 DEF n

(* One mutation, judged by the reconciled runs n. *)
LEMMA JudgedMutation ==
  ASSUME NEW n \in Catalog, NEW m \in MutationRecord
  PROVE  LET j == ReconcileMutation(n, m) IN
         /\ m.state # "Intent" => j = m
         /\ j = None \/ (j \in MutationRecord /\ j.ask = m.ask)
         /\ j # None /\ m.state = "Intent" /\ j.state = "Committed" =>
              \/ m.ask.op = "launch"
              \/ m.ask.op = "cancel" /\ n.runs[RunFor(m.ask)].state = "Cancelled"
<1> DEFINE as(state) == [m EXCEPT !.state = state]
           j == ReconcileMutation(n, m)
<1>1. m # None
  BY NoneAssumption
<1>2. \A s \in {"Committed", "NeedsReconciliation"} :
        as(s) \in MutationRecord /\ as(s).ask = m.ask /\ as(s).state = s
  BY DEF MutationRecord
<1>3. CASE m.state # "Intent"
  BY <1>3 DEF ReconcileMutation
<1>4. CASE m.state = "Intent"
  <2>1. \/ j = as("Committed") /\ m.ask.op = "launch"
        \/ /\ j = as("Committed") /\ m.ask.op = "cancel"
           /\ n.runs[RunFor(m.ask)].state = "Cancelled"
        \/ j = None
        \/ j = as("NeedsReconciliation")
    BY <1>1, <1>4 DEF ReconcileMutation
  <2> HIDE DEF j, as
  <2>2. j = None \/ (j \in MutationRecord /\ j.ask = m.ask)
    BY <1>2, <2>1
  <2>3. j # None /\ j.state = "Committed" =>
          \/ m.ask.op = "launch"
          \/ m.ask.op = "cancel" /\ n.runs[RunFor(m.ask)].state = "Cancelled"
    BY <1>2, <2>1
  <2> QED
    BY <1>4, <2>2, <2>3 DEF j
<1> QED
  BY <1>3, <1>4

(* Reconciliation keeps the catalog loadable, the ends as journaled, and    *)
(* what was committed.                                                      *)
Reconciles(n) ==
  /\ n \in Catalog /\ Valid(n)
  /\ \A r \in Runs : n.runs[r] # None <=> catalog.runs[r] # None
  /\ \A r \in Runs :
       /\ HasState(n, r, TerminalState) => journal[r] = n.runs[r].state
       /\ n.runs[r] # None => n.runs[r].plan = catalog.runs[r].plan
  /\ \A k \in Keys : catalog.muts[k] # None /\ catalog.muts[k].state # "Intent" =>
       n.muts[k] = catalog.muts[k]

LEMMA ReconciledFacts ==
  ASSUME BackendInv
  PROVE  Reconciles(Reconciled)
<1> DEFINE mid == ReconcileRuns(catalog)
           muts == [k \in Keys |-> ReconcileMutation(mid, mid.muts[k])]
           n == Reconciled
<1>1. /\ mid \in Catalog /\ mid.plans = catalog.plans /\ mid.muts = catalog.muts
      /\ \A r \in Runs :
           /\ catalog.runs[r] = None => mid.runs[r] = None
           /\ catalog.runs[r] # None =>
                /\ mid.runs[r] # None /\ mid.runs[r].plan = catalog.runs[r].plan
                /\ mid.runs[r].state = After(r) /\ mid.latest[r] = Kind(After(r))
  BY ReconciledRuns
<1>2. n = [mid EXCEPT !.muts = muts]
  BY DEF Reconciled
<1>3. /\ catalog \in Catalog /\ Valid(catalog)
      /\ \A r \in Runs : Journaled(r)
  BY InvParts, Types
<1> HIDE DEF mid, n
<1>4. \A k \in Keys : catalog.muts[k] = None => muts[k] = None
  BY <1>1 DEF ReconcileMutation
<1>5. \A k \in Keys : catalog.muts[k] # None =>
        LET m == catalog.muts[k] IN
        /\ m \in MutationRecord
        /\ m.state # "Intent" => muts[k] = m
        /\ muts[k] = None \/ (muts[k] \in MutationRecord /\ muts[k].ask = m.ask)
        /\ muts[k] # None /\ m.state = "Intent" /\ muts[k].state = "Committed" =>
             \/ m.ask.op = "launch"
             \/ m.ask.op = "cancel" /\ mid.runs[RunFor(m.ask)].state = "Cancelled"
  <2> SUFFICES ASSUME NEW k \in Keys, catalog.muts[k] # None
               PROVE LET m == catalog.muts[k] IN
        /\ m \in MutationRecord
        /\ m.state # "Intent" => muts[k] = m
        /\ muts[k] = None \/ (muts[k] \in MutationRecord /\ muts[k].ask = m.ask)
        /\ muts[k] # None /\ m.state = "Intent" /\ muts[k].state = "Committed" =>
             \/ m.ask.op = "launch"
             \/ m.ask.op = "cancel" /\ mid.runs[RunFor(m.ask)].state = "Cancelled"
    OBVIOUS
  <2>1. PICK m \in MutationRecord : m = catalog.muts[k]
    BY <1>3, CatalogParts
  <2>2. muts[k] = ReconcileMutation(mid, m)
    BY <1>1, <2>1
  <2> HIDE DEF muts
  <2> QED
    BY <1>1, <2>1, <2>2, JudgedMutation
<1>6. muts \in [Keys -> MutationRecord \cup {None}]
  <2>1. \A k \in Keys : muts[k] \in MutationRecord \cup {None}
    BY <1>4, <1>5
  <2> QED
    BY <2>1
<1> HIDE DEF muts
<1>7. /\ n \in Catalog /\ n.plans = catalog.plans /\ n.runs = mid.runs
      /\ n.latest = mid.latest /\ n.muts = muts
  BY <1>1, <1>2, <1>6 DEF Catalog
<1>8. \A r \in Runs : n.runs[r] # None <=> catalog.runs[r] # None
  BY <1>1, <1>7
<1>9. \A r \in Runs :
        /\ HasState(n, r, TerminalState) => journal[r] = n.runs[r].state
        /\ n.runs[r] # None => n.runs[r].plan = catalog.runs[r].plan
  BY <1>1, <1>7, AfterFacts DEF HasState
<1>10. ASSUME NEW r \in Runs, n.runs[r] # None
       PROVE  n.runs[r].plan \in n.plans /\ n.latest[r] = Kind(n.runs[r].state)
  BY <1>1, <1>3, <1>7, <1>10 DEF Valid
<1>11. ASSUME NEW k \in Keys, n.muts[k] # None
       PROVE  ValidMutation(n, n.muts[k])
  <2>1. catalog.muts[k] # None
    BY <1>4, <1>7, <1>11
  <2>2. PICK m \in MutationRecord : m = catalog.muts[k]
    BY <1>5, <2>1
  <2>3. PICK j \in MutationRecord : j = n.muts[k] /\ j.ask = m.ask
    BY <1>5, <1>7, <1>11, <2>1, <2>2
  <2>4. ValidMutation(catalog, m)
    BY <1>3, <2>1, <2>2 DEF Valid
  <2>5. m.ask \in Ask
    BY DEF MutationRecord
  <2>6. CASE m.ask.op = "create"
    BY <1>7, <2>3, <2>4, <2>6 DEF ValidMutation
  <2>7. CASE m.ask.op # "create"
    <3>1. PICK r \in Runs : r = RunFor(m.ask) /\ (m.ask.op = "cancel" => r = m.ask.on)
      BY <2>5, <2>7, RunForIsRun
    <3>2. catalog.runs[r] # None /\ n.runs[r] # None
      BY <1>8, <2>4, <2>7, <3>1 DEF ValidMutation, HasState
    <3>3. CASE m.ask.op = "cancel" /\ j.state = "Committed"
      <4>1. n.runs[r].state = "Cancelled"
        <5>1. CASE m.state = "Intent"
          BY <1>5, <1>7, <1>11, <2>1, <2>2, <2>3, <3>1, <3>3, <5>1
        <5>2. CASE m.state # "Intent"
          <6>1. j = m
            BY <1>5, <1>7, <2>1, <2>2, <2>3, <5>2
          <6>2. HasState(catalog, r, {"Cancelled"})
            BY <2>4, <3>1, <3>3, <6>1 DEF ValidMutation
          <6>3. journal[r] = "Cancelled"
            BY <1>3, <6>2 DEF Journaled, HasState, TerminalState
          <6>4. After(r) = "Cancelled"
            BY <3>2, <6>3, AfterFacts DEF TerminalState
          <6> QED
            BY <1>1, <1>7, <3>2, <6>4
        <5> QED
          BY <5>1, <5>2
      <4>2. HasState(n, m.ask.on, {"Cancelled"})
        BY <3>1, <3>2, <3>3, <4>1 DEF HasState
      <4> QED
        BY <2>3, <3>3, <4>2 DEF ValidMutation
    <3>4. CASE ~(m.ask.op = "cancel" /\ j.state = "Committed")
      BY <2>3, <2>7, <3>1, <3>2, <3>4 DEF ValidMutation
    <3> QED
      BY <3>3, <3>4
  <2> QED
    BY <2>6, <2>7
<1>12. \A k \in Keys : catalog.muts[k] # None /\ catalog.muts[k].state # "Intent" =>
         n.muts[k] = catalog.muts[k]
  BY <1>5, <1>7
<1>13. Valid(n)
  BY <1>10, <1>11 DEF Valid
<1> QED
  BY <1>7, <1>8, <1>9, <1>12, <1>13 DEF Reconciles, n

LEMMA ReopenKeeps ==
  ASSUME BackendInv, Open \/ OpenFails
  PROVE  BackendInv'
<1>1. /\ TypeOK /\ Down /\ Valid(catalog) /\ Answered /\ catalog \in Catalog
      /\ \A r \in Runs : Journaled(r) /\ Executed(r)
  BY InvParts, Types
<1>2. /\ ~up /\ UNCHANGED <<call, worker, asked, journal, ran, answers, calls>>
      /\ catalog' \in {catalog, Reconciled}
      /\ \/ up' = TRUE /\ svc' = [r \in Runs |-> Reopened(r)]
         \/ up' = FALSE /\ svc' = svc
  BY <1>1 DEF Open, OpenFails, service, TypeOK
<1>3. Reconciles(catalog')
  <2>1. Reconciles(catalog)
    BY <1>1 DEF Reconciles, Journaled
  <2>2. Reconciles(Reconciled)
    BY ReconciledFacts
  <2> QED
    BY <1>2, <2>1, <2>2
<1>4. /\ \A c \in Clients : call'[c] = Idle
      /\ \A r \in Runs : worker'[r] = NoThread
  BY <1>1, <1>2 DEF Down
<1>5. TypeOK'
  <2>1. catalog' \in Catalog
    BY <1>3 DEF Reconciles
  <2>2. faults' \in 0 .. MaxFaults
    <3>1. faults' = faults \/ (faults < MaxFaults /\ faults' = faults + 1)
      BY DEF Open, OpenFails, Fault
    <3> QED
      BY <1>1, <3>1, BoundAssumption DEF TypeOK
  <2>3. svc' \in [Runs -> RunStatus \cup {"Absent"}]
    BY <1>1, <1>2, ReopenedFacts DEF TypeOK
  <2>4. flag' \in [Runs -> {"none", "clear", "set"}]
    BY <1>1 DEF Open, OpenFails, service, TypeOK
  <2>5. source' \in [Runs -> Plans \cup {None}]
    BY <1>1 DEF Open, OpenFails, service, TypeOK
  <2> QED
    BY <1>1, <1>2, <2>1, <2>2, <2>3, <2>4, <2>5 DEF TypeOK
<1>6. CallsOK'
  BY <1>4, IdleCalled DEF CallsOK
<1>7. Mutex' /\ Distinct'
  BY <1>4, IdleFacts DEF Mutex, Distinct, Holding, Cancelling
<1>8. Down'
  BY <1>1, <1>2, <1>4 DEF Down
<1>9. Answered'
  <2> SUFFICES ASSUME NEW a \in answers
               PROVE  catalog'.muts[a[1]] = [ask |-> a[2], state |-> "Committed"]
    BY <1>2 DEF Answered
  <2>1. /\ a[1] \in Keys /\ a[2] \in Ask
        /\ catalog.muts[a[1]] = [ask |-> a[2], state |-> "Committed"]
    BY <1>1 DEF TypeOK, Answered
  <2>2. [ask |-> a[2], state |-> "Committed"] \in MutationRecord
    BY <2>1 DEF MutationRecord
  <2>3. catalog.muts[a[1]] # None /\ catalog.muts[a[1]].state # "Intent"
    BY <2>1, <2>2, NoneAssumption
  <2> QED
    BY <1>3, <2>1, <2>3 DEF Reconciles
<1>10. RunsOK'
  <2> SUFFICES ASSUME NEW r \in Runs
               PROVE  Threaded(r)' /\ Journaled(r)' /\ Executed(r)'
    BY DEF RunsOK
  <2>1. worker'[r].pc = "none"
    BY <1>4, ThreadFacts
  <2>2. Threaded(r)'
    BY <2>1 DEF Threaded, Executing
  <2>3. /\ catalog'.runs[r] # None <=> catalog.runs[r] # None
        /\ HasState(catalog', r, TerminalState) => journal[r] = catalog'.runs[r].state
        /\ catalog'.runs[r] # None => catalog'.runs[r].plan = catalog.runs[r].plan
    BY <1>3 DEF Reconciles
  <2>4. Evidence(r) => Evidence(r)'
    BY <1>3 DEF Evidence, Reconciles, RunFor
  <2>5. Executed(r)'
    BY <1>1, <1>2, <2>4 DEF Executed
  <2>6. journal'[r] = journal[r] /\ catalog.runs[r] # None => journal[r] # NoState
    BY <1>1, <1>2 DEF Journaled
  <2>7. source'[r] # None => RunOf[source'[r]] = r
    <3>1. CASE Open
      BY <3>1 DEF Open
    <3>2. CASE OpenFails
      BY <1>1, <3>2 DEF OpenFails, service, Journaled
    <3> QED
      BY <3>1, <3>2
  <2>8. Journaled(r)'
    <3>1. CASE up' = TRUE /\ svc' = [q \in Runs |-> Reopened(q)]
      <4>1. svc'[r] = Reopened(r)
        BY <3>1
      <4> QED
        BY <1>1, <1>2, <2>3, <2>7, <3>1, <4>1, ReopenedFacts DEF Journaled, HasState
    <3>2. CASE up' = FALSE /\ svc' = svc
      BY <1>1, <1>2, <2>3, <2>7, <3>2 DEF Journaled, HasState
    <3> QED
      BY <1>2, <3>1, <3>2
  <2> QED
    BY <2>2, <2>5, <2>8
<1>11. Valid(catalog)'
  BY <1>3 DEF Reconciles
<1> QED
  BY <1>5, <1>6, <1>7, <1>8, <1>9, <1>10, <1>11 DEF BackendInv

LEMMA InitHolds ==
  ASSUME Init
  PROVE  BackendInv
<1>1. /\ catalog.runs = [r \in Runs |-> None] /\ catalog.muts = [k \in Keys |-> None]
      /\ catalog \in Catalog
  BY DEF Init, Catalog
<1>2. call \in [Clients -> CallRecord] /\ worker \in [Runs -> WorkerRecord]
  BY IdleFacts, ThreadFacts DEF Init
<1>3. TypeOK
  <2>1. /\ ran \in [Runs -> Seq(Plans)] /\ faults \in 0 .. MaxFaults
        /\ calls \in 0 .. MaxCalls /\ answers \subseteq Keys \X Ask
    BY BoundAssumption DEF Init
  <2>2. /\ svc \in [Runs -> RunStatus \cup {"Absent"}]
        /\ flag \in [Runs -> {"none", "clear", "set"}]
        /\ source \in [Runs -> Plans \cup {None}]
        /\ asked \in [Runs -> {RequestOf[p] : p \in Plans} \cup {None}]
        /\ journal \in [Runs -> ExecutionState \cup {NoState}]
        /\ up \in BOOLEAN
    BY DEF Init
  <2> QED
    BY <1>1, <1>2, <2>1, <2>2 DEF TypeOK, CallRecord, WorkerRecord, Places
<1>4. \A c \in Clients : call[c] = Idle
  BY DEF Init
<1>5. Mutex /\ Distinct
  BY <1>4, IdleFacts DEF Mutex, Distinct, Holding, Cancelling
<1>6. CallsOK
  BY <1>4, IdleFacts DEF CallsOK, Asked, Called, Launching, Cancelling
<1>7. RunsOK
  <2> SUFFICES ASSUME NEW r \in Runs PROVE Threaded(r) /\ Journaled(r) /\ Executed(r)
    BY DEF RunsOK
  <2>1. /\ worker[r].pc = "none" /\ svc[r] = "Absent" /\ journal[r] = NoState
        /\ ran[r] = <<>> /\ catalog.runs[r] = None /\ source[r] = None
    BY <1>1, ThreadFacts DEF Init
  <2> QED
    BY <2>1 DEF Threaded, Journaled, Executed, HasState, Executing, TerminalState
<1>8. Valid(catalog)
  BY <1>1 DEF Valid
<1>9. Answered /\ Down
  BY DEF Init, Answered, Down
<1> QED
  BY <1>3, <1>5, <1>6, <1>7, <1>8, <1>9 DEF BackendInv

LEMMA NextKeeps ==
  ASSUME BackendInv, [Next]_vars
  PROVE  BackendInv'
<1>1. CASE \E c \in Clients, k \in Keys \cup {None}, a \in Ask : Arrive(c, k, a)
  BY <1>1, ArriveKeeps
<1>2. ASSUME NEW c \in Clients,
             Advance(c) \/ AdmitFails(c) \/ Quarantine(c) \/ Expire(c)
      PROVE  BackendInv'
  <2>1. CASE \/ Retry(c) \/ Refuse(c) \/ LaunchLook(c) \/ StatusLook(c)
             \/ Signal(c) \/ Poll(c) \/ Expire(c)
    BY <2>1, MovesKeep
  <2>2. CASE AdmitKnown(c) \/ AdmitNew(c) \/ AdmitFails(c)
    BY <2>2, AdmissionsKeep
  <2>3. CASE Mutate(c) \/ Settle(c) \/ CancelIntent(c) \/ Refresh(c)
    BY <2>3, MutateKeeps, SettleKeeps, CancelIntentKeeps, RefreshKeeps
  <2>4. CASE Intent(c) \/ Start(c) \/ Send(c) \/ Quarantine(c)
    BY <2>4, IntentKeeps, StartKeeps, SendKeeps, QuarantineKeeps
  <2> QED
    BY <1>2, <2>1, <2>2, <2>3, <2>4 DEF Advance
<1>3. ASSUME NEW r \in Runs, Work(r) \/ TimerFires(r)
      PROVE  BackendInv'
  BY <1>3, ExecuteKeeps, WaitKeeps, ConcludeKeeps, ReportKeeps DEF Work
<1>4. CASE Crash
  BY <1>4, CrashKeeps
<1>5. CASE Open \/ OpenFails
  BY <1>5, ReopenKeeps
<1>6. CASE UNCHANGED vars
  <2>1. UNCHANGED <<catalog, up, call, worker, svc, flag, source, asked, journal,
                    ran, answers, faults, calls>>
    BY <1>6 DEF vars, service
  <2>2. TypeOK' /\ Down' /\ Mutex' /\ Distinct' /\ Answered' /\ Valid(catalog)'
    BY <2>1, InvParts DEF TypeOK, Down, Mutex, Distinct, Answered, Valid,
                          ValidMutation, HasState, RunFor
  <2>3. CallsOK'
    BY <2>1, InvParts, QuietCall DEF CallsOK
  <2>4. RunsOK'
    <3> SUFFICES ASSUME NEW r \in Runs
                 PROVE  Threaded(r)' /\ Journaled(r)' /\ Executed(r)'
      BY DEF RunsOK
    <3>1. Threaded(r) /\ Journaled(r) /\ Executed(r)
      BY InvParts
    <3>2. Evidence(r)' <=> Evidence(r)
      BY <2>1 DEF Evidence, RunFor
    <3>3. Threaded(r)'
      BY <2>1, <3>1, <3>2 DEF Threaded
    <3>4. Journaled(r)'
      BY <2>1, <3>1, <3>2 DEF Journaled, HasState
    <3>5. Executed(r)'
      BY <2>1, <3>1, <3>2 DEF Executed
    <3> QED
      BY <3>3, <3>4, <3>5
  <2> QED
    BY <2>2, <2>3, <2>4 DEF BackendInv
<1> QED
  BY <1>1, <1>2, <1>3, <1>4, <1>5, <1>6 DEF Next

-----------------------------------------------------------------------------
(* The theorems.                                                            *)

(* Every reachable state of the backend satisfies the inductive invariant:  *)
(* the catalog, the orchestrator's journal, the calls in progress and the   *)
(* worker threads agree, at every step and over process deaths.             *)
THEOREM BackendInvariant == Spec => []BackendInv
<1>1. Init => BackendInv
  BY InitHolds
<1>2. BackendInv /\ [Next]_vars => BackendInv'
  BY NextKeeps
<1> QED
  BY <1>1, <1>2, PTL DEF Spec

(* Whatever commit, failed write or restart came last, the catalog that is  *)
(* on disk passes validate_catalog, also the one that open commits without  *)
(* validating it.                                                           *)
THEOREM CatalogAlwaysLoads == Spec => []CatalogLoads
<1>1. BackendInv => CatalogLoads
  BY InvParts DEF CatalogLoads
<1> QED
  BY <1>1, BackendInvariant, PTL

(* A run executes at most once, and only under a launch that is committed   *)
(* in the catalog: the worker's gate opens on a committed launch only, and  *)
(* no restart or quarantine takes the commitment back.                      *)
THEOREM LaunchesExecuteOnce == Spec => []ExecutesCommittedOnce
<1>1. BackendInv => ExecutesCommittedOnce
  BY InvParts DEF ExecutesCommittedOnce, Executed, Evidence
<1> QED
  BY <1>1, BackendInvariant, PTL

(* A cancel answered with Ok is Cancelled in the catalog and in the journal *)
(* from then on.                                                            *)
THEOREM CancelsAreDurable == Spec => []CancelIsDurable
<1>1. BackendInv => CancelIsDurable
  <2> SUFFICES ASSUME BackendInv, NEW a \in answers, a[2].op = "cancel"
               PROVE  /\ HasState(catalog, a[2].on, {"Cancelled"})
                      /\ journal[a[2].on] = "Cancelled"
    BY DEF CancelIsDurable
  <2>1. /\ a[1] \in Keys /\ a[2] \in Ask
        /\ catalog.muts[a[1]] = [ask |-> a[2], state |-> "Committed"]
    BY InvParts DEF TypeOK, Answered
  <2>2. [ask |-> a[2], state |-> "Committed"] \in MutationRecord
    BY <2>1 DEF MutationRecord
  <2>3. ValidMutation(catalog, catalog.muts[a[1]])
    BY <2>1, <2>2, NoneAssumption, InvParts DEF Valid
  <2>4. HasState(catalog, a[2].on, {"Cancelled"})
    BY <2>1, <2>3 DEF ValidMutation
  <2>5. a[2].on \in Runs
    BY <2>1 DEF Ask
  <2>6. journal[a[2].on] = "Cancelled"
    BY <2>4, <2>5, InvParts DEF Journaled, HasState, TerminalState
  <2> QED
    BY <2>4, <2>6
<1> QED
  BY <1>1, BackendInvariant, PTL

(* No idempotency key is answered with Ok for two requests, although a      *)
(* cancellation that came too late gives its key back.                      *)
THEOREM KeysAnswerOneRequest == Spec => []OneRequestPerKey
<1>1. BackendInv => OneRequestPerKey
  <2> SUFFICES ASSUME BackendInv, NEW a \in answers, NEW b \in answers, a[1] = b[1]
               PROVE  a = b
    BY DEF OneRequestPerKey
  <2>1. /\ a \in Keys \X Ask /\ b \in Keys \X Ask
        /\ catalog.muts[a[1]] = [ask |-> a[2], state |-> "Committed"]
        /\ catalog.muts[b[1]] = [ask |-> b[2], state |-> "Committed"]
    BY InvParts DEF TypeOK, Answered
  <2>2. a[2] = b[2]
    BY <2>1
  <2> QED
    BY <2>1, <2>2
<1> QED
  BY <1>1, BackendInvariant, PTL

(* An end in the catalog is the end in the orchestrator's journal.          *)
THEOREM EndsAreJournaled == Spec => []ReportedEndIsJournaled
<1>1. BackendInv => ReportedEndIsJournaled
  BY InvParts DEF ReportedEndIsJournaled, Journaled
<1> QED
  BY <1>1, BackendInvariant, PTL

(* The orchestrator of a live process knows every run of the catalog.       *)
THEOREM CatalogRunsAreAdmitted == Spec => []RunsAreAdmitted
<1>1. BackendInv => RunsAreAdmitted
  BY InvParts DEF RunsAreAdmitted, Journaled
<1> QED
  BY <1>1, BackendInvariant, PTL

-----------------------------------------------------------------------------
(* Which plan executes.                                                     *)

(* What a run executes is a plan that was created with its run id: the one  *)
(* the catalog shows for it, unless another plan with the same run id was   *)
(* created too.  admit_plan may then have replaced the source's plan after  *)
(* the launch, and a restart may have picked either.                        *)
ExecutesOwnPlan ==
  \A r \in Runs : ran[r] # <<>> =>
    /\ catalog.runs[r] # None /\ catalog.runs[r].plan \in catalog.plans
    /\ \E p \in catalog.plans :
         /\ ran[r] = <<p>> /\ RunOf[p] = r
         /\ \/ p = catalog.runs[r].plan
            \/ {q \in catalog.plans : RunOf[q] = r} # {catalog.runs[r].plan}

(* The source and the launches to come know created plans only. *)
CreatedOnly ==
  /\ \A c \in Clients : call[c].pc = "admit" => call[c].ask.on \in catalog.plans
  /\ \A r \in Runs :
       /\ source[r] # None => source[r] \in catalog.plans
       /\ \A i \in DOMAIN ran[r] : ran[r][i] \in catalog.plans

LEMMA CommitLeaves ==
  ASSUME NEW staged, NEW deadline,
         Commits(staged) \/ CommitFails(staged, deadline)
  PROVE  catalog' \in {catalog, staged}
  BY DEF Commits, CommitFails

LEMMA StagedPlans ==
  ASSUME NEW c \in Catalog
  PROVE  /\ \A k, ask, state : SetMut(c, k, ask, state).plans = c.plans
         /\ \A r, state, kind : SetRun(c, r, state, kind).plans = c.plans
         /\ \A r, state, kind, k, ask, mark :
              SetMut(SetRun(c, r, state, kind), k, ask, mark).plans = c.plans
  BY DEF SetMut, SetRun, Catalog

(* No step removes a plan from the catalog. *)
LEMMA PlansStay ==
  ASSUME BackendInv, [Next]_vars
  PROVE  catalog.plans \subseteq catalog'.plans
<1>1. catalog \in Catalog
  BY InvParts, Types
<1>2. ASSUME NEW c \in Clients, Mutate(c) PROVE catalog.plans \subseteq catalog'.plans
  <2>1. PICK p :
          LET staged == SetMut([catalog EXCEPT !.plans = @ \cup {p}],
                               call[c].key, call[c].ask, "Committed")
          IN Commits(staged) \/ CommitFails(staged, TRUE)
    BY <1>2 DEF Mutate
  <2>2. catalog' \in {catalog, SetMut([catalog EXCEPT !.plans = @ \cup {p}],
                                      call[c].key, call[c].ask, "Committed")}
    BY <2>1, CommitLeaves
  <2> QED
    BY <1>1, <2>2 DEF SetMut, Catalog
<1>3. ASSUME NEW c \in Clients, Settle(c) PROVE catalog.plans \subseteq catalog'.plans
  <2> DEFINE done == SetMut(catalog, call[c].key, call[c].ask, "Committed")
             void == [catalog EXCEPT !.muts[call[c].key] = None]
  <2>1. Commits(done) \/ CommitFails(done, TRUE) \/ Commits(void) \/ CommitFails(void, TRUE)
    BY <1>3 DEF Settle
  <2>2. done.plans = catalog.plans
    BY <1>1, StagedPlans
  <2>3. void.plans = catalog.plans
    BY <1>1 DEF Catalog
  <2> HIDE DEF done, void
  <2> QED
    BY <2>1, <2>2, <2>3, CommitLeaves
<1>4. ASSUME NEW c \in Clients, CancelIntent(c) PROVE catalog.plans \subseteq catalog'.plans
  <2> DEFINE staged == SetMut(catalog, call[c].key, call[c].ask, "Intent")
  <2>1. Commits(staged) \/ CommitFails(staged, TRUE)
    BY <1>4 DEF CancelIntent
  <2>2. staged.plans = catalog.plans
    BY <1>1, StagedPlans
  <2> HIDE DEF staged
  <2> QED
    BY <2>1, <2>2, CommitLeaves
<1>5. ASSUME NEW c \in Clients, Intent(c) PROVE catalog.plans \subseteq catalog'.plans
  <2> DEFINE added == [catalog EXCEPT
                        !.runs[RunOf[call[c].ask.on]] = [plan |-> call[c].ask.on, state |-> "Planned"],
                        !.latest[RunOf[call[c].ask.on]] = "RunUpdated"]
             staged == SetMut(added, call[c].key, call[c].ask, "Intent")
  <2>1. Commits(staged) \/ CommitFails(staged, TRUE)
    BY <1>5 DEF Intent
  <2>2. staged.plans = catalog.plans
    BY <1>1 DEF SetMut, Catalog
  <2> HIDE DEF staged
  <2> QED
    BY <2>1, <2>2, CommitLeaves
<1>6. ASSUME NEW c \in Clients, Start(c) \/ Quarantine(c)
      PROVE  catalog.plans \subseteq catalog'.plans
  <2>1. PICK state, kind, mark :
          LET staged == SetMut(SetRun(catalog, RunFor(call[c].ask), state, kind),
                               call[c].key, call[c].ask, mark)
          IN Commits(staged) \/ CommitFails(staged, FALSE)
    BY <1>6 DEF Start, Quarantine
  <2> DEFINE staged == SetMut(SetRun(catalog, RunFor(call[c].ask), state, kind),
                              call[c].key, call[c].ask, mark)
  <2>2. Commits(staged) \/ CommitFails(staged, FALSE)
    BY <2>1
  <2>3. staged.plans = catalog.plans
    BY <1>1, StagedPlans
  <2> HIDE DEF staged
  <2> QED
    BY <2>2, <2>3, CommitLeaves
<1>7. ASSUME (\E c \in Clients : Refresh(c)) \/ (\E r \in Runs : Report(r))
      PROVE  catalog.plans \subseteq catalog'.plans
  <2>1. PICK r, state, kind, deadline :
          LET staged == SetRun(catalog, r, state, kind)
          IN UNCHANGED catalog \/ Commits(staged) \/ CommitFails(staged, deadline)
    BY <1>7 DEF Refresh, Report
  <2> DEFINE staged == SetRun(catalog, r, state, kind)
  <2>2. UNCHANGED catalog \/ Commits(staged) \/ CommitFails(staged, deadline)
    BY <2>1
  <2>3. staged.plans = catalog.plans
    BY <1>1, StagedPlans
  <2> HIDE DEF staged
  <2> QED
    BY <2>2, <2>3, CommitLeaves
<1>8. ASSUME Open \/ OpenFails PROVE catalog.plans \subseteq catalog'.plans
  <2>1. catalog' \in {catalog, Reconciled}
    BY <1>8 DEF Open, OpenFails
  <2> DEFINE mid == ReconcileRuns(catalog)
             muts == [k \in Keys |-> ReconcileMutation(mid, mid.muts[k])]
  <2>2. mid \in Catalog /\ mid.plans = catalog.plans
    BY ReconciledRuns
  <2>3. Reconciled = [mid EXCEPT !.muts = muts]
    BY DEF Reconciled
  <2> HIDE DEF mid, muts
  <2> QED
    BY <2>1, <2>2, <2>3 DEF Catalog
<1>9. ASSUME NEW c \in Clients, Advance(c) \/ AdmitFails(c) \/ Quarantine(c) \/ Expire(c)
      PROVE  catalog.plans \subseteq catalog'.plans
  <2>1. \/ UNCHANGED catalog
        \/ Mutate(c) \/ Settle(c) \/ CancelIntent(c) \/ Intent(c) \/ Start(c)
        \/ Quarantine(c) \/ Refresh(c)
    BY <1>9 DEF Advance, AdmitFails, Expire, Retry, Refuse, LaunchLook, AdmitKnown, AdmitNew,
                Send, StatusLook, Signal, Poll
  <2> QED
    BY <1>2, <1>3, <1>4, <1>5, <1>6, <1>7, <2>1
<1>10. ASSUME NEW r \in Runs, Work(r) \/ TimerFires(r)
       PROVE  catalog.plans \subseteq catalog'.plans
  <2>1. UNCHANGED catalog \/ Report(r)
    BY <1>10 DEF Work, TimerFires, Execute, Return, ReadFlag, Conclude
  <2> QED
    BY <1>7, <2>1
<1>11. ASSUME \/ \E c \in Clients, k \in Keys \cup {None}, a \in Ask : Arrive(c, k, a)
              \/ Crash \/ UNCHANGED vars
       PROVE  catalog.plans \subseteq catalog'.plans
  BY <1>11 DEF Arrive, Crash, vars
<1> QED
  BY <1>8, <1>9, <1>10, <1>11 DEF Next

(* Only launch, which has just found its plan, goes on to admit it. *)
LEMMA AdmitsCreated ==
  ASSUME BackendInv, CreatedOnly, [Next]_vars, NEW d \in Clients, call'[d].pc = "admit"
  PROVE  call'[d].ask.on \in catalog.plans
<1>1. call \in [Clients -> CallRecord]
  BY InvParts, Types
<1>2. ASSUME NEW c \in Clients, Advance(c) \/ AdmitFails(c) \/ Quarantine(c) \/ Expire(c)
      PROVE  call'[d].ask.on \in catalog.plans
  <2>1. CASE LaunchLook(c)
    <3>1. call' = [call EXCEPT ![c].pc = "admit"] /\ call[c].ask.on \in catalog.plans
      BY <2>1 DEF LaunchLook, Go
    <3>2. call'[d].ask = call[d].ask /\ (c # d => call'[d] = call[d])
      BY <1>1, <3>1 DEF CallRecord
    <3> QED
      BY <3>1, <3>2 DEF CreatedOnly
  <2>2. CASE ~LaunchLook(c)
    <3>1. \/ Err(c) \/ Ok(c)
          \/ \E pc \in {"intent", "start", "send", "refresh", "cancelled", "finished", "poll",
                        "polling", "signal"} : Go(c, pc)
      <4>1. CASE Retry(c) \/ Mutate(c) \/ Refuse(c) \/ AdmitFails(c) \/ Quarantine(c)
                   \/ Expire(c) \/ Settle(c)
        BY <4>1 DEF Retry, Mutate, Refuse, AdmitFails, Quarantine, Expire, Settle
      <4>2. CASE AdmitKnown(c) \/ AdmitNew(c) \/ Intent(c) \/ Start(c) \/ Send(c)
        BY <4>2 DEF AdmitKnown, AdmitNew, Admitted, Intent, Start, Send
      <4>3. CASE StatusLook(c) \/ CancelIntent(c) \/ Signal(c) \/ Poll(c)
        BY <4>3 DEF StatusLook, CancelIntent, Signal, Poll
      <4>4. CASE Refresh(c)
        BY <4>4 DEF Refresh, Refreshed
      <4> QED
        BY <1>2, <2>2, <4>1, <4>2, <4>3, <4>4 DEF Advance
    <3>2. c # d => call'[d] = call[d]
      BY <1>1, <3>1 DEF Err, Ok, Go
    <3>3. c = d => FALSE
      BY <1>1, <3>1, IdleFacts DEF Err, Ok, Go, CallRecord
    <3> QED
      BY <3>2, <3>3 DEF CreatedOnly
  <2> QED
    BY <2>1, <2>2
<1>3. ASSUME NEW c \in Clients, NEW k \in Keys \cup {None}, NEW a \in Ask, Arrive(c, k, a)
      PROVE  call'[d].ask.on \in catalog.plans
  <2>1. call' = [call EXCEPT ![c] = [pc |-> "look", key |-> k, ask |-> a]]
    BY <1>3 DEF Arrive
  <2>2. call'[d] = call[d]
    BY <1>1, <2>1
  <2> QED
    BY <2>2 DEF CreatedOnly
<1>4. ASSUME NEW r \in Runs, Work(r) \/ TimerFires(r)
      PROVE  call'[d].ask.on \in catalog.plans
  <2>1. UNCHANGED call
    BY <1>4 DEF Work, TimerFires, Execute, Return, ReadFlag, Conclude, Report
  <2> QED
    BY <2>1 DEF CreatedOnly
<1>5. ASSUME Crash \/ Open \/ OpenFails \/ UNCHANGED vars
      PROVE  call'[d].ask.on \in catalog.plans
  <2>1. UNCHANGED call \/ call'[d] = Idle
    BY <1>5 DEF Crash, Open, OpenFails, vars
  <2> QED
    BY <2>1, IdleFacts DEF CreatedOnly
<1> QED
  BY <1>2, <1>3, <1>4, <1>5 DEF Next

(* The source is given plans by an admission or a restart only. *)
LEMMA SourceCreated ==
  ASSUME BackendInv, CreatedOnly, [Next]_vars, NEW r \in Runs, source'[r] # None
  PROVE  source'[r] \in catalog.plans
<1>1. source \in [Runs -> Plans \cup {None}]
  BY InvParts DEF TypeOK
<1>2. ASSUME NEW c \in Clients, AdmitKnown(c) \/ AdmitNew(c) \/ AdmitFails(c)
      PROVE  source'[r] \in catalog.plans
  <2>1. /\ call[c].pc = "admit"
        /\ source' = [source EXCEPT ![RunOf[call[c].ask.on]] = call[c].ask.on]
    BY <1>2 DEF AdmitKnown, AdmitNew, AdmitFails, At
  <2>2. source'[r] \in {source[r], call[c].ask.on}
    BY <1>1, <2>1
  <2> QED
    BY <2>1, <2>2 DEF CreatedOnly
<1>3. CASE Open
  BY <1>3 DEF Open
<1>4. CASE Crash
  BY <1>4 DEF Crash
<1>5. CASE UNCHANGED source
  BY <1>5 DEF CreatedOnly
<1>6. ASSUME NEW c \in Clients, Advance(c) \/ AdmitFails(c) \/ Quarantine(c) \/ Expire(c)
      PROVE  source'[r] \in catalog.plans
  <2>1. AdmitKnown(c) \/ AdmitNew(c) \/ AdmitFails(c) \/ UNCHANGED source
    BY <1>6 DEF Advance, Retry, Mutate, Refuse, LaunchLook, Intent, Start, Send, StatusLook,
                Refresh, CancelIntent, Signal, Poll, Settle, Quarantine, Expire, service
  <2> QED
    BY <1>2, <1>5, <2>1
<1>7. ASSUME NEW q \in Runs, Work(q) \/ TimerFires(q)
      PROVE  source'[r] \in catalog.plans
  <2>1. UNCHANGED source
    BY <1>7 DEF Work, TimerFires, Execute, Return, ReadFlag, Conclude, Report, service
  <2> QED
    BY <1>5, <2>1
<1>8. ASSUME \/ \E c \in Clients, k \in Keys \cup {None}, a \in Ask : Arrive(c, k, a)
             \/ OpenFails \/ UNCHANGED vars
      PROVE  UNCHANGED source
  BY <1>8 DEF Arrive, OpenFails, vars, service
<1> QED
  BY <1>3, <1>4, <1>5, <1>6, <1>7, <1>8 DEF Next

(* A worker executes what the source holds. *)
LEMMA RanCreated ==
  ASSUME BackendInv, CreatedOnly, [Next]_vars, NEW r \in Runs, NEW i \in DOMAIN ran'[r]
  PROVE  ran'[r][i] \in catalog.plans
<1>1. ran \in [Runs -> Seq(Plans)]
  BY InvParts DEF TypeOK
<1>2. CASE UNCHANGED ran
  BY <1>2 DEF CreatedOnly
<1>3. ASSUME NEW q \in Runs, Execute(q), ran' # ran
      PROVE  ran'[r][i] \in catalog.plans
  <2>1. worker[q].pc = "go" /\ ran' = [ran EXCEPT ![q] = Append(@, source[q])]
    BY <1>3 DEF Execute
  <2>2. source[q] \in catalog.plans
    BY <2>1, InvParts DEF Threaded, CreatedOnly
  <2>3. CASE r # q
    BY <1>1, <2>1, <2>3 DEF CreatedOnly
  <2>4. CASE r = q
    <3>1. ran'[r] = Append(ran[r], source[q]) /\ ran[r] \in Seq(Plans) /\ source[q] \in Plans
      BY <1>1, <2>1, <2>2, <2>4, InvParts, Types, CatalogParts
    <3>2. (i \in DOMAIN ran[r] /\ ran'[r][i] = ran[r][i]) \/ ran'[r][i] = source[q]
      BY <3>1
    <3> QED
      BY <2>2, <3>2 DEF CreatedOnly
  <2> QED
    BY <2>3, <2>4
<1>4. ASSUME NEW c \in Clients, Advance(c) \/ AdmitFails(c) \/ Quarantine(c) \/ Expire(c)
      PROVE  UNCHANGED ran
  BY <1>4 DEF Advance, Retry, Mutate, Refuse, LaunchLook, AdmitKnown, AdmitNew, Intent, Start,
              Send, StatusLook, Refresh, CancelIntent, Signal, Poll, Settle, AdmitFails,
              Quarantine, Expire
<1>5. ASSUME NEW q \in Runs, Work(q) \/ TimerFires(q)
      PROVE  UNCHANGED ran \/ Execute(q)
  BY <1>5 DEF Work, TimerFires, Return, ReadFlag, Conclude, Report
<1>6. ASSUME \/ \E c \in Clients, k \in Keys \cup {None}, a \in Ask : Arrive(c, k, a)
             \/ Crash \/ Open \/ OpenFails \/ UNCHANGED vars
      PROVE  UNCHANGED ran
  BY <1>6 DEF Arrive, Crash, Open, OpenFails, vars
<1> QED
  BY <1>2, <1>3, <1>4, <1>5, <1>6 DEF Next

(* execute_plan runs a plan that was created for the run, and the one the   *)
(* catalog shows wherever create_plan was given run ids of their own.       *)
THEOREM LaunchedPlanExecutes == Spec => []ExecutesOwnPlan
<1>1. Init => CreatedOnly
  <2> SUFFICES ASSUME Init PROVE CreatedOnly
    OBVIOUS
  <2>1. /\ \A c \in Clients : call[c].pc = "idle"
        /\ \A r \in Runs : source[r] = None /\ ran[r] = <<>>
    BY IdleFacts DEF Init
  <2> QED
    BY <2>1 DEF CreatedOnly
<1>2. BackendInv /\ CreatedOnly /\ [Next]_vars => CreatedOnly'
  <2> SUFFICES ASSUME BackendInv, CreatedOnly, [Next]_vars PROVE CreatedOnly'
    OBVIOUS
  <2>1. catalog.plans \subseteq catalog'.plans
    BY PlansStay
  <2>2. \A c \in Clients : call'[c].pc = "admit" => call'[c].ask.on \in catalog.plans
    BY AdmitsCreated
  <2>3. \A r \in Runs : source'[r] # None => source'[r] \in catalog.plans
    BY SourceCreated
  <2>4. \A r \in Runs : \A i \in DOMAIN ran'[r] : ran'[r][i] \in catalog.plans
    BY RanCreated
  <2> QED
    BY <2>1, <2>2, <2>3, <2>4 DEF CreatedOnly
<1>3. BackendInv /\ CreatedOnly => ExecutesOwnPlan
  <2> SUFFICES ASSUME BackendInv, CreatedOnly, NEW r \in Runs, ran[r] # <<>>
               PROVE  /\ catalog.runs[r] # None /\ catalog.runs[r].plan \in catalog.plans
                      /\ \E p \in catalog.plans :
                           /\ ran[r] = <<p>> /\ RunOf[p] = r
                           /\ \/ p = catalog.runs[r].plan
                              \/ {q \in catalog.plans : RunOf[q] = r} # {catalog.runs[r].plan}
    BY DEF ExecutesOwnPlan
  <2>1. Executed(r) /\ Valid(catalog) /\ ran[r] \in Seq(Plans)
    BY InvParts DEF TypeOK
  <2>2. Len(ran[r]) = 1 /\ RunOf[ran[r][1]] = r /\ Evidence(r)
    BY <2>1 DEF Executed
  <2>3. catalog.runs[r] # None /\ catalog.runs[r].plan \in catalog.plans
    BY <2>1, <2>2 DEF Evidence, Valid, ValidMutation
  <2>4. 1 \in DOMAIN ran[r] /\ ran[r] = <<ran[r][1]>>
    BY <2>1, <2>2
  <2>5. ran[r][1] \in catalog.plans
    BY <2>4 DEF CreatedOnly
  <2>6. ran[r][1] \in {q \in catalog.plans : RunOf[q] = r}
    BY <2>2, <2>5
  <2> QED
    BY <2>2, <2>3, <2>4, <2>5, <2>6
<1>4. Spec => []CreatedOnly
  BY <1>1, <1>2, BackendInvariant, PTL DEF Spec
<1> QED
  BY <1>3, <1>4, BackendInvariant, PTL

-----------------------------------------------------------------------------
(* Ends are final.                                                          *)

(* The end of a run that the catalog once reported is never taken back: no  *)
(* refresh, report, second launch, quarantine, failed commit or restart     *)
(* rewrites its record, journals another state or executes it again.        *)
EndsStand ==
  [][\A r \in Runs : HasState(catalog, r, TerminalState) =>
       /\ catalog'.runs[r] = catalog.runs[r]
       /\ journal'[r] = journal[r]
       /\ ran'[r] = ran[r]]_vars

(* Only an execution ends a run, and the orchestrator of a live process     *)
(* still says what the catalog reports: a later commit finds no other end.  *)
Final(r) ==
  /\ worker[r].pc \in Executing => ran[r] # <<>>
  /\ journal[r] \in TerminalState \cup {"Collecting"} => ran[r] # <<>>
  /\ up /\ HasState(catalog, r, TerminalState) => svc[r] = catalog.runs[r].state

EndsInv == \A r \in Runs : Final(r)

Stands(r) ==
  HasState(catalog, r, TerminalState) =>
    catalog'.runs[r] = catalog.runs[r] /\ journal'[r] = journal[r] /\ ran'[r] = ran[r]

(* A step that at most commits the catalog. *)
LEMMA CommitStands ==
  ASSUME NEW r \in Runs, Final(r), UNCHANGED <<up, svc, journal, ran>>,
         worker'[r].pc \in Executing => worker[r].pc \in Executing,
         \/ catalog'.runs[r] = catalog.runs[r]
         \/ /\ ~HasState(catalog, r, TerminalState)
            /\ HasState(catalog', r, TerminalState) => svc[r] = catalog'.runs[r].state
  PROVE  Final(r)' /\ Stands(r)
  BY DEF Final, Stands, HasState

(* Steps that leave the runs of the catalog and the orchestrator alone. *)
LEMMA OthersStand ==
  ASSUME BackendInv, NEW r \in Runs, Final(r),
         UNCHANGED <<up, svc, journal, ran, worker>>, catalog'.runs = catalog.runs
  PROVE  Final(r)' /\ Stands(r)
  BY CommitStands

LEMMA MutationsStand ==
  ASSUME BackendInv, NEW c \in Clients, Mutate(c) \/ Settle(c) \/ CancelIntent(c),
         NEW r \in Runs, Final(r)
  PROVE  Final(r)' /\ Stands(r)
<1>1. catalog \in Catalog /\ Asked(c) /\ call[c] \in CallRecord
  BY InvParts, Types
<1>2. call[c].ask \in Ask /\ call[c].key \in Keys
  BY <1>1 DEF Mutate, Settle, CancelIntent, AtOp, At, Asked, CallRecord, Cancelling
<1>3. UNCHANGED <<up, svc, journal, ran, worker>>
  BY DEF Mutate, Settle, CancelIntent, service
<1>4. ASSUME NEW mid \in Catalog, mid.runs = catalog.runs,
             NEW state \in {"Intent", "Committed"}
      PROVE  SetMut(mid, call[c].key, call[c].ask, state).runs = catalog.runs
  <2>1. Rewritten(SetMut(mid, call[c].key, call[c].ask, state), mid, call[c].key,
                  call[c].ask, state)
    BY <1>2, SetMutParts
  <2> QED
    BY <1>4, <2>1 DEF Rewritten
<1>5. CASE Mutate(c)
  <2>1. PICK p \in IF call[c].ask.op = "create" THEN {call[c].ask.on} ELSE Fresh :
          LET staged == SetMut([catalog EXCEPT !.plans = @ \cup {p}],
                               call[c].key, call[c].ask, "Committed")
          IN Commits(staged) \/ CommitFails(staged, TRUE)
    BY <1>5 DEF Mutate
  <2>2. p \in Plans
    BY <1>2, <1>5, <2>1 DEF Ask, Fresh, Mutate, AtOp
  <2> DEFINE more == [catalog EXCEPT !.plans = @ \cup {p}]
  <2>3. more \in Catalog /\ more.runs = catalog.runs
    BY <1>1, <2>2 DEF Catalog
  <2>4. catalog' \in {catalog, SetMut(more, call[c].key, call[c].ask, "Committed")}
    BY <2>1, CommitLeaves
  <2> HIDE DEF more
  <2>5. catalog'.runs = catalog.runs
    BY <1>4, <2>3, <2>4
  <2> QED
    BY <1>3, <2>5, OthersStand
<1>6. CASE Settle(c)
  <2> DEFINE done == SetMut(catalog, call[c].key, call[c].ask, "Committed")
             void == [catalog EXCEPT !.muts[call[c].key] = None]
  <2>1. done.runs = catalog.runs
    BY <1>1, <1>4
  <2>2. void.runs = catalog.runs
    BY <1>1 DEF Catalog
  <2>3. Commits(done) \/ CommitFails(done, TRUE) \/ Commits(void) \/ CommitFails(void, TRUE)
    BY <1>6 DEF Settle
  <2> HIDE DEF done, void
  <2>4. catalog'.runs = catalog.runs
    BY <2>1, <2>2, <2>3, CommitLeaves
  <2> QED
    BY <1>3, <2>4, OthersStand
<1>7. CASE CancelIntent(c)
  <2> DEFINE staged == SetMut(catalog, call[c].key, call[c].ask, "Intent")
  <2>1. staged.runs = catalog.runs
    BY <1>1, <1>4
  <2>2. Commits(staged) \/ CommitFails(staged, TRUE)
    BY <1>7 DEF CancelIntent
  <2> HIDE DEF staged
  <2>3. catalog'.runs = catalog.runs
    BY <2>1, <2>2, CommitLeaves
  <2> QED
    BY <1>3, <2>3, OthersStand
<1> QED
  BY <1>5, <1>6, <1>7

(* A launch writes only the record of a run that has not executed. *)
LEMMA LaunchStands ==
  ASSUME BackendInv, NEW c \in Clients, Intent(c) \/ Start(c) \/ Quarantine(c),
         NEW r \in Runs, Final(r)
  PROVE  Final(r)' /\ Stands(r)
<1>1. /\ catalog \in Catalog /\ worker \in [Runs -> WorkerRecord]
      /\ Journaled(r) /\ up /\ call[c].pc \in {"intent", "start", "send"}
  BY InvParts, Types DEF Intent, Start, Quarantine, At
<1>2. UNCHANGED <<up, svc, journal, ran>>
  BY DEF Intent, Start, Quarantine, service
<1>3. /\ call[c].ask \in Ask /\ call[c].key \in Keys /\ RunFor(call[c].ask) \in Runs
      /\ call[c].ask.op = "launch" /\ call[c].ask.on \in Plans /\ Called(c)
  BY <1>1, CallRun DEF Launching
<1>4. worker'[r].pc \in Executing => worker[r].pc \in Executing
  <2>1. PICK q \in Runs : q = RunFor(call[c].ask)
    BY <1>3
  <2>2. \/ UNCHANGED worker
        \/ worker' = [worker EXCEPT ![q] = Thread("gate", "Absent")]
        \/ worker' = [worker EXCEPT ![q] = NoThread]
    BY <2>1 DEF Intent, Start, Quarantine
  <2>3. worker'[r] \in {worker[r], Thread("gate", "Absent"), NoThread}
    BY <1>1, <2>2
  <2> QED
    BY <2>3 DEF Executing, Thread, NoThread
<1>5. RunFor(call[c].ask) = r => ~HasState(catalog, r, TerminalState)
  <2>1. CASE call[c].pc = "intent"
    BY <1>3, <2>1 DEF Called, HasState
  <2>2. CASE call[c].pc # "intent"
    <3>1. RunFor(call[c].ask) = r => ran[r] = <<>>
      BY <1>1, <1>3, <2>2 DEF Called
    <3>2. HasState(catalog, r, TerminalState) => journal[r] \in TerminalState
      BY <1>1 DEF Journaled, HasState
    <3> QED
      BY <3>1, <3>2 DEF Final
  <2> QED
    BY <2>1, <2>2
<1>6. ASSUME NEW mid \in Catalog, NEW state \in {"Intent", "Committed", "NeedsReconciliation"},
             NEW staged, staged = SetMut(mid, call[c].key, call[c].ask, state),
             Commits(staged) \/ CommitFails(staged, TRUE) \/ CommitFails(staged, FALSE),
             \A q \in Runs : q # RunFor(call[c].ask) => mid.runs[q] = catalog.runs[q],
             ~HasState(mid, RunFor(call[c].ask), TerminalState)
      PROVE  Final(r)' /\ Stands(r)
  <2>1. staged.runs = mid.runs
    <3>1. Rewritten(SetMut(mid, call[c].key, call[c].ask, state), mid, call[c].key,
                    call[c].ask, state)
      BY <1>3, SetMutParts
    <3> QED
      BY <1>6, <3>1 DEF Rewritten
  <2>2. catalog' \in {catalog, staged}
    BY <1>6, CommitLeaves
  <2>3. \/ catalog'.runs[r] = catalog.runs[r]
        \/ ~HasState(catalog, r, TerminalState) /\ ~HasState(catalog', r, TerminalState)
    BY <1>5, <1>6, <2>1, <2>2 DEF HasState
  <2> QED
    BY <1>2, <1>4, <2>3, CommitStands
<1>7. CASE Intent(c)
  <2>1. PICK p \in Plans : p = call[c].ask.on
    BY <1>3
  <2>2. PICK q \in Runs : q = RunFor(call[c].ask) /\ q = RunOf[p]
    BY <1>3, <2>1, PlanAssumption DEF RunFor
  <2> DEFINE e == [plan |-> p, state |-> "Planned"]
             mid == [catalog EXCEPT !.runs[q] = e, !.latest[q] = "RunUpdated"]
  <2>3. e \in RunRecord /\ e.state = "Planned"
    BY DEF RunRecord, PublicState
  <2>4. \/ Commits(SetMut(mid, call[c].key, call[c].ask, "Intent"))
        \/ CommitFails(SetMut(mid, call[c].key, call[c].ask, "Intent"), TRUE)
    BY <1>7, <2>1, <2>2 DEF Intent
  <2> HIDE DEF e
  <2>5. /\ mid \in Catalog /\ mid.runs[q] = e
        /\ \A x \in Runs : x # q => mid.runs[x] = catalog.runs[x]
    BY <1>1, <2>3 DEF Catalog, EventKind
  <2> HIDE DEF mid
  <2>6. ~HasState(mid, q, TerminalState)
    BY <2>3, <2>5 DEF HasState, TerminalState
  <2> QED
    BY <1>6, <2>2, <2>4, <2>5, <2>6
<1>8. CASE Start(c) \/ Quarantine(c)
  <2>1. PICK q \in Runs : q = RunFor(call[c].ask)
    BY <1>3
  <2>2. catalog.runs[q] # None
    BY <1>3, <1>8, <2>1 DEF Called, Start, Quarantine, At
  <2>3. PICK state \in {"Running", "NeedsReconciliation"},
             kind \in {"RunStarted", "ReconciliationRequired"},
             mark \in {"Committed", "NeedsReconciliation"} :
          LET staged == SetMut(SetRun(catalog, q, state, kind), call[c].key, call[c].ask, mark)
          IN Commits(staged) \/ CommitFails(staged, FALSE)
    BY <1>8, <2>1 DEF Start, Quarantine
  <2> DEFINE mid == SetRun(catalog, q, state, kind)
  <2>4. Restated(mid, catalog, q, state)
    BY <1>1, <2>2, SetRunParts DEF PublicState, EventKind
  <2>5. \/ Commits(SetMut(mid, call[c].key, call[c].ask, mark))
        \/ CommitFails(SetMut(mid, call[c].key, call[c].ask, mark), FALSE)
    BY <2>3
  <2> HIDE DEF mid
  <2>6. /\ mid \in Catalog /\ ~HasState(mid, q, TerminalState)
        /\ \A x \in Runs : x # q => mid.runs[x] = catalog.runs[x]
    BY <2>4 DEF Restated, HasState, TerminalState
  <2> QED
    BY <1>6, <2>1, <2>5, <2>6
<1> QED
  BY <1>7, <1>8

(* What the orchestrator says of an end agrees with the reported one. *)
LEMMA ObservedStands ==
  ASSUME BackendInv, up, UNCHANGED <<up, svc, journal, ran>>,
         NEW q \in Runs, catalog.runs[q] # None,
         NEW state \in PublicState,
         state = Observed(q) \/ (state = "NeedsReconciliation" /\ Observed(q) \notin TerminalState),
         NEW staged, staged = SetRun(catalog, q, state, Kind(state)),
         \/ UNCHANGED catalog
         \/ /\ Commits(staged) \/ CommitFails(staged, TRUE) \/ CommitFails(staged, FALSE),
         NEW r \in Runs, Final(r),
         worker'[r].pc \in Executing => worker[r].pc \in Executing
  PROVE  Final(r)' /\ Stands(r)
<1>1. catalog \in Catalog /\ catalog.runs[q] \in RunRecord
  BY InvParts, Types, CatalogParts
<1>2. Restated(staged, catalog, q, state)
  BY <1>1, SetRunParts, KindIsEvent
<1>3. catalog' \in {catalog, staged}
  BY CommitLeaves
<1>4. CASE r # q
  <2>1. catalog'.runs[r] = catalog.runs[r]
    BY <1>2, <1>3, <1>4 DEF Restated
  <2> QED
    BY <2>1, CommitStands
<1>5. CASE r = q
  <2>1. CASE HasState(catalog, r, TerminalState)
    <3>1. svc[r] = catalog.runs[r].state /\ svc[r] \in TerminalState
      BY <2>1 DEF Final, HasState
    <3>2. state = catalog.runs[r].state
      BY <1>5, <3>1 DEF Observed, Public, TerminalState
    <3>3. staged.runs[r] = catalog.runs[r]
      <4>1. staged.runs[r] \in RunRecord
        BY <1>2, <1>5, CatalogParts DEF Restated
      <4>2. staged.runs[r].plan = catalog.runs[r].plan /\ staged.runs[r].state = catalog.runs[r].state
        BY <1>2, <1>5, <3>2 DEF Restated
      <4> QED
        BY <1>1, <1>5, <4>1, <4>2 DEF RunRecord
    <3>4. catalog'.runs[r] = catalog.runs[r]
      BY <1>3, <3>3
    <3> QED
      BY <3>4, CommitStands
  <2>2. CASE ~HasState(catalog, r, TerminalState)
    <3>1. state \in TerminalState => svc[r] = state
      BY <1>5 DEF Observed, Public, TerminalState
    <3>2. staged.runs[r].state = state
      BY <1>2, <1>5 DEF Restated
    <3>3. catalog'.runs[r] = catalog.runs[r] \/ catalog'.runs[r] = staged.runs[r]
      BY <1>3
    <3>4. catalog'.runs[r] = catalog.runs[r]
            \/ (HasState(catalog', r, TerminalState) => svc[r] = catalog'.runs[r].state)
      BY <3>1, <3>2, <3>3 DEF HasState
    <3> QED
      BY <2>2, <3>4, CommitStands
  <2> QED
    BY <2>1, <2>2
<1> QED
  BY <1>4, <1>5

LEMMA ReportsStand ==
  ASSUME BackendInv, NEW r \in Runs, Final(r),
         (\E c \in Clients : Refresh(c)) \/ (\E q \in Runs : Report(q))
  PROVE  Final(r)' /\ Stands(r)
<1>1. ASSUME NEW c \in Clients, Refresh(c) PROVE Final(r)' /\ Stands(r)
  <2>1. /\ up /\ call[c].pc \in {"refresh", "polling"}
        /\ UNCHANGED <<up, svc, journal, ran, worker>>
    BY <1>1 DEF Refresh, At, service
  <2>2. PICK q \in Runs : q = call[c].ask.on /\ q = RunFor(call[c].ask)
    BY <2>1, CallRun DEF Launching, Cancelling
  <2>3. catalog.runs[q] # None
    BY <2>1, <2>2, InvParts DEF Called, Cancelling
  <2>4. Observed(q) \in PublicState
    BY <2>1, <2>3, ObservedFacts
  <2>5. LET staged == SetRun(catalog, q, Observed(q), Kind(Observed(q)))
        IN UNCHANGED catalog \/ Commits(staged) \/ CommitFails(staged, TRUE)
    BY <1>1, <2>2 DEF Refresh
  <2> QED
    BY <2>1, <2>3, <2>4, <2>5, ObservedStands
<1>2. ASSUME NEW q \in Runs, Report(q) PROVE Final(r)' /\ Stands(r)
  <2>1. /\ up /\ worker[q].pc = "report" /\ worker' = [worker EXCEPT ![q] = NoThread]
        /\ UNCHANGED <<up, svc, journal, ran>>
    BY <1>2 DEF Report, CatalogFree, service
  <2>2. catalog.runs[q] # None
    BY <2>1, InvParts DEF Threaded
  <2>3. worker'[r].pc \in Executing => worker[r].pc \in Executing
    BY <2>1, ThreadFacts, InvParts, Types DEF Executing
  <2>4. PICK state \in PublicState :
          state = IF Observed(q) \in TerminalState THEN Observed(q) ELSE "NeedsReconciliation"
    BY DEF PublicState
  <2>5. LET staged == SetRun(catalog, q, state, Kind(state))
        IN UNCHANGED catalog \/ Commits(staged) \/ CommitFails(staged, FALSE)
    BY <1>2, <2>4 DEF Report
  <2> QED
    BY <2>1, <2>2, <2>3, <2>4, <2>5, ObservedStands
<1> QED
  BY <1>1, <1>2

(* The orchestrator moves only runs that have not ended. *)
LEMMA ServiceStands ==
  ASSUME BackendInv, NEW r \in Runs, Final(r),
         \/ \E c \in Clients : AdmitNew(c) \/ AdmitFails(c)
         \/ \E q \in Runs : Execute(q) \/ Conclude(q)
  PROVE  Final(r)' /\ Stands(r)
<1>1. /\ TypeOK /\ worker \in [Runs -> WorkerRecord] /\ Journaled(r) /\ Threaded(r)
      /\ Executed(r)
  BY InvParts, Types
<1>2. HasState(catalog, r, TerminalState) => journal[r] \in TerminalState
  BY <1>1 DEF Journaled, HasState
<1>3. ASSUME NEW c \in Clients, AdmitNew(c) \/ AdmitFails(c) PROVE Final(r)' /\ Stands(r)
  <2>1. /\ up /\ call[c].pc = "admit" /\ UNCHANGED <<catalog, up, worker, ran>>
    BY <1>3 DEF AdmitNew, AdmitFails, At
  <2>2. PICK q \in Runs : q = RunOf[call[c].ask.on]
    BY <2>1, CallRun DEF Launching, RunFor
  <2>3. svc[q] = "Absent"
    BY <1>3, <2>2 DEF AdmitNew, AdmitFails
  <2>4. \A x \in Runs \ {q} : svc'[x] = svc[x] /\ journal'[x] = journal[x]
    BY <1>1, <1>3, <2>2 DEF AdmitNew, AdmitFails, TypeOK
  <2>5. journal'[q] = journal[q] \/ journal'[q] \in {"Planned", "Prepared"}
    BY <1>1, <1>3, <2>2 DEF AdmitNew, AdmitFails, TypeOK
  <2>6. CASE r = q
    <3>1. catalog.runs[r] = None
      BY <2>1, <2>3, <2>6, AbsentRun
    <3> QED
      BY <2>1, <2>5, <2>6, <3>1 DEF Final, Stands, HasState, TerminalState
  <2>7. CASE r # q
    BY <2>1, <2>4, <2>7 DEF Final, Stands, HasState
  <2> QED
    BY <2>6, <2>7
<1>4. ASSUME NEW q \in Runs, Execute(q) PROVE Final(r)' /\ Stands(r)
  <2>1. UNCHANGED <<catalog, up>>
    BY <1>4 DEF Execute
  <2>2. CASE r # q
    <3>1. svc'[r] = svc[r] /\ journal'[r] = journal[r] /\ ran'[r] = ran[r] /\ worker'[r] = worker[r]
      BY <1>1, <1>4, <2>2 DEF Execute, TypeOK
    <3> QED
      BY <2>1, <3>1 DEF Final, Stands, HasState
  <2>3. CASE r = q /\ svc[r] # "Prepared"
    <3>1. UNCHANGED <<svc, journal, ran>> /\ worker' = [worker EXCEPT ![r].pc = "report"]
      BY <1>4, <2>3 DEF Execute
    <3>2. worker'[r].pc = "report"
      BY <1>1, <3>1 DEF WorkerRecord
    <3> QED
      BY <2>1, <3>1, <3>2 DEF Final, Stands, HasState, Executing
  <2>4. CASE r = q /\ svc[r] = "Prepared"
    <3>1. ~HasState(catalog, r, TerminalState)
      BY <1>1, <1>2, <2>4 DEF Journaled, TerminalState
    <3>2. journal'[r] \in {"Prepared", "Running"}
      BY <1>1, <1>4, <2>4 DEF Execute, TypeOK
    <3>3. worker'[r].pc \in Executing => ran'[r] # <<>>
      <4>1. CASE ran' = [ran EXCEPT ![r] = Append(@, source[r])]
        <5>1. ran'[r] = Append(ran[r], source[r]) /\ ran[r] \in Seq(Plans)
          BY <1>1, <4>1 DEF TypeOK
        <5> QED
          BY <5>1
      <4>2. CASE worker' = [worker EXCEPT ![r].pc = "report"]
        BY <1>1, <4>2 DEF Executing, WorkerRecord
      <4> QED
        BY <1>4, <2>4, <4>1, <4>2 DEF Execute
    <3> QED
      BY <2>1, <3>1, <3>2, <3>3 DEF Final, Stands, HasState, TerminalState
  <2> QED
    BY <2>2, <2>3, <2>4
<1>5. ASSUME NEW q \in Runs, Conclude(q) PROVE Final(r)' /\ Stands(r)
  <2>1. UNCHANGED <<catalog, up, ran>> /\ worker[q].pc = "concluding"
    BY <1>5 DEF Conclude
  <2>2. CASE r # q
    <3>1. svc'[r] = svc[r] /\ journal'[r] = journal[r] /\ worker'[r] = worker[r]
      BY <1>1, <1>5, <2>2 DEF Conclude, TypeOK
    <3> QED
      BY <2>1, <3>1 DEF Final, Stands, HasState
  <2>3. CASE r = q
    <3>1. svc[r] = "Running" /\ ran[r] # <<>>
      BY <1>1, <2>1, <2>3 DEF Threaded, Final, Executing
    <3>2. ~HasState(catalog, r, TerminalState)
      BY <1>1, <1>2, <3>1 DEF Journaled, TerminalState
    <3> QED
      BY <2>1, <3>1, <3>2 DEF Final, Stands, HasState
  <2> QED
    BY <2>2, <2>3
<1> QED
  BY <1>3, <1>4, <1>5

(* A restart finds the end in the journal. *)
LEMMA RestartStands ==
  ASSUME BackendInv, NEW r \in Runs, Final(r), Crash \/ Open \/ OpenFails
  PROVE  Final(r)' /\ Stands(r)
<1>1. TypeOK /\ Down /\ Journaled(r) /\ catalog \in Catalog
  BY InvParts, Types
<1>2. UNCHANGED <<journal, ran>>
  BY DEF Crash, Open, OpenFails, service
<1>3. worker'[r].pc \notin Executing
  BY <1>1, ThreadFacts DEF Crash, Open, OpenFails, Down, Executing
<1>4. CASE Crash
  BY <1>2, <1>3, <1>4 DEF Crash, Final, Stands
<1>5. CASE Open \/ OpenFails
  <2>1. catalog' \in {catalog, Reconciled}
    BY <1>5 DEF Open, OpenFails
  <2>2. Reconciles(Reconciled)
    BY ReconciledFacts
  <2>3. HasState(catalog, r, TerminalState) => Reconciled.runs[r] = catalog.runs[r]
    <3> SUFFICES ASSUME HasState(catalog, r, TerminalState)
                 PROVE  Reconciled.runs[r] = catalog.runs[r]
      OBVIOUS
    <3> DEFINE mid == ReconcileRuns(catalog)
    <3>1. catalog.runs[r] # None /\ catalog.runs[r].state = After(r)
      BY <1>1, AfterFacts DEF HasState, Journaled
    <3>2. /\ mid \in Catalog /\ mid.runs[r] # None
          /\ mid.runs[r].plan = catalog.runs[r].plan /\ mid.runs[r].state = After(r)
      BY <3>1, ReconciledRuns
    <3>3. Reconciled.runs = mid.runs
      <4>1. Reconciled = [mid EXCEPT !.muts = [k \in Keys |-> ReconcileMutation(mid, mid.muts[k])]]
        BY DEF Reconciled
      <4> HIDE DEF mid
      <4> QED
        BY <3>2, <4>1 DEF Catalog
    <3> HIDE DEF mid
    <3>4. mid.runs[r] \in RunRecord /\ catalog.runs[r] \in RunRecord
      BY <1>1, <3>1, <3>2, CatalogParts
    <3> QED
      BY <3>1, <3>2, <3>3, <3>4 DEF RunRecord
  <2>4. Stands(r)
    BY <1>2, <2>1, <2>3 DEF Stands
  <2>5. HasState(catalog', r, TerminalState) => journal[r] = catalog'.runs[r].state
    BY <1>1, <2>1, <2>2 DEF Reconciles, Journaled
  <2>6. up' => svc'[r] = Reopened(r)
    BY <1>5 DEF Open, OpenFails
  <2>7. up' /\ HasState(catalog', r, TerminalState) => svc'[r] = catalog'.runs[r].state
    BY <2>5, <2>6, ReopenedFacts DEF HasState
  <2> QED
    BY <1>2, <1>3, <2>4, <2>7 DEF Final
<1> QED
  BY <1>4, <1>5

(* Everything else leaves the ends alone. *)
LEMMA MovesStand ==
  ASSUME BackendInv, NEW r \in Runs, Final(r),
         \/ \E c \in Clients, k \in Keys \cup {None}, a \in Ask : Arrive(c, k, a)
         \/ \E c \in Clients :
              \/ Retry(c) \/ Refuse(c) \/ LaunchLook(c) \/ AdmitKnown(c) \/ Send(c)
              \/ StatusLook(c) \/ Signal(c) \/ Poll(c) \/ Expire(c)
         \/ \E q \in Runs : Return(q) \/ ReadFlag(q) \/ TimerFires(q)
         \/ UNCHANGED vars
  PROVE  Final(r)' /\ Stands(r)
<1>1. worker \in [Runs -> WorkerRecord]
  BY InvParts, Types
<1>2. UNCHANGED <<catalog, up, svc, journal, ran>>
  BY DEF Arrive, Retry, Refuse, LaunchLook, AdmitKnown, Send, StatusLook, Signal, Poll,
     Expire, Return, ReadFlag, TimerFires, vars, service
<1>3. worker'[r].pc \in Executing => worker[r].pc \in Executing
  <2>1. ASSUME NEW q \in Runs, Return(q) \/ ReadFlag(q)
        PROVE  worker'[r] = worker[r] \/ worker[r].pc \in Executing
    BY <1>1, <2>1 DEF Return, ReadFlag, Executing
  <2>2. ASSUME NEW q \in Runs, TimerFires(q) PROVE worker'[r].pc = worker[r].pc
    BY <1>1, <2>2 DEF TimerFires, WorkerRecord
  <2>3. ASSUME NEW c \in Clients, Send(c)
        PROVE  worker'[r] = worker[r] \/ worker'[r].pc = "go"
    BY <1>1, <2>3 DEF Send, WorkerRecord
  <2>4. \/ UNCHANGED worker
        \/ \E q \in Runs : Return(q) \/ ReadFlag(q) \/ TimerFires(q)
        \/ \E c \in Clients : Send(c)
    BY DEF Arrive, Retry, Refuse, LaunchLook, AdmitKnown, StatusLook, Signal, Poll, Expire, vars
  <2> QED
    BY <2>1, <2>2, <2>3, <2>4 DEF Executing
<1> QED
  BY <1>2, <1>3, CommitStands

LEMMA EndsStep ==
  ASSUME BackendInv, [Next]_vars, NEW r \in Runs, Final(r)
  PROVE  Final(r)' /\ Stands(r)
<1>1. ASSUME NEW c \in Clients, Advance(c) \/ AdmitFails(c) \/ Quarantine(c) \/ Expire(c)
      PROVE  Final(r)' /\ Stands(r)
  BY <1>1, MovesStand, MutationsStand, LaunchStands, ReportsStand, ServiceStands DEF Advance
<1>2. ASSUME NEW q \in Runs, Work(q) \/ TimerFires(q) PROVE Final(r)' /\ Stands(r)
  BY <1>2, MovesStand, ReportsStand, ServiceStands DEF Work
<1> QED
  BY <1>1, <1>2, MovesStand, RestartStands DEF Next

(* The ends the catalog reports are final, over every failure and restart.  *)
(* The orchestrator alone could say otherwise, and it does not: only an     *)
(* execution ends a run, and a launch under way has not executed.           *)
THEOREM ReportedEndsStand == Spec => EndsStand
<1>1. Init => EndsInv
  <2> SUFFICES ASSUME Init, NEW r \in Runs PROVE Final(r)
    BY DEF EndsInv
  <2>1. /\ worker[r] = NoThread /\ journal[r] = NoState /\ catalog.runs[r] = None
    BY DEF Init
  <2> QED
    BY <2>1, ThreadFacts DEF Final, HasState, Executing, NoState, TerminalState
<1>2. BackendInv /\ EndsInv /\ [Next]_vars => EndsInv'
  BY EndsStep DEF EndsInv
<1>3. BackendInv /\ EndsInv /\ [Next]_vars =>
        [\A r \in Runs : HasState(catalog, r, TerminalState) =>
           /\ catalog'.runs[r] = catalog.runs[r]
           /\ journal'[r] = journal[r]
           /\ ran'[r] = ran[r]]_vars
  BY EndsStep DEF EndsInv, Stands
<1>4. Spec => []EndsInv
  BY <1>1, <1>2, BackendInvariant, PTL DEF Spec
<1> QED
  BY <1>3, <1>4, BackendInvariant, PTL DEF Spec, EndsStand

=============================================================================
