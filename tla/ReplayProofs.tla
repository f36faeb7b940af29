----------------------------- MODULE ReplayProofs -----------------------------
(***************************************************************************)
(* The fences of the replay service, for every cassette, every number of   *)
(* connections and of segments: a reservation has one owner, the cursor    *)
(* skips nothing, and a response is repeated only after a failed flush.    *)
(***************************************************************************)
EXTENDS Replay, FiniteSetTheorems, TLAPS

Connection ==
  [pc : {"idle", "reserve", "done"} \cup Holding,
   route : Routes \cup {None}, request : Requests \cup {Malformed, None},
   cursor : Nat \cup {None}, sent : 0 .. Segments, commit : BOOLEAN,
   status : {"served", "refused", "failed", None}]

Typed ==
  /\ cursors \in [Routes -> Nat]
  /\ \A r \in Routes : cursors[r] <= Len(Cassette[r])
  /\ reservations \in [Routes -> Nat \cup {None}]
  /\ conn \in [Connections -> Connection]
  /\ cancelled \subseteq Connections
  /\ delivered \in Seq(Routes \X Nat)
  /\ unflushed \subseteq Routes \X Nat \X Connections

(* What the step a connection has reached says of its own record.           *)
Phased(s) ==
  /\ s.pc \in Holding \cup {"reserve"} => s.route \in Routes
  /\ s.pc \in {"idle", "reserve", "head"} => s.sent = 0
  /\ s.pc \in {"wait", "write"} => s.sent < Segments
  /\ s.pc = "finish" /\ s.commit => s.sent \in {0, Segments}

(* A connection that answers holds the reservation of its route, at the     *)
(* cursor, which has not reached the end of the cassette.                   *)
Owns(s) ==
  s.pc \in Holding =>
    /\ s.cursor \in Nat
    /\ reservations[s.route] = s.cursor /\ cursors[s.route] = s.cursor
    /\ s.cursor < Len(Cassette[s.route])

Exclusive ==
  /\ \A c, d \in Connections :
       /\ conn[c].pc \in Holding /\ conn[d].pc \in Holding
       /\ conn[c].route = conn[d].route
       => c = d
  /\ \A r \in Routes :
       reservations[r] # None =>
         \E c \in Connections : conn[c].route = r /\ conn[c].pc \in Holding

Received(r, i) == \E k \in DOMAIN delivered : delivered[k] = <<r, i>>

(* What was delivered: every interaction before the cursor, the one at the  *)
(* cursor once its holder has written every segment, and none beyond.       *)
Delivered ==
  /\ \A r \in Routes : \A i \in 1 .. cursors[r] : Received(r, i)
  /\ \A c \in Connections :
       conn[c].pc \in Holding /\ conn[c].sent = Segments =>
         Received(conn[c].route, conn[c].cursor + 1)
  /\ \A k \in DOMAIN delivered :
       /\ delivered[k][2] \in 1 .. Len(Cassette[delivered[k][1]])
       /\ delivered[k][2] <= cursors[delivered[k][1]] + 1

InOrder ==
  \A k \in DOMAIN delivered :
    LET r == delivered[k][1] IN
    \A i \in 1 .. delivered[k][2] - 1 :
      \E j \in 1 .. k - 1 : delivered[j] = <<r, i>>

(* The response is written and its connection will commit it.               *)
Answered(s) ==
  /\ s.pc \in Holding /\ s.sent = Segments
  /\ s.pc = "finish" => s.commit

Failures(r, i) == {c \in Connections : <<r, i, c>> \in unflushed}

(* The budget of deliveries: one beyond the failed flushes, which nobody    *)
(* has used at the cursor until its holder has an answer that it commits.   *)
Budgeted ==
  /\ \A r \in Routes, i \in Nat : IsFiniteSet(Failures(r, i))
  /\ \A r \in Routes, i \in Nat, c \in Connections :
       <<r, i, c>> \in unflushed => conn[c].pc \in {"finish", "done"}
  /\ \A r \in Routes, i \in Nat : Count(r, i) <= 1 + FailedFlushes(r, i)
  /\ \A r \in Routes, i \in Nat :
       /\ i > cursors[r]
       /\ \A c \in Connections : conn[c].route = r => ~Answered(conn[c])
       => Count(r, i) <= FailedFlushes(r, i)

IndInv ==
  /\ Typed
  /\ \A c \in Connections : Phased(conn[c]) /\ Owns(conn[c])
  /\ Exclusive
  /\ Delivered
  /\ InOrder
  /\ Budgeted

-----------------------------------------------------------------------------
(* Counting in a sequence that grows.                                       *)

Places(s, e) == {k \in DOMAIN s : s[k] = e}

(* The places of an element are finitely many.                              *)
LEMMA PlacesFinite ==
  ASSUME NEW S, NEW s \in Seq(S), NEW e
  PROVE  /\ IsFiniteSet(Places(s, e))
         /\ Cardinality(Places(s, e)) \in Nat
<1>1. IsFiniteSet(1 .. Len(s))
  BY FS_Interval
<1>2. Places(s, e) \subseteq 1 .. Len(s)
  BY DEF Places
<1> QED
  BY <1>1, <1>2, FS_Subset, FS_CardinalityType

(* Append adds one place of the element that it appends.                    *)
LEMMA PlacesAppend ==
  ASSUME NEW S, NEW s \in Seq(S), NEW x \in S, NEW e
  PROVE  /\ x # e => Places(Append(s, x), e) = Places(s, e)
         /\ x = e => Cardinality(Places(Append(s, x), e)) = Cardinality(Places(s, e)) + 1
<1>1. x # e => Places(Append(s, x), e) = Places(s, e)
  BY DEF Places
<1>2. ASSUME x = e
      PROVE  Places(Append(s, x), e) = Places(s, e) \cup {Len(s) + 1}
  BY <1>2 DEF Places
<1>3. Len(s) + 1 \notin Places(s, e)
  BY DEF Places
<1>4. ASSUME x = e
      PROVE  Cardinality(Places(Append(s, x), e)) = Cardinality(Places(s, e)) + 1
  BY <1>2, <1>3, <1>4, PlacesFinite, FS_AddElement
<1> QED
  BY <1>1, <1>4

(* An element is received exactly when its count is not zero.               *)
LEMMA ReceivedCount ==
  ASSUME Typed, NEW r \in Routes, NEW i \in Nat
  PROVE  /\ Count(r, i) \in Nat
         /\ Received(r, i) => Count(r, i) > 0
         /\ ~Received(r, i) => Count(r, i) = 0
<1>1. Count(r, i) = Cardinality(Places(delivered, <<r, i>>))
  BY DEF Count, Places
<1>2. IsFiniteSet(Places(delivered, <<r, i>>)) /\ Count(r, i) \in Nat
  BY <1>1, PlacesFinite DEF Typed
<1>3. Received(r, i) <=> Places(delivered, <<r, i>>) # {}
  BY DEF Received, Places
<1> QED
  BY <1>1, <1>2, <1>3, FS_EmptySet

(* The failed flushes of an interaction are a number.                       *)
LEMMA FailuresCount ==
  ASSUME Budgeted, NEW r \in Routes, NEW i \in Nat
  PROVE  FailedFlushes(r, i) \in Nat
  BY FS_CardinalityType DEF Budgeted, Failures, FailedFlushes

(* What a delivery changes in the history.                                  *)
LEMMA Delivery ==
  ASSUME Typed, NEW r \in Routes, NEW n \in Nat,
         delivered' = Append(delivered, <<r, n>>)
  PROVE  /\ delivered' \in Seq(Routes \X Nat)
         /\ Received(r, n)'
         /\ \A q \in Routes, i \in Nat : Received(q, i) => Received(q, i)'
         /\ \A q \in Routes, i \in Nat : <<q, i>> # <<r, n>> => Count(q, i)' = Count(q, i)
         /\ Count(r, n)' = Count(r, n) + 1
<1>1. delivered \in Seq(Routes \X Nat) /\ <<r, n>> \in Routes \X Nat
  BY DEF Typed
<1>2. /\ delivered' \in Seq(Routes \X Nat)
      /\ Len(delivered) + 1 \in DOMAIN delivered'
      /\ delivered'[Len(delivered) + 1] = <<r, n>>
      /\ \A k \in DOMAIN delivered : k \in DOMAIN delivered' /\ delivered'[k] = delivered[k]
  BY <1>1
<1>3. \A q \in Routes, i \in Nat :
        /\ Count(q, i) = Cardinality(Places(delivered, <<q, i>>))
        /\ Count(q, i)' = Cardinality(Places(Append(delivered, <<r, n>>), <<q, i>>))
  BY DEF Count, Places
<1>4. \A q \in Routes, i \in Nat : <<q, i>> # <<r, n>> => Count(q, i)' = Count(q, i)
  <2> SUFFICES ASSUME NEW q \in Routes, NEW i \in Nat, <<q, i>> # <<r, n>>
               PROVE  Count(q, i)' = Count(q, i)
    OBVIOUS
  <2>1. Places(Append(delivered, <<r, n>>), <<q, i>>) = Places(delivered, <<q, i>>)
    BY <1>1, PlacesAppend
  <2> QED
    BY <1>3, <2>1
<1>5. Count(r, n)' = Count(r, n) + 1
  <2>1. Cardinality(Places(Append(delivered, <<r, n>>), <<r, n>>))
          = Cardinality(Places(delivered, <<r, n>>)) + 1
    BY <1>1, PlacesAppend
  <2> QED
    BY <1>3, <2>1
<1> QED
  BY <1>2, <1>4, <1>5 DEF Received

(* A delivery after all the interactions before it keeps the order.         *)
LEMMA OrderedDelivery ==
  ASSUME Typed, InOrder, NEW r \in Routes, NEW n \in Nat,
         delivered' = Append(delivered, <<r, n>>),
         \A i \in 1 .. n - 1 : Received(r, i)
  PROVE  InOrder'
<1>1. delivered \in Seq(Routes \X Nat) /\ <<r, n>> \in Routes \X Nat
  BY DEF Typed
<1> SUFFICES ASSUME NEW k \in DOMAIN delivered', NEW i \in 1 .. delivered'[k][2] - 1
             PROVE  \E j \in 1 .. k - 1 : delivered'[j] = <<delivered'[k][1], i>>
  BY DEF InOrder
<1>2. CASE k \in DOMAIN delivered
  <2>1. delivered'[k] = delivered[k]
    BY <1>1, <1>2
  <2>2. PICK j \in 1 .. k - 1 : delivered[j] = <<delivered[k][1], i>>
    BY <1>2, <2>1 DEF InOrder
  <2>3. j \in DOMAIN delivered /\ delivered'[j] = delivered[j]
    <3>1. Len(delivered) \in Nat /\ DOMAIN delivered = 1 .. Len(delivered)
      BY <1>1
    <3>2. j \in 1 .. Len(delivered)
      BY <1>2, <3>1
    <3> QED
      BY <1>1, <3>1, <3>2
  <2> QED
    BY <2>1, <2>2, <2>3
<1>3. CASE k = Len(delivered) + 1
  <2>1. delivered'[k][1] = r /\ delivered'[k][2] = n
    BY <1>1, <1>3
  <2>2. PICK j \in DOMAIN delivered : delivered[j] = <<r, i>>
    BY <2>1 DEF Received
  <2>3. j \in 1 .. k - 1 /\ delivered'[j] = delivered[j]
    BY <1>1, <1>3
  <2> QED
    BY <2>1, <2>2, <2>3
<1>4. k \in DOMAIN delivered \/ k = Len(delivered) + 1
  BY <1>1
<1> QED
  BY <1>2, <1>3, <1>4

-----------------------------------------------------------------------------
(* The steps.                                                               *)

LEMMA InitIndInv == Init => IndInv
<1> SUFFICES ASSUME Init PROVE IndInv
  OBVIOUS
<1> USE DEF Init
<1>1. Typed
  <2>1. Segments \in Nat /\ \A r \in Routes : Cassette[r] \in Seq(Requests)
    BY CassetteAssumption, SegmentsAssumption
  <2>2. \A r \in Routes : Len(Cassette[r]) \in Nat
    BY <2>1
  <2>3. Idle \in Connection
    BY <2>1 DEF Idle, Connection
  <2> QED
    BY <2>2, <2>3 DEF Typed
<1>2. \A c \in Connections : conn[c].pc = "idle" /\ conn[c].sent = 0
  BY DEF Idle
<1>3. \A c \in Connections : Phased(conn[c]) /\ Owns(conn[c])
  BY <1>2 DEF Phased, Owns, Holding, Writing
<1>4. Exclusive
  BY <1>2 DEF Exclusive, Holding, Writing
<1>5. Delivered /\ InOrder
  BY <1>2 DEF Delivered, InOrder, Holding, Writing
<1>6. Budgeted
  <2> SUFFICES ASSUME NEW r \in Routes, NEW i \in Nat
               PROVE  IsFiniteSet(Failures(r, i)) /\ FailedFlushes(r, i) = 0 /\ Count(r, i) = 0
    BY DEF Budgeted
  <2>1. Failures(r, i) = {} /\ {c \in Connections : <<r, i, c>> \in unflushed} = {}
    BY DEF Failures
  <2>2. {k \in DOMAIN delivered : delivered[k] = <<r, i>>} = {}
    OBVIOUS
  <2> QED
    BY <2>1, <2>2, FS_EmptySet DEF FailedFlushes, Count
<1> QED
  BY <1>1, <1>3, <1>4, <1>5, <1>6 DEF IndInv

(* A step of one connection that neither takes nor gives back its           *)
(* reservation, ends no response and loses no answer.                       *)
Quiet(c, s) ==
  /\ s \in Connection /\ Phased(s)
  /\ (s.pc \in Holding) = (conn[c].pc \in Holding)
  /\ s.pc \in Holding =>
       /\ s.route = conn[c].route /\ s.cursor = conn[c].cursor
       /\ s.sent = conn[c].sent \/ s.sent < Segments
       /\ Answered(s) = Answered(conn[c])
  /\ conn[c].pc \notin {"finish", "done"}
  /\ conn' = [conn EXCEPT ![c] = s]
  /\ UNCHANGED <<cursors, reservations, delivered, unflushed>>

LEMMA QuietStep ==
  ASSUME IndInv, NEW c \in Connections, NEW s, Quiet(c, s), cancelled' \subseteq Connections
  PROVE  IndInv'
<1>1. /\ conn' \in [Connections -> Connection] /\ conn'[c] = s
      /\ \A d \in Connections : d # c => conn'[d] = conn[d]
  BY DEF IndInv, Typed, Quiet
<1>2. UNCHANGED <<cursors, reservations, delivered, unflushed>>
  BY DEF Quiet
<1>3. Typed'
  BY <1>1, <1>2 DEF IndInv, Typed
<1>4. \A d \in Connections : (conn'[d].pc \in Holding) = (conn[d].pc \in Holding)
  BY <1>1 DEF Quiet
<1>5. \A d \in Connections : conn'[d].pc \in Holding =>
        conn'[d].route = conn[d].route /\ conn'[d].cursor = conn[d].cursor
  BY <1>1 DEF Quiet
<1>6. \A d \in Connections : Phased(conn'[d])
  BY <1>1 DEF Quiet, IndInv
<1>7. \A d \in Connections : Phased(conn[d])' /\ Owns(conn[d])'
  <2> SUFFICES ASSUME NEW d \in Connections PROVE Phased(conn[d])' /\ Owns(conn[d])'
    OBVIOUS
  <2>1. Owns(conn[d])
    BY DEF IndInv
  <2>2. Owns(conn[d])'
    BY <1>2, <1>4, <1>5, <2>1 DEF Owns
  <2>3. Phased(conn[d])'
    BY <1>6 DEF Phased
  <2> QED
    BY <2>2, <2>3
<1>8. Exclusive'
  <2>1. ASSUME NEW d \in Connections, NEW e \in Connections,
               conn'[d].pc \in Holding, conn'[e].pc \in Holding,
               conn'[d].route = conn'[e].route
        PROVE  d = e
    BY <1>4, <1>5, <2>1 DEF IndInv, Exclusive
  <2>2. ASSUME NEW r \in Routes, reservations'[r] # None
        PROVE  \E d \in Connections : conn'[d].route = r /\ conn'[d].pc \in Holding
    BY <1>2, <1>4, <1>5, <2>2 DEF IndInv, Exclusive
  <2> QED
    BY <2>1, <2>2 DEF Exclusive
<1>9. \A r \in Routes, i \in Nat :
        /\ Received(r, i)' = Received(r, i)
        /\ Count(r, i)' = Count(r, i) /\ FailedFlushes(r, i)' = FailedFlushes(r, i)
        /\ Failures(r, i)' = Failures(r, i)
  BY <1>2 DEF Received, Count, FailedFlushes, Failures
<1>10. Delivered'
  <2>1. \A r \in Routes : \A i \in 1 .. cursors'[r] : Received(r, i)'
    BY <1>2 DEF IndInv, Delivered, Received
  <2>2. ASSUME NEW d \in Connections, conn'[d].pc \in Holding, conn'[d].sent = Segments
        PROVE  Received(conn[d].route, conn[d].cursor + 1)'
    <3>1. conn[d].sent = Segments
      <4>1. CASE d = c
        <5>1. s.sent \in Nat /\ s.sent = Segments /\ Segments \in Nat
          BY <1>1, <2>2, <4>1, SegmentsAssumption
        <5>2. s.sent = conn[c].sent \/ s.sent < Segments
          BY <1>1, <2>2, <4>1 DEF Quiet
        <5> QED
          BY <4>1, <5>1, <5>2
      <4>2. CASE d # c
        BY <1>1, <2>2, <4>2
      <4> QED
        BY <4>1, <4>2
    <3>2. Received(conn[d].route, conn[d].cursor + 1)
      BY <1>4, <2>2, <3>1 DEF IndInv, Delivered
    <3> QED
      BY <1>2, <1>5, <2>2, <3>2 DEF Received
  <2>3. \A k \in DOMAIN delivered' :
       /\ delivered'[k][2] \in 1 .. Len(Cassette[delivered'[k][1]])
       /\ delivered'[k][2] <= cursors'[delivered'[k][1]] + 1
    BY <1>2 DEF IndInv, Delivered
  <2> QED
    BY <2>1, <2>2, <2>3 DEF Delivered
<1>11. InOrder'
  BY <1>2 DEF IndInv, InOrder
<1>12. \A d \in Connections : conn'[d].pc \in Holding => Answered(conn'[d]) = Answered(conn[d])
  BY <1>1 DEF Quiet
<1>13. Budgeted'
  <2>1. ASSUME NEW r \in Routes, NEW i \in Nat, NEW d \in Connections,
               <<r, i, d>> \in unflushed'
        PROVE  conn'[d].pc \in {"finish", "done"}
    <3>1. conn[d].pc \in {"finish", "done"}
      BY <1>2, <2>1 DEF IndInv, Budgeted
    <3>2. d # c
      BY <3>1 DEF Quiet
    <3> QED
      BY <1>1, <3>1, <3>2
  <2>2. ASSUME NEW r \in Routes, NEW i \in Nat, i > cursors'[r],
               \A d \in Connections : conn'[d].route = r => ~Answered(conn'[d])
        PROVE  Count(r, i)' <= FailedFlushes(r, i)'
    <3>1. ASSUME NEW d \in Connections, conn[d].route = r PROVE ~Answered(conn[d])
      <4>1. CASE conn[d].pc \in Holding
        BY <1>4, <1>5, <1>12, <2>2, <3>1, <4>1
      <4>2. CASE conn[d].pc \notin Holding
        BY <4>2 DEF Answered
      <4> QED
        BY <4>1, <4>2
    <3> QED
      BY <1>2, <1>9, <2>2, <3>1 DEF IndInv, Budgeted
  <2>3. \A r \in Routes, i \in Nat :
          IsFiniteSet(Failures(r, i)') /\ Count(r, i)' <= 1 + FailedFlushes(r, i)'
    BY <1>9 DEF IndInv, Budgeted
  <2>4. \A r \in Routes, i \in Nat :
       /\ i > cursors'[r]
       /\ \A d \in Connections : conn'[d].route = r => ~Answered(conn'[d])
       => Count(r, i)' <= FailedFlushes(r, i)'
    BY <2>2
  <2>5. \A d \in Connections : Answered(conn[d])' = Answered(conn'[d])
    BY DEF Answered
  <2> QED
    BY <2>1, <2>3, <2>4, <2>5 DEF Budgeted
<1> QED
  BY <1>3, <1>7, <1>8, <1>10, <1>11, <1>13 DEF IndInv

LEMMA ArriveStep ==
  ASSUME IndInv, NEW c \in Connections, NEW r \in Routes,
         NEW q \in Requests \cup {Malformed}, Arrive(c, r, q)
  PROVE  IndInv'
<1> DEFINE s == IF q = Malformed THEN [Idle EXCEPT !.pc = "done", !.status = "refused"]
                ELSE [Idle EXCEPT !.pc = "reserve", !.route = r, !.request = q]
<1>1. s \in Connection /\ s.pc \in {"done", "reserve"} /\ s.sent = 0
      /\ (s.pc = "reserve" => s.route = r)
  <2>1. 0 \in 0 .. Segments
    BY SegmentsAssumption
  <2>2. Idle \in Connection /\ Idle.sent = 0
    BY <2>1 DEF Idle, Connection
  <2>3. CASE q = Malformed
    BY <2>2, <2>3 DEF Connection
  <2>4. CASE q # Malformed
    BY <2>2, <2>4 DEF Connection
  <2> QED
    BY <2>3, <2>4
<1> HIDE DEF s
<1>2. Phased(s)
  BY <1>1 DEF Phased, Holding, Writing
<1>3. conn' = [conn EXCEPT ![c] = s] /\ conn[c].pc = "idle"
  BY DEF Arrive, At, s
<1>4. UNCHANGED <<cursors, reservations, delivered, unflushed, cancelled>>
  BY DEF Arrive
<1>5. Quiet(c, s)
  BY <1>1, <1>2, <1>3, <1>4 DEF Quiet, Holding, Writing
<1>6. cancelled' \subseteq Connections
  BY <1>4 DEF IndInv, Typed
<1> QED
  BY <1>5, <1>6, QuietStep

(* A holder that goes on: its next step, the segments sent and its outcome. *)
LEMMA HolderStep ==
  ASSUME IndInv, NEW c \in Connections, NEW pc, NEW n, NEW commit, NEW status,
         conn[c].pc \in Writing, pc \in Holding, n \in 0 .. Segments,
         commit \in BOOLEAN, status \in {"served", "refused", "failed", None},
         conn' = [conn EXCEPT ![c] = [@ EXCEPT !.pc = pc, !.sent = n,
                                               !.commit = commit, !.status = status]],
         pc # "head",
         pc \in {"wait", "write"} => n < Segments,
         pc = "finish" /\ commit => n \in {0, Segments},
         n = conn[c].sent \/ n < Segments,
         (n = Segments /\ (pc = "finish" => commit)) = (conn[c].sent = Segments),
         UNCHANGED <<cursors, reservations, cancelled, delivered, unflushed>>
  PROVE  IndInv'
<1> DEFINE s == [conn[c] EXCEPT !.pc = pc, !.sent = n, !.commit = commit, !.status = status]
<1>1. conn[c] \in Connection
  BY DEF IndInv, Typed
<1>2. /\ s \in Connection /\ s.pc = pc /\ s.sent = n /\ s.commit = commit
      /\ s.route = conn[c].route /\ s.cursor = conn[c].cursor
  BY <1>1 DEF Connection
<1>3. conn[c].pc \in Holding /\ conn[c].pc \notin {"finish", "done"}
  BY DEF Holding, Writing
<1>4. Phased(conn[c])
  BY DEF IndInv
<1>5. Phased(s)
  <2>1. s.route \in Routes
    BY <1>2, <1>3, <1>4 DEF Phased
  <2> HIDE DEF s
  <2> QED
    BY <1>2, <2>1 DEF Phased, Holding, Writing
<1>6. Answered(s) = Answered(conn[c])
  <2>1. Answered(conn[c]) = (conn[c].sent = Segments)
    BY <1>3 DEF Answered
  <2> HIDE DEF s
  <2>2. Answered(s) = (n = Segments /\ (pc = "finish" => commit))
    BY <1>2 DEF Answered
  <2> QED
    BY <2>1, <2>2
<1>7. conn' = [conn EXCEPT ![c] = s]
  BY <1>1
<1> HIDE DEF s
<1>8. Quiet(c, s)
  BY <1>2, <1>3, <1>5, <1>6, <1>7 DEF Quiet
<1>9. cancelled' \subseteq Connections
  BY DEF IndInv, Typed
<1> QED
  BY <1>8, <1>9, QuietStep

LEMMA RefuseStep ==
  ASSUME IndInv, NEW c \in Connections, Refuse(c)
  PROVE  IndInv'
<1> DEFINE s == [conn[c] EXCEPT !.pc = "done", !.status = "refused"]
<1>1. conn[c] \in Connection /\ conn \in [Connections -> Connection]
  BY DEF IndInv, Typed
<1>2. s \in Connection /\ s.pc = "done"
  BY <1>1 DEF Connection
<1>3. conn' = [conn EXCEPT ![c] = s] /\ conn[c].pc = "reserve"
  BY <1>1 DEF Refuse, At
<1>4. UNCHANGED <<cursors, reservations, delivered, unflushed, cancelled>>
  BY DEF Refuse
<1> HIDE DEF s
<1>5. Quiet(c, s)
  BY <1>2, <1>3, <1>4 DEF Quiet, Phased, Holding, Writing
<1>6. cancelled' \subseteq Connections
  BY <1>4 DEF IndInv, Typed
<1> QED
  BY <1>5, <1>6, QuietStep

LEMMA CancelStep ==
  ASSUME IndInv, NEW c \in Connections, Cancel(c)
  PROVE  IndInv'
<1>1. UNCHANGED <<cursors, reservations, conn, delivered, unflushed>>
  BY DEF Cancel
<1>2. Typed'
  BY <1>1 DEF IndInv, Typed, Cancel
<1>3. (\A d \in Connections : Phased(conn[d]) /\ Owns(conn[d]))' /\ Exclusive'
  BY <1>1 DEF IndInv, Phased, Owns, Exclusive
<1>4. Delivered' /\ InOrder'
  BY <1>1 DEF IndInv, Delivered, InOrder, Received
<1>5. Budgeted'
  BY <1>1 DEF IndInv, Budgeted, Failures, FailedFlushes, Count, Answered
<1> QED
  BY <1>2, <1>3, <1>4, <1>5 DEF IndInv

(* Going on to another step, with what was sent and decided unchanged.      *)
LEMMA GotoStep ==
  ASSUME IndInv, NEW c \in Connections, NEW pc,
         conn[c].pc \in Writing, pc \in Writing, pc # "head", Goto(c, pc),
         pc \in {"wait", "write"} => conn[c].sent < Segments,
         UNCHANGED <<cursors, reservations, cancelled, delivered, unflushed>>
  PROVE  IndInv'
<1>1. conn[c] \in Connection /\ conn \in [Connections -> Connection]
  BY DEF IndInv, Typed
<1>2. /\ conn[c].sent \in 0 .. Segments /\ conn[c].commit \in BOOLEAN
      /\ conn[c].status \in {"served", "refused", "failed", None}
  BY <1>1 DEF Connection
<1>3. conn' = [conn EXCEPT ![c] = [conn[c] EXCEPT !.pc = pc, !.sent = conn[c].sent,
                              !.commit = conn[c].commit, !.status = conn[c].status]]
  BY <1>1 DEF Goto, Connection
<1>4. pc \in Holding /\ pc # "finish"
  BY DEF Holding, Writing
<1> DEFINE n == conn[c].sent
           k == conn[c].commit
           t == conn[c].status
<1>5. (n = Segments /\ (pc = "finish" => k)) = (conn[c].sent = Segments)
  BY <1>4
<1>6. conn' = [conn EXCEPT ![c] = [@ EXCEPT !.pc = pc, !.sent = n, !.commit = k, !.status = t]]
  BY <1>1, <1>3
<1>7. n = conn[c].sent /\ (pc \in {"wait", "write"} => n < Segments)
  OBVIOUS
<1> HIDE DEF n, k, t
<1>8. n \in 0 .. Segments /\ k \in BOOLEAN /\ t \in {"served", "refused", "failed", None}
  BY <1>2 DEF n, k, t
<1> QED
  BY <1>4, <1>5, <1>6, <1>7, <1>8, HolderStep

(* Settling with a commit exactly when every segment was sent.              *)
LEMMA SettleStep ==
  ASSUME IndInv, NEW c \in Connections, NEW commit, NEW status,
         conn[c].pc \in Writing, status \in {"served", "failed"},
         commit = (conn[c].sent = Segments), Settle(c, commit, status),
         UNCHANGED <<cursors, reservations, cancelled, delivered, unflushed>>
  PROVE  IndInv'
<1>1. conn[c] \in Connection /\ conn \in [Connections -> Connection]
  BY DEF IndInv, Typed
<1> DEFINE n == conn[c].sent
<1>2. n \in 0 .. Segments
  BY <1>1 DEF Connection
<1>3. conn' = [conn EXCEPT ![c] = [@ EXCEPT !.pc = "finish", !.sent = n,
                                            !.commit = commit, !.status = status]]
  BY <1>1 DEF Settle, Connection
<1>4. n = conn[c].sent /\ commit \in BOOLEAN /\ "finish" \in Holding
  BY DEF Holding
<1> DEFINE pc == "finish"
<1>5. pc # "head" /\ (pc \in {"wait", "write"} => n < Segments) /\ pc \in Holding
  BY <1>4
<1>6. conn' = [conn EXCEPT ![c] = [@ EXCEPT !.pc = pc, !.sent = n,
                                            !.commit = commit, !.status = status]]
  BY <1>3
<1> HIDE DEF n, pc
<1>7. /\ (n = Segments /\ (pc = "finish" => commit)) = (conn[c].sent = Segments)
      /\ pc = "finish" /\ commit => n \in {0, Segments}
  BY <1>4 DEF pc
<1>8. status \in {"served", "refused", "failed", None}
  OBVIOUS
<1>9. /\ n = conn[c].sent \/ n < Segments
      /\ n \in 0 .. Segments /\ commit \in BOOLEAN /\ pc \in Holding /\ pc # "head"
  BY <1>2, <1>4, <1>5
<1> HIDE <1>3, <1>4
<1> QED
  BY <1>5, <1>6, <1>7, <1>8, <1>9, HolderStep

LEMMA WriteHeadStep ==
  ASSUME IndInv, NEW c \in Connections, WriteHead(c)
  PROVE  IndInv'
<1>1. conn[c].pc = "head" /\ conn[c].pc \in Writing
  BY DEF WriteHead, At, Writing
<1>2. conn[c].sent = 0 /\ 0 < Segments /\ (FALSE = (conn[c].sent = Segments))
  BY <1>1, SegmentsAssumption DEF IndInv, Phased
<1>3. UNCHANGED <<cursors, reservations, cancelled, delivered, unflushed>>
  BY DEF WriteHead
<1>4. CASE Goto(c, "wait")
  BY <1>1, <1>2, <1>3, <1>4, GotoStep DEF Writing
<1>5. CASE Settle(c, FALSE, "failed")
  BY <1>1, <1>2, <1>3, <1>5, SettleStep
<1> QED
  BY <1>4, <1>5 DEF WriteHead

LEMMA BeforeSegmentStep ==
  ASSUME IndInv, NEW c \in Connections, BeforeSegment(c)
  PROVE  IndInv'
<1>1. conn[c].pc = "wait" /\ conn[c].pc \in Writing
  BY DEF BeforeSegment, At, Writing
<1>2. conn[c].sent < Segments
  BY <1>1 DEF IndInv, Phased
<1>3. UNCHANGED <<cursors, reservations, cancelled, delivered, unflushed>>
  BY DEF BeforeSegment
<1>4. CASE PacingError(c, conn[c].sent)
  BY <1>1, <1>3, <1>4, SettleStep DEF PacingError, Complete
<1>5. CASE Goto(c, "write")
  BY <1>1, <1>2, <1>3, <1>5, GotoStep DEF Writing
<1> QED
  BY <1>4, <1>5 DEF BeforeSegment

LEMMA AfterSegmentStep ==
  ASSUME IndInv, NEW c \in Connections, AfterSegment(c)
  PROVE  IndInv'
<1>1. conn[c].pc = "check" /\ conn[c].pc \in Writing
  BY DEF AfterSegment, At, Writing
<1>3. UNCHANGED <<cursors, reservations, cancelled, delivered, unflushed>>
  BY DEF AfterSegment
<1>4. CASE PacingError(c, conn[c].sent)
  BY <1>1, <1>3, <1>4, SettleStep DEF PacingError, Complete
<1>5. CASE conn[c].sent < Segments /\ Goto(c, "wait")
  BY <1>1, <1>3, <1>5, GotoStep DEF Writing
<1>6. CASE conn[c].sent = Segments /\ Settle(c, TRUE, "served")
  BY <1>1, <1>3, <1>6, SettleStep
<1> QED
  BY <1>4, <1>5, <1>6 DEF AfterSegment

(* The facts about the holder of a route that its noisy steps use.          *)
LEMMA Holder ==
  ASSUME IndInv, NEW c \in Connections, conn[c].pc \in Holding
  PROVE  LET r == conn[c].route IN
         /\ r \in Routes /\ conn[c].cursor \in Nat
         /\ cursors[r] = conn[c].cursor /\ reservations[r] = conn[c].cursor
         /\ conn[c].cursor + 1 \in 1 .. Len(Cassette[r])
         /\ \A i \in 1 .. conn[c].cursor : Received(r, i)
         /\ \A d \in Connections :
              d # c => ~(conn[d].pc \in Holding /\ conn[d].route = r)
<1> DEFINE r == conn[c].route
<1>1. /\ r \in Routes /\ conn[c].cursor \in Nat
      /\ cursors[r] = conn[c].cursor /\ reservations[r] = conn[c].cursor
      /\ conn[c].cursor < Len(Cassette[r])
  BY DEF IndInv, Phased, Owns
<1>2. Len(Cassette[r]) \in Nat
  BY <1>1, CassetteAssumption
<1>3. \A i \in 1 .. conn[c].cursor : Received(r, i)
  BY <1>1 DEF IndInv, Delivered
<1>4. \A d \in Connections : d # c => ~(conn[d].pc \in Holding /\ conn[d].route = r)
  BY DEF IndInv, Exclusive
<1> QED
  BY <1>1, <1>2, <1>3, <1>4

LEMMA ReserveStep ==
  ASSUME IndInv, NEW c \in Connections, NEW direct \in BOOLEAN, Reserve(c, direct)
  PROVE  IndInv'
<1> DEFINE r == conn[c].route
           s == conn'[c]
<1>1. conn[c] \in Connection /\ conn \in [Connections -> Connection]
  BY DEF IndInv, Typed
<1>2. conn[c].pc = "reserve" /\ conn[c].sent = 0 /\ r \in Routes
  BY DEF Reserve, At, IndInv, Phased
<1>3. /\ cursors[r] \in Nat /\ reservations[r] = None
      /\ cursors[r] < Len(Cassette[r])
  BY <1>2 DEF Reserve, Free, Matches, IndInv, Typed
<1>4. /\ UNCHANGED <<cursors, cancelled, delivered, unflushed>>
      /\ reservations' = [reservations EXCEPT ![r] = cursors[r]]
  BY DEF Reserve
<1>5. /\ conn' \in [Connections -> Connection]
      /\ \A d \in Connections : d # c => conn'[d] = conn[d]
      /\ s.pc = IF direct THEN "finish" ELSE "head"
      /\ s.route = r /\ s.sent = 0 /\ s.cursor = cursors[r]
  <2> DEFINE pc == IF direct THEN "finish" ELSE "head"
             st == IF direct THEN "served" ELSE None
  <2>1. pc \in Holding /\ st \in {"served", None}
    BY DEF Holding, Writing
  <2>2. conn' = [conn EXCEPT ![c] = [conn[c] EXCEPT !.pc = pc, !.cursor = cursors[r],
                                        !.commit = direct, !.status = st]]
    BY <1>1 DEF Reserve, Connection
  <2> HIDE DEF pc, st
  <2>3. [conn[c] EXCEPT !.pc = pc, !.cursor = cursors[r], !.commit = direct, !.status = st]
          \in Connection
    <3>1. PICK m \in Nat : m = cursors[r]
      BY <1>3
    <3>2. [conn[c] EXCEPT !.pc = pc, !.cursor = m, !.commit = direct, !.status = st]
            \in Connection
      BY <1>1, <2>1 DEF Connection
    <3> QED
      BY <3>1, <3>2
  <2>4. /\ s.pc = pc /\ s.route = r /\ s.sent = 0 /\ s.cursor = cursors[r]
        /\ conn' \in [Connections -> Connection]
        /\ \A d \in Connections : d # c => conn'[d] = conn[d]
    BY <1>1, <1>2, <2>2, <2>3 DEF Connection
  <2> QED
    BY <2>4 DEF pc
<1>6. s.pc \in Holding /\ s.pc \in {"finish", "head"}
  BY <1>5 DEF Holding, Writing
<1>7. reservations' \in [Routes -> Nat \cup {None}] /\ reservations'[r] = cursors[r]
      /\ \A q \in Routes : q # r => reservations'[q] = reservations[q]
  BY <1>2, <1>3, <1>4 DEF IndInv, Typed
<1> HIDE DEF s
<1>8. Typed'
  BY <1>4, <1>5, <1>7 DEF IndInv, Typed
<1>9. \A d \in Connections : ~(conn[d].pc \in Holding /\ conn[d].route = r)
  BY <1>3, NamesAssumption DEF IndInv, Owns
<1>10. \A d \in Connections : Phased(conn[d])' /\ Owns(conn[d])'
  <2> SUFFICES ASSUME NEW d \in Connections PROVE Phased(conn'[d]) /\ Owns(conn[d])'
    BY DEF Phased
  <2>1. CASE d = c
    <3>1. Phased(s)
      BY <1>2, <1>5, <1>6 DEF Phased
    <3>2. Owns(conn[c])'
      BY <1>2, <1>3, <1>4, <1>5, <1>7 DEF Owns, s
    <3> QED
      BY <2>1, <3>1, <3>2 DEF s
  <2>2. CASE d # c
    <3>1. Phased(conn[d]) /\ Owns(conn[d]) /\ conn'[d] = conn[d]
      BY <1>5, <2>2 DEF IndInv
    <3>2. conn[d].pc \in Holding => conn[d].route \in Routes /\ conn[d].route # r
      BY <1>9, <3>1 DEF Phased
    <3>3. Owns(conn[d])'
      BY <1>4, <1>7, <3>1, <3>2 DEF Owns
    <3> QED
      BY <3>1, <3>3
  <2> QED
    BY <2>1, <2>2
<1>11. Exclusive'
  <2>1. ASSUME NEW d \in Connections, NEW e \in Connections,
               conn'[d].pc \in Holding, conn'[e].pc \in Holding,
               conn'[d].route = conn'[e].route
        PROVE  d = e
    BY <1>5, <1>9, <2>1 DEF IndInv, Exclusive, s
  <2>2. ASSUME NEW q \in Routes, reservations'[q] # None
        PROVE  \E d \in Connections : conn'[d].route = q /\ conn'[d].pc \in Holding
    <3>1. CASE q = r
      BY <1>5, <1>6, <3>1 DEF s
    <3>2. CASE q # r
      <4>1. reservations[q] # None
        BY <1>7, <2>2, <3>2
      <4>2. PICK d \in Connections : conn[d].route = q /\ conn[d].pc \in Holding
        BY <4>1 DEF IndInv, Exclusive
      <4>3. d # c
        BY <3>2, <4>2
      <4> QED
        BY <1>5, <4>2, <4>3
    <3> QED
      BY <3>1, <3>2
  <2> QED
    BY <2>1, <2>2 DEF Exclusive
<1>12. Delivered'
  <2>1. \A q \in Routes : \A i \in 1 .. cursors'[q] : Received(q, i)'
    BY <1>4 DEF IndInv, Delivered, Received
  <2>2. ASSUME NEW d \in Connections, conn'[d].pc \in Holding, conn'[d].sent = Segments
        PROVE  Received(conn[d].route, conn[d].cursor + 1)'
    <3>1. d # c
      BY <1>5, <2>2, SegmentsAssumption DEF s
    <3> QED
      BY <1>4, <1>5, <2>2, <3>1 DEF IndInv, Delivered, Received
  <2>3. \A k \in DOMAIN delivered' :
       /\ delivered'[k][2] \in 1 .. Len(Cassette[delivered'[k][1]])
       /\ delivered'[k][2] <= cursors'[delivered'[k][1]] + 1
    BY <1>4 DEF IndInv, Delivered
  <2> QED
    BY <2>1, <2>2, <2>3 DEF Delivered
<1>13. InOrder'
  BY <1>4 DEF IndInv, InOrder
<1>14. Budgeted'
  <2>1. \A q \in Routes, i \in Nat :
        /\ Count(q, i)' = Count(q, i) /\ FailedFlushes(q, i)' = FailedFlushes(q, i)
        /\ Failures(q, i)' = Failures(q, i)
    BY <1>4 DEF Count, FailedFlushes, Failures
  <2>2. ASSUME NEW q \in Routes, NEW i \in Nat, NEW d \in Connections,
               <<q, i, d>> \in unflushed'
        PROVE  conn'[d].pc \in {"finish", "done"}
    BY <1>2, <1>4, <1>5, <2>2 DEF IndInv, Budgeted
  <2>3. \A d \in Connections : conn[d].route = conn'[d].route
                               /\ (Answered(conn[d]) => Answered(conn'[d]))
    BY <1>2, <1>5 DEF Answered, Holding, Writing, s
  <2>4. \A q \in Routes, i \in Nat :
       /\ i > cursors'[q]
       /\ \A d \in Connections : conn'[d].route = q => ~Answered(conn'[d])
       => Count(q, i)' <= FailedFlushes(q, i)'
    BY <1>4, <2>1, <2>3 DEF IndInv, Budgeted
  <2>5. \A q \in Routes, i \in Nat :
          IsFiniteSet(Failures(q, i)') /\ Count(q, i)' <= 1 + FailedFlushes(q, i)'
    BY <2>1 DEF IndInv, Budgeted
  <2>6. \A d \in Connections : Answered(conn[d])' = Answered(conn'[d])
    BY DEF Answered
  <2> QED
    BY <2>2, <2>4, <2>5, <2>6 DEF Budgeted
<1> QED
  BY <1>8, <1>10, <1>11, <1>12, <1>13, <1>14 DEF IndInv

(* The last segment: the response is delivered, and at the cursor.          *)
LEMMA LastSegmentStep ==
  ASSUME IndInv, NEW c \in Connections, At(c, "write"), conn[c].sent + 1 = Segments,
         conn' = [conn EXCEPT ![c].pc = "flush", ![c].sent = @ + 1],
         delivered' = Append(delivered, Interaction(c)),
         UNCHANGED <<cursors, reservations, cancelled, unflushed>>
  PROVE  IndInv'
<1>1. conn[c] \in Connection /\ conn \in [Connections -> Connection]
  BY DEF IndInv, Typed
<1>2. conn[c].pc = "write" /\ conn[c].pc \in Holding
  BY DEF At, Holding, Writing
<1>0. PICK r \in Routes, n \in Nat : r = conn[c].route /\ n = conn[c].cursor + 1
  BY <1>2, Holder
<1>3. /\ r \in Routes /\ conn[c].cursor \in Nat /\ n \in 1 .. Len(Cassette[r]) /\ n \in Nat
      /\ cursors[r] = conn[c].cursor
      /\ \A i \in 1 .. n - 1 : Received(r, i)
      /\ \A d \in Connections : d # c => ~(conn[d].pc \in Holding /\ conn[d].route = r)
  BY <1>0, <1>2, Holder
<1>4. /\ conn' \in [Connections -> Connection]
      /\ \A d \in Connections : d # c => conn'[d] = conn[d]
      /\ conn'[c].pc = "flush" /\ conn'[c].sent = Segments
      /\ conn'[c].route = r /\ conn'[c].cursor = conn[c].cursor
  BY <1>0, <1>1, SegmentsAssumption DEF Connection, Holding, Writing
<1>5. \A d \in Connections :
        /\ (conn'[d].pc \in Holding) = (conn[d].pc \in Holding)
        /\ conn'[d].route = conn[d].route /\ conn'[d].cursor = conn[d].cursor
  BY <1>0, <1>2, <1>4 DEF Holding, Writing
<1>6. Typed /\ InOrder /\ delivered' = Append(delivered, <<r, n>>)
  BY <1>0 DEF IndInv, Interaction
<1>7. /\ delivered' \in Seq(Routes \X Nat)
      /\ Received(r, n)'
      /\ \A q \in Routes, i \in Nat : Received(q, i) => Received(q, i)'
      /\ \A q \in Routes, i \in Nat : <<q, i>> # <<r, n>> => Count(q, i)' = Count(q, i)
      /\ Count(r, n)' = Count(r, n) + 1
  BY <1>3, <1>6, Delivery
<1>8. Typed'
  BY <1>4, <1>7 DEF IndInv, Typed
<1>9. InOrder'
  BY <1>3, <1>6, OrderedDelivery
<1>10. \A d \in Connections : Phased(conn[d])' /\ Owns(conn[d])'
  <2> SUFFICES ASSUME NEW d \in Connections PROVE Phased(conn'[d]) /\ Owns(conn[d])'
    BY DEF Phased
  <2>1. Phased(conn[d]) /\ Owns(conn[d])
    BY DEF IndInv
  <2>2. Owns(conn[d])'
    BY <1>5, <2>1 DEF Owns
  <2>3. CASE d = c
    BY <1>3, <1>4, <2>2, <2>3 DEF Phased
  <2>4. CASE d # c
    BY <1>4, <2>1, <2>2, <2>4
  <2> QED
    BY <2>3, <2>4
<1>11. Exclusive'
  <2>1. ASSUME NEW d \in Connections, NEW e \in Connections,
               conn'[d].pc \in Holding, conn'[e].pc \in Holding,
               conn'[d].route = conn'[e].route
        PROVE  d = e
    BY <1>5, <2>1 DEF IndInv, Exclusive
  <2>2. ASSUME NEW q \in Routes, reservations'[q] # None
        PROVE  \E d \in Connections : conn'[d].route = q /\ conn'[d].pc \in Holding
    <3>1. reservations[q] # None
      BY <2>2
    <3>2. PICK d \in Connections : conn[d].route = q /\ conn[d].pc \in Holding
      BY <3>1 DEF IndInv, Exclusive
    <3> QED
      BY <1>5, <3>2
  <2> QED
    BY <2>1, <2>2 DEF Exclusive
<1>12. Delivered'
  <2>1. \A q \in Routes : \A i \in 1 .. cursors'[q] : Received(q, i)'
    BY <1>7 DEF IndInv, Typed, Delivered
  <2>2. ASSUME NEW d \in Connections, conn'[d].pc \in Holding, conn'[d].sent = Segments
        PROVE  \E k \in DOMAIN delivered' :
                 delivered'[k] = <<conn'[d].route, conn'[d].cursor + 1>>
    <3>1. CASE d = c
      <4>1. <<conn'[d].route, conn'[d].cursor + 1>> = <<r, n>>
        BY <1>0, <1>4, <3>1
      <4> QED
        BY <1>7, <4>1 DEF Received
    <3>2. CASE d # c
      <4>1. Received(conn[d].route, conn[d].cursor + 1)
        BY <1>4, <2>2, <3>2 DEF IndInv, Delivered
      <4>2. conn[d].route \in Routes /\ conn[d].cursor + 1 \in Nat
        BY <1>5, <2>2, Holder
      <4>3. PICK k \in DOMAIN delivered : delivered[k] = <<conn[d].route, conn[d].cursor + 1>>
        BY <4>1 DEF Received
      <4>4. k \in DOMAIN delivered' /\ delivered'[k] = delivered[k]
        <5>1. delivered \in Seq(Routes \X Nat) /\ <<r, n>> \in Routes \X Nat
          BY <1>3 DEF IndInv, Typed
        <5> QED
          BY <1>6, <5>1
      <4> QED
        BY <1>4, <3>2, <4>3, <4>4
    <3> QED
      BY <3>1, <3>2
  <2>3. ASSUME NEW k \in DOMAIN delivered'
        PROVE  /\ delivered'[k][2] \in 1 .. Len(Cassette[delivered'[k][1]])
               /\ delivered'[k][2] <= cursors'[delivered'[k][1]] + 1
    <3>0. delivered \in Seq(Routes \X Nat) /\ <<r, n>> \in Routes \X Nat
      BY <1>3 DEF IndInv, Typed
    <3>1. CASE k \in DOMAIN delivered
      <4>1. delivered'[k] = delivered[k]
        BY <1>6, <3>0, <3>1
      <4> QED
        BY <3>1, <4>1 DEF IndInv, Delivered
    <3>2. CASE k = Len(delivered) + 1
      <4>1. delivered'[k][1] = r /\ delivered'[k][2] = n
        BY <1>6, <3>0, <3>2
      <4> QED
        BY <1>0, <1>3, <4>1
    <3>3. k \in DOMAIN delivered \/ k = Len(delivered) + 1
      BY <1>6, <3>0
    <3> QED
      BY <3>1, <3>2, <3>3
  <2>4. ASSUME NEW d \in Connections, conn'[d].pc \in Holding, conn'[d].sent = Segments
        PROVE  Received(conn[d].route, conn[d].cursor + 1)'
    BY <2>2, <2>4, <1>4 DEF Received
  <2> QED
    BY <2>1, <2>3, <2>4 DEF Delivered
<1>13. Budgeted'
  <2>1. \A q \in Routes, i \in Nat :
          FailedFlushes(q, i)' = FailedFlushes(q, i) /\ Failures(q, i)' = Failures(q, i)
    BY DEF FailedFlushes, Failures
  <2>2. ASSUME NEW q \in Routes, NEW i \in Nat, NEW d \in Connections,
               <<q, i, d>> \in unflushed'
        PROVE  conn'[d].pc \in {"finish", "done"}
    BY <1>2, <1>4, <2>2 DEF IndInv, Budgeted
  <2>3. Count(r, n) <= FailedFlushes(r, n)
    <3>1. \A d \in Connections : conn[d].route = r => ~Answered(conn[d])
      <4>1. ~Answered(conn[c])
        BY <1>1, SegmentsAssumption DEF Connection, Answered
      <4>2. \A d \in Connections : d # c /\ conn[d].route = r => ~Answered(conn[d])
        BY <1>3 DEF Answered
      <4> QED
        BY <4>1, <4>2
    <3>2. n > cursors[r]
      BY <1>0, <1>3
    <3> QED
      BY <1>3, <3>1, <3>2 DEF IndInv, Budgeted
  <2>4. \A q \in Routes, i \in Nat : Count(q, i) \in Nat /\ FailedFlushes(q, i) \in Nat
    BY <1>6, ReceivedCount, FailuresCount DEF IndInv
  <2>5. ASSUME NEW q \in Routes, NEW i \in Nat
        PROVE  Count(q, i)' <= 1 + FailedFlushes(q, i)'
    <3>1. CASE <<q, i>> = <<r, n>>
      <4>1. q = r /\ i = n
        BY <3>1
      <4>2. Count(r, n) \in Nat /\ FailedFlushes(r, n) \in Nat
        BY <1>3, <2>4
      <4>3. Count(r, n)' <= Count(r, n) + 1 /\ FailedFlushes(r, n)' = FailedFlushes(r, n)
        BY <1>3, <1>7, <2>1, <4>2
      <4>4. Count(r, n)' <= 1 + FailedFlushes(r, n)'
        <5> HIDE <3>1
        <5>1. PICK m \in Nat, w \in Nat : m = Count(r, n) /\ w = FailedFlushes(r, n)
          BY <4>2
        <5>2. m + 1 <= 1 + w
          BY <2>3, <5>1
        <5>3. Count(r, n)' \in Nat
          BY <1>3, <1>7, <4>2
        <5> QED
          BY <4>3, <5>1, <5>2, <5>3
      <4> QED
        BY <4>1, <4>4
    <3>2. CASE <<q, i>> # <<r, n>>
      BY <1>7, <2>1, <3>2 DEF IndInv, Budgeted
    <3> QED
      BY <3>1, <3>2
  <2>6. ASSUME NEW q \in Routes, NEW i \in Nat, i > cursors[q],
               \A d \in Connections : conn'[d].route = q => ~Answered(conn'[d])
        PROVE  Count(q, i)' <= FailedFlushes(q, i)'
    <3>1. Answered(conn'[c]) /\ conn'[c].route = r
      BY <1>4 DEF Answered, Holding, Writing
    <3>2. q # r
      BY <2>6, <3>1
    <3>3. \A d \in Connections : conn[d].route = q => ~Answered(conn[d])
      BY <1>4, <2>6, <3>2
    <3> QED
      BY <1>7, <2>1, <2>6, <3>2, <3>3 DEF IndInv, Budgeted
  <2>7. \A d \in Connections : Answered(conn[d])' = Answered(conn'[d])
    BY DEF Answered
  <2>8. \A q \in Routes, i \in Nat : IsFiniteSet(Failures(q, i)')
    BY <2>1 DEF IndInv, Budgeted
  <2> QED
    BY <2>2, <2>5, <2>6, <2>7, <2>8 DEF Budgeted
<1> QED
  BY <1>8, <1>9, <1>10, <1>11, <1>12, <1>13 DEF IndInv

LEMMA WriteSegmentStep ==
  ASSUME IndInv, NEW c \in Connections, WriteSegment(c)
  PROVE  IndInv'
<1>1. conn[c].pc = "write" /\ conn[c].pc \in Writing
  BY DEF WriteSegment, At, Writing
<1>2. conn[c].sent < Segments /\ conn[c].sent \in 0 .. Segments /\ Segments \in Nat \ {0}
  BY <1>1, SegmentsAssumption DEF IndInv, Phased, Typed, Connection
<1>3. UNCHANGED <<cursors, reservations, cancelled, unflushed>>
  BY DEF WriteSegment
<1>4. CASE IoError(c) /\ UNCHANGED delivered
  <2>1. Settle(c, 0 = Segments, "failed")
    BY <1>4 DEF IoError, PacingError, Complete
  <2>2. (0 = Segments) = (conn[c].sent = Segments)
    BY <1>2
  <2> QED
    BY <1>1, <1>3, <1>4, <2>1, <2>2, SettleStep
<1>5. CASE /\ conn[c].sent + 1 = Segments
           /\ conn' = [conn EXCEPT ![c].pc = "flush", ![c].sent = @ + 1]
           /\ delivered' = Append(delivered, Interaction(c))
  BY <1>1, <1>3, <1>5, LastSegmentStep DEF At
<1>6. CASE /\ conn[c].sent + 1 # Segments
           /\ conn' = [conn EXCEPT ![c].pc = "flush", ![c].sent = @ + 1]
           /\ UNCHANGED delivered
  <2>1. conn[c] \in Connection /\ conn \in [Connections -> Connection]
    BY DEF IndInv, Typed
  <2> DEFINE n == conn[c].sent + 1
             k == conn[c].commit
             t == conn[c].status
             pc == "flush"
  <2>2. conn' = [conn EXCEPT ![c] = [@ EXCEPT !.pc = pc, !.sent = n, !.commit = k, !.status = t]]
    BY <1>6, <2>1 DEF Connection
  <2>3. n \in 0 .. Segments /\ n < Segments
    BY <1>2, <1>6
  <2>4. k \in BOOLEAN /\ t \in {"served", "refused", "failed", None}
    BY <2>1 DEF Connection
  <2>5. pc \in Holding /\ pc # "head" /\ pc # "finish" /\ pc \notin {"wait", "write"}
    BY DEF Holding, Writing
  <2> HIDE DEF n, k, t, pc
  <2>6. n # Segments /\ conn[c].sent # Segments
    BY <1>2, <2>3
  <2>7. (n = Segments /\ (pc = "finish" => k)) = (conn[c].sent = Segments)
    BY <2>6
  <2>8. UNCHANGED <<cursors, reservations, cancelled, delivered, unflushed>>
    BY <1>3, <1>6
  <2> QED
    BY <1>1, <2>2, <2>3, <2>4, <2>5, <2>7, <2>8, HolderStep
<1> QED
  BY <1>4, <1>5, <1>6 DEF WriteSegment

(* The flush of a complete response fails: the next delivery of the         *)
(* interaction is paid for by this connection, which had not failed before. *)
LEMMA FlushFailsStep ==
  ASSUME IndInv, NEW c \in Connections, At(c, "flush"), conn[c].sent = Segments, IoError(c),
         unflushed' = unflushed \cup {Append(Interaction(c), c)},
         UNCHANGED <<cursors, reservations, cancelled, delivered>>
  PROVE  IndInv'
<1>1. conn[c] \in Connection /\ conn \in [Connections -> Connection]
  BY DEF IndInv, Typed
<1>2. conn[c].pc = "flush" /\ conn[c].pc \in Holding
  BY DEF At, Holding, Writing
<1>0. PICK r \in Routes, n \in Nat : r = conn[c].route /\ n = conn[c].cursor + 1
  BY <1>2, Holder
<1>3. /\ conn[c].cursor \in Nat /\ cursors[r] = conn[c].cursor
      /\ \A d \in Connections : d # c => ~(conn[d].pc \in Holding /\ conn[d].route = r)
  BY <1>0, <1>2, Holder
<1>4. /\ conn' \in [Connections -> Connection]
      /\ \A d \in Connections : d # c => conn'[d] = conn[d]
      /\ conn'[c].pc = "finish" /\ conn'[c].sent = Segments /\ ~conn'[c].commit
      /\ conn'[c].route = r /\ conn'[c].cursor = conn[c].cursor
  <2>1. conn' = [conn EXCEPT ![c] = [conn[c] EXCEPT !.pc = "finish", !.commit = FALSE,
                                                    !.status = "failed"]]
    <3>1. (0 = Segments) = FALSE
      BY SegmentsAssumption
    <3>2. Settle(c, FALSE, "failed")
      BY <3>1 DEF IoError, PacingError, Complete
    <3> QED
      BY <1>1, <3>2 DEF Settle, Connection
  <2>2. [conn[c] EXCEPT !.pc = "finish", !.commit = FALSE, !.status = "failed"] \in Connection
    BY <1>1 DEF Connection, Holding, Writing
  <2> QED
    BY <1>0, <1>1, <2>1, <2>2 DEF Connection
<1>5. \A d \in Connections :
        /\ (conn'[d].pc \in Holding) = (conn[d].pc \in Holding)
        /\ conn'[d].route = conn[d].route /\ conn'[d].cursor = conn[d].cursor
        /\ conn'[d].sent = conn[d].sent
  BY <1>0, <1>2, <1>4 DEF Holding, Writing
<1>6. unflushed' = unflushed \cup {<<r, n, c>>}
  BY <1>0 DEF Interaction
<1>7. Typed'
  BY <1>4, <1>6 DEF IndInv, Typed
<1>8. \A d \in Connections : Phased(conn[d])' /\ Owns(conn[d])'
  <2> SUFFICES ASSUME NEW d \in Connections PROVE Phased(conn'[d]) /\ Owns(conn[d])'
    BY DEF Phased
  <2>1. Phased(conn[d]) /\ Owns(conn[d])
    BY DEF IndInv
  <2>2. Owns(conn[d])'
    BY <1>5, <2>1 DEF Owns
  <2>3. CASE d = c
    BY <1>4, <2>2, <2>3 DEF Phased
  <2>4. CASE d # c
    BY <1>4, <2>1, <2>2, <2>4
  <2> QED
    BY <2>3, <2>4
<1>9. Exclusive'
  <2>1. ASSUME NEW d \in Connections, NEW e \in Connections,
               conn'[d].pc \in Holding, conn'[e].pc \in Holding,
               conn'[d].route = conn'[e].route
        PROVE  d = e
    BY <1>5, <2>1 DEF IndInv, Exclusive
  <2>2. ASSUME NEW q \in Routes, reservations'[q] # None
        PROVE  \E d \in Connections : conn'[d].route = q /\ conn'[d].pc \in Holding
    <3>1. reservations[q] # None
      BY <2>2
    <3>2. PICK d \in Connections : conn[d].route = q /\ conn[d].pc \in Holding
      BY <3>1 DEF IndInv, Exclusive
    <3> QED
      BY <1>5, <3>2
  <2> QED
    BY <2>1, <2>2 DEF Exclusive
<1>10. Delivered' /\ InOrder'
  <2>1. ASSUME NEW d \in Connections, conn'[d].pc \in Holding, conn'[d].sent = Segments
        PROVE  Received(conn[d].route, conn[d].cursor + 1)'
    BY <1>5, <2>1 DEF IndInv, Delivered, Received
  <2>2. \A q \in Routes : \A i \in 1 .. cursors'[q] : Received(q, i)'
    BY DEF IndInv, Delivered, Received
  <2>3. \A k \in DOMAIN delivered' :
       /\ delivered'[k][2] \in 1 .. Len(Cassette[delivered'[k][1]])
       /\ delivered'[k][2] <= cursors'[delivered'[k][1]] + 1
    BY DEF IndInv, Delivered
  <2>4. InOrder'
    BY DEF IndInv, InOrder
  <2> QED
    BY <2>1, <2>2, <2>3, <2>4 DEF Delivered
<1>11. Budgeted'
  <2>1. <<r, n, c>> \notin unflushed
    BY <1>2 DEF IndInv, Budgeted
  <2>2. Failures(r, n)' = Failures(r, n) \cup {c} /\ c \notin Failures(r, n)
    BY <1>6, <2>1 DEF Failures
  <2>3. IsFiniteSet(Failures(r, n)) /\ Budgeted
    BY DEF IndInv, Budgeted
  <2>4. IsFiniteSet(Failures(r, n)') /\ FailedFlushes(r, n)' = FailedFlushes(r, n) + 1
    <3>1. /\ FailedFlushes(r, n)' = Cardinality(Failures(r, n)')
          /\ FailedFlushes(r, n) = Cardinality(Failures(r, n))
      BY DEF FailedFlushes, Failures
    <3> QED
      BY <2>2, <2>3, <3>1, FS_AddElement
  <2>5. \A q \in Routes, i \in Nat : <<q, i>> # <<r, n>> =>
          Failures(q, i)' = Failures(q, i) /\ FailedFlushes(q, i)' = FailedFlushes(q, i)
    <3> SUFFICES ASSUME NEW q \in Routes, NEW i \in Nat, <<q, i>> # <<r, n>>
                 PROVE  \A d : <<q, i, d>> \in unflushed' <=> <<q, i, d>> \in unflushed
      BY DEF Failures, FailedFlushes
    <3> QED
      BY <1>6
  <2>6. \A q \in Routes, i \in Nat :
          /\ Count(q, i)' = Count(q, i)
          /\ Count(q, i) \in Nat /\ FailedFlushes(q, i) \in Nat
    <3>1. \A q \in Routes, i \in Nat : Count(q, i) \in Nat /\ FailedFlushes(q, i) \in Nat
      BY <2>3, ReceivedCount, FailuresCount DEF IndInv
    <3> QED
      BY <3>1 DEF Count
  <2>7. ASSUME NEW q \in Routes, NEW i \in Nat, NEW d \in Connections,
               <<q, i, d>> \in unflushed'
        PROVE  conn'[d].pc \in {"finish", "done"}
    BY <1>4, <1>6, <2>3, <2>7 DEF Budgeted
  <2>8. Count(r, n)' <= FailedFlushes(r, n)'
    <3>1. Count(r, n) <= 1 + FailedFlushes(r, n)
      BY <2>3 DEF Budgeted
    <3> QED
      BY <2>4, <2>6, <3>1
  <2>9. ASSUME NEW q \in Routes, NEW i \in Nat
        PROVE  /\ IsFiniteSet(Failures(q, i)')
               /\ Count(q, i)' <= 1 + FailedFlushes(q, i)'
    <3>1. CASE <<q, i>> = <<r, n>>
      <4>1. q = r /\ i = n
        BY <3>1
      <4> QED
        BY <2>4, <2>6, <2>8, <4>1
    <3>2. CASE <<q, i>> # <<r, n>>
      BY <2>3, <2>5, <2>6, <3>2 DEF Budgeted
    <3> QED
      BY <3>1, <3>2
  <2>10. ASSUME NEW q \in Routes, NEW i \in Nat, i > cursors[q],
               \A d \in Connections : conn'[d].route = q => ~Answered(conn'[d])
        PROVE  Count(q, i)' <= FailedFlushes(q, i)'
    <3>1. CASE <<q, i>> = <<r, n>>
      <4>1. q = r /\ i = n
        BY <3>1
      <4> QED
        BY <2>8, <4>1
    <3>2. CASE q # r
      <4>1. \A d \in Connections : conn[d].route = q => ~Answered(conn[d])
        BY <1>0, <1>4, <2>10, <3>2
      <4> QED
        BY <2>3, <2>5, <2>6, <2>10, <3>2, <4>1 DEF Budgeted
    <3>3. CASE q = r /\ i # n
      <4>1. i > n /\ ~Received(r, i)
        <5>1. i > n
          BY <1>0, <1>3, <2>10, <3>3
        <5>2. \A k \in DOMAIN delivered : delivered[k][2] <= cursors[delivered[k][1]] + 1
          BY DEF IndInv, Delivered
        <5>3. ASSUME NEW k \in DOMAIN delivered, delivered[k] = <<r, i>> PROVE FALSE
          <6>1. delivered[k][2] = i /\ delivered[k][1] = r
            BY <5>3
          <6> QED
            BY <1>0, <1>3, <5>1, <5>2, <6>1
        <5> QED
          BY <5>1, <5>3 DEF Received
      <4>2. Count(q, i) = 0
        BY <3>3, <4>1, ReceivedCount DEF IndInv
      <4> QED
        BY <2>5, <2>6, <3>3, <4>2
    <3> QED
      BY <3>1, <3>2, <3>3
  <2>11. \A d \in Connections : Answered(conn[d])' = Answered(conn'[d])
    BY DEF Answered
  <2> QED
    BY <2>7, <2>9, <2>10, <2>11 DEF Budgeted
<1> QED
  BY <1>7, <1>8, <1>9, <1>10, <1>11 DEF IndInv

LEMMA FlushStep ==
  ASSUME IndInv, NEW c \in Connections, Flush(c)
  PROVE  IndInv'
<1>1. conn[c].pc = "flush" /\ conn[c].pc \in Writing
  BY DEF Flush, At, Writing
<1>2. UNCHANGED <<cursors, reservations, cancelled, delivered>>
  BY DEF Flush
<1>3. CASE Goto(c, "check") /\ UNCHANGED unflushed
  BY <1>1, <1>2, <1>3, GotoStep DEF Writing
<1>4. CASE IoError(c) /\ conn[c].sent = Segments
           /\ unflushed' = unflushed \cup {Append(Interaction(c), c)}
  BY <1>1, <1>2, <1>4, FlushFailsStep DEF At
<1>5. CASE IoError(c) /\ conn[c].sent # Segments /\ UNCHANGED unflushed
  <2>1. Settle(c, 0 = Segments, "failed")
    BY <1>5 DEF IoError, PacingError, Complete
  <2>2. (0 = Segments) = (conn[c].sent = Segments)
    BY <1>5, SegmentsAssumption
  <2> QED
    BY <1>1, <1>2, <1>5, <2>1, <2>2, SettleStep
<1> QED
  BY <1>3, <1>4, <1>5 DEF Flush

(* Nothing beyond the cursor of a route and the interaction at it.          *)
LEMMA NoneBeyond ==
  ASSUME IndInv, NEW r \in Routes, NEW i \in Nat, i > cursors[r] + 1
  PROVE  Count(r, i) = 0
<1>1. ASSUME NEW k \in DOMAIN delivered, delivered[k] = <<r, i>> PROVE FALSE
  <2>1. delivered[k][2] = i /\ delivered[k][1] = r /\ cursors[r] \in Nat
    BY <1>1 DEF IndInv, Typed
  <2>2. delivered[k][2] <= cursors[delivered[k][1]] + 1
    BY DEF IndInv, Delivered
  <2> QED
    BY <2>1, <2>2
<1> QED
  BY <1>1, ReceivedCount DEF IndInv, Received

(* The end of a holder: what does not depend on its outcome.                *)
LEMMA FinishFrame ==
  ASSUME IndInv, NEW c \in Connections, Finish(c)
  PROVE  /\ conn[c].pc = "finish" /\ conn[c].pc \in Holding
         /\ reservations' = [reservations EXCEPT ![conn[c].route] = None]
         /\ cursors' = IF conn[c].commit
                         THEN [cursors EXCEPT ![conn[c].route] = conn[c].cursor + 1] ELSE cursors
         /\ delivered' = IF conn[c].commit /\ conn[c].sent = 0
                           THEN Append(delivered, Interaction(c)) ELSE delivered
         /\ UNCHANGED <<cancelled, unflushed>>
         /\ conn' \in [Connections -> Connection] /\ conn'[c].pc = "done"
         /\ \A d \in Connections : d # c => conn'[d] = conn[d]
<1>1. conn[c] \in Connection /\ conn \in [Connections -> Connection]
  BY DEF IndInv, Typed
<1>2. conn[c].pc = "finish" /\ conn[c].pc \in Holding
  BY DEF Finish, At, Holding
<1>3. reservations[conn[c].route] = conn[c].cursor /\ cursors[conn[c].route] = conn[c].cursor
  BY <1>2, Holder
<1>4. Goto(c, "done")
  BY <1>3 DEF Finish
<1>5. conn' = [conn EXCEPT ![c] = [conn[c] EXCEPT !.pc = "done"]]
  BY <1>1, <1>4 DEF Goto, Connection
<1>6. [conn[c] EXCEPT !.pc = "done"] \in Connection /\ [conn[c] EXCEPT !.pc = "done"].pc = "done"
  BY <1>1 DEF Connection
<1>7. /\ conn' \in [Connections -> Connection] /\ conn'[c].pc = "done"
      /\ \A d \in Connections : d # c => conn'[d] = conn[d]
  BY <1>1, <1>5, <1>6
<1> QED
  BY <1>2, <1>3, <1>7 DEF Finish

LEMMA FinishStep ==
  ASSUME IndInv, NEW c \in Connections, Finish(c)
  PROVE  IndInv'
<1>0. conn[c].pc \in Holding /\ conn[c].pc = "finish"
  BY FinishFrame
<1>1. PICK r \in Routes, n \in Nat, k \in BOOLEAN :
        r = conn[c].route /\ n = conn[c].cursor + 1 /\ k = conn[c].commit
  <2>1. conn[c].commit \in BOOLEAN
    BY DEF IndInv, Typed, Connection
  <2> QED
    BY <1>0, <2>1, Holder
<1>2. /\ cursors[r] + 1 = n /\ cursors[r] \in Nat /\ n \in 1 .. Len(Cassette[r])
      /\ \A i \in 1 .. n - 1 : Received(r, i)
      /\ \A d \in Connections : d # c => ~(conn[d].pc \in Holding /\ conn[d].route = r)
  BY <1>0, <1>1, Holder
<1>3. /\ conn' \in [Connections -> Connection] /\ conn'[c].pc = "done"
      /\ \A d \in Connections : d # c => conn'[d] = conn[d]
      /\ UNCHANGED <<cancelled, unflushed>>
  BY FinishFrame
<1>4. /\ reservations' \in [Routes -> Nat \cup {None}] /\ reservations'[r] = None
      /\ \A q \in Routes : q # r => reservations'[q] = reservations[q]
  BY <1>1, FinishFrame DEF IndInv, Typed
<1>5. /\ cursors' \in [Routes -> Nat] /\ cursors'[r] = (IF k THEN n ELSE cursors[r])
      /\ \A q \in Routes : q # r => cursors'[q] = cursors[q]
  <2>1. cursors \in [Routes -> Nat]
    BY DEF IndInv, Typed
  <2> QED
    BY <1>1, <2>1, FinishFrame
<1>6. Typed /\ InOrder /\ Budgeted /\ Delivered
  BY DEF IndInv
<1>7. \A q \in Routes, i \in Nat :
        /\ Count(q, i) \in Nat /\ FailedFlushes(q, i) \in Nat
        /\ FailedFlushes(q, i)' = FailedFlushes(q, i) /\ Failures(q, i)' = Failures(q, i)
  <2>1. \A q \in Routes, i \in Nat : Count(q, i) \in Nat /\ FailedFlushes(q, i) \in Nat
    BY <1>6, ReceivedCount, FailuresCount
  <2> QED
    BY <1>3, <2>1 DEF FailedFlushes, Failures
<1>8. ~Answered(conn[c]) => Count(r, n) <= FailedFlushes(r, n)
  <2>1. \A d \in Connections : d # c /\ conn[d].route = r => ~Answered(conn[d])
    BY <1>2 DEF Answered
  <2> QED
    BY <1>2, <1>6, <2>1 DEF Budgeted
<1>9. ~k => ~Answered(conn[c])
  BY <1>0, <1>1 DEF Answered
<1>10. /\ delivered' \in Seq(Routes \X Nat) /\ InOrder'
       /\ \A q \in Routes, i \in Nat : Received(q, i) => Received(q, i)'
       /\ \A q \in Routes, i \in Nat : <<q, i>> # <<r, n>> => Count(q, i)' = Count(q, i)
       /\ k => Received(r, n)'
       /\ Count(r, n)' <= 1 + FailedFlushes(r, n)
       /\ ~k => Count(r, n)' <= FailedFlushes(r, n)
       /\ \A m \in DOMAIN delivered' :
            (m \in DOMAIN delivered /\ delivered'[m] = delivered[m])
            \/ (delivered'[m] = <<r, n>> /\ k)
  <2>1. CASE k /\ conn[c].sent = 0
    <3>1. delivered' = Append(delivered, <<r, n>>)
      BY <1>1, <2>1, FinishFrame DEF Interaction
    <3>2. ~Answered(conn[c])
      BY <2>1, SegmentsAssumption DEF Answered
    <3>3. Count(r, n) <= FailedFlushes(r, n)
      BY <1>8, <3>2
    <3>4. /\ delivered' \in Seq(Routes \X Nat) /\ Received(r, n)'
          /\ \A q \in Routes, i \in Nat : Received(q, i) => Received(q, i)'
          /\ \A q \in Routes, i \in Nat : <<q, i>> # <<r, n>> => Count(q, i)' = Count(q, i)
          /\ Count(r, n)' = Count(r, n) + 1
      BY <1>6, <3>1, Delivery
    <3>5. Count(r, n)' <= 1 + FailedFlushes(r, n)
      BY <1>7, <3>3, <3>4
    <3>6. InOrder'
      BY <1>2, <1>6, <3>1, OrderedDelivery
    <3>7. ASSUME NEW m \in DOMAIN delivered'
          PROVE  (m \in DOMAIN delivered /\ delivered'[m] = delivered[m])
                 \/ delivered'[m] = <<r, n>>
      <4>1. delivered \in Seq(Routes \X Nat) /\ <<r, n>> \in Routes \X Nat
        BY <1>6 DEF Typed
      <4> QED
        BY <3>1, <4>1
    <3> QED
      BY <2>1, <3>4, <3>5, <3>6, <3>7
  <2>2. CASE ~(k /\ conn[c].sent = 0)
    <3>1. delivered' = delivered
      BY <1>1, <2>2, FinishFrame
    <3>2. /\ delivered' \in Seq(Routes \X Nat) /\ InOrder'
          /\ \A q \in Routes, i \in Nat :
               Received(q, i)' = Received(q, i) /\ Count(q, i)' = Count(q, i)
      BY <1>6, <3>1 DEF Typed, InOrder, Received, Count
    <3>3. ASSUME k PROVE Received(r, n)
      <4>1. conn[c].sent \in {0, Segments}
        BY <1>0, <1>1, <3>3 DEF IndInv, Phased
      <4>2. conn[c].sent = Segments
        BY <2>2, <3>3, <4>1
      <4> QED
        BY <1>0, <1>1, <1>6, <4>2 DEF Delivered
    <3>4. Count(r, n) <= 1 + FailedFlushes(r, n)
      BY <1>6 DEF Budgeted
    <3>5. ~k => Count(r, n) <= FailedFlushes(r, n)
      BY <1>8, <1>9
    <3> QED
      BY <3>1, <3>2, <3>3, <3>4, <3>5
  <2> QED
    BY <2>1, <2>2
<1>11. Typed'
  <2>1. \A q \in Routes : cursors'[q] <= Len(Cassette[q])
    <3>1. \A q \in Routes : cursors[q] <= Len(Cassette[q])
      BY <1>6 DEF Typed
    <3>2. n <= Len(Cassette[r]) /\ (cursors'[r] = n \/ cursors'[r] = cursors[r])
      BY <1>2, <1>5
    <3> QED
      BY <1>5, <3>1, <3>2
  <2>2. cancelled' \subseteq Connections /\ unflushed' \subseteq Routes \X Nat \X Connections
    BY <1>3, <1>6 DEF Typed
  <2> QED
    BY <1>3, <1>4, <1>5, <1>10, <2>1, <2>2 DEF Typed
<1>12. \A d \in Connections : Phased(conn[d])' /\ Owns(conn[d])'
  <2> SUFFICES ASSUME NEW d \in Connections PROVE Phased(conn'[d]) /\ Owns(conn[d])'
    BY DEF Phased
  <2>1. CASE d = c
    BY <1>3, <2>1 DEF Phased, Owns, Holding, Writing
  <2>2. CASE d # c
    <3>1. Phased(conn[d]) /\ Owns(conn[d]) /\ conn'[d] = conn[d]
      BY <1>3, <2>2 DEF IndInv
    <3>2. conn[d].pc \in Holding => conn[d].route \in Routes /\ conn[d].route # r
      BY <1>2, <2>2, <3>1 DEF Phased
    <3>3. Owns(conn[d])'
      BY <1>4, <1>5, <3>1, <3>2 DEF Owns
    <3> QED
      BY <3>1, <3>3
  <2> QED
    BY <2>1, <2>2
<1>13. Exclusive'
  <2>0. "done" \notin Holding
    BY DEF Holding, Writing
  <2>1. ASSUME NEW d \in Connections, NEW e \in Connections,
               conn'[d].pc \in Holding, conn'[e].pc \in Holding,
               conn'[d].route = conn'[e].route
        PROVE  d = e
    <3>1. d # c /\ e # c
      BY <1>3, <2>0, <2>1
    <3> QED
      BY <1>3, <2>1, <3>1 DEF IndInv, Exclusive
  <2>2. ASSUME NEW q \in Routes, reservations'[q] # None
        PROVE  \E d \in Connections : conn'[d].route = q /\ conn'[d].pc \in Holding
    <3>1. q # r /\ reservations[q] # None
      BY <1>4, <2>2
    <3>2. PICK d \in Connections : conn[d].route = q /\ conn[d].pc \in Holding
      BY <3>1 DEF IndInv, Exclusive
    <3>3. d # c
      BY <1>1, <3>1, <3>2
    <3> QED
      BY <1>3, <3>2, <3>3
  <2> QED
    BY <2>1, <2>2 DEF Exclusive
<1>14. Delivered'
  <2>1. ASSUME NEW q \in Routes, NEW i \in 1 .. cursors'[q] PROVE Received(q, i)'
    <3>1. CASE q = r /\ i = n
      <4>1. k
        BY <1>2, <1>5, <3>1
      <4> QED
        BY <1>10, <3>1, <4>1
    <3>2. CASE ~(q = r /\ i = n)
      <4>1. i \in 1 .. cursors[q] /\ i \in Nat
        BY <1>2, <1>5, <3>2
      <4>2. Received(q, i)
        BY <1>6, <4>1 DEF Delivered
      <4> QED
        BY <1>10, <4>1, <4>2
    <3> QED
      BY <3>1, <3>2
  <2>2. ASSUME NEW d \in Connections, conn'[d].pc \in Holding, conn'[d].sent = Segments
        PROVE  Received(conn[d].route, conn[d].cursor + 1)'
    <3>1. d # c
      BY <1>3, <2>2 DEF Holding, Writing
    <3>2. conn'[d] = conn[d] /\ conn[d].pc \in Holding
      BY <1>3, <2>2, <3>1
    <3>3. PICK q \in Routes, i \in Nat : q = conn[d].route /\ i = conn[d].cursor + 1
      BY <3>2, Holder
    <3>4. Received(q, i)
      BY <1>6, <2>2, <3>2, <3>3 DEF Delivered
    <3>5. Received(q, i)'
      BY <1>10, <3>4
    <3> QED
      BY <3>2, <3>3, <3>5 DEF Received
  <2>3. ASSUME NEW m \in DOMAIN delivered'
        PROVE  /\ delivered'[m][2] \in 1 .. Len(Cassette[delivered'[m][1]])
               /\ delivered'[m][2] <= cursors'[delivered'[m][1]] + 1
    <3>1. CASE m \in DOMAIN delivered /\ delivered'[m] = delivered[m]
      <4>1. /\ delivered[m][2] \in 1 .. Len(Cassette[delivered[m][1]])
            /\ delivered[m][2] <= cursors[delivered[m][1]] + 1
        BY <1>6, <3>1 DEF Delivered
      <4>2. delivered[m][1] \in Routes
        BY <1>6, <3>1 DEF Typed
      <4>3. \A q \in Routes : cursors[q] \in Nat /\ cursors[q] <= cursors'[q] /\ cursors'[q] \in Nat
        <5>1. \A q \in Routes : cursors[q] \in Nat /\ cursors'[q] \in Nat
          BY <1>5, <1>6 DEF Typed
        <5>2. cursors[r] <= cursors'[r]
          BY <1>2, <1>5
        <5> QED
          BY <1>5, <5>1, <5>2
      <4> QED
        BY <3>1, <4>1, <4>2, <4>3
    <3>2. CASE delivered'[m] = <<r, n>> /\ k
      <4>1. delivered'[m][1] = r /\ delivered'[m][2] = n
        BY <3>2
      <4> QED
        BY <1>2, <1>5, <3>2, <4>1
    <3> QED
      BY <1>10, <3>1, <3>2
  <2> QED
    BY <2>1, <2>2, <2>3 DEF Delivered
<1>15. Budgeted'
  <2>1. ASSUME NEW q \in Routes, NEW i \in Nat, NEW d \in Connections,
               <<q, i, d>> \in unflushed'
        PROVE  conn'[d].pc \in {"finish", "done"}
    BY <1>3, <1>6, <2>1 DEF Budgeted
  <2>2. ASSUME NEW q \in Routes, NEW i \in Nat
        PROVE  IsFiniteSet(Failures(q, i)') /\ Count(q, i)' <= 1 + FailedFlushes(q, i)'
    <3>1. CASE <<q, i>> = <<r, n>>
      <4>1. q = r /\ i = n
        BY <3>1
      <4> QED
        BY <1>6, <1>7, <1>10, <4>1 DEF Budgeted
    <3>2. CASE <<q, i>> # <<r, n>>
      BY <1>6, <1>7, <1>10, <3>2 DEF Budgeted
    <3> QED
      BY <3>1, <3>2
  <2>3. ASSUME NEW q \in Routes, NEW i \in Nat, i > cursors'[q],
               \A d \in Connections : conn'[d].route = q => ~Answered(conn'[d])
        PROVE  Count(q, i)' <= FailedFlushes(q, i)'
    <3>1. CASE q # r
      <4>1. \A d \in Connections : conn[d].route = q => ~Answered(conn[d])
        BY <1>1, <1>3, <2>3, <3>1
      <4>2. i > cursors[q]
        BY <1>5, <2>3, <3>1
      <4>3. Count(q, i) <= FailedFlushes(q, i)
        BY <1>6, <4>1, <4>2 DEF Budgeted
      <4> QED
        BY <1>7, <1>10, <3>1, <4>3
    <3>2. CASE q = r /\ i # n
      <4>1. i > cursors[q] + 1
        BY <1>2, <1>5, <2>3, <3>2
      <4>2. Count(q, i) = 0
        BY <4>1, NoneBeyond
      <4> QED
        BY <1>7, <1>10, <3>2, <4>2
    <3>3. CASE q = r /\ i = n
      <4>1. ~k
        BY <1>2, <1>5, <2>3, <3>3
      <4> QED
        BY <1>7, <1>10, <3>3, <4>1
    <3> QED
      BY <3>1, <3>2, <3>3
  <2>4. \A d \in Connections : Answered(conn[d])' = Answered(conn'[d])
    BY DEF Answered
  <2> QED
    BY <2>1, <2>2, <2>3, <2>4 DEF Budgeted
<1> QED
  BY <1>10, <1>11, <1>12, <1>13, <1>14, <1>15 DEF IndInv

(* A step that changes nothing.                                             *)
LEMMA ReplayStutter ==
  ASSUME IndInv, UNCHANGED vars
  PROVE  IndInv'
<1>1. UNCHANGED <<cursors, reservations, conn, cancelled, delivered, unflushed>>
  BY DEF vars
<1>2. Typed' /\ (\A d \in Connections : Phased(conn[d]) /\ Owns(conn[d]))' /\ Exclusive'
  BY <1>1 DEF IndInv, Typed, Phased, Owns, Exclusive
<1>3. Delivered' /\ InOrder'
  BY <1>1 DEF IndInv, Delivered, InOrder, Received
<1>4. Budgeted'
  BY <1>1 DEF IndInv, Budgeted, Failures, FailedFlushes, Count, Answered
<1> QED
  BY <1>2, <1>3, <1>4 DEF IndInv

(* The inductive invariant holds of every reachable state of the service.   *)
THEOREM ReplayInvariant == Spec => []IndInv
<1>1. Init => IndInv
  BY InitIndInv
<1>2. IndInv /\ [Next]_vars => IndInv'
  <2> SUFFICES ASSUME IndInv, [Next]_vars PROVE IndInv'
    OBVIOUS
  <2>1. CASE UNCHANGED vars
    BY <2>1, ReplayStutter
  <2>2. ASSUME NEW c \in Connections, NEW r \in Routes, NEW q \in Requests \cup {Malformed},
               Arrive(c, r, q)
        PROVE  IndInv'
    BY <2>2, ArriveStep
  <2>3. ASSUME NEW c \in Connections, Cancel(c) PROVE IndInv'
    BY <2>3, CancelStep
  <2>4. ASSUME NEW c \in Connections, Serve(c) PROVE IndInv'
    BY <2>4, ReserveStep, RefuseStep, WriteHeadStep, BeforeSegmentStep, WriteSegmentStep,
       FlushStep, AfterSegmentStep, FinishStep DEF Serve
  <2> QED
    BY <2>1, <2>2, <2>3, <2>4 DEF Next
<1> QED
  BY <1>1, <1>2, PTL DEF Spec

(* The type invariant of the model follows.                                 *)
LEMMA ReplayTypeOK == IndInv => TypeOK
<1> SUFFICES ASSUME IndInv PROVE TypeOK
  OBVIOUS
<1>1. /\ cursors \in [Routes -> Nat]
      /\ \A r \in Routes : cursors[r] <= Len(Cassette[r])
      /\ \A r \in Routes : reservations[r] \in Nat \cup {None}
      /\ cancelled \subseteq Connections
      /\ unflushed \subseteq Routes \X Nat \X Connections
  BY DEF IndInv, Typed
<1>2. \A c \in Connections :
       /\ conn[c].pc \in {"idle", "reserve", "done"} \cup Holding
       /\ conn[c].route \in Routes \cup {None}
       /\ conn[c].request \in Requests \cup {Malformed, None}
       /\ conn[c].sent \in 0 .. Segments
       /\ conn[c].commit \in BOOLEAN
       /\ conn[c].status \in {"served", "refused", "failed", None}
  BY DEF IndInv, Typed, Connection
<1>3. ASSUME NEW d \in ToSet(delivered)
      PROVE  d[1] \in Routes /\ d[2] \in 1 .. Len(Cassette[d[1]])
  <2>1. delivered \in Seq(Routes \X Nat)
    BY DEF IndInv, Typed
  <2>2. PICK k \in DOMAIN delivered : d = delivered[k]
    BY DEF ToSet
  <2>3. delivered[k] \in Routes \X Nat
    BY <2>1
  <2> QED
    BY <2>2, <2>3 DEF IndInv, Delivered
<1> QED
  BY <1>1, <1>2, <1>3 DEF TypeOK

(* A reservation belongs to exactly the one connection that answers on the  *)
(* route, at the cursor it read: the fence of finish_reservation holds.     *)
THEOREM ReservationsOwned == Spec => []ReservationsAreOwned
<1>1. IndInv => ReservationsAreOwned
  <2> SUFFICES ASSUME IndInv PROVE ReservationsAreOwned
    OBVIOUS
  <2>1. ASSUME NEW r \in Routes
        PROVE  /\ Cardinality(Holders(r)) <= 1
               /\ (reservations[r] = None) = (Holders(r) = {})
               /\ \A c \in Holders(r) :
                    reservations[r] = conn[c].cursor /\ cursors[r] = conn[c].cursor
    <3>1. \A c \in Holders(r) : /\ reservations[r] = conn[c].cursor
                                /\ cursors[r] = conn[c].cursor /\ conn[c].cursor \in Nat
      BY Holder DEF Holders
    <3>2. (reservations[r] = None) = (Holders(r) = {})
      <4>1. ASSUME reservations[r] # None PROVE Holders(r) # {}
        BY <4>1 DEF IndInv, Exclusive, Holders
      <4>2. ASSUME reservations[r] = None PROVE Holders(r) = {}
        BY <3>1, <4>2, NamesAssumption
      <4> QED
        BY <4>1, <4>2
    <3>3. \A c, d \in Holders(r) : c = d
      BY DEF IndInv, Exclusive, Holders
    <3>4. Cardinality(Holders(r)) <= 1
      <4>1. CASE Holders(r) = {}
        BY <4>1, FS_EmptySet
      <4>2. CASE Holders(r) # {}
        <5>1. PICK c \in Holders(r) : TRUE
          BY <4>2
        <5>2. Holders(r) = {c}
          BY <3>3, <5>1
        <5>3. Cardinality({c}) = 1
          BY FS_Singleton
        <5> QED
          BY <5>2, <5>3
      <4> QED
        BY <4>1, <4>2
    <3> QED
      BY <3>1, <3>2, <3>4
  <2> QED
    BY <2>1, ReplayTypeOK DEF ReservationsAreOwned
<1> QED
  BY <1>1, ReplayInvariant, PTL

(* The cursor moves only past responses that were delivered completely, and *)
(* every delivery comes after those of the interactions before it.          *)
THEOREM NothingIsSkipped == Spec => []NothingSkipped
<1>1. IndInv => NothingSkipped
  <2> SUFFICES ASSUME IndInv PROVE NothingSkipped
    OBVIOUS
  <2>1. ASSUME NEW r \in Routes, NEW i \in 1 .. cursors[r] PROVE Count(r, i) > 0
    <3>1. Received(r, i) /\ i \in Nat /\ Typed
      BY DEF IndInv, Delivered, Typed
    <3> QED
      BY <3>1, ReceivedCount
  <2>2. InOrder
    BY DEF IndInv
  <2> QED
    BY <2>1, <2>2 DEF NothingSkipped, InOrder
<1> QED
  BY <1>1, ReplayInvariant, PTL

(* Deliveries of an interaction beyond the first are at most the failed     *)
(* last flushes of earlier ones.                                            *)
THEOREM RepeatsAreUnflushed == Spec => []RepeatedOnlyUnflushed
<1>1. IndInv => RepeatedOnlyUnflushed
  <2> SUFFICES ASSUME IndInv, NEW r \in Routes, NEW i \in 1 .. Len(Cassette[r])
               PROVE  Count(r, i) <= 1 + FailedFlushes(r, i)
    BY DEF RepeatedOnlyUnflushed
  <2>1. i \in Nat
    OBVIOUS
  <2> QED
    BY <2>1 DEF IndInv, Budgeted
<1> QED
  BY <1>1, ReplayInvariant, PTL

=============================================================================
