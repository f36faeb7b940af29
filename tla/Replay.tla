-------------------------------- MODULE Replay --------------------------------
(***************************************************************************)
(* StrictReplayService of asb-replay/src/service.rs with the paced writer  *)
(* of asb-replay/src/pacing.rs: a cassette of recorded interactions per    *)
(* route, a cursor and at most one reservation per route behind one mutex, *)
(* and connections, each served by a thread of its own, that reserve the   *)
(* next interaction, write its response segment by segment with the mutex  *)
(* free, and then commit or release the reservation.                       *)
(*                                                                         *)
(* A request is what it asks for: an element of Requests, or Malformed for *)
(* what read_http_request or validate_http_request refuse.  Recorded       *)
(* requests of a route may be equal.                                       *)
(***************************************************************************)
EXTENDS Integers, FiniteSets, SequencesExt

CONSTANTS
  Connections,  \* the connections clients make, retries included
  Routes,       \* the session and attempt pairs of the cassette
  Requests, Malformed,
  Cassette,     \* Cassette[r]: the recorded requests of route r, in order
  Segments,     \* the segments of every recorded response
  None

ASSUME CassetteAssumption ==
  /\ Cassette \in [Routes -> Seq(Requests)]
  /\ \A r \in Routes : Cassette[r] # <<>>
ASSUME SegmentsAssumption == Segments \in Nat \ {0}
ASSUME NamesAssumption == Malformed \notin Requests /\ None \notin Nat

VARIABLES
  cursors,       \* cursors[r]: the interactions of r that were consumed
  reservations,  \* reservations[r]: the cursor that a response holds, or None
  conn,          \* conn[c]: what the thread of connection c is doing
  cancelled,     \* the cancellation tokens that are set
  delivered,     \* history: <<r, i>>, for each response written to its end
  unflushed      \* history: <<r, i, c>> whose last flush failed

vars == <<cursors, reservations, conn, cancelled, delivered, unflushed>>

Idle == [pc |-> "idle", route |-> None, request |-> None, cursor |-> None,
         sent |-> 0, commit |-> FALSE, status |-> None]

Writing == {"head", "wait", "write", "flush", "check"}
Holding == Writing \cup {"finish"}

TypeOK ==
  /\ cursors \in [Routes -> Nat]
  /\ \A r \in Routes : cursors[r] <= Len(Cassette[r])
  /\ \A r \in Routes : reservations[r] \in Nat \cup {None}
  /\ \A c \in Connections :
       /\ conn[c].pc \in {"idle", "reserve", "done"} \cup Holding
       /\ conn[c].route \in Routes \cup {None}
       /\ conn[c].request \in Requests \cup {Malformed, None}
       /\ conn[c].sent \in 0 .. Segments
       /\ conn[c].commit \in BOOLEAN
       /\ conn[c].status \in {"served", "refused", "failed", None}
  /\ cancelled \subseteq Connections
  /\ \A d \in ToSet(delivered) : d[1] \in Routes /\ d[2] \in 1 .. Len(Cassette[d[1]])
  /\ unflushed \subseteq Routes \X Nat \X Connections

Init ==
  /\ cursors = [r \in Routes |-> 0]
  /\ reservations = [r \in Routes |-> None]
  /\ conn = [c \in Connections |-> Idle]
  /\ cancelled = {}
  /\ delivered = <<>>
  /\ unflushed = {}

-----------------------------------------------------------------------------

At(c, pc) == conn[c].pc = pc
Goto(c, pc) == conn' = [conn EXCEPT ![c].pc = pc]

Interaction(c) == <<conn[c].route, conn[c].cursor + 1>>

(* A client connects and its request is read, or a caller of handle brings  *)
(* one; a request that cannot be read is answered with an error.            *)
Arrive(c, r, q) ==
  /\ At(c, "idle")
  /\ conn' = [conn EXCEPT ![c] =
                IF q = Malformed THEN [Idle EXCEPT !.pc = "done", !.status = "refused"]
                ELSE [Idle EXCEPT !.pc = "reserve", !.route = r, !.request = q]]
  /\ UNCHANGED <<cursors, reservations, cancelled, delivered, unflushed>>

(* The route has a next interaction and the request is the recorded one.    *)
Matches(c) ==
  LET r == conn[c].route IN
  /\ cursors[r] < Len(Cassette[r])
  /\ conn[c].request = Cassette[r][cursors[r] + 1]

MutFree(r) == TRUE

Free(r) == reservations[r] = None

(* reserve, under the mutex.  handle commits without writing.               *)
Reserve(c, direct) ==
  LET r == conn[c].route IN
  /\ At(c, "reserve")
  /\ Free(r) /\ Matches(c)
  /\ reservations' = [reservations EXCEPT ![r] = cursors[r]]
  /\ conn' = [conn EXCEPT ![c].pc = IF direct THEN "finish" ELSE "head",
                          ![c].cursor = cursors[r],
                          ![c].commit = direct,
                          ![c].status = IF direct THEN "served" ELSE None]
  /\ UNCHANGED <<cursors, cancelled, delivered, unflushed>>

(* RouteBusy, Exhausted or Mismatch: an error response, nothing consumed.   *)
Refuse(c) ==
  /\ At(c, "reserve")
  /\ ~(Free(conn[c].route) /\ Matches(c))
  /\ conn' = [conn EXCEPT ![c].pc = "done", ![c].status = "refused"]
  /\ UNCHANGED <<cursors, reservations, cancelled, delivered, unflushed>>

-----------------------------------------------------------------------------
(* Writing a response: write_http_head, then write_paced_segments.          *)

(* The outcome of the delivery is known; finish_reservation comes next.     *)
Settle(c, commit, status) ==
  conn' = [conn EXCEPT ![c].pc = "finish", ![c].commit = commit,
                       ![c].status = status]

WriteHead(c) ==
  /\ At(c, "head")
  /\ Goto(c, "wait") \/ Settle(c, FALSE, "failed")
  /\ UNCHANGED <<cursors, reservations, cancelled, delivered, unflushed>>

(* delivery_complete: every segment was written before the pacing error.    *)
Complete(completed) == completed = Segments

(* A pacing error that knows how many segments were written.                *)
PacingError(c, completed) == Settle(c, Complete(completed), "failed")

(* An error of the writer counts no segment: completed_segments is 0.       *)
IoError(c) == PacingError(c, 0)

MutBeforeSegment(c) ==
  /\ At(c, "wait") /\ c \notin cancelled
  /\ PacingError(c, conn[c].sent) \/ Goto(c, "write")
  /\ UNCHANGED <<cursors, reservations, cancelled, delivered, unflushed>>

(* Before a segment: a seeded failure, a cancellation seen by wait_until or *)
(* a late start; otherwise the segment is due.                              *)
BeforeSegment(c) ==
  /\ At(c, "wait")
  /\ \/ PacingError(c, conn[c].sent)
     \/ c \notin cancelled /\ Goto(c, "write")
  /\ UNCHANGED <<cursors, reservations, cancelled, delivered, unflushed>>

(* write_all: the whole segment, or an error after a part of it.            *)
WriteSegment(c) ==
  /\ At(c, "write")
  /\ \/ /\ conn' = [conn EXCEPT ![c].pc = "flush", ![c].sent = @ + 1]
        /\ delivered' = IF conn[c].sent + 1 = Segments
                          THEN Append(delivered, Interaction(c)) ELSE delivered
     \/ IoError(c) /\ UNCHANGED delivered
  /\ UNCHANGED <<cursors, reservations, cancelled, unflushed>>

(* DeadlineStream::flush fails when the segment took longer than its bound. *)
Flush(c) ==
  /\ At(c, "flush")
  /\ \/ Goto(c, "check") /\ UNCHANGED unflushed
     \/ /\ IoError(c)
        /\ unflushed' = IF conn[c].sent = Segments
                          THEN unflushed \cup {Append(Interaction(c), c)}
                          ELSE unflushed
  /\ UNCHANGED <<cursors, reservations, cancelled, delivered>>

MutAfterSegment(c) ==
  /\ At(c, "check")
  /\ \/ PacingError(c, conn[c].sent - 1)
     \/ /\ conn[c].sent < Segments
        /\ IF c \in cancelled THEN PacingError(c, conn[c].sent) ELSE Goto(c, "wait")
     \/ conn[c].sent = Segments /\ Settle(c, TRUE, "served")
  /\ UNCHANGED <<cursors, reservations, cancelled, delivered, unflushed>>

(* After a segment: the write was slow, which is only noticed now; or the   *)
(* delivery was cancelled; or there is a next segment; or this was the last *)
(* one.                                                                     *)
AfterSegment(c) ==
  /\ At(c, "check")
  /\ \/ PacingError(c, conn[c].sent)
     \/ /\ conn[c].sent < Segments
        /\ IF c \in cancelled THEN PacingError(c, conn[c].sent) ELSE Goto(c, "wait")
     \/ conn[c].sent = Segments /\ Settle(c, TRUE, "served")
  /\ UNCHANGED <<cursors, reservations, cancelled, delivered, unflushed>>

(* The token is set at any time. *)
Cancel(c) ==
  /\ conn[c].pc \in Writing /\ c \notin cancelled
  /\ cancelled' = cancelled \cup {c}
  /\ UNCHANGED <<cursors, reservations, conn, delivered, unflushed>>

MutCommit(c) ==
  LET r == conn[c].route IN
  /\ At(c, "finish")
  /\ reservations' = [reservations EXCEPT ![r] = None]
  /\ cursors' = [cursors EXCEPT ![r] = conn[c].cursor + 1]
  /\ Goto(c, "done")
  /\ UNCHANGED <<cancelled, delivered, unflushed>>

(* finish_reservation, under the mutex.  A caller of handle has its         *)
(* response when it returns.                                                *)
Finish(c) ==
  LET r == conn[c].route
      fenced == reservations[r] = conn[c].cursor /\ cursors[r] = conn[c].cursor IN
  /\ At(c, "finish")
  /\ reservations' = [reservations EXCEPT ![r] = None]
  /\ IF fenced
       THEN /\ cursors' = IF conn[c].commit
                            THEN [cursors EXCEPT ![r] = conn[c].cursor + 1]
                            ELSE cursors
            /\ Goto(c, "done")
            /\ delivered' = IF conn[c].commit /\ conn[c].sent = 0
                              THEN Append(delivered, Interaction(c)) ELSE delivered
       ELSE /\ conn' = [conn EXCEPT ![c].pc = "done", ![c].status = "failed"]
            /\ UNCHANGED <<cursors, delivered>>
  /\ UNCHANGED <<cancelled, unflushed>>

Serve(c) ==
  \/ \E direct \in BOOLEAN : Reserve(c, direct)
  \/ Refuse(c) \/ WriteHead(c) \/ BeforeSegment(c)
  \/ WriteSegment(c) \/ Flush(c) \/ AfterSegment(c) \/ Finish(c)

Next ==
  \E c \in Connections :
    \/ \E r \in Routes, q \in Requests \cup {Malformed} : Arrive(c, r, q)
    \/ Serve(c)
    \/ Cancel(c)

Spec == Init /\ [][Next]_vars

(* Every connection has a thread; its writes end, because they have a       *)
(* timeout.                                                                 *)
FairSpec == Spec /\ \A c \in Connections : WF_vars(Serve(c))

-----------------------------------------------------------------------------
(* Properties.                                                              *)

Holders(r) == {c \in Connections : conn[c].route = r /\ conn[c].pc \in Holding}

(* A route is reserved exactly while one connection answers on it, at the   *)
(* cursor that connection read under the mutex: nobody else moves a cursor  *)
(* while its response is being written, so the fence of finish_reservation  *)
(* never fails.                                                             *)
ReservationsAreOwned ==
  /\ TypeOK
  /\ \A r \in Routes :
       /\ Cardinality(Holders(r)) <= 1
       /\ (reservations[r] = None) = (Holders(r) = {})
       /\ \A c \in Holders(r) :
            reservations[r] = conn[c].cursor /\ cursors[r] = conn[c].cursor

Count(r, i) == Cardinality({k \in DOMAIN delivered : delivered[k] = <<r, i>>})
FailedFlushes(r, i) == Cardinality({c \in Connections : <<r, i, c>> \in unflushed})

(* A cursor moves only past interactions that a client received to the end, *)
(* in the order of the cassette: no answer is skipped by a failed, late or  *)
(* cancelled delivery, and none is given ahead of its turn.                 *)
NothingSkipped ==
  /\ \A r \in Routes : \A i \in 1 .. cursors[r] : Count(r, i) > 0
  /\ \A k \in DOMAIN delivered :
       LET r == delivered[k][1] IN
       \A i \in 1 .. delivered[k][2] - 1 :
         \E j \in 1 .. k - 1 : delivered[j] = <<r, i>>

(* A response that was written completely is not written again, except      *)
(* after its last flush failed: errors of the writer count no segment.      *)
RepeatedOnlyUnflushed ==
  \A r \in Routes : \A i \in 1 .. Len(Cassette[r]) :
    Count(r, i) <= 1 + FailedFlushes(r, i)

(* A reserved route becomes free again, however its delivery ends.          *)
RoutesAreReleased ==
  \A r \in Routes : reservations[r] # None ~> reservations[r] = None

(* serve_once_paced says that an interaction whose segments were all        *)
(* completely written is consumed, since a retry could duplicate the        *)
(* delivery: no interaction is written completely twice.                    *)
WrittenOnce ==
  \A r \in Routes : \A i \in 1 .. Len(Cassette[r]) : Count(r, i) <= 1

=============================================================================
