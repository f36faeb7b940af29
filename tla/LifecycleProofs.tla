-------------------------- MODULE LifecycleProofs --------------------------
(***************************************************************************)
(* Facts about journals as sequences: what appending an event to one, and  *)
(* cutting one short, does to its prefixes and to its being a lifecycle.   *)
(***************************************************************************)
EXTENDS Lifecycle, SequenceTheorems, TLAPS

(* IsPrefix, read position by position. *)
LEMMA PrefixPointwise ==
  ASSUME NEW S, NEW p \in Seq(S), NEW j \in Seq(S)
  PROVE  IsPrefix(p, j) <=>
           /\ Len(p) <= Len(j)
           /\ \A i \in 1 .. Len(p) : p[i] = j[i]
<1>1. SubSeq(p, 1, Len(p)) = p
  BY SMT
<1>2. ASSUME Len(p) <= Len(j)
      PROVE  /\ SubSeq(j, 1, Len(p)) \in Seq(S)
             /\ Len(SubSeq(j, 1, Len(p))) = Len(p)
             /\ \A i \in 1 .. Len(p) : SubSeq(j, 1, Len(p))[i] = j[i]
  BY <1>2, SMT
<1>3. ASSUME Len(p) <= Len(j), \A i \in 1 .. Len(p) : p[i] = j[i]
      PROVE  p = SubSeq(j, 1, Len(p))
  BY <1>2, <1>3, SMT
<1> QED
  BY <1>1, <1>2, <1>3 DEF IsPrefix

(* A journal without events is a prefix of every journal. *)
LEMMA PrefixEmpty ==
  ASSUME NEW S, NEW j \in Seq(S)
  PROVE  IsPrefix(<<>>, j)
<1> DEFINE e == <<>>
<1>1. e \in Seq(S) /\ Len(e) = 0
  OBVIOUS
<1>2. Len(e) <= Len(j) /\ \A i \in 1 .. Len(e) : e[i] = j[i]
  BY <1>1, SMT
<1> HIDE DEF e
<1>3. IsPrefix(e, j)
  BY <1>1, <1>2, PrefixPointwise
<1> QED
  BY <1>3 DEF e

(* IsPrefix is a partial order on journals. *)
LEMMA PrefixReflexive ==
  ASSUME NEW S, NEW j \in Seq(S)
  PROVE  IsPrefix(j, j)
BY PrefixPointwise

LEMMA PrefixTransitive ==
  ASSUME NEW S, NEW i \in Seq(S), NEW j \in Seq(S), NEW k \in Seq(S),
         IsPrefix(i, j), IsPrefix(j, k)
  PROVE  IsPrefix(i, k)
<1>1. Len(i) <= Len(j) /\ \A n \in 1 .. Len(i) : i[n] = j[n]
  BY PrefixPointwise
<1>2. Len(j) <= Len(k) /\ \A n \in 1 .. Len(j) : j[n] = k[n]
  BY PrefixPointwise
<1>3. Len(i) <= Len(k) /\ \A n \in 1 .. Len(i) : i[n] = k[n]
  BY <1>1, <1>2, SMT
<1> QED
  BY <1>3, PrefixPointwise

(* The first n events of a journal. *)
LEMMA CutPointwise ==
  ASSUME NEW S, NEW j \in Seq(S), NEW n \in 0 .. Len(j)
  PROVE  /\ SubSeq(j, 1, n) \in Seq(S)
         /\ Len(SubSeq(j, 1, n)) = n
         /\ \A i \in 1 .. n : SubSeq(j, 1, n)[i] = j[i]
BY SMT

(* What was a prefix stays one when an event is appended. *)
LEMMA PrefixAppend ==
  ASSUME NEW S, NEW p \in Seq(S), NEW j \in Seq(S), NEW s \in S,
         IsPrefix(p, j)
  PROVE  IsPrefix(p, Append(j, s))
<1>1. Append(j, s) \in Seq(S) /\ Len(Append(j, s)) = Len(j) + 1
  BY SMT
<1>2. \A i \in 1 .. Len(j) : Append(j, s)[i] = j[i]
  BY SMT
<1>3. Len(p) <= Len(j) /\ \A i \in 1 .. Len(p) : p[i] = j[i]
  BY PrefixPointwise
<1>4. /\ Len(p) <= Len(Append(j, s))
      /\ \A i \in 1 .. Len(p) : p[i] = Append(j, s)[i]
  BY <1>1, <1>2, <1>3, SMT
<1> QED
  BY <1>1, <1>4, PrefixPointwise

(* A cut no shorter than a prefix keeps it. *)
LEMMA PrefixCut ==
  ASSUME NEW S, NEW p \in Seq(S), NEW j \in Seq(S),
         NEW n \in Len(p) .. Len(j), IsPrefix(p, j)
  PROVE  IsPrefix(p, SubSeq(j, 1, n))
<1>1. n \in 0 .. Len(j)
  BY SMT
<1>2. Len(p) <= Len(j) /\ \A i \in 1 .. Len(p) : p[i] = j[i]
  BY PrefixPointwise
<1>3. /\ SubSeq(j, 1, n) \in Seq(S)
      /\ Len(p) <= Len(SubSeq(j, 1, n))
      /\ \A i \in 1 .. Len(p) : p[i] = SubSeq(j, 1, n)[i]
  BY <1>1, <1>2, SMT
<1> QED
  BY <1>3, PrefixPointwise

(* An event that validate_transition accepts extends a lifecycle. *)
LEMMA LifecycleAppend ==
  ASSUME NEW j \in Seq(ExecutionState), NEW s \in ExecutionState,
         IsLifecycle(j), ValidTransition(LastState(j), s)
  PROVE  IsLifecycle(Append(j, s))
<1>1. /\ Len(Append(j, s)) = Len(j) + 1
      /\ Append(j, s)[Len(j) + 1] = s
      /\ \A i \in 1 .. Len(j) : Append(j, s)[i] = j[i]
  BY SMT
<1>2. j = <<>> <=> Len(j) = 0
  BY SMT
<1>3. ASSUME NEW i \in 1 .. Len(j) + 1
      PROVE  ValidTransition(IF i = 1 THEN NoState ELSE Append(j, s)[i - 1],
                             Append(j, s)[i])
  <2>1. CASE i = Len(j) + 1
    BY <1>1, <1>2, <2>1 DEF LastState
  <2>2. CASE i \in 1 .. Len(j)
    BY <1>1, <2>2 DEF IsLifecycle
  <2> QED
    BY <1>3, <2>1, <2>2
<1> QED
  BY <1>1, <1>3 DEF IsLifecycle

(* So does every initial part of one decode again. *)
LEMMA LifecycleCut ==
  ASSUME NEW j \in Seq(ExecutionState), NEW n \in 0 .. Len(j), IsLifecycle(j)
  PROVE  IsLifecycle(SubSeq(j, 1, n))
<1>1. Len(SubSeq(j, 1, n)) = n
  BY CutPointwise
<1>2. ASSUME NEW i \in 1 .. n
      PROVE  ValidTransition(IF i = 1 THEN NoState ELSE SubSeq(j, 1, n)[i - 1],
                             SubSeq(j, 1, n)[i])
  <2>1. i \in 1 .. Len(j) /\ SubSeq(j, 1, n)[i] = j[i]
    BY <1>2, SMT
  <2>2. i # 1 => SubSeq(j, 1, n)[i - 1] = j[i - 1]
    BY <1>2, SMT
  <2> QED
    BY <2>1, <2>2 DEF IsLifecycle
<1> QED
  BY <1>1, <1>2 DEF IsLifecycle

(* How far a run has come is the length of its journal: Planned, Prepared   *)
(* and Running are the first, the second and the third event, and no other. *)
LEMMA LifecyclePositions ==
  ASSUME NEW j \in Seq(ExecutionState), IsLifecycle(j), NEW n \in 1 .. Len(j)
  PROVE  /\ n = 1 <=> j[n] = "Planned"
         /\ n = 2 <=> j[n] = "Prepared"
         /\ n = 3 <=> j[n] = "Running"
<1> DEFINE from(i) == IF i = 1 THEN NoState ELSE j[i - 1]
<1>1. \A i \in 1 .. Len(j) : ValidTransition(from(i), j[i])
  BY DEF IsLifecycle
<1>2. \A i \in 1 .. Len(j) : j[i] # NoState
  BY SMT DEF ExecutionState, TerminalState, NoState
<1>3. \A i \in 1 .. Len(j) : i = 1 <=> j[i] = "Planned"
  <2> SUFFICES ASSUME NEW i \in 1 .. Len(j) PROVE i = 1 <=> j[i] = "Planned"
    OBVIOUS
  <2>1. ValidTransition(from(i), j[i]) /\ (i # 1 => i - 1 \in 1 .. Len(j))
    BY <1>1, SMT
  <2>2. i # 1 => from(i) # NoState
    BY <1>2, <2>1
  <2>3. i = 1 => from(i) = NoState
    OBVIOUS
  <2> HIDE DEF from
  <2> QED
    BY <2>1, <2>2, <2>3 DEF ValidTransition, NoState
<1>4. \A i \in 1 .. Len(j) : i = 2 <=> j[i] = "Prepared"
  <2> SUFFICES ASSUME NEW i \in 1 .. Len(j) PROVE i = 2 <=> j[i] = "Prepared"
    OBVIOUS
  <2>1. ValidTransition(from(i), j[i]) /\ (i # 1 => i - 1 \in 1 .. Len(j))
    BY <1>1, SMT
  <2>2. i = 2 <=> from(i) = "Planned"
    BY <1>3, <2>1, SMT DEF NoState
  <2> HIDE DEF from
  <2> QED
    BY <2>1, <2>2 DEF ValidTransition, NoState
<1>5. \A i \in 1 .. Len(j) : i = 3 <=> j[i] = "Running"
  <2> SUFFICES ASSUME NEW i \in 1 .. Len(j) PROVE i = 3 <=> j[i] = "Running"
    OBVIOUS
  <2>1. ValidTransition(from(i), j[i]) /\ (i # 1 => i - 1 \in 1 .. Len(j))
    BY <1>1, SMT
  <2>2. i = 3 <=> from(i) = "Prepared"
    BY <1>4, <2>1, SMT DEF NoState
  <2> HIDE DEF from
  <2> QED
    BY <2>1, <2>2 DEF ValidTransition, NoState
<1> QED
  BY <1>3, <1>4, <1>5

(* The same of the last event. *)
LEMMA LifecycleLast ==
  ASSUME NEW j \in Seq(ExecutionState), IsLifecycle(j)
  PROVE  /\ LastState(j) \in ExecutionState \cup {NoState}
         /\ Len(j) = 0 <=> LastState(j) = NoState
         /\ Len(j) = 1 <=> LastState(j) = "Planned"
         /\ Len(j) = 2 <=> LastState(j) = "Prepared"
         /\ Len(j) = 3 <=> LastState(j) = "Running"
<1>1. Len(j) \in Nat /\ (j = <<>> <=> Len(j) = 0)
  BY SMT
<1>2. CASE Len(j) = 0
  BY <1>1, <1>2 DEF LastState, NoState
<1>3. CASE Len(j) # 0
  <2>1. Len(j) \in 1 .. Len(j) /\ LastState(j) = j[Len(j)]
    BY <1>1, <1>3 DEF LastState
  <2>2. j[Len(j)] \in ExecutionState
    BY <2>1
  <2>3. /\ Len(j) = 1 <=> j[Len(j)] = "Planned"
        /\ Len(j) = 2 <=> j[Len(j)] = "Prepared"
        /\ Len(j) = 3 <=> j[Len(j)] = "Running"
    BY <2>1, LifecyclePositions
  <2> QED
    BY <1>3, <2>1, <2>2, <2>3 DEF ExecutionState, TerminalState, NoState
<1> QED
  BY <1>2, <1>3

(* Nothing follows a terminal event, so the acknowledged part of a journal  *)
(* that ends in one is the whole of it.                                     *)
LEMMA NothingAfterTerminal ==
  ASSUME NEW a \in Seq(ExecutionState), NEW j \in Seq(ExecutionState), IsLifecycle(j),
         IsPrefix(a, j), LastState(a) \in TerminalState
  PROVE  Len(a) = Len(j) /\ LastState(j) \in TerminalState
<1> DEFINE n == Len(a)
           m == Len(j)
<1>1. n \in Nat /\ m \in Nat /\ n <= m /\ \A k \in 1 .. n : a[k] = j[k]
  BY PrefixPointwise
<1>2. n > 0 /\ a # <<>>
  BY <1>1 DEF LastState, TerminalState, NoState
<1>3. j[n] \in TerminalState /\ j # <<>>
  BY <1>1, <1>2 DEF LastState
<1>4. n = m
  <2> SUFFICES ASSUME n < m PROVE FALSE
    BY <1>1
  <2>1. n + 1 \in 1 .. m /\ n + 1 # 1 /\ (n + 1) - 1 = n
    BY <1>1, <1>2
  <2>2. ValidTransition(j[n], j[n + 1])
    BY <2>1 DEF IsLifecycle
  <2> QED
    BY <1>3, <2>2 DEF ValidTransition, TerminalState, NoState
<1> QED
  BY <1>3, <1>4 DEF LastState

=============================================================================
