--------------------------- MODULE JobTraceProofs ---------------------------
(***************************************************************************)
(* Proofs about JobTrace for a log of any length and any number of handler *)
(* slots: as long as the runner sends a request only when no handler of an *)
(* earlier one is left, the stored trace is a prefix of the log.           *)
(***************************************************************************)
EXTENDS JobTrace, SequenceTheorems, TLAPS

\* A chunk is a sequence of bytes.
LEMMA BytesSeq == ASSUME NEW from \in Nat, NEW to \in Nat, from <= to
                  PROVE  Bytes(from, to) \in Seq(Nat) /\ Len(Bytes(from, to)) = to - from
  BY DEF Bytes

\* What appending bytes from+1 .. to to a trace of length `from' gives.
LEMMA BytesAppended ==
  ASSUME NEW t \in Seq(Nat), NEW from \in Nat, NEW to \in Nat,
         from = Len(t) /\ from <= to,
         \A i \in 1..Len(t) : t[i] = i
  PROVE  /\ t \o Bytes(from, to) \in Seq(Nat) /\ Len(t \o Bytes(from, to)) = to
         /\ \A i \in 1..to : (t \o Bytes(from, to))[i] = i
<1> DEFINE b == Bytes(from, to)
<1>1. b \in Seq(Nat) /\ Len(b) = to - from /\ \A i \in 1..(to - from) : b[i] = from + i
  BY DEF Bytes
<1> HIDE DEF b
<1>2. t \o b \in Seq(Nat) /\ Len(t \o b) = to
  BY <1>1
<1>3. \A i \in 1..to : (t \o b)[i] = i
  <2> TAKE i \in 1..to
  <2>1. CASE i <= Len(t)
    BY <2>1, <1>1
  <2>2. CASE ~(i <= Len(t))
    <3>1. i - Len(t) \in 1..(to - from) /\ (t \o b)[i] = b[i - Len(t)]
      BY <2>2, <1>1
    <3> QED BY <3>1, <1>1
  <2> QED BY <2>1, <2>2
<1> QED BY <1>2, <1>3 DEF b

LEMMA BytesFromStart ==
  ASSUME NEW to \in Nat
  PROVE  /\ Bytes(0, to) \in Seq(Nat) /\ Len(Bytes(0, to)) = to
         /\ \A i \in 1..to : Bytes(0, to)[i] = i
  BY DEF Bytes

-----------------------------------------------------------------------------
CallRec == [pc: {"idle", "first", "second", "third", "append", "answer", "set"},
            start: Nat, stop: Nat, have: Nat]

LEMMA InitInv == Init => IInv
  BY NoCallAssumption, LogLenAssumption
     DEF Init, IInv, TypeOK, TraceIsPrefix, AckedIsStored, CheckStillHolds, OneInFlight, ChunkFits, Idle

\* While handler c is in flight, no other is.
LEMMA Alone ==
  ASSUME IInv, NEW c \in Calls, calls[c].pc # "idle"
  PROVE  \A d \in Calls \ {c} : calls[d].pc = "idle"
  BY DEF IInv, OneInFlight

\* Handler c moves to a record that fits, alone, and the trace stays as it is.
LEMMA MoveKeeps ==
  ASSUME IInv, NEW c \in Calls, NEW rec \in CallRec,
         \A d \in Calls \ {c} : calls[d].pc = "idle",
         calls' = [calls EXCEPT ![c] = rec],
         trace' = trace, written' = written,
         offset' \in 0..written, offset' <= Len(trace), waiting' \in Calls \cup {NoCall},
         rec.pc # "idle" => rec.start <= Len(trace) /\ rec.stop <= written,
         rec.pc \in {"first", "second", "third"} => rec.start <= rec.stop,
         rec.pc = "append" => rec.have = Len(trace) /\ rec.start <= rec.have /\ rec.have <= rec.stop,
         rec.pc = "set" => Len(trace) <= rec.stop
  PROVE  IInv'
<1>1. /\ calls' \in [Calls -> CallRec] /\ calls'[c] = rec
      /\ \A d \in Calls \ {c} : calls'[d].pc = "idle"
  BY DEF IInv, TypeOK, CallRec
<1>2. TypeOK'
  BY <1>1 DEF IInv, TypeOK, CallRec
<1>3. TraceIsPrefix' /\ AckedIsStored'
  BY DEF IInv, TraceIsPrefix, AckedIsStored
<1>4. CheckStillHolds' /\ OneInFlight' /\ ChunkFits'
  BY <1>1 DEF CheckStillHolds, OneInFlight, ChunkFits
<1> QED BY <1>2, <1>3, <1>4 DEF IInv

LEMMA NextInv ==
  ASSUME ~Overlap, IInv, [Next]_vars
  PROVE  IInv'
<1> USE DEF CallRec
<1>0. /\ calls \in [Calls -> CallRec] /\ trace \in Seq(Nat) /\ Len(trace) \in Nat
      /\ written \in Nat /\ offset \in Nat /\ offset <= written /\ offset <= Len(trace)
      /\ Len(trace) <= written /\ waiting \in Calls \cup {NoCall} /\ offset \in 0..written
      /\ \A c \in Calls : /\ calls[c].start \in Nat /\ calls[c].stop \in Nat /\ calls[c].have \in Nat
      /\ Idle \in CallRec
  BY LogLenAssumption DEF IInv, TypeOK, AckedIsStored, TraceIsPrefix, Idle
<1>1. CASE Write
  BY <1>0, <1>1, LogLenAssumption DEF Write, IInv, TypeOK, TraceIsPrefix, AckedIsStored, CheckStillHolds,
     OneInFlight, ChunkFits
<1>2. CASE Timeout
  BY <1>0, <1>2 DEF Timeout, IInv, TypeOK, TraceIsPrefix, AckedIsStored, CheckStillHolds, OneInFlight, ChunkFits
<1>3. ASSUME NEW c \in Calls, NEW stop \in 1..LogLen, SendPatch(c, stop)
      PROVE  IInv'
  <2> DEFINE rec == [pc |-> "first", start |-> offset, stop |-> stop, have |-> 0]
  <2>1. rec \in CallRec
    BY <1>0, LogLenAssumption
  <2>2. \A d \in Calls \ {c} : calls[d].pc = "idle"
    BY <1>3 DEF SendPatch, MaySend
  <2>3. /\ calls' = [calls EXCEPT ![c] = rec] /\ waiting' = c
        /\ trace' = trace /\ written' = written /\ offset' = offset
        /\ offset < stop /\ stop <= written
    BY <1>3 DEF SendPatch
  <2>4. /\ rec.pc = "first" /\ rec.start = offset /\ rec.stop = stop
        /\ stop \in Nat /\ waiting' \in Calls \cup {NoCall}
    BY <2>3, LogLenAssumption
  <2> HIDE DEF rec, CallRec
  <2>5. /\ offset' \in 0..written /\ offset' <= Len(trace)
        /\ rec.start <= Len(trace) /\ rec.stop <= written /\ rec.start <= rec.stop
    BY <1>0, <2>3, <2>4
  <2> QED BY <2>1, <2>2, <2>3, <2>4, <2>5, MoveKeeps
<1>4. ASSUME NEW c \in Calls, SendPut(c)
      PROVE  IInv'
  <2> DEFINE rec == [pc |-> "set", start |-> 0, stop |-> written, have |-> 0]
  <2>1. rec \in CallRec
    BY <1>0
  <2>2. \A d \in Calls \ {c} : calls[d].pc = "idle"
    BY <1>4 DEF SendPut, MaySend
  <2>3. /\ calls' = [calls EXCEPT ![c] = rec] /\ waiting' = c
        /\ trace' = trace /\ written' = written /\ offset' = offset
    BY <1>4 DEF SendPut
  <2>4. rec.pc = "set" /\ rec.start = 0 /\ rec.stop = written /\ waiting' \in Calls \cup {NoCall}
    BY <2>3
  <2> HIDE DEF rec, CallRec
  <2>5. /\ offset' \in 0..written /\ offset' <= Len(trace)
        /\ rec.start <= Len(trace) /\ rec.stop <= written /\ Len(trace) <= rec.stop
    BY <1>0, <2>3, <2>4
  <2> QED BY <2>1, <2>2, <2>3, <2>4, <2>5, MoveKeeps
<1>5. ASSUME NEW c \in Calls, BodyLost(c)
      PROVE  IInv'
  <2>1. /\ calls' = [calls EXCEPT ![c] = Idle] /\ calls[c].pc # "idle"
        /\ waiting' \in Calls \cup {NoCall} /\ UNCHANGED <<trace, written, offset>>
    BY <1>0, <1>5 DEF BodyLost
  <2>2. Idle.pc = "idle"
    BY DEF Idle
  <2> HIDE DEF CallRec
  <2> QED BY <1>0, <2>1, <2>2, Alone, MoveKeeps
<1>6. ASSUME NEW c \in Calls, ReadFirst(c)
      PROVE  IInv'
  <2> DEFINE rec == [calls[c] EXCEPT !.pc = IF calls[c].start = Len(trace) THEN "append" ELSE "second",
                                     !.have = calls[c].start]
  <2>1. /\ calls[c].pc = "first" /\ calls' = [calls EXCEPT ![c] = rec]
        /\ UNCHANGED <<trace, written, offset, waiting>>
    BY <1>0, <1>6 DEF ReadFirst
  <2>2. /\ rec \in CallRec /\ rec.start = calls[c].start /\ rec.stop = calls[c].stop
        /\ rec.have = calls[c].start
        /\ rec.pc = IF calls[c].start = Len(trace) THEN "append" ELSE "second"
    BY <1>0
  <2>3. calls[c].start <= Len(trace) /\ calls[c].stop <= written /\ calls[c].start <= calls[c].stop
    BY <2>1 DEF IInv, ChunkFits
  <2> HIDE DEF rec, CallRec
  <2> QED BY <1>0, <2>1, <2>2, <2>3, Alone, MoveKeeps
<1>7. ASSUME NEW c \in Calls, ReadSecond(c)
      PROVE  IInv'
  <2> DEFINE rec == [calls[c] EXCEPT !.pc = IF calls[c].start < Len(trace) THEN "third" ELSE "answer"]
  <2>1. /\ calls[c].pc = "second" /\ calls' = [calls EXCEPT ![c] = rec]
        /\ UNCHANGED <<trace, written, offset, waiting>>
    BY <1>0, <1>7 DEF ReadSecond, Step
  <2>2. /\ rec \in CallRec /\ rec.start = calls[c].start /\ rec.stop = calls[c].stop
        /\ rec.pc = IF calls[c].start < Len(trace) THEN "third" ELSE "answer"
    BY <1>0
  <2>3. calls[c].start <= Len(trace) /\ calls[c].stop <= written /\ calls[c].start <= calls[c].stop
    BY <2>1 DEF IInv, ChunkFits
  <2> HIDE DEF rec, CallRec
  <2> QED BY <1>0, <2>1, <2>2, <2>3, Alone, MoveKeeps
<1>8. ASSUME NEW c \in Calls, ReadThird(c)
      PROVE  IInv'
  <2> DEFINE fits == calls[c].start <= Len(trace) /\ Len(trace) <= calls[c].stop
             rec == [calls[c] EXCEPT !.pc = IF fits THEN "append" ELSE "answer", !.have = Len(trace)]
  <2>1. /\ calls[c].pc = "third" /\ calls' = [calls EXCEPT ![c] = rec]
        /\ UNCHANGED <<trace, written, offset, waiting>>
    BY <1>0, <1>8 DEF ReadThird
  <2>2. /\ rec \in CallRec /\ rec.start = calls[c].start /\ rec.stop = calls[c].stop
        /\ rec.have = Len(trace) /\ rec.pc = IF fits THEN "append" ELSE "answer"
    BY <1>0
  <2>3. calls[c].start <= Len(trace) /\ calls[c].stop <= written
    BY <2>1 DEF IInv, ChunkFits
  <2> HIDE DEF rec, CallRec
  <2> QED BY <1>0, <2>1, <2>2, <2>3, Alone, MoveKeeps
<1>9. ASSUME NEW c \in Calls, Answer(c)
      PROVE  IInv'
  <2>1. /\ calls' = [calls EXCEPT ![c] = Idle] /\ calls[c].pc # "idle"
        /\ waiting' \in Calls \cup {NoCall} /\ offset' \in {offset, Len(trace)}
        /\ UNCHANGED <<trace, written>>
    BY <1>0, <1>9 DEF Answer
  <2>2. Idle.pc = "idle"
    BY DEF Idle
  <2>3. offset' \in 0..written /\ offset' <= Len(trace)
    BY <1>0, <2>1
  <2> HIDE DEF CallRec
  <2> QED BY <1>0, <2>1, <2>2, <2>3, Alone, MoveKeeps
<1>10. ASSUME NEW c \in Calls, Extend(c) \/ SetTrace(c)
       PROVE  IInv'
  <2>1. /\ trace' \in Seq(Nat) /\ Len(trace') = calls[c].stop
        /\ \A i \in 1..Len(trace') : trace'[i] = i
        /\ Len(trace) <= Len(trace') /\ Len(trace') <= written
        /\ calls[c].pc # "idle" /\ calls[c].start <= Len(trace)
    <3>1. CASE Extend(c)
      <4>1. /\ calls[c].pc = "append" /\ trace' = trace \o Bytes(calls[c].have, calls[c].stop)
            /\ calls[c].have = Len(trace) /\ calls[c].have <= calls[c].stop
            /\ calls[c].start <= Len(trace) /\ calls[c].stop <= written
            /\ \A i \in 1..Len(trace) : trace[i] = i
        BY <3>1 DEF Extend, IInv, CheckStillHolds, ChunkFits, TraceIsPrefix
      <4> HIDE DEF CallRec
      <4>2. /\ trace' \in Seq(Nat) /\ Len(trace') = calls[c].stop
            /\ \A i \in 1..calls[c].stop : trace'[i] = i
        <5>1. /\ calls[c].have \in Nat /\ calls[c].stop \in Nat /\ trace \in Seq(Nat)
              /\ calls[c].have = Len(trace) /\ calls[c].have <= calls[c].stop
              /\ \A i \in 1..Len(trace) : trace[i] = i
          BY <1>0, <4>1
        <5>2. /\ trace \o Bytes(calls[c].have, calls[c].stop) \in Seq(Nat)
              /\ Len(trace \o Bytes(calls[c].have, calls[c].stop)) = calls[c].stop
          <6> DEFINE b == Bytes(calls[c].have, calls[c].stop)
          <6>1. b \in Seq(Nat)
            BY ONLY <5>1, BytesSeq
          <6>2. Len(b) = calls[c].stop - calls[c].have
            BY ONLY <5>1, BytesSeq
          <6> HIDE DEF b
          <6>3. trace \o b \in Seq(Nat)
            BY ONLY <5>1, <6>1
          <6>4. trace \in Seq(Nat) /\ Len(trace) \in Nat
            BY <5>1
          <6>5. Len(trace \o b) = Len(trace) + Len(b)
            BY ONLY <6>1, <6>4
          <6>6. Len(trace \o b) = calls[c].stop
            BY ONLY <5>1, <6>2, <6>5
          <6> QED BY <6>3, <6>6 DEF b
        <5>3. \A i \in 1..calls[c].stop : (trace \o Bytes(calls[c].have, calls[c].stop))[i] = i
          BY ONLY <5>1, BytesAppended
        <5> QED BY <4>1, <5>2, <5>3
      <4> QED BY <1>0, <4>1, <4>2
    <3>2. CASE SetTrace(c)
      <4>1. /\ calls[c].pc = "set" /\ trace' = Bytes(0, calls[c].stop)
            /\ Len(trace) <= calls[c].stop
            /\ calls[c].start <= Len(trace) /\ calls[c].stop <= written
        BY <3>2 DEF SetTrace, IInv, ChunkFits
      <4> HIDE DEF CallRec
      <4>2. /\ trace' \in Seq(Nat) /\ Len(trace') = calls[c].stop
            /\ \A i \in 1..calls[c].stop : trace'[i] = i
        BY <1>0, <4>1, BytesFromStart
      <4> QED BY <1>0, <4>1, <4>2
    <3> QED BY <1>10, <3>1, <3>2
  <2>2. /\ written' = written /\ offset' = offset /\ waiting' \in Calls \cup {NoCall}
        /\ calls' \in [Calls -> CallRec]
        /\ \/ calls'[c].pc = "idle"
           \/ /\ calls'[c].pc = "answer"
              /\ calls'[c].start = calls[c].start /\ calls'[c].stop = calls[c].stop
        /\ \A d \in Calls \ {c} : calls'[d] = calls[d]
    <3>1. CASE Extend(c)
      <4> DEFINE rec == [calls[c] EXCEPT !.pc = "answer"]
      <4>1. /\ calls' = [calls EXCEPT ![c] = rec] /\ UNCHANGED <<written, offset, waiting>>
        BY <1>0, <3>1 DEF Extend, Step
      <4>2. /\ rec \in CallRec /\ rec.pc = "answer"
            /\ rec.start = calls[c].start /\ rec.stop = calls[c].stop
        BY <1>0
      <4> HIDE DEF rec, CallRec
      <4> QED BY <1>0, <4>1, <4>2
    <3>2. CASE SetTrace(c)
      BY <1>0, <3>2 DEF SetTrace, Idle
    <3> QED BY <1>10, <3>1, <3>2
  <2>3. \A d \in Calls \ {c} : calls'[d].pc = "idle"
    BY <2>1, <2>2, Alone
  <2>4. TypeOK'
    BY <1>0, <2>1, <2>2 DEF IInv, TypeOK
  <2>5. TraceIsPrefix' /\ AckedIsStored'
    BY <1>0, <2>1, <2>2 DEF TraceIsPrefix, AckedIsStored
  <2>6. CheckStillHolds' /\ OneInFlight' /\ ChunkFits'
    <3>1. /\ calls'[c].pc # "idle" => calls'[c].start <= Len(trace') /\ calls'[c].stop <= written'
          /\ calls'[c].pc \in {"answer", "idle"}
      BY <1>0, <2>1, <2>2
    <3> QED BY <2>3, <3>1 DEF CheckStillHolds, OneInFlight, ChunkFits
  <2> QED BY <2>4, <2>5, <2>6 DEF IInv
<1>11. CASE UNCHANGED vars
  BY <1>11 DEF vars, IInv, TypeOK, TraceIsPrefix, AckedIsStored, CheckStillHolds, OneInFlight, ChunkFits
<1> QED BY <1>1, <1>2, <1>3, <1>4, <1>5, <1>6, <1>7, <1>8, <1>9, <1>10, <1>11 DEF Next, Handler

-----------------------------------------------------------------------------
\* One PATCH or PUT at a time: the invariant of the trace handlers holds.
THEOREM SequentialInvariance ==
  ASSUME ~Overlap
  PROVE  Spec => []IInv
<1>1. Init => IInv
  BY InitInv
<1>2. IInv /\ [Next]_vars => IInv'
  BY NextInv
<1> QED BY <1>1, <1>2, PTL DEF Spec

\* A sequential runner's trace is a prefix of its log, whatever answers and
\* bodies are lost and resent: the append of handleJobTrace is idempotent
\* (runner_api.go:203) for it.
THEOREM TracePrefix ==
  ASSUME ~Overlap
  PROVE  Spec => []TraceIsPrefix
<1>1. IInv => TraceIsPrefix
  BY DEF IInv
<1> QED BY <1>1, SequentialInvariance, PTL

\* Nothing a sequential runner takes for stored is missing (runner_api.go:186).
THEOREM NothingAckedIsLost ==
  ASSUME ~Overlap
  PROVE  Spec => []AckedIsStored
<1>1. IInv => AckedIsStored
  BY DEF IInv
<1> QED BY <1>1, SequentialInvariance, PTL

\* The state is well-typed; the offset never passes what the build has written.
THEOREM TypeCorrect ==
  ASSUME ~Overlap
  PROVE  Spec => []TypeOK
<1>1. IInv => TypeOK
  BY DEF IInv
<1> QED BY <1>1, SequentialInvariance, PTL

\* What handleJobTrace found out under one lock is still so when it appends
\* under another (runner_api.go:206-213).
THEOREM ChecksHold ==
  ASSUME ~Overlap
  PROVE  Spec => []CheckStillHolds
<1>1. IInv => CheckStillHolds
  BY DEF IInv
<1> QED BY <1>1, SequentialInvariance, PTL

\* No step makes the trace shorter.
LEMMA LengthGrows ==
  ASSUME ~Overlap, IInv, [Next]_vars
  PROVE  Len(trace) <= Len(trace')
<1>0. /\ trace \in Seq(Nat) /\ Len(trace) \in Nat /\ calls \in [Calls -> CallRec]
      /\ \A c \in Calls : calls[c].start \in Nat /\ calls[c].stop \in Nat /\ calls[c].have \in Nat
  BY DEF IInv, TypeOK, CallRec
<1>1. ASSUME NEW c \in Calls, Extend(c) PROVE Len(trace) <= Len(trace')
  <2> DEFINE b == Bytes(calls[c].have, calls[c].stop)
  <2>1. calls[c].have <= calls[c].stop
    BY <1>1 DEF Extend, IInv, CheckStillHolds
  <2>2. b \in Seq(Nat) /\ Len(b) \in Nat
    <3>1. calls[c].have \in Nat /\ calls[c].stop \in Nat
      BY <1>0
    <3>2. b \in Seq(Nat) /\ Len(b) = calls[c].stop - calls[c].have
      BY <3>1, <2>1, BytesSeq
    <3> QED BY <3>1, <3>2, <2>1
  <2>3. trace' = trace \o b
    BY <1>1 DEF Extend
  <2> HIDE DEF b
  <2>4. Len(trace \o b) = Len(trace) + Len(b)
    BY <1>0, <2>2
  <2> QED BY <1>0, <2>2, <2>3, <2>4
<1>2. ASSUME NEW c \in Calls, SetTrace(c) PROVE Len(trace) <= Len(trace')
  <2>1. Len(trace) <= calls[c].stop /\ trace' = Bytes(0, calls[c].stop)
    BY <1>2 DEF SetTrace, IInv, ChunkFits
  <2>2. Len(Bytes(0, calls[c].stop)) = calls[c].stop
    BY <1>0, BytesFromStart
  <2> QED BY <2>1, <2>2
<1>3. CASE trace' = trace
  BY <1>0, <1>3
<1> QED
  BY <1>1, <1>2, <1>3 DEF Next, Handler, vars, Write, Timeout, SendPatch, SendPut, BodyLost,
     ReadFirst, ReadSecond, ReadThird, Answer

\* Resends and the final PUT never take back or change what the trace has
\* shown (runner_api.go:154,203).
THEOREM TraceGrows ==
  ASSUME ~Overlap
  PROVE  Spec => TraceOnlyGrows
<1> DEFINE Grows == Len(trace) <= Len(trace') /\ \A i \in 1..Len(trace) : trace'[i] = trace[i]
<1>1. ASSUME IInv, [Next]_vars PROVE Grows
  <2>1. IInv'
    BY <1>1, NextInv
  <2>2. Len(trace) \in Nat /\ Len(trace') \in Nat /\ Len(trace) <= Len(trace')
    BY <1>1, <2>1, LengthGrows DEF IInv, TypeOK
  <2> QED BY <1>1, <2>1, <2>2 DEF IInv, TraceIsPrefix
<1>2. IInv /\ [Next]_vars => [Grows]_vars
  BY <1>1
<1> QED BY <1>2, SequentialInvariance, PTL DEF Spec, TraceOnlyGrows
=============================================================================
