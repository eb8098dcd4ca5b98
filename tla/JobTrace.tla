------------------------------ MODULE JobTrace ------------------------------
(***************************************************************************)
(* The build log of one job: gitlab-runner streams it with                 *)
(* PATCH /api/v4/jobs/:id/trace, resends what was not acknowledged, and    *)
(* may replace it whole with the trace of a PUT (runner_api.go, store.go). *)
(* Every access of handleJobTrace to the trace takes the job's mutex for   *)
(* that access alone, so the handler is one action per access.             *)
(*                                                                         *)
(* The k-th byte of the log is the number k: a trace is right when it is   *)
(* 1, 2, 3, ... with nothing missing, repeated or out of place.            *)
(***************************************************************************)
EXTENDS Integers, Sequences

CONSTANTS
  Calls,     \* trace and update handlers that may be in flight at once
  NoCall,    \* not a handler
  LogLen,    \* bound on the length of the log
  PutTrace,  \* the runner also sends the whole log with a PUT
  Overlap    \* the runner may resend while the handler of a timed-out request still runs

ASSUME NoCallAssumption  == NoCall \notin Calls
ASSUME LogLenAssumption  == LogLen \in Nat
ASSUME FlagsAssumption   == Overlap \in BOOLEAN /\ PutTrace \in BOOLEAN

VARIABLES
  trace,     \* job.trace
  calls,     \* the handlers in flight
  written,   \* runner: bytes the build has written so far
  offset,    \* runner: bytes it knows the server has
  waiting    \* runner: the request whose answer it waits for

vars == <<trace, calls, written, offset, waiting>>

Idle == [pc |-> "idle", start |-> 0, stop |-> 0, have |-> 0]

TypeOK ==
  /\ trace \in Seq(Nat)
  /\ calls \in [Calls -> [pc: {"idle", "first", "second", "third", "append", "answer", "set"},
                          start: Nat, stop: Nat, have: Nat]]
  /\ written \in 0..LogLen
  /\ offset \in 0..written
  /\ waiting \in Calls \cup {NoCall}

\* Bytes from+1 .. to of the log.
Bytes(from, to) == [i \in 1..(to - from) |-> from + i]

Step(c, pc) == calls' = [calls EXCEPT ![c].pc = pc]

-----------------------------------------------------------------------------
(* The runner *)

\* The build writes output.
Write ==
  /\ written < LogLen
  /\ written' = written + 1
  /\ UNCHANGED <<trace, calls, offset, waiting>>

MaySend(c) ==
  /\ waiting = NoCall
  /\ calls[c].pc = "idle"
  /\ Overlap \/ \A d \in Calls : calls[d].pc = "idle"

\* PATCH with a chunk that starts at the offset (Content-Range: start-end).
SendPatch(c, stop) ==
  /\ MaySend(c)
  /\ offset < stop /\ stop <= written
  /\ calls' = [calls EXCEPT ![c] = [pc |-> "first", start |-> offset, stop |-> stop, have |-> 0]]
  /\ waiting' = c
  /\ UNCHANGED <<trace, written, offset>>

\* PUT that carries the whole log.
SendPut(c) ==
  /\ PutTrace
  /\ MaySend(c)
  /\ written > 0
  /\ calls' = [calls EXCEPT ![c] = [pc |-> "set", start |-> 0, stop |-> written, have |-> 0]]
  /\ waiting' = c
  /\ UNCHANGED <<trace, written, offset>>

\* The runner gives a request up: its answer, if any, is lost.
Timeout ==
  /\ waiting # NoCall
  /\ waiting' = NoCall
  /\ UNCHANGED <<trace, calls, written, offset>>

\* The connection breaks while the body is read (io.ReadAll fails): 400,
\* nothing is appended, and the runner keeps its offset.
BodyLost(c) ==
  /\ calls[c].pc = "first"
  /\ calls' = [calls EXCEPT ![c] = Idle]
  /\ waiting' = IF waiting = c THEN NoCall ELSE waiting
  /\ UNCHANGED <<trace, written, offset>>

-----------------------------------------------------------------------------
(* handleJobTrace *)

\* Faulty variant of ReadFirst: a chunk that starts before the end is taken as is.
ReadFirstTrusting(c) ==
  /\ calls[c].pc = "first"
  /\ calls' = [calls EXCEPT ![c].pc = "append", ![c].have = calls[c].start]
  /\ UNCHANGED <<trace, written, offset, waiting>>

\* if start == job.traceLen()
ReadFirst(c) ==
  /\ calls[c].pc = "first"
  /\ calls' = [calls EXCEPT ![c].pc = IF calls[c].start = Len(trace) THEN "append" ELSE "second",
                            ![c].have = calls[c].start]
  /\ UNCHANGED <<trace, written, offset, waiting>>

\* else if start < job.traceLen()
ReadSecond(c) ==
  /\ calls[c].pc = "second"
  /\ Step(c, IF calls[c].start < Len(trace) THEN "third" ELSE "answer")
  /\ UNCHANGED <<trace, written, offset, waiting>>

\* Faulty variant of ReadThird: a chunk that ends at what the server has, or
\* goes beyond it, is dropped.
ReadThirdDrop(c) ==
  /\ calls[c].pc = "third"
  /\ Step(c, "answer")
  /\ UNCHANGED <<trace, written, offset, waiting>>

\* have := job.traceLen(); the part beyond it is kept if there is one.
ReadThird(c) ==
  /\ calls[c].pc = "third"
  /\ calls' = [calls EXCEPT
                 ![c].pc = IF calls[c].start <= Len(trace) /\ Len(trace) <= calls[c].stop
                           THEN "append" ELSE "answer",
                 ![c].have = Len(trace)]
  /\ UNCHANGED <<trace, written, offset, waiting>>

\* Faulty variant of Extend: the overlap is not cut off.
ExtendWhole(c) ==
  /\ calls[c].pc = "append"
  /\ trace' = trace \o Bytes(calls[c].start, calls[c].stop)
  /\ Step(c, "answer")
  /\ UNCHANGED <<written, offset, waiting>>

\* job.appendTrace(body[overlap:]), the length it starts from read earlier.
Extend(c) ==
  /\ calls[c].pc = "append"
  /\ trace' = trace \o Bytes(calls[c].have, calls[c].stop)
  /\ Step(c, "answer")
  /\ UNCHANGED <<written, offset, waiting>>

\* 202 with Range 0-newLen; the runner goes on from there.
Answer(c) ==
  /\ calls[c].pc = "answer"
  /\ IF waiting = c THEN offset' = Len(trace) /\ waiting' = NoCall
                    ELSE UNCHANGED <<offset, waiting>>
  /\ calls' = [calls EXCEPT ![c] = Idle]
  /\ UNCHANGED <<trace, written>>

(* handleJobUpdate *)

\* Faulty variant of SetTrace: the trace is emptied and written again under two
\* locks, and the handler stops after the first.
SetTraceReset(c) ==
  /\ calls[c].pc = "set"
  /\ trace' = << >>
  /\ calls' = [calls EXCEPT ![c] = Idle]
  /\ waiting' = IF waiting = c THEN NoCall ELSE waiting
  /\ UNCHANGED <<written, offset>>

\* job.setTrace(req.Trace); the answer carries no offset.
SetTrace(c) ==
  /\ calls[c].pc = "set"
  /\ trace' = Bytes(0, calls[c].stop)
  /\ calls' = [calls EXCEPT ![c] = Idle]
  /\ waiting' = IF waiting = c THEN NoCall ELSE waiting
  /\ UNCHANGED <<written, offset>>

-----------------------------------------------------------------------------

Init ==
  /\ trace = << >>
  /\ calls = [c \in Calls |-> Idle]
  /\ written = 0
  /\ offset = 0
  /\ waiting = NoCall

Handler(c) == ReadFirst(c) \/ ReadSecond(c) \/ ReadThird(c) \/ Extend(c) \/ Answer(c) \/ SetTrace(c)

Next ==
  \/ Write
  \/ Timeout
  \/ \E c \in Calls : \/ \E stop \in 1..LogLen : SendPatch(c, stop)
                      \/ SendPut(c)
                      \/ BodyLost(c)
                      \/ Handler(c)

Spec == Init /\ [][Next]_vars

-----------------------------------------------------------------------------
(* Properties *)

\* runner_api.go:203 "Idempotent append": whatever is lost, repeated or resent,
\* the trace is a prefix of the log: no byte missing, doubled or displaced.
TraceIsPrefix ==
  /\ Len(trace) <= written
  /\ \A i \in 1..Len(trace) : trace[i] = i

\* What the runner believes stored is stored (runner_api.go:186-189: an
\* acknowledgement must not "move its send offset past data we never kept").
AckedIsStored == offset <= Len(trace)

\* A handler that decided where to append appends there: between its check and
\* its append the trace did not move.  Only the runner's patience ensures it.
CheckStillHolds ==
  \A c \in Calls : calls[c].pc = "append" =>
    /\ calls[c].have = Len(trace)
    /\ calls[c].start <= calls[c].have /\ calls[c].have <= calls[c].stop

\* The trace never shrinks or changes in what the runner may have shown.
TraceOnlyGrows ==
  [][Len(trace) <= Len(trace') /\ \A i \in 1..Len(trace) : trace'[i] = trace[i]]_vars

\* The inductive invariant behind these when the runner does not overlap its
\* requests: one handler is in flight, and what it was sent fits the trace.
OneInFlight ==
  \A c, d \in Calls : calls[c].pc # "idle" /\ calls[d].pc # "idle" => c = d

ChunkFits ==
  \A c \in Calls :
    /\ calls[c].pc # "idle" => calls[c].start <= Len(trace) /\ calls[c].stop <= written
    /\ calls[c].pc \in {"first", "second", "third"} => calls[c].start <= calls[c].stop
    /\ calls[c].pc = "set" => Len(trace) <= calls[c].stop

IInv == TypeOK /\ TraceIsPrefix /\ AckedIsStored /\ CheckStillHolds /\ OneInFlight /\ ChunkFits

\* The build writes on, the handlers run to their end, and the runner, as long
\* as it has unacknowledged bytes, sends them all again and again; not all of
\* those bodies are lost.  Every answer may be.
Fairness ==
  /\ WF_vars(Write)
  /\ \A c \in Calls : WF_vars(Handler(c))
  /\ WF_vars(Timeout)
  /\ SF_vars(\E c \in Calls : SendPatch(c, LogLen))
  /\ SF_vars(\E c \in Calls : calls[c].stop = LogLen /\ ReadFirst(c))

FairSpec == Spec /\ Fairness

\* The whole log reaches the server in the end, even if no answer ever reaches
\* the runner: resends from an old offset only add what is missing.
LogDelivered == <>[](Len(trace) = LogLen)
=============================================================================
