------------------------------- MODULE Endpoints -------------------------------
(***************************************************************************)
(* Source-to-sink transfers, src/endpoints/core.c: calls that move octets  *)
(* from a source to a sink whose drivers transfer less than they are asked *)
(* for, do nothing for now, and fail.  The transfers with an auxiliary     *)
(* buffer (_aux) go through the retry machinery of the endpoints; those by *)
(* character (_cbc, and sts_n() and sts_drain() of endpoints without the   *)
(* getbuffer extension, which no endpoint of the library has) do not.      *)
(*                                                                         *)
(* The octets of the source are numbered.  A step is one answer of a       *)
(* driver; an answer that makes the code ask the same again is no step.    *)
(* Whether drivers transfer octets or chunks makes no difference but that  *)
(* source_adapt() and sink_adapt() turn zero into EAGAIN.                  *)
(***************************************************************************)
EXTENDS Integers, Sequences

CONSTANTS
  StreamLength,  \* octets in the source
  AuxSize,       \* size of the auxiliary buffer
  MaxCount,      \* the most octets a call is asked to transfer
  MaxGarbage,    \* bound of octets in the sink that never were in the source
  Ops,           \* the calls the user makes
  Policies,      \* retry policies of endpoints: sets of what retry.run handles
  SourceErrors,  \* what the driver of the source answers when it transfers nothing
  SinkErrors     \* and that of the sink

ASSUME SizeAssumption ==
  /\ StreamLength \in Nat /\ MaxCount \in Nat /\ MaxGarbage \in Nat
  /\ AuxSize \in Nat \ {0}

ASSUME ErrorsAssumption == "none" \notin SourceErrors \cup SinkErrors

VARIABLES
  policy,  \* source.retry and sink.retry
  taken,   \* octets the source has given away
  sunk,    \* the octets in the sink
  buf,     \* the octets a call has taken but not passed on completely
  put,     \* how many of them the sink has accepted
  call,    \* the call: function, octets to go, octets moved, and where it began
  pc,      \* "idle", or the driver that runs
  result,  \* what the call returned
  refused, \* history: the sink did not accept what this call had for it
  nothing  \* history: a driver answered a transfer by character with zero

vars == <<policy, taken, sunk, buf, put, call, pc, result, refused, nothing>>

AuxOps   == {"sts_some_aux", "sts_atmost_aux", "sts_n_aux", "sts_drain_aux"}
OctetOps == {"sts_n_cbc", "sts_atmost_cbc", "sts_drain_cbc", "sts_n", "sts_drain"}
Counted  == {"sts_atmost_aux", "sts_n_aux", "sts_n_cbc", "sts_atmost_cbc", "sts_n"}

ASSUME OpsAssumption == Ops \subseteq AuxOps \cup OctetOps

Garbage == 0
Following(n) == [i \in 1 .. n |-> taken + i]
Lesser(a, b) == IF a < b THEN a ELSE b

Success(n) == [error |-> "none", count |-> n]
Failure(e) == [error |-> e, count |-> 0]

Init ==
  /\ policy \in [source : Policies, sink : Policies]
  /\ taken = 0
  /\ sunk = <<>>
  /\ buf = <<>>
  /\ put = 0
  /\ call = [op |-> "none", rest |-> 0, moved |-> 0, n |-> 0, from |-> 0, had |-> 0]
  /\ pc = "idle"
  /\ result = Success(0)
  /\ refused = FALSE
  /\ nothing = FALSE

Return(r) == pc' = "idle" /\ result' = r
GoesOn(step) == pc' = step /\ UNCHANGED result

(***************************************************************************)
(* The retry machinery: what source_read_multi() and sink_write_multi()    *)
(* return because of an answer that transfers nothing; without an error    *)
(* they ask again.  A retry.run that returns zero makes it ENODATA.        *)
(***************************************************************************)

Temporary == {"EAGAIN", "EINTR", "zero"}

Errors(end, answer) ==
  LET class == IF answer \in Temporary THEN answer ELSE "other"
  IN  IF class \in policy[end] THEN {"ENODATA", "EIO"}
      ELSE {answer} \ Temporary

SourceAnswers ==
  IF taken = StreamLength THEN SourceErrors \cup {"ENODATA"} ELSE SourceErrors

(***************************************************************************)
(* The calls.                                                              *)
(***************************************************************************)

\* A call that is asked for no octets returns at once.
Start(op, n) ==
  /\ pc = "idle"
  /\ call' = [op |-> op, rest |-> n, moved |-> 0, n |-> n, from |-> taken, had |-> Len(sunk)]
  /\ refused' = FALSE /\ nothing' = FALSE
  /\ IF op \in Counted /\ n = 0
     THEN Return(IF op = "sts_atmost_aux" THEN Failure("EINVAL") ELSE Success(0))
     ELSE GoesOn(IF op \in AuxOps THEN "read" ELSE "get")
  /\ buf' = <<>> /\ put' = 0
  /\ UNCHANGED <<policy, taken, sunk>>

(***************************************************************************)
(* Transfers with an auxiliary buffer.                                     *)
(***************************************************************************)

\* The octets one round asks the source for.
Wanted == IF call.op \in Counted THEN Lesser(AuxSize, call.rest) ELSE AuxSize

\* A defect the checks must notice: any call ends well with the source.
AuxFailureEndsWell(e) == IF e = "ENODATA" THEN Success(call.moved) ELSE Failure(e)

\* sts_drain_aux() ends with the source.
AuxFailure(e) ==
  IF call.op = "sts_drain_aux" /\ e = "ENODATA" THEN Success(call.moved) ELSE Failure(e)

ReadSome ==
  /\ pc = "read"
  /\ \E k \in 1 .. Lesser(Wanted - Len(buf), StreamLength - taken) :
       /\ buf' = buf \o Following(k)
       /\ taken' = taken + k
  /\ GoesOn(IF Len(buf') = Wanted THEN "write" ELSE "read")
  /\ UNCHANGED <<policy, sunk, put, call, refused, nothing>>

\* A defect the checks must notice: an error hides what was read before it.
AfterReadErrorExact(e) == Return(AuxFailure(e))

\* source_get_chunk_atmost(): an error after some octets is no error.
AfterReadError(e) == IF buf = <<>> THEN Return(AuxFailure(e)) ELSE GoesOn("write")

ReadFails ==
  /\ pc = "read"
  /\ \E a \in SourceAnswers : \E e \in Errors("source", a) : AfterReadError(e)
  /\ UNCHANGED <<policy, taken, sunk, buf, put, call, refused, nothing>>

\* A defect the checks must notice: after a part, the buffer's front is sent again.
UnsentFromFront(k) == SubSeq(buf, 1, k)

Unsent(k) == SubSeq(buf, put + 1, put + k)

\* The round is over: sts_n_aux() and sts_drain_aux() start another one.
RoundEnds ==
  LET m == Len(buf)
      again == \/ call.op = "sts_drain_aux"
               \/ call.op = "sts_n_aux" /\ call.rest > m
  IN  /\ call' = [call EXCEPT !.rest = IF call.op \in Counted THEN @ - m ELSE @, !.moved = @ + m]
      /\ buf' = <<>> /\ put' = 0
      /\ IF again THEN GoesOn("read") ELSE Return(Success(call.moved + m))

WriteSome ==
  /\ pc = "write"
  /\ \E k \in 1 .. Len(buf) - put :
       /\ sunk' = sunk \o Unsent(k)
       /\ \/ /\ put + k = Len(buf)
             /\ RoundEnds
          \/ /\ put + k < Len(buf)
             /\ put' = put + k
             /\ UNCHANGED <<buf, call, pc, result>>
  /\ UNCHANGED <<policy, taken, refused, nothing>>

WriteFails ==
  /\ pc = "write"
  /\ \E a \in SinkErrors : \E e \in Errors("sink", a) : Return(AuxFailure(e))
  /\ refused' = TRUE
  /\ UNCHANGED <<policy, taken, sunk, buf, put, call, nothing>>

(***************************************************************************)
(* Transfers by character: sts_cbc() in loops.                             *)
(***************************************************************************)

\* source_get_octet() that answers zero leaves the variable as it was, and
\* sts_cbc() passes it on.
GetOctet ==
  /\ pc = "get"
  /\ \/ /\ taken < StreamLength
        /\ buf' = Following(1)
        /\ taken' = taken + 1
        /\ UNCHANGED nothing
     \/ /\ "zero" \in SourceErrors
        /\ Len(SelectSeq(sunk, LAMBDA o : o = Garbage)) < MaxGarbage
        /\ buf' = <<Garbage>>
        /\ nothing' = TRUE
        /\ UNCHANGED taken
  /\ GoesOn("put")
  /\ UNCHANGED <<policy, sunk, put, call, refused>>

\* sts_atmost_cbc() returns what it has moved, be it after an error; sts_n() then
\* calls it again for the rest.
InnerEnds(moved, rest) ==
  IF call.op = "sts_atmost_cbc" THEN Return(Success(moved)) /\ UNCHANGED call
  ELSE /\ call' = [call EXCEPT !.rest = rest, !.moved = 0]
       /\ IF rest = 0 THEN Return(Success(call.n)) ELSE GoesOn("get")

\* sts_cbc() has returned rc, 1 or 0.
OctetEnds(rc) ==
  CASE call.op = "sts_n_cbc" ->
         /\ call' = [call EXCEPT !.rest = @ - 1]
         /\ IF call.rest = 1 THEN Return(Success(call.n)) ELSE GoesOn("get")
    [] call.op \in {"sts_drain_cbc", "sts_drain"} -> GoesOn("get") /\ UNCHANGED call
    [] call.op \in {"sts_atmost_cbc", "sts_n"} ->
         IF rc = 1 /\ call.moved + 1 < call.rest
         THEN call' = [call EXCEPT !.moved = @ + 1] /\ GoesOn("get")
         ELSE InnerEnds(call.moved + rc, call.rest - call.moved - rc)

\* A defect the checks must notice: sts_drain_cbc() goes on when a sink is full.
OctetFailsButFull(e) ==
  IF e = "ENOMEM" THEN GoesOn("get") /\ UNCHANGED call
  ELSE Return(Failure(e)) /\ UNCHANGED call

\* sts_cbc() has returned an error.  A full sink makes sts_n() go on, and
\* sts_drain() try a buffer of the source, which it does not have.
OctetFails(e) ==
  CASE call.op \in {"sts_n_cbc", "sts_drain_cbc"} -> Return(Failure(e)) /\ UNCHANGED call
    [] call.op = "sts_drain" ->
         Return(Failure(IF e = "ENOMEM" THEN "EPIPE" ELSE e)) /\ UNCHANGED call
    [] call.op \in {"sts_atmost_cbc", "sts_n"} ->
         IF call.moved > 0 THEN InnerEnds(call.moved, call.rest - call.moved)
         ELSE IF call.op = "sts_n" /\ e = "ENOMEM" THEN GoesOn("get") /\ UNCHANGED call
         ELSE Return(Failure(e)) /\ UNCHANGED call

GetFails ==
  /\ pc = "get"
  /\ \E a \in SourceAnswers \ {"zero"} : OctetFails(a)
  /\ UNCHANGED <<policy, taken, sunk, buf, put, refused, nothing>>

PutOctet ==
  /\ pc = "put"
  /\ sunk' = sunk \o buf
  /\ buf' = <<>>
  /\ OctetEnds(1)
  /\ UNCHANGED <<policy, taken, put, refused, nothing>>

PutNothing ==
  /\ pc = "put"
  /\ "zero" \in SinkErrors
  /\ nothing' = TRUE /\ refused' = TRUE
  /\ buf' = <<>>
  /\ OctetEnds(0)
  /\ UNCHANGED <<policy, taken, sunk, put>>

PutFails ==
  /\ pc = "put"
  /\ refused' = TRUE
  /\ buf' = <<>>
  /\ \E a \in SinkErrors \ {"zero"} : OctetFails(a)
  /\ UNCHANGED <<policy, taken, sunk, put, nothing>>

Next ==
  \/ \E op \in Ops, n \in 0 .. MaxCount : (op \notin Counted => n = 0) /\ Start(op, n)
  \/ ReadSome \/ ReadFails \/ WriteSome \/ WriteFails
  \/ GetOctet \/ GetFails \/ PutOctet \/ PutNothing \/ PutFails

Spec == Init /\ [][Next]_vars

(***************************************************************************)
(* Properties                                                              *)
(***************************************************************************)

\* No call, whatever its drivers answer, delivers an octet twice or out of order.
InOrder ==
  \A i, j \in 1 .. Len(sunk) :
    (i < j /\ sunk[i] # Garbage /\ sunk[j] # Garbage) => sunk[i] < sunk[j]

Delivered == SubSeq(sunk, call.had + 1, Len(sunk))
Taken     == [i \in 1 .. taken - call.from |-> call.from + i]
Done      == pc = "idle" /\ result.error = "none"

\* A call that returns a number of octets has delivered that many, the next ones
\* of the source and each of them, and for an exact transfer as many as it was
\* asked for.  Left out: transfers by character with drivers that return zero;
\* sts_n(), sts_atmost_cbc() and sts_drain_aux() with a sink that refused an octet.
SuccessIsExact ==
  (Done /\ ~nothing /\ (refused => call.op \notin {"sts_n", "sts_atmost_cbc", "sts_drain_aux"})) =>
    /\ Delivered = Taken
    /\ result.count = Len(Taken)
    /\ call.op \in {"sts_n", "sts_n_aux", "sts_n_cbc"} => result.count = call.n

\* Errors of the source lose nothing: unless the sink refused an octet, all that
\* was taken from the source is in the sink when a call returns, in error or not.
SourceFailureLosesNothing ==
  (pc = "idle" /\ ~refused) =>
    \A o \in call.from + 1 .. taken : \E i \in call.had + 1 .. Len(sunk) : sunk[i] = o

\* A call ends when the sink refuses an octet: what is lost is at most what the
\* call had taken ahead.
LossIsBounded ==
  (pc = "idle" /\ refused /\ ~nothing /\ call.op # "sts_n") =>
    Len(Taken) - Len(Delivered) <= IF call.op \in AuxOps THEN AuxSize ELSE 1

\* "drivers returning -EAGAIN are assumed to be in a temporary situation ..., and
\* thus the system will retry": an exact transfer that returns success has
\* delivered the next octets of the source.
TransferIsExact == (Done /\ ~nothing) => Delivered = Taken
================================================================================
