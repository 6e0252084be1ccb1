---------------------------- MODULE EndpointDrivers ----------------------------
(***************************************************************************)
(* The endpoints of the library that are made of memory: the drivers of    *)
(* src/endpoints/buffer.c for byte buffers and lists of them, and those of *)
(* src/endpoints/instrumentable.c, which fail when they are told to.  A    *)
(* buffer may be source and sink at the same time, as the tests of the     *)
(* register protocol have it.                                              *)
(*                                                                         *)
(* Endpoints takes from here what it assumes of a driver.                  *)
(***************************************************************************)
EXTENDS Integers, Sequences

CONSTANTS
  PipeSize,    \* size of the memory of the buffer
  OctetValues, \* the number of values an octet has
  Lists,       \* lists of byte buffers that a source is made of
  MaxAsked,    \* the most octets a driver is asked to transfer at once
  MaxAccesses  \* bound of the accesses that are counted

ASSUME PipeAssumption == PipeSize \in Nat \ {0} /\ OctetValues \in Nat \ {0} /\ MaxAsked \in Nat

\* The marks of each buffer of a list are in order, and size_t holds its size.
ASSUME ListsAssumption ==
  \A list \in Lists :
    /\ list \in Seq([data : Seq(0 .. OctetValues - 1), used : Nat, offset : Nat])
    /\ \A i \in 1 .. Len(list) :
         /\ list[i].offset <= list[i].used /\ list[i].used <= Len(list[i].data)
         /\ Len(list[i].data) < 4 * PipeSize

VARIABLES
  source,  \* the kind of the source
  sink,    \* the kind of the sink; none for a list
  pipe,    \* the InstrumentableBuffer; or a byte buffer, without the rest of it
  chunks,  \* the ByteChunks
  answer   \* what the last call of a driver was asked and returned

driverVars == <<source, sink, pipe, chunks, answer>>

D == INSTANCE ByteBuffer WITH Word <- 4 * PipeSize

EIO     == -5
EAGAIN  == -11
ENOMEM  == -12
ENODATA == -61

Code(errno) == IF errno = "ENODATA" THEN ENODATA ELSE ENOMEM
Smaller(a, b) == IF a < b THEN a ELSE b

\* What a driver returns, what it transferred, and the pipe behind the call.
Answer(rc, octets, p) == [rc |-> rc, octets |-> octets, pipe |-> p]

(***************************************************************************)
(* Byte buffers.                                                           *)
(***************************************************************************)

ReadBuffer(p, n) ==
  LET r == D!ConsumeAtMost(p.buf, n)
  IN  IF r.rc = "ok" THEN Answer(Len(r.out), r.out, [p EXCEPT !.buf = r.buf])
      ELSE Answer(Code(r.rc), <<>>, p)

WriteBuffer(p, data) ==
  LET r == D!Add(p.buf, data)
  IN  IF r.rc = "ok" THEN Answer(Len(data), data, [p EXCEPT !.buf = r.buf])
      ELSE Answer(Code(r.rc), <<>>, p)

\* The first buffer from the active one on that has something to read, or the end of the list.
NextActive(list) ==
  LET found == {i \in list.active .. Len(list.chunk) - 1 : D!Rest(list.chunk[i + 1]) > 0}
  IN  IF found = {} THEN Len(list.chunk) ELSE CHOOSE i \in found : \A j \in found : i <= j

\* read_from_chunks(); the list behind the call in place of the pipe.
ReadChunks(list, n) ==
  LET active == NextActive(list)
      r      == D!ConsumeAtMost(list.chunk[active + 1], n)
  IN  IF active = Len(list.chunk) THEN Answer(ENODATA, <<>>, [list EXCEPT !.active = active])
      ELSE Answer(Len(r.out), r.out,
                  [chunk |-> [list.chunk EXCEPT ![active + 1] = r.buf], active |-> active])

(***************************************************************************)
(* Instrumentable buffers.                                                 *)
(***************************************************************************)

NoError == [flag |-> "none", at |-> 0, number |-> 0]
Reset   == [error |-> NoError, accesses |-> 0]

\* init_ibuf()
Fresh == [buf |-> D!Space(D!Null, [i \in 1 .. PipeSize |-> 0]).buf,
          chunksize |-> 0, read |-> Reset, write |-> Reset]

\* The access is counted, and fails if it is told to; filled is what is compared with
\* the place of a failure.
Forced(end, filled) ==
  \/ end.error.flag = "until success" /\ end.accesses < end.error.at
  \/ end.error.flag = "until failure" /\ filled >= end.error.at

CountRead(p)  == [p EXCEPT !.read.accesses = @ + 1]
CountWrite(p) == [p EXCEPT !.write.accesses = @ + 1]

ReadOctet(p) ==
  IF Forced(p.read, p.buf.offset) THEN Answer(p.read.error.number, <<>>, CountRead(p))
  ELSE ReadBuffer(CountRead(p), 1)

\* The place of a failure is compared with the fill mark here, not with the process mark.
ReadBlock(p, n) ==
  IF Forced(p.read, p.buf.used) THEN Answer(p.read.error.number, <<>>, CountRead(p))
  ELSE ReadBuffer(CountRead(p), Smaller(n, p.chunksize))

WriteOctet(p, data) ==
  IF Forced(p.write, p.buf.used) THEN Answer(p.write.error.number, <<>>, CountWrite(p))
  ELSE WriteBuffer(CountWrite(p), data)

WriteBlock(p, data) ==
  IF Forced(p.write, p.buf.used) THEN Answer(p.write.error.number, <<>>, CountWrite(p))
  ELSE WriteBuffer(CountWrite(p), SubSeq(data, 1, Smaller(Len(data), p.chunksize)))

(***************************************************************************)
(* source_read() and sink_write(): one call of a driver for chunks, or     *)
(* calls of one for octets, until one of them transfers nothing.           *)
(***************************************************************************)

\* A defect the checks must notice: octets that were moved are left out of the answer.
AdaptedAtOnce(a) == IF a.rc = 0 THEN [a EXCEPT !.rc = EAGAIN] ELSE a

\* What a number of calls returns, of which a.rc is the last one's.
Adapted(a) ==
  IF a.octets # <<>> THEN [a EXCEPT !.rc = Len(a.octets)]
  ELSE IF a.rc = 0 THEN [a EXCEPT !.rc = EAGAIN] ELSE a

\* The calls a, and another one that returns r.
Behind(a, r) == [r EXCEPT !.octets = a.octets \o @]

\* source_adapt()
ReadOctets(p, n) ==
  LET More(a)         == IF a.rc > 0 THEN Behind(a, ReadOctet(a.pipe)) ELSE a
      calls[k \in 0 .. n] == IF k = 0 THEN Answer(1, <<>>, p) ELSE More(calls[k - 1])
  IN  Adapted(calls[n])

\* sink_adapt()
WriteOctets(p, data) ==
  LET More(a, k)      == IF a.rc > 0 THEN Behind(a, WriteOctet(a.pipe, <<data[k]>>)) ELSE a
      calls[k \in 0 .. Len(data)] ==
        IF k = 0 THEN Answer(1, <<>>, p) ELSE More(calls[k - 1], k)
  IN  Adapted(calls[Len(data)])

\* source_read()
Read(n) ==
  /\ pipe.read.accesses < MaxAccesses
  /\ \E r \in {CASE source = "chunks" -> ReadChunks(chunks, n)
                 [] source = "buffer" -> ReadBuffer(pipe, n)
                 [] source = "octet"  -> ReadOctets(pipe, n)
                 [] source = "block"  -> ReadBlock(pipe, n)} :
       /\ answer' = [op |-> "read", n |-> n, rc |-> r.rc, octets |-> r.octets]
       /\ IF source = "chunks" THEN chunks' = r.pipe /\ UNCHANGED pipe
          ELSE pipe' = r.pipe /\ UNCHANGED chunks
  /\ UNCHANGED <<source, sink>>

\* sink_write(); the caller takes the octets for written that it was told of.
Write(data) ==
  /\ sink # "none"
  /\ pipe.write.accesses < MaxAccesses
  /\ \E r \in {CASE sink = "buffer" -> WriteBuffer(pipe, data)
                 [] sink = "octet"  -> WriteOctets(pipe, data)
                 [] sink = "block"  -> WriteBlock(pipe, data)} :
       /\ answer' = [op |-> "write", n |-> 0, rc |-> r.rc, octets |-> SubSeq(data, 1, r.rc)]
       /\ pipe' = r.pipe
  /\ UNCHANGED <<source, sink, chunks>>

(***************************************************************************)
(* The owner of the memory.                                                *)
(***************************************************************************)

Instrumented == "octet" \in {source, sink} \/ "block" \in {source, sink}

Owner(op, p) ==
  /\ pipe' = p
  /\ answer' = [op |-> op, n |-> 0, rc |-> 0, octets |-> <<>>]
  /\ UNCHANGED <<source, sink, chunks>>

\* Room for what the sink gets.
Compact == sink # "none" /\ Owner("rewind", [pipe EXCEPT !.buf = D!Rewind(@).buf])

\* instrumentable_source() and instrumentable_sink()
Attach == Instrumented /\ Owner("attach", Fresh)

Chunksize(n) == Instrumented /\ Owner("set", [pipe EXCEPT !.chunksize = n])

\* Bound: one end is told to fail at a time.
Tell(error) ==
  Instrumented /\ \/ Owner("set", [pipe EXCEPT !.read.error = error, !.write.error = NoError])
                  \/ Owner("set", [pipe EXCEPT !.write.error = error, !.read.error = NoError])

ResetStats ==
  Instrumented /\ \/ Owner("set", [pipe EXCEPT !.read.accesses = 0])
                  \/ Owner("set", [pipe EXCEPT !.write.accesses = 0])

\* What instrumentable_until_error_at(), _until_success_at() and _reset_error() set.
Orders == {NoError} \cup [flag : {"until success", "until failure"}, at : 1 .. PipeSize,
                          number : {0, EIO}]

DriverInit ==
  /\ \/ source = "chunks" /\ sink = "none" /\ chunks \in [chunk : Lists, active : {0}]
     \/ /\ source \in {"buffer", "octet", "block"} /\ sink \in {"buffer", "octet", "block"}
        /\ chunks = [chunk |-> <<>>, active |-> 0]
  /\ pipe = Fresh
  /\ answer = [op |-> "none", n |-> 0, rc |-> 0, octets |-> <<>>]

DriverNext ==
  \/ \E n \in 1 .. MaxAsked : Read(n)
  \/ \E n \in 1 .. MaxAsked : \E data \in [1 .. n -> 0 .. OctetValues - 1] : Write(data)
  \/ Compact \/ Attach \/ ResetStats
  \/ \E n \in 0 .. MaxAsked : Chunksize(n)
  \/ \E error \in Orders : Tell(error)

DriverSpec == DriverInit /\ [][DriverNext]_driverVars

(***************************************************************************)
(* Properties                                                              *)
(***************************************************************************)

UnreadOf(b) == D!Unread(b, D!Rest(b))

\* The octets of a list, from each of its buffers on.
Remainders(chunk) ==
  LET from[i \in 0 .. Len(chunk)] ==
        IF i = Len(chunk) THEN <<>> ELSE UnreadOf(chunk[i + 1]) \o from[i + 1]
  IN  from

\* The octets the source has yet to give.
Left ==
  IF source = "chunks" THEN Remainders(chunks.chunk)[chunks.active] ELSE UnreadOf(pipe.buf)

\* What source_read(), sink_write() and all that is built on them rest on: a driver that
\* returns a number transferred so many octets of what it was asked for, in order; one
\* that returns zero or an error has done nothing, whatever it moved inside; and a source
\* returns ENODATA, for which transfers stop, only if nothing is left, also if parts of
\* it are empty.
DriversKeepContract ==
  [][CASE answer'.op = "read" /\ answer'.rc > 0 ->
            /\ answer'.rc = Len(answer'.octets) /\ answer'.rc <= answer'.n
            /\ Left = answer'.octets \o Left'
       [] answer'.op = "read" /\ answer'.rc <= 0 ->
            /\ Left' = Left
            /\ answer'.rc = ENODATA => Left = <<>>
       [] answer'.op = "write" ->
            Left' = Left \o answer'.octets
       [] answer'.op = "attach" -> Left' = <<>>
       [] OTHER -> Left' = Left]_driverVars
================================================================================
