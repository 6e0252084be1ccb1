---------------------------- MODULE ByteBufferUser ----------------------------
(***************************************************************************)
(* A user of one ByteBuffer who calls its operations in any order, and may *)
(* return to a position that was saved at any earlier time.                *)
(***************************************************************************)
EXTENDS Integers, Sequences

CONSTANTS BufferSize,  \* size of the buffer's memory
          Base,        \* an octet has the values 0 .. Base - 1
          SizeWord     \* size_t wraps around here

ASSUME BufferAssumption ==
  BufferSize \in Nat \ {0} /\ Base \in Nat \ {0} /\ SizeWord \in Nat /\ SizeWord > 2 * BufferSize

VARIABLES buf,    \* the ByteBuffer
          saved,  \* the ByteBufferPos
          call    \* what was called, and what the caller saw of it

bufferVars == <<buf, saved, call>>

B == INSTANCE ByteBuffer WITH Word <- SizeWord

Octet  == 0 .. Base - 1
Chunks == UNION {[1 .. n -> Octet] : n \in 0 .. BufferSize + 1}
Counts == 0 .. BufferSize + 1

BufferInit ==
  /\ buf = B!Space(B!Null, [i \in 1 .. BufferSize |-> 0]).buf
  /\ saved = B!GetPos(B!Null)
  /\ call = [op |-> "none", rc |-> "ok", octets |-> <<>>]

\* A call with the result r.
Call(op, r, octets) ==
  /\ buf' = r.buf
  /\ call' = [op |-> op, rc |-> r.rc, octets |-> IF r.rc = "ok" THEN octets ELSE <<>>]
  /\ UNCHANGED saved

CallVoid(op, b) == Call(op, B!Succeeds(b), <<>>)

Save ==
  /\ saved' = B!GetPos(buf)
  /\ UNCHANGED <<buf, call>>

BufferNext ==
  \/ \E chunk \in Chunks : Call("add", B!Add(buf, chunk), chunk)
  \/ \E n \in Counts :
       \/ LET r == B!Consume(buf, n) IN Call("consume", r, r.out)
       \/ LET r == B!ConsumeAtMost(buf, n) IN Call("consume_at_most", r, r.out)
       \/ Call("markread", B!MarkRead(buf, n), <<>>)
  \/ Call("rewind", B!Rewind(buf), <<>>)
  \/ CallVoid("reset", B!Reset(buf))
  \/ CallVoid("reset", B!Clear(buf))
  \/ CallVoid("repeat", B!Repeat(buf))
  \/ \E datum \in Octet : CallVoid("fill", B!Fill(buf, datum))
  \/ \E init, increment \in Octet : CallVoid("fill", B!FillX(buf, init, increment, Base))
  \/ \E at \in 0 .. BufferSize : \E chunk \in Chunks :
       /\ at + Len(chunk) <= BufferSize
       /\ Call("fill_cb", B!Succeeds(B!FillCb(buf, at, chunk)), chunk)
  \/ Save
  \/ Call("setpos", B!SetPos(buf, saved), <<>>)

BufferSpec == BufferInit /\ [][BufferNext]_bufferVars

(***************************************************************************)
(* Properties                                                              *)
(***************************************************************************)

\* The marks stay in order and inside of the memory, whatever the calls and
\* however old the position that is restored: byte_buffer_rest() and
\* byte_buffer_avail() do not wrap around, and what byte_buffer_readptr() and
\* byte_buffer_writeptr() hand out has as many octets behind it as they say.
BufferFits ==
  /\ buf.offset <= buf.used /\ buf.used <= BufferSize
  /\ B!Rest(buf) + B!Avail(buf) <= BufferSize
  /\ B!WritePtr(buf) = -1 <=> B!Avail(buf) = 0
  /\ B!ReadPtr(buf) = -1 => B!Rest(buf) = 0

Tape == INSTANCE OctetTape
          WITH Capacity <- BufferSize, log <- SubSeq(buf.data, 1, buf.used), mark <- buf.offset

\* byte_buffer_add(), _consume(), _rewind() and the others implement a log with a
\* mark: what is copied out is what was appended, in order, through every move of
\* the octets in memory, and a call that fails changes nothing.
ImplementsTape == Tape!TapeSpec
================================================================================
