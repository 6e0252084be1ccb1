----------------------------- MODULE LengthPrefix -----------------------------
(***************************************************************************)
(* Length prefix framing, src/length-prefix.c: a sender puts frames, each  *)
(* behind the number of its octets, into a reliable channel, from which a  *)
(* receiver takes them.  The sender's sink and the receiver's source may   *)
(* fail at any octet; what was transferred until then stays transferred.   *)
(*                                                                         *)
(* A call is a sequence of chunks to put, or of reads; between two of them *)
(* the other party runs.  An octet has the values 0 .. Values - 1.         *)
(***************************************************************************)
EXTENDS Integers, Sequences

CONSTANTS
  Values,      \* the number of values an octet has
  SSizeMax,    \* SSIZE_MAX
  Payloads,    \* what the user sends from memory
  Chunkings,   \* the lists of chunks the user sends
  Buffers,     \* the byte buffers the user sends from
  Room,        \* size of the receiver's memory
  MaxFrames,   \* bound of the frames that are on their way
  MaxWire      \* bound of the octets on the wire at the beginning of another frame

ASSUME ValuesAssumption == Values \in Nat /\ Values >= 4 /\ MaxFrames \in Nat /\ MaxWire \in Nat

\* Octets are numbers, and a buffer's marks are in its memory or not.
ASSUME InputAssumption ==
  /\ Payloads \subseteq Seq(Nat) /\ Chunkings \subseteq Seq(Seq(Nat))
  /\ Buffers \subseteq [data : Seq(Nat), used : Nat, offset : Nat]

VARIABLES
  kind,     \* the LengthPrefixKind of both parties
  outbuf,   \* the byte buffer of the sender
  pending,  \* chunks that the sender's call has still to put
  partly,   \* some of that call's octets are in the channel
  wire,     \* octets that were sent and not read
  reading,  \* the receiver's call: what it reads next
  due,      \* history: payloads of frames that are on their way, oldest first
  match,    \* history: every payload that was returned was the oldest due one
  sync      \* history: no call was left in the middle of a frame

lenpVars == <<kind, outbuf, pending, partly, wire, reading, due, match, sync>>

SizeWord == 2 * (SSizeMax + 1)

\* uint64_t is eight octets wide.
Wide == LET square == Values * Values IN (square * square) * (square * square)

F == INSTANCE BinaryFormat
V == INSTANCE Varint WITH DataValues <- Values \div 2, Narrow <- Values, NarrowOctets <- 4,
                          Wide <- Wide, WideOctets <- 10, SizeMax <- SizeWord
B == INSTANCE ByteBuffer WITH Word <- SizeWord

\* A size_t holds more than VARINT_64BIT_MAX_OCTETS, of which no size needs more.
ASSUME PrefixAssumption ==
  /\ SSizeMax \in Nat /\ SizeWord > 10
  /\ \A n \in 0 .. SSizeMax : n < Wide /\ V!Length(n) <= 10

Kinds == {"VARIABLE", "OCTET", "LE_16BIT", "LE_32BIT", "BE_16BIT", "BE_32BIT"}
Host  == "little"

\* The table kind[]: octets of the prefix, and the largest number in it.
PrefixSize(k) == CASE k = "OCTET" -> 1
                   [] k \in {"LE_16BIT", "BE_16BIT"} -> 2
                   [] k \in {"LE_32BIT", "BE_32BIT"} -> 4
                   [] OTHER -> 0

\* A defect the checks must notice: one number too many is allowed.
MaximumPlusOne(k) ==
  CASE PrefixSize(k) = 1 -> Values
    [] PrefixSize(k) = 2 -> Values * Values
    [] PrefixSize(k) = 4 -> (Values * Values) * (Values * Values)
    [] OTHER -> 1

Maximum(k) ==
  CASE PrefixSize(k) = 1 -> Values - 1
    [] PrefixSize(k) = 2 -> Values * Values - 1
    [] PrefixSize(k) = 4 -> (Values * Values) * (Values * Values) - 1
    [] OTHER -> 0

\* The C integer a number is.
Digits(n, w) ==
  LET left[i \in 0 .. w] == IF i = 0 THEN n ELSE left[i - 1] \div Values
  IN  [i \in 1 .. w |-> left[i - 1] % Values]

Generate(k, n) ==
  LET w   == PrefixSize(k)
      mem == [i \in 1 .. w |-> 0]
  IN  CASE k = "OCTET" -> <<n % Values>>
        [] k \in {"LE_16BIT", "LE_32BIT"} -> F!SetUnsignedLittle(mem, 0, w, Host, Digits(n, w))
        [] k \in {"BE_16BIT", "BE_32BIT"} -> F!SetUnsignedBig(mem, 0, w, Host, Digits(n, w))
        [] k = "VARIABLE" -> V!ToSink(n, 64)

\* encode_prefix() refuses such a number.
TooLong(k, n) == n > SSizeMax \/ (k # "VARIABLE" /\ n > Maximum(k))

\* flenp_*_to_sink() wants to return the octets of prefix and payload.
TooLongToReport(k, n) == n > SSizeMax - Len(Generate(k, n))

Joined(chunks) ==
  LET join[i \in 0 .. Len(chunks)] == IF i = 0 THEN <<>> ELSE join[i - 1] \o chunks[i]
  IN  join[Len(chunks)]

\* The chunks that have octets.
Filled(chunks) ==
  LET filled[i \in 0 .. Len(chunks)] ==
        IF i = 0 THEN <<>>
        ELSE IF chunks[i] = <<>> THEN filled[i - 1] ELSE Append(filled[i - 1], chunks[i])
  IN  filled[Len(chunks)]

LenpInit ==
  /\ kind \in Kinds
  /\ outbuf = B!Null
  /\ pending = <<>> /\ partly = FALSE
  /\ wire = <<>>
  /\ reading = [step |-> "idle"]
  /\ due = <<>>
  /\ match = TRUE /\ sync = TRUE

(***************************************************************************)
(* The sender.                                                             *)
(***************************************************************************)

\* A frame without payload is nothing the receiver gets to see.
Frame(payload) == IF payload = <<>> THEN <<>> ELSE <<payload>>

Unless(refused, chunks) ==
  LET payload == Joined(chunks)
  IN  /\ pending = <<>> /\ Len(due) < MaxFrames /\ Len(wire) <= MaxWire
      /\ IF refused \/ TooLong(kind, Len(payload)) THEN UNCHANGED <<pending, due>>
         ELSE /\ pending' = <<Generate(kind, Len(payload))>> \o chunks
              /\ due' = due \o Frame(payload)
      /\ UNCHANGED <<kind, partly, wire, reading, match, sync>>

ToSinkUnless(refused, chunks) ==
  Unless(refused \/ TooLongToReport(kind, Len(Joined(chunks))), chunks)

\* flenp_memory_to_sink(); flenp_memory_encode() by a user who then puts prefix and
\* payload into the sink, who gets no payload to put when there is none.
SendMemory(payload) == ToSinkUnless(FALSE, <<payload>>) /\ UNCHANGED outbuf

EncodeMemory(payload) == Unless(payload = <<>>, <<payload>>) /\ UNCHANGED outbuf

\* flenp_chunks_to_sink(); flenp_chunks_use() by a user who puts what is to be put.
SendChunks(chunks) == ToSinkUnless(FALSE, chunks) /\ UNCHANGED outbuf

EncodeChunks(chunks) ==
  Unless(FALSE, Filled(chunks)) /\ UNCHANGED outbuf

\* The user's buffer gets new contents.
Fill(b) ==
  /\ pending = <<>>
  /\ outbuf' = b
  /\ UNCHANGED <<kind, pending, partly, wire, reading, due, match, sync>>

\* The calls that send from the buffer do not look whether its process mark is
\* inside: the user does.
Readable == B!ReadPtr(outbuf) # -1

\* Memory from the process mark on.  Behind the end of the buffer it is not the
\* buffer's: an octet there is taken to be 0.
Marked(n) ==
  [i \in 1 .. n |-> IF outbuf.offset + i <= B!Size(outbuf) THEN outbuf.data[outbuf.offset + i] ELSE 0]

\* flenp_buffer_to_sink() sends as many octets as there is room in the buffer.
SendBuffer == ToSinkUnless(FALSE, <<Marked(B!Avail(outbuf))>>) /\ UNCHANGED outbuf

\* flenp_buffer_to_sink_n() does as well, if n is not larger; the mark moves on also
\* when nothing could be sent.
SendBufferN(n) ==
  /\ ToSinkUnless(n > B!Avail(outbuf), <<Marked(B!Avail(outbuf))>>)
  /\ outbuf' = IF n > B!Avail(outbuf) THEN outbuf ELSE [outbuf EXCEPT !.offset = @ + B!Avail(outbuf)]

EncodeBuffer ==
  /\ LET n == B!Rest(outbuf)
     IN  Unless(n = 0, <<Marked(n)>>)
  /\ UNCHANGED outbuf

\* flenp_buffer_encode_n() marks all of the rest as processed.
EncodeBufferN(n) ==
  LET rest == B!Rest(outbuf)
  IN  /\ Unless(n = 0 \/ n > rest, <<Marked(n)>>)
      /\ outbuf' = IF n > rest THEN outbuf ELSE [outbuf EXCEPT !.offset = (@ + rest) % SizeWord]

\* sink_put_chunk() of the next chunk.  One without octets ends the call with 0, and
\* what comes behind it is not sent.
PutChunk ==
  LET stops == Head(pending) = <<>>
      rest  == IF stops THEN <<>> ELSE Tail(pending)
  IN  /\ pending # <<>>
      /\ wire' = wire \o Head(pending)
      /\ pending' = rest
      /\ partly' = (rest # <<>>)
      /\ sync' = (sync /\ (stops => Joined(Tail(pending)) = <<>>))
      /\ UNCHANGED <<kind, outbuf, reading, due, match>>

\* The sink takes k octets of the chunk and fails.  Nothing of the frame is on its
\* way if those are none of the first chunk.
PutFails(k) ==
  LET whole == Joined(Tail(pending))
  IN  /\ pending # <<>> /\ k < Len(Head(pending))
      /\ wire' = wire \o SubSeq(Head(pending), 1, k)
      /\ pending' = <<>> /\ partly' = FALSE
      /\ due' = IF ~partly /\ whole # <<>> THEN SubSeq(due, 1, Len(due) - 1) ELSE due
      /\ sync' = (sync /\ k = 0 /\ ~partly)
      /\ UNCHANGED <<kind, outbuf, reading, match>>

(***************************************************************************)
(* The receiver.  Its source has the octets on the wire; when those are    *)
(* not enough it waits for more, or fails.                                 *)
(***************************************************************************)

Drop(n) == wire' = SubSeq(wire, n + 1, Len(wire))

\* decode_prefix(): how it ends, the length, and the octets it takes.
Prefix ==
  LET w == PrefixSize(kind)
  IN  IF kind = "VARIABLE" THEN V!FromSource(wire, 64, "EIO")
      ELSE IF Len(wire) < w THEN [rc |-> "EIO", n |-> 0, taken |-> Len(wire)]
      ELSE [rc |-> "ok", taken |-> w, n |->
              CASE w = 1 -> wire[1]
                [] kind \in {"LE_16BIT", "LE_32BIT"} -> F!Number(F!RefUnsignedLittle(wire, 0, w, Host))
                [] kind \in {"BE_16BIT", "BE_32BIT"} -> F!Number(F!RefUnsignedBig(wire, 0, w, Host))]

\* flenp_memory_from_source() and flenp_buffer_from_source() refuse frames that do
\* not fit, and leave the payload in the source; source_get_chunk() refuses empty
\* ones.  The sink of flenp_decode_source_to_sink() is asked later.
ReadPrefix(op) ==
  LET p == Prefix
  IN  /\ reading.step = "idle"
      /\ p.rc # "EIO"
      /\ Drop(p.taken)
      /\ reading' = IF p.rc = "ok" /\ (op = "sink" \/ p.n <= Room) /\ p.n > 0
                    THEN [step |-> "payload", op |-> op, n |-> p.n]
                    ELSE reading
      /\ sync' = (sync /\ p.rc = "ok" /\ (op = "sink" \/ p.n <= Room))
      /\ UNCHANGED <<kind, outbuf, pending, partly, due, match>>

PrefixFails(k) ==
  /\ reading.step = "idle"
  /\ k <= Len(wire) /\ (Prefix.rc # "EIO" => k < Prefix.taken)
  /\ Drop(k)
  /\ sync' = (sync /\ k = 0)
  /\ UNCHANGED <<kind, outbuf, pending, partly, reading, due, match>>

\* A buffer gets the payload at its process mark, which moves behind it.
ReadPayload ==
  /\ reading.step = "payload"
  /\ reading.op = "sink" => reading.n <= Room
  /\ Len(wire) >= reading.n
  /\ match' = (match /\ due # <<>> /\ Head(due) = SubSeq(wire, 1, reading.n))
  /\ due' = IF due = <<>> THEN due ELSE Tail(due)
  /\ Drop(reading.n)
  /\ reading' = [step |-> "idle"]
  /\ UNCHANGED <<kind, outbuf, pending, partly, sync>>

PayloadFails(k) ==
  /\ reading.step = "payload"
  /\ k <= Len(wire) /\ k < reading.n
  /\ Drop(k)
  /\ reading' = [step |-> "idle"]
  /\ sync' = FALSE
  /\ UNCHANGED <<kind, outbuf, pending, partly, due, match>>

\* sts_n() with a sink that is full: it throws octets away until the source fails,
\* the end of the frame notwithstanding.
SinkIsFull ==
  /\ reading.step = "payload" /\ reading.op = "sink"
  /\ reading.n > Room /\ Len(wire) > Room
  /\ Drop(Len(wire))
  /\ reading' = [step |-> "idle"]
  /\ sync' = FALSE
  /\ UNCHANGED <<kind, outbuf, pending, partly, due, match>>

\* Whoever notices that a frame was torn opens another connection.
Reconnect ==
  /\ ~sync
  /\ outbuf' = B!Null
  /\ pending' = <<>> /\ partly' = FALSE /\ wire' = <<>>
  /\ reading' = [step |-> "idle"]
  /\ due' = <<>> /\ sync' = TRUE
  /\ UNCHANGED <<kind, match>>

SenderNext ==
  \/ \E payload \in Payloads : SendMemory(payload) \/ EncodeMemory(payload)
  \/ \E chunks \in Chunkings : SendChunks(chunks) \/ EncodeChunks(chunks)
  \/ \E b \in Buffers : Fill(b)
  \/ Readable /\ (SendBuffer \/ EncodeBuffer)
  \/ \E n \in 0 .. 3 : Readable /\ (SendBufferN(n) \/ EncodeBufferN(n))
  \/ PutChunk
  \/ \E k \in 0 .. 2 : PutFails(k)

ReceiverNext ==
  \/ \E op \in {"memory", "sink"} : ReadPrefix(op)
  \/ ReadPayload
  \/ \E k \in 0 .. 3 : PrefixFails(k) \/ PayloadFails(k)
  \/ SinkIsFull

LenpNext ==
  \/ sync /\ (SenderNext \/ ReceiverNext)
  \/ Reconnect

LenpSpec == LenpInit /\ [][LenpNext]_lenpVars

(***************************************************************************)
(* Properties                                                              *)
(***************************************************************************)

\* As long as no call ended in the middle of a frame, flenp_*_from_source() and
\* flenp_decode_source_to_sink() return the payloads that flenp_*_to_sink() sent,
\* each of them once, whole and in order, whatever kind of prefix is in use, however
\* the parties' steps mix, and though other calls were refused; nothing is left over.
FramesArrive ==
  sync => /\ match
          /\ (pending = <<>> /\ wire = <<>> /\ reading.step = "idle") => due = <<>>
================================================================================
