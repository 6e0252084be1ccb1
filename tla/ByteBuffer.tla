------------------------------ MODULE ByteBuffer ------------------------------
(***************************************************************************)
(* The operations of src/byte-buffer.c on a ByteBuffer: memory, of which   *)
(* the first "used" octets are filled and the first "offset" of those have *)
(* been processed.  An operation yields the return code, the buffer behind *)
(* the call, and the octets it copied out.  The size of the memory is the  *)
(* length of data; the null buffer has none.                               *)
(***************************************************************************)
EXTENDS Integers, Sequences

CONSTANT Word  \* size_t wraps around here

Size(b) == Len(b.data)

Succeeds(b)       == [rc |-> "ok", buf |-> b, out |-> <<>>]
Extracts(b, out)  == [rc |-> "ok", buf |-> b, out |-> out]
Refuses(b, errno) == [rc |-> errno, buf |-> b, out |-> <<>>]

\* memcpy() of a chunk to position at of the memory.
Patch(data, at, chunk) ==
  [i \in DOMAIN data |-> IF i \in at + 1 .. at + Len(chunk) THEN chunk[i - at] ELSE data[i]]

Null == [data |-> <<>>, used |-> 0, offset |-> 0]

Set(b, data, used, offset) ==
  IF data = <<>> \/ used > Len(data) \/ offset > used
  THEN Refuses(b, "EINVAL")
  ELSE Succeeds([data |-> data, used |-> used, offset |-> offset])

Use(b, data)   == Set(b, data, Len(data), 0)
Space(b, data) == Set(b, data, 0, 0)

\* Differences of size_t: they wrap around when the marks are in the wrong order.
Avail(b) == (Size(b) - b.used) % Word
Rest(b)  == (b.used - b.offset) % Word

\* A defect the checks must notice: the room is taken to start at the process mark.
AddRoomFromMark(b, chunk) ==
  IF Size(b) < b.offset + Len(chunk) THEN Refuses(b, "ENOMEM")
  ELSE Succeeds([b EXCEPT !.data = Patch(@, b.used, chunk), !.used = @ + Len(chunk)])

Add(b, chunk) ==
  IF Size(b) < b.used + Len(chunk) THEN Refuses(b, "ENOMEM")
  ELSE Succeeds([b EXCEPT !.data = Patch(@, b.used, chunk), !.used = @ + Len(chunk)])

GetPos(b) == [used |-> b.used, offset |-> b.offset]

SetPos(b, pos) ==
  IF pos.offset >= Size(b) \/ pos.used > Size(b) THEN Refuses(b, "EINVAL")
  ELSE Succeeds([b EXCEPT !.used = pos.used, !.offset = pos.offset])

\* The pointers are positions; NULL is -1.
ReadPtr(b)  == IF b.offset >= Size(b) THEN -1 ELSE b.offset
WritePtr(b) == IF b.used >= Size(b) THEN -1 ELSE b.used

MarkRead(b, n) ==
  IF n > Rest(b) THEN Refuses(b, "ENOMEM") ELSE Succeeds([b EXCEPT !.offset = @ + n])

Unread(b, n) == SubSeq(b.data, b.offset + 1, b.offset + n)

Consume(b, n) ==
  IF n > Rest(b) THEN Refuses(b, "ENODATA")
  ELSE Extracts([b EXCEPT !.offset = @ + n], Unread(b, n))

ConsumeAtMost(b, n) ==
  LET m == IF n > Rest(b) THEN Rest(b) ELSE n
  IN  IF Rest(b) = 0 THEN Refuses(b, "ENODATA")
      ELSE Extracts([b EXCEPT !.offset = @ + m], Unread(b, m))

\* A defect the checks must notice: the octets move, the mark of their end does not.
RewindKeepsUsed(b) ==
  IF b.data = <<>> THEN Refuses(b, "EINVAL")
  ELSE Succeeds([b EXCEPT !.data = Patch(@, 0, Unread(b, Rest(b))), !.offset = 0])

\* memmove() of the unread octets to the front, unless they are there.
Rewind(b) ==
  IF b.data = <<>> THEN Refuses(b, "EINVAL")
  ELSE IF b.offset = 0 THEN Succeeds(b)
  ELSE Succeeds([data |-> Patch(b.data, 0, Unread(b, Rest(b))), used |-> Rest(b), offset |-> 0])

Reset(b) == [b EXCEPT !.used = 0, !.offset = 0]

Clear(b) == [Reset(b) EXCEPT !.data = [i \in DOMAIN b.data |-> 0]]

Repeat(b) == [b EXCEPT !.offset = 0]

\* An octet has Base values; adding to an unsigned char wraps around.
FillX(b, init, increment, Base) ==
  [b EXCEPT !.data = [i \in DOMAIN b.data |-> (init + (i - 1) * increment) % Base],
            !.used = Size(b)]

Fill(b, datum) ==
  [b EXCEPT !.data = [i \in DOMAIN b.data |-> datum], !.used = Size(b)]

\* The callback produces chunk, beginning at position at, and then either the
\* memory ends or the callback returns an error.
FillCb(b, at, chunk) ==
  [data |-> Patch(b.data, at, chunk), used |-> at + Len(chunk), offset |-> at]
================================================================================
