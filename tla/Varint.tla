-------------------------------- MODULE Varint --------------------------------
(***************************************************************************)
(* Variable length integers, src/variable-length-integer.c: octets that    *)
(* each carry a digit of the number, the least significant first, and all  *)
(* but the last one the continuation bit.  An octet is a number; those of  *)
(* DataValues and above have the continuation bit set.  Narrow and Wide    *)
(* integers stand for those of 32 and of 64 bits.  Digits of the longest   *)
(* encodings that do not fit into the integer are lost.                    *)
(***************************************************************************)
EXTENDS Integers, Sequences

CONSTANTS
  DataValues,    \* VARINT_DATA_MASK + 1
  Narrow,        \* where uint32_t wraps around
  NarrowOctets,  \* VARINT_32BIT_MAX_OCTETS
  Wide,          \* where uint64_t wraps around
  WideOctets,    \* VARINT_64BIT_MAX_OCTETS
  SizeMax        \* where size_t wraps around

BB == INSTANCE ByteBuffer WITH Word <- SizeMax

MaxOctets(bits) == IF bits = 32 THEN NarrowOctets ELSE WideOctets
Modulus(bits)   == IF bits = 32 THEN Narrow ELSE Wide

Done(octet) == octet < DataValues

\* What is left of a number behind each of its octets.
Left(n) ==
  LET left[i \in 0 .. n + 1] == IF i = 0 THEN n ELSE left[i - 1] \div DataValues
  IN  left

\* Behind the last octet nothing is left.
Length(n) == CHOOSE i \in 1 .. n + 1 : Left(n)[i] = 0 /\ (i > 1 => Left(n)[i - 1] # 0)

OctetsOf(n) ==
  [i \in 1 .. Length(n) |->
     (Left(n)[i - 1] % DataValues) + (IF i < Length(n) THEN DataValues ELSE 0)]

\* Two's complement: the unsigned integer that shares the union, and back.
Unsigned(n, bits) == n % Modulus(bits)
SignedOf(u, bits) == IF u >= Modulus(bits) \div 2 THEN u - Modulus(bits) ELSE u

\* The octets go to the process mark and end what is used, though the room for
\* them is looked for behind what is used.
Encode(b, u, bits) ==
  LET octets == OctetsOf(u)
  IN  IF BB!Avail(b) < MaxOctets(bits) THEN BB!Refuses(b, "EINVAL")
      ELSE [rc |-> Len(octets),
            buf |-> [b EXCEPT !.data = BB!Patch(@, b.offset, octets),
                              !.used = b.offset + Len(octets)],
            out |-> <<>>]

\* The number in the first octets of a sequence, and how many octets that are;
\* none if all of them want to be continued.
Ends(octets, max) == {i \in 1 .. max : i <= Len(octets) /\ Done(octets[i])}

NumberIn(octets, n, bits) ==
  LET from[i \in 1 .. n + 1] ==
        IF i > n THEN 0 ELSE (octets[i] % DataValues) + DataValues * from[i + 1]
  IN  from[1] % Modulus(bits)

\* The first of the octets that ends the number.
EndOf(octets, max) == CHOOSE i \in Ends(octets, max) : \A j \in Ends(octets, max) : i <= j

\* varint_decode() looks at the memory from the process mark on, whatever is used.
Decode(b, bits) ==
  LET octets == SubSeq(b.data, b.offset + 1, Len(b.data))
      n      == EndOf(octets, MaxOctets(bits))
  IN  IF Ends(octets, MaxOctets(bits)) = {} THEN [rc |-> "EILSEQ", n |-> 0, buf |-> b]
      ELSE [rc |-> n, n |-> NumberIn(octets, n, bits), buf |-> [b EXCEPT !.offset = @ + n]]

\* varint_from_source(), of a source that has these octets and then fails: how it
\* ends, the number, and how many octets it has taken.
FromSource(octets, bits, error) ==
  LET max == MaxOctets(bits)
      n   == EndOf(octets, max)
  IN  IF Ends(octets, max) # {} THEN [rc |-> "ok", n |-> NumberIn(octets, n, bits), taken |-> n]
      ELSE IF Len(octets) >= max THEN [rc |-> "EILSEQ", n |-> 0, taken |-> max]
      ELSE [rc |-> error, n |-> 0, taken |-> Len(octets)]

\* What varint_*_to_sink() puts into the sink.
ToSink(u, bits) ==
  LET b == Encode(BB!Space(BB!Null, [i \in 1 .. MaxOctets(bits) |-> 0]).buf, u, bits).buf
  IN  SubSeq(b.data, 1, b.used)
================================================================================
