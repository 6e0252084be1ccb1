-------------------------------- MODULE Numbers --------------------------------
(***************************************************************************)
(* Numbers on their way: one machine stores a number with bf_set_*() or    *)
(* varint_*(), another one reads the same memory, or the octets the first  *)
(* one put into a sink, with the function that belongs to it.              *)
(***************************************************************************)
EXTENDS Integers, Sequences

CONSTANTS
  Bits,          \* the number of values an octet has
  DataValues,    \* the number of values an octet of a varint has for its digit
  Narrow,        \* where uint32_t wraps around
  NarrowOctets,  \* VARINT_32BIT_MAX_OCTETS
  Wide,          \* where uint64_t wraps around
  WideOctets,    \* VARINT_64BIT_MAX_OCTETS
  SizeMax        \* where size_t wraps around

\* An octet is made of bits.
ASSUME BitsAssumption == Bits \in Nat /\ Bits > 1 /\ Bits % 2 = 0

VARIABLES mem,     \* the memory, one octet longer than the widest word on both sides
          place,   \* the ByteBuffer a varint is encoded into
          stored,  \* the number that was stored: mnemonic, width, order, machine, value
          fetched  \* what was read, or nothing yet

numberVars == <<mem, place, stored, fetched>>

F == INSTANCE BinaryFormat WITH Values <- Bits

V == INSTANCE Varint

\* VARINT_*BIT_MAX_OCTETS are enough for every integer of their width, and memory
\* for a few octets more has a size.
ASSUME VarintAssumption ==
  /\ DataValues \in Nat /\ DataValues > 1
  /\ Narrow \in Nat /\ Wide \in Nat
  /\ NarrowOctets \in Nat /\ WideOctets \in Nat /\ NarrowOctets <= WideOctets
  /\ SizeMax \in Nat /\ SizeMax > WideOctets + 3
  /\ \A n \in 0 .. Narrow - 1 : V!Length(n) <= NarrowOctets
  /\ \A n \in 0 .. Wide - 1 : V!Length(n) <= WideOctets

Pointer == 1
Digit   == 0 .. Bits - 1
Hosts   == {"big", "little"}
Orders  == {"native", "big", "little"}
Floats  == {4, 8}
Nothing == <<>>

\* Memory of a user who wants to store a varint behind other octets: stale octets
\* ask to be continued.
StaleBuffer(at) == [data |-> [i \in 1 .. WideOctets + 3 |-> 2 * DataValues - 1],
                    used |-> at, offset |-> at]

Blank == [i \in 1 .. 10 |-> Bits - 1]

NumberInit ==
  /\ mem = Blank
  /\ place = StaleBuffer(0)
  /\ stored = [kind |-> "none"]
  /\ fetched = Nothing

Set(kind, w, order, host, x) ==
  CASE kind = "f"                      -> F!SetFloat(mem, Pointer, w, order, host, x)
    [] kind = "u" /\ order = "native" -> F!SetUnsignedNative(mem, Pointer, w, host, x)
    [] kind = "u" /\ order = "big"    -> F!SetUnsignedBig(mem, Pointer, w, host, x)
    [] kind = "u" /\ order = "little" -> F!SetUnsignedLittle(mem, Pointer, w, host, x)
    [] kind = "s" /\ order = "native" -> F!SetSignedNative(mem, Pointer, w, host, x)
    [] kind = "s" /\ order = "big"    -> F!SetSignedBig(mem, Pointer, w, host, x)
    [] kind = "s" /\ order = "little" -> F!SetSignedLittle(mem, Pointer, w, host, x)

Ref(kind, w, order, host) ==
  CASE kind = "f"                      -> F!RefFloat(mem, Pointer, w, order, host)
    [] kind = "u" /\ order = "native" -> F!RefUnsignedNative(mem, Pointer, w, host)
    [] kind = "u" /\ order = "big"    -> F!RefUnsignedBig(mem, Pointer, w, host)
    [] kind = "u" /\ order = "little" -> F!RefUnsignedLittle(mem, Pointer, w, host)
    [] kind = "s" /\ order = "native" -> F!RefSignedNative(mem, Pointer, w, host)
    [] kind = "s" /\ order = "big"    -> F!RefSignedBig(mem, Pointer, w, host)
    [] kind = "s" /\ order = "little" -> F!RefSignedLittle(mem, Pointer, w, host)

StoreWord(kind, w, order, host, x) ==
  /\ stored.kind = "none"
  /\ mem' = Set(kind, w, order, host, x)
  /\ stored' = [kind |-> kind, w |-> w, order |-> order, host |-> host, x |-> x]
  /\ UNCHANGED <<place, fetched>>

\* Native order is for the machine itself.
FetchWord(host) ==
  /\ stored.kind \in {"u", "s", "f"} /\ fetched = Nothing
  /\ stored.order = "native" => host = stored.host
  /\ fetched' = Ref(stored.kind, stored.w, stored.order, host)
  /\ UNCHANGED <<mem, place, stored>>

\* varint_encode_*() behind at octets of a buffer, or varint_*_to_sink() if at is
\* -1; the number is the unsigned one that shares the union with a signed one.
StoreVarint(bits, signed, n, at) ==
  /\ stored.kind = "none"
  /\ LET u == V!Unsigned(n, bits)
         sunk == V!ToSink(u, bits)
     IN  place' = IF at = -1 THEN [data |-> sunk, used |-> Len(sunk), offset |-> 0]
                  ELSE V!Encode(StaleBuffer(at), u, bits).buf
  /\ stored' = [kind |-> "varint", bits |-> bits, signed |-> signed, n |-> n, at |-> at]
  /\ UNCHANGED <<mem, fetched>>

Sign(u, bits, signed) == IF signed THEN V!SignedOf(u, bits) ELSE u

FetchVarint ==
  /\ stored.kind = "varint" /\ fetched = Nothing
  /\ LET bits == stored.bits
         read == IF stored.at = -1 THEN V!FromSource(place.data, bits, "EIO")
                 ELSE V!Decode(place, bits)
     IN  /\ fetched' = <<Sign(read.n, bits, stored.signed)>>
         /\ place' = IF stored.at = -1 THEN [place EXCEPT !.offset = read.taken] ELSE read.buf
  /\ UNCHANGED <<mem, stored>>

\* The memory is used for another number.
Reuse ==
  /\ fetched # Nothing
  /\ mem' = Blank /\ place' = StaleBuffer(0)
  /\ stored' = [kind |-> "none"] /\ fetched' = Nothing

NumberNext ==
  \/ \E kind \in {"u", "s", "f"}, w \in F!Widths, order \in Orders, host \in Hosts :
       /\ kind = "f" => w \in Floats
       /\ \E x \in [1 .. F!Container(w) -> Digit] : StoreWord(kind, w, order, host, x)
  \/ \E host \in Hosts : FetchWord(host)
  \/ \E bits \in {32, 64}, signed \in BOOLEAN, at \in -1 .. 2 :
       \E n \in IF signed THEN -(V!Modulus(bits) \div 2) .. V!Modulus(bits) \div 2 - 1
                ELSE 0 .. V!Modulus(bits) - 1 :
         StoreVarint(bits, signed, n, at)
  \/ FetchVarint
  \/ Reuse

NumberSpec == NumberInit /\ [][NumberNext]_numberVars

Fits == stored.kind = "f" \/ F!InRange(stored.x, stored.w, stored.kind = "s")

\* Big and little endian words lie in memory in their order whatever machine
\* stores them, and no octets but theirs are written.
WordLiesInOrder ==
  \A i \in DOMAIN mem :
    LET k == i - Pointer
    IN  IF k \notin 1 .. stored.w THEN mem[i] = Bits - 1
        ELSE /\ stored.order = "little" => mem[i] = stored.x[k]
             /\ stored.order = "big" => mem[i] = stored.x[stored.w + 1 - k]

\* bf_set_*() writes the octets of the word, in its order, and bf_ref_*() reads
\* the same number from them on a machine of either octet order, if and only if
\* bf_inrange_*() accepts it for the width; words that are narrower than their
\* type come back with their sign.  Varints come back as they were, from buffers
\* and from sources, up to the last number and the least, with as many octets
\* taken as were written and as varint_*_length() says, whatever lay there before.
NumbersTravel ==
  /\ stored.kind \in {"u", "s", "f"} =>
       WordLiesInOrder /\ (fetched # Nothing => (fetched = stored.x <=> Fits))
  /\ stored.kind = "varint" /\ fetched # Nothing =>
       /\ fetched = <<stored.n>>
       /\ place.offset = place.used
       /\ place.used = (IF stored.at = -1 THEN 0 ELSE stored.at)
                       + V!Length(V!Unsigned(stored.n, stored.bits))
================================================================================
