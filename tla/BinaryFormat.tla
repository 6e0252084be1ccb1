----------------------------- MODULE BinaryFormat -----------------------------
(***************************************************************************)
(* Numbers in memory, include/ufw/binary-format.h, on machines with bytes  *)
(* of eight bits: bf_ref_* and bf_set_* for words of w octets in native,   *)
(* big and little octet order.  Host is the octet order of the machine.    *)
(*                                                                         *)
(* A C integer is the sequence of its octets, the least significant first, *)
(* as long as its type is wide.  Signed integers are in two's complement,  *)
(* floating point numbers are the integer that shares their union.         *)
(* Memory is a sequence of octets, and a pointer into it the number of     *)
(* octets in front of it.                                                  *)
(***************************************************************************)
EXTENDS Integers, Sequences

CONSTANT Values  \* the number of values an octet has

Widths == 2 .. 8

\* Octets of uint16_t, uint32_t or uint64_t, whichever holds w of them.
Container(w) == IF w <= 2 THEN 2 ELSE IF w <= 4 THEN 4 ELSE 8

\* The octets of an integer as they lie in the machine's memory, and back.
Image(x, host) == [i \in 1 .. Len(x) |-> IF host = "little" THEN x[i] ELSE x[Len(x) + 1 - i]]

\* A defect the checks must notice: all of the container is turned around.
SwapContainer(x, w) == [i \in 1 .. Len(x) |-> x[Len(x) + 1 - i]]

Swap(x, w) == [i \in 1 .. Len(x) |-> IF i <= w THEN x[w + 1 - i] ELSE 0]

\* The octets of a container in front of the w that are used, on a big machine.
Lead(w, host) == IF host = "big" THEN Container(w) - w ELSE 0

RefUnsignedNative(mem, p, w, host) ==
  LET dst == [i \in 1 .. Container(w) |->
                IF i - Lead(w, host) \in 1 .. w THEN mem[p + i - Lead(w, host)] ELSE 0]
  IN  Image(dst, host)

RefUnsignedBig(mem, p, w, host) ==
  IF host = "big" THEN RefUnsignedNative(mem, p, w, host)
  ELSE Swap(RefUnsignedNative(mem, p, w, host), w)

RefUnsignedLittle(mem, p, w, host) ==
  IF host = "little" THEN RefUnsignedNative(mem, p, w, host)
  ELSE Swap(RefUnsignedNative(mem, p, w, host), w)

\* Words narrower than their container: the sign bit is copied to the octets above.
SignExtend(x, w) ==
  [i \in 1 .. Len(x) |-> IF i > w /\ x[w] >= Values \div 2 THEN Values - 1 ELSE x[i]]

RefSignedNative(mem, p, w, host) == SignExtend(RefUnsignedNative(mem, p, w, host), w)
RefSignedLittle(mem, p, w, host) == SignExtend(RefUnsignedLittle(mem, p, w, host), w)
RefSignedBig(mem, p, w, host)    == SignExtend(RefUnsignedBig(mem, p, w, host), w)

RefFloat(mem, p, w, order, host) ==
  CASE order = "native" -> RefUnsignedNative(mem, p, w, host)
    [] order = "little" -> RefUnsignedLittle(mem, p, w, host)
    [] order = "big"    -> RefUnsignedBig(mem, p, w, host)

\* The memory behind the call; the pointer that is returned is p + w.
SetUnsignedNative(mem, p, w, host, x) ==
  LET src == Image(x, host)
  IN  [i \in 1 .. Len(mem) |-> IF i - p \in 1 .. w THEN src[i - p + Lead(w, host)] ELSE mem[i]]

SetUnsignedBig(mem, p, w, host, x) ==
  SetUnsignedNative(mem, p, w, host, IF host = "big" THEN x ELSE Swap(x, w))

SetUnsignedLittle(mem, p, w, host, x) ==
  SetUnsignedNative(mem, p, w, host, IF host = "little" THEN x ELSE Swap(x, w))

SetSignedNative(mem, p, w, host, x) == SetUnsignedNative(mem, p, w, host, x)
SetSignedLittle(mem, p, w, host, x) == SetUnsignedLittle(mem, p, w, host, x)
SetSignedBig(mem, p, w, host, x)    == SetUnsignedBig(mem, p, w, host, x)

SetFloat(mem, p, w, order, host, x) ==
  CASE order = "native" -> SetUnsignedNative(mem, p, w, host, x)
    [] order = "little" -> SetUnsignedLittle(mem, p, w, host, x)
    [] order = "big"    -> SetUnsignedBig(mem, p, w, host, x)

\* The number an unsigned, and a signed, integer stands for.
Number(x) ==
  LET from[i \in 1 .. Len(x) + 1] == IF i > Len(x) THEN 0 ELSE x[i] + Values * from[i + 1]
  IN  from[1]

\* The number of values that w octets have.
Power(w) ==
  LET power[i \in 0 .. w] == IF i = 0 THEN 1 ELSE Values * power[i - 1]
  IN  power[w]

Signed(x) == IF x[Len(x)] >= Values \div 2 THEN Number(x) - Power(Len(x)) ELSE Number(x)

InRange(x, w, signed) ==
  IF signed THEN LET a == Power(w) \div 2 IN Signed(x) >= -1 * a /\ Signed(x) < a
  ELSE Number(x) < Power(w)
================================================================================
