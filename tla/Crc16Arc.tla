-------------------------------- MODULE Crc16Arc --------------------------------
(***************************************************************************)
(* CRC-16-ARC, src/crc-16-arc.c.  Words of sixteen bits are taken octet by *)
(* octet as they lie in memory, on machines of either octet order, so that *)
(* ufw_crc16_arc() and ufw_crc16_arc_u16() are one function of octets.     *)
(***************************************************************************)
EXTENDS Integers, Sequences

Nibble == 0 .. 15
Byte   == 0 .. 255

\* Exclusive or, of four bits by a table, of sixteen from that.
NibbleXor ==
  [a \in Nibble |-> [b \in Nibble |->
     LET bit(i) == IF (a \div i) % 2 = (b \div i) % 2 THEN 0 ELSE i
     IN  bit(1) + bit(2) + bit(4) + bit(8)]]

Xor(a, b) ==
  LET digit(i) == i * NibbleXor[(a \div i) % 16][(b \div i) % 16]
  IN  digit(1) + digit(16) + digit(256) + digit(4096)

\* crc16_table[]: the remainders of all octets for x^16 + x^15 + x^2 + 1, with the
\* bits in reverse order.
Polynomial == 40961

Table ==
  [i \in Byte |->
     LET shifted[n \in 0 .. 8] ==
           IF n = 0 THEN i
           ELSE LET c == shifted[n - 1]
                IN  IF c % 2 = 1 THEN Xor(c \div 2, Polynomial) ELSE c \div 2
     IN  shifted[8]]

CrcOctet(crc, octet) == Xor(crc \div 256, Table[Xor(crc % 256, octet)])

\* Goes on from an earlier value.
CrcFrom(crc, octets) ==
  LET after[n \in 0 .. Len(octets)] == IF n = 0 THEN crc ELSE CrcOctet(after[n - 1], octets[n])
  IN  after[Len(octets)]

\* ufw_buffer_crc16_arc*() start with CRC16_ARC_INITIAL.
Crc(octets) == CrcFrom(0, octets)
================================================================================
