-------------------------- MODULE MCPersistentStorage --------------------------
(***************************************************************************)
(* PersistentStorage for TLC, with a checksum that tells all blocks apart: *)
(* the block read as a binary number.  The medium has one address to each  *)
(* side of the section.                                                    *)
(***************************************************************************)
EXTENDS PersistentStorage

MCProcess(acc0, d, i, j) ==
  LET Shift[k \in i .. j] == IF k = i THEN acc0 ELSE (Shift[k - 1] * 2 + d[k - 1]) % (2 ^ SumSize)
  IN  Shift[j]

MCEncode(s) == [i \in 0 .. SumSize - 1 |-> (s \div (2 ^ i)) % 2]

MCSumValue == 0 .. 2 ^ SumSize - 1
================================================================================
