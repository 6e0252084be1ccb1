--------------------------- MODULE MCRegisterProtocol ---------------------------
(***************************************************************************)
(* Requests that end in each of the responses, for TLC.                    *)
(***************************************************************************)
EXTENDS RegisterProtocol

Read(wide, at, count) ==
  [kind |-> "read", w16 |-> wide, address |-> at, n |-> count, data |-> <<>>, sequence |-> 0]

Write(wide, at, octets) ==
  [kind |-> "write", w16 |-> wide, address |-> at, data |-> octets, sequence |-> 0,
   n |-> IF wide THEN Len(octets) \div 2 ELSE Len(octets)]

\* Reads that are in order, that go over the end of the memory, and that are too large
\* to answer; writes that are in order, read-only and refused, and one that does not fit
\* into a block.
MCAsks ==
  {Read(TRUE, 0, 2), Read(FALSE, 2, 2), Read(TRUE, 0, Room),
   Write(TRUE, 0, <<5, 6>>), Write(FALSE, 0, <<5, 6>>), Write(FALSE, 1, <<6, 255>>),
   Write(TRUE, 1, <<1, 2, 3, 4>>), Write(TRUE, 0, <<1, 2, 3, 4, 5, 6>>)}
================================================================================
