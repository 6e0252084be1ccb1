---------------------------- MODULE MCRegisterTable ----------------------------
(***************************************************************************)
(* RegisterTable for TLC: small tables that have a register of each kind   *)
(* and an area of each kind, and tables register_init() must refuse.       *)
(***************************************************************************)
EXTENDS RegisterTable

MemoryArea(base, size) ==
  [base |-> base, size |-> size, read |-> TRUE, write |-> TRUE, readable |-> TRUE,
   writeable |-> TRUE, skip |-> FALSE, memory |-> TRUE]
CustomArea(base, size) == [MemoryArea(base, size) EXCEPT !.memory = FALSE]
MemoryAreaRO(base, size) == [MemoryArea(base, size) EXCEPT !.writeable = FALSE]
MemoryAreaWO(base, size) == [MemoryArea(base, size) EXCEPT !.readable = FALSE]
SkipArea(base, size) == [MemoryArea(base, size) EXCEPT !.skip = TRUE]

Register(address, type, default) ==
  [address |-> address, type |-> type, default |-> default, check |-> "trivial",
   min |-> 0, max |-> 0]
FailRegister(address, type, default) == [Register(address, type, default) EXCEPT !.check = "fail"]
CallbackRegister(address, type, default) ==
  [Register(address, type, default) EXCEPT !.check = "callback"]
MinRegister(address, type, default, min) ==
  [Register(address, type, default) EXCEPT !.check = "min", !.min = min]
MaxRegister(address, type, default, max) ==
  [Register(address, type, default) EXCEPT !.check = "max", !.max = max]
RangeRegister(address, type, default, min, max) ==
  [Register(address, type, default) EXCEPT !.check = "range", !.min = min, !.max = max]

MCNotNormal == {<<1, 1>>}
MCCallback(e, v) == v = 1

\* Blocks across two areas, one of which may fail; a hole; a register that the
\* outside may not write.
Mixed ==
  [area |-> <<MemoryArea(0, 2), CustomArea(2, 1), MemoryAreaRO(4, 1)>>,
   entry |-> <<Register(0, "f32", <<0, 0>>), RangeRegister(2, "u16", <<1>>, 1, 1),
               FailRegister(4, "u16", <<1>>)>>]

\* Areas without registers between those with some, and one that keeps its contents.
Sparse ==
  [area |-> <<MemoryArea(0, 2), MemoryAreaRO(2, 1), SkipArea(3, 1)>>,
   entry |-> <<MaxRegister(0, "u16", <<0>>, 0), MinRegister(1, "s16", <<0>>, 0),
               CallbackRegister(3, "u16", <<1>>)>>]

Wide == [area |-> <<MemoryArea(0, 5)>>, entry |-> <<Register(1, "u64", <<1, 0, 0, 0>>)>>]

Refused ==
  {[area |-> <<>>, entry |-> <<Register(0, "u16", <<0>>)>>],
   [area |-> <<MemoryArea(3, 1), MemoryArea(0, 2)>>, entry |-> <<>>],
   [area |-> <<MemoryArea(0, 3), MemoryArea(2, 2)>>, entry |-> <<>>],
   [area |-> <<MemoryArea(0, 4)>>, entry |-> <<Register(2, "u16", <<0>>), Register(0, "u16", <<0>>)>>],
   [area |-> <<MemoryArea(0, 4)>>, entry |-> <<Register(0, "u32", <<0, 0>>), Register(1, "u16", <<0>>)>>],
   [area |-> <<MemoryArea(0, 1)>>, entry |-> <<Register(2, "u16", <<0>>)>>],
   [area |-> <<MemoryArea(0, 2), MemoryArea(2, 2)>>, entry |-> <<Register(1, "u32", <<1, 1>>)>>],
   [area |-> <<MemoryArea(0, 2)>>, entry |-> <<MinRegister(0, "u32", <<0, 0>>, 1)>>],
   [area |-> <<MemoryArea(0, 2)>>, entry |-> <<Register(0, "f32", <<1, 1>>)>>]}

MCTables == {Mixed, Sparse, Wide} \cup Refused

\* A 64 bit register with a constraint.
WideTables ==
  {[area |-> <<MemoryArea(0, 4)>>, entry |-> <<MaxRegister(0, "u64", <<0, 0, 0, 0>>, 3)>>]}

\* An area that is not readable.
WriteOnlyTables ==
  {[area |-> <<MemoryAreaWO(0, 3)>>, entry |-> <<Register(1, "u16", <<1>>)>>]}
================================================================================
