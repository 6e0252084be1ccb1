--------------------------- MODULE PersistentStorage ---------------------------
(***************************************************************************)
(* One section of a persistent medium, as src/persistent-storage.c keeps   *)
(* it: a checksum, and behind it the data the checksum is for.  The medium *)
(* is only reachable through two callbacks, each of which may fail, and a  *)
(* call may be cut short anywhere by a loss of power; what the medium then *)
(* holds is all that is left.  Every call of the API is therefore split at *)
(* its accesses to the medium.                                             *)
(*                                                                         *)
(* A checksum is a value of the callback the user configured (sum16 and    *)
(* sum32 differ in SumSize only).                                          *)
(***************************************************************************)
EXTENDS Integers

CONSTANTS
  Octet,            \* what one address of the medium holds
  MediumSize,       \* number of addresses of the medium
  Place,            \* store->checksum.address, see persistent_place()
  SumSize,          \* store->checksum.size
  DataSize,         \* store->data.size
  BufferSize,       \* store->buffer.size; 1 without an auxiliary buffer
  Word,             \* sizes and addresses are counted modulo Word
  Offset,           \* the offsets and ...
  Length,           \* ... the lengths the user passes
  SumValue,         \* the checksums there are
  Initial,          \* store->checksum.initial
  Process(_, _, _, _),  \* Process(acc, d, i, j): octets i .. j-1 of d added to acc
  Encode(_),        \* a checksum as SumSize octets of memory
  Fill              \* the octets the user resets a section to

Address == 0 .. MediumSize - 1
Block(n) == [0 .. n - 1 -> Octet]

\* set_data_address()
DataAddress == Place + SumSize

\* A whole section fits the medium, and a buffer can make progress.
ASSUME LayoutAssumption ==
  /\ MediumSize \in Nat /\ Place \in Nat /\ SumSize \in Nat \ {0}
  /\ DataSize \in Nat \ {0} /\ BufferSize \in Nat \ {0}
  /\ DataAddress + DataSize <= MediumSize
  /\ Word \in Nat /\ MediumSize <= Word
  /\ Offset \subseteq 0 .. Word - 1 /\ Length \subseteq 0 .. Word - 1
  /\ Octet # {} /\ Fill \subseteq Octet

\* What the checksum callback owes: feeding it a block in chunks gives the same
\* checksum as feeding it the block at once, and a checksum has its size.
ASSUME ChecksumAssumption ==
  /\ Initial \in SumValue
  /\ \A s \in SumValue : Encode(s) \in Block(SumSize)
  /\ \A s, t \in SumValue : Encode(s) = Encode(t) => s = t
  /\ \A s \in SumValue, d \in Block(DataSize) : \A i, j \in 0 .. DataSize :
       i <= j => Process(s, d, i, j) \in SumValue
  /\ \A s \in SumValue, d \in Block(DataSize) : \A i, j, k \in 0 .. DataSize :
       i <= j /\ j <= k => Process(Process(s, d, i, j), d, j, k) = Process(s, d, i, k)
  /\ \A s \in SumValue, d \in Block(DataSize) : Process(s, d, 0, 0) = s

VARIABLES
  medium,    \* what the block.read and block.write callbacks access
  pc,        \* the next access to the medium of the call in progress
  call,      \* the arguments of the call in progress
  pos,       \* address - start of the chunk loop in progress
  acc,       \* the checksum calculated so far, rv.value
  stored,    \* the checksum persistent_fetch_checksum() read
  result,    \* what the last call returned
  base,      \* history: the data at the last time the section was settled
  target,    \* history: the data the latest store is to leave behind
  doubt      \* history: what happened since the section was settled

history == <<base, target, doubt>>
vars == <<medium, pc, call, pos, acc, stored, result, base, target, doubt>>

None == [op |-> "none", offset |-> 0, n |-> 0, src |-> <<>>]

Minimum(a, b) == IF a < b THEN a ELSE b
Wrapped(x) == x % Word

\* What the callbacks see: n octets from an address on.
BlockRead(address, n) == [i \in 0 .. n - 1 |-> medium[address + i]]
BlockWritten(address, src, n) ==
  [a \in Address |-> IF address <= a /\ a < address + n THEN src[a - address]
                     ELSE medium[a]]

Data      == BlockRead(DataAddress, DataSize)
StoredSum == BlockRead(Place, SumSize)
Sum(d)    == Process(Initial, d, 0, DataSize)
Valid     == StoredSum = Encode(Sum(Data))

Overlay(d, offset, src, n) ==
  [i \in 0 .. DataSize - 1 |-> IF offset <= i /\ i < offset + n THEN src[i - offset] ELSE d[i]]

\* A defect the checks must notice: the bound is off by one.
OutOfRangeByOne(offset, n) == Wrapped(offset + n) > DataSize + 1

OutOfRange(offset, n) == Wrapped(offset + n) > DataSize
Whole(offset, n) == offset = 0 /\ n = DataSize

Nothing == <<>>
NoSum == [i \in 0 .. SumSize - 1 |-> CHOOSE o \in Octet : TRUE]

\* The locals of a call end with it.
Returns(code) ==
  /\ pc' = "idle"
  /\ call' = None
  /\ pos' = 0
  /\ acc' = Initial
  /\ stored' = NoSum
  /\ result' = code

Calls(c, first) ==
  /\ pc = "idle"
  /\ pc' = first
  /\ call' = c
  /\ result' = "none"

\* The section holds d and its checksum, as far as the user knows; or the user
\* knows nothing.
Settled(d) == base' = d /\ target' = d /\ doubt' = "none"
Lost == base' = Nothing /\ target' = Nothing /\ doubt' = "lost"

Init ==
  /\ \E o \in Octet : medium = [a \in Address |-> o]
  /\ pc = "idle"
  /\ call = None
  /\ pos = 0
  /\ acc = Initial
  /\ stored = NoSum
  /\ result = "none"
  /\ base = Nothing
  /\ target = Nothing
  /\ doubt = "lost"

(***************************************************************************)
(* persistent_store_part() and persistent_store()                          *)
(***************************************************************************)

StorePart(offset, n, src) ==
  \/ /\ pc = "idle"
     /\ OutOfRange(offset, n)
     /\ Returns("out_of_range")
     /\ UNCHANGED <<medium, history>>
  \/ /\ ~OutOfRange(offset, n)
     /\ Calls([op |-> "store", offset |-> offset, n |-> n, src |-> src], "write_data")
     \* Nothing is known of the data a second store would add to.
     /\ IF doubt = "none"
          THEN target' = Overlay(Data, offset, src, n) /\ UNCHANGED <<base, doubt>>
          ELSE Lost
     /\ UNCHANGED <<medium, pos, acc, stored>>

\* A complete store takes the checksum from the source; a partial one has to
\* read the whole data portion back.
WriteData ==
  /\ pc = "write_data"
  /\ medium' = BlockWritten(Wrapped(DataAddress + call.offset), call.src, call.n)
  /\ \/ /\ Whole(call.offset, call.n)
        /\ acc' = Sum(call.src)
        /\ pc' = "write_sum"
     \/ /\ ~Whole(call.offset, call.n)
        /\ pc' = "calculate"
        /\ UNCHANGED acc
  /\ UNCHANGED <<call, pos, stored, result, history>>

\* What the user believes to have stored.
Stored == IF doubt = "none" THEN target ELSE call.src

WriteSum ==
  /\ pc = "write_sum"
  /\ medium' = BlockWritten(Place, Encode(acc), SumSize)
  /\ Returns("success")
  /\ IF doubt = "none" \/ Whole(call.offset, call.n) THEN Settled(Stored) ELSE Lost

(***************************************************************************)
(* persistent_calculate_checksum(): one turn of its loop is one read.      *)
(***************************************************************************)

\* Defects the checks must notice: the last chunk is transferred in full or not
\* at all, or the loop ends before it.
ToGetUnclipped(size) == BufferSize
ToGetFullChunks(size) == BufferSize * ((size - pos) \div BufferSize)
RestOfFullChunks(size) == pos + BufferSize <= size

ToGet(size) == Minimum(size - pos, BufferSize)
Rest(size) == pos < size

Calculate ==
  /\ pc = "calculate"
  /\ \/ /\ Rest(DataSize)
        /\ acc' = Process(acc, Data, pos, pos + ToGet(DataSize))
        /\ pos' = pos + ToGet(DataSize)
        /\ UNCHANGED pc
     \/ /\ ~Rest(DataSize)
        /\ pc' = IF call.op = "store" THEN "write_sum" ELSE "compare"
        /\ UNCHANGED <<acc, pos>>
  /\ UNCHANGED <<medium, call, stored, result, history>>

(***************************************************************************)
(* persistent_validate(): the stored checksum is fetched before the data.  *)
(***************************************************************************)

Validate ==
  /\ Calls([None EXCEPT !.op = "validate"], "fetch_sum")
  /\ UNCHANGED <<medium, pos, acc, stored, history>>

FetchSum ==
  /\ pc = "fetch_sum"
  /\ stored' = StoredSum
  /\ pc' = "calculate"
  /\ UNCHANGED <<medium, call, pos, acc, result, history>>

Compare ==
  /\ pc = "compare"
  /\ \/ /\ stored = Encode(acc)
        /\ Returns("success")
        /\ IF doubt = "one" THEN Settled(Data) ELSE UNCHANGED history
     \/ /\ stored # Encode(acc)
        /\ Returns("invalid_data")
        /\ UNCHANGED history
  /\ UNCHANGED medium

(***************************************************************************)
(* persistent_reset(): both areas in chunks of the auxiliary buffer, the   *)
(* checksum first.  What is left behind is whatever the checksum of a      *)
(* constant block makes of it.                                             *)
(***************************************************************************)

Reset(item) ==
  /\ Calls([None EXCEPT !.op = "reset", !.src = <<item>>], "reset_sum")
  /\ Lost
  /\ UNCHANGED <<medium, pos, acc, stored>>

ResetArea(address, size) ==
  /\ Rest(size)
  /\ medium' = BlockWritten(address + pos, [i \in 0 .. BufferSize - 1 |-> call.src[1]],
                            ToGet(size))
  /\ pos' = pos + ToGet(size)
  /\ UNCHANGED <<pc, call, acc, stored, result>>

ResetStep ==
  /\ \/ pc = "reset_sum" /\ ResetArea(Place, SumSize)
     \/ /\ pc = "reset_sum" /\ ~Rest(SumSize)
        /\ pc' = "reset_data"
        /\ pos' = 0
        /\ UNCHANGED <<medium, call, acc, stored, result>>
     \/ pc = "reset_data" /\ ResetArea(DataAddress, DataSize)
     \/ /\ pc = "reset_data" /\ ~Rest(DataSize)
        /\ Returns("success")
        /\ UNCHANGED medium
  /\ UNCHANGED history

(***************************************************************************)
(* persistent_fetch_part() reads and returns: the medium answers or not.   *)
(***************************************************************************)

FetchPart(offset, n) ==
  /\ pc = "idle"
  /\ \E code \in IF OutOfRange(offset, n) THEN {"out_of_range"} ELSE {"success", "io_error"} :
       Returns(code)
  /\ UNCHANGED <<medium, history>>

(***************************************************************************)
(* Failures.  A callback that fails may have transferred a part of what it *)
(* was asked to; the call gives up at once.  A crash ends the call without *)
(* an answer, between two accesses or within one.                          *)
(***************************************************************************)

Pending ==
  CASE pc = "write_data" -> [address |-> Wrapped(DataAddress + call.offset), n |-> call.n,
                             src |-> call.src]
    [] pc = "write_sum"  -> [address |-> Place, n |-> SumSize, src |-> Encode(acc)]
    [] pc = "reset_sum"  -> [address |-> Place + pos, n |-> ToGet(SumSize),
                             src |-> [i \in 0 .. BufferSize - 1 |-> call.src[1]]]
    [] pc = "reset_data" -> [address |-> DataAddress + pos, n |-> ToGet(DataSize),
                             src |-> [i \in 0 .. BufferSize - 1 |-> call.src[1]]]
    [] OTHER             -> [address |-> 0, n |-> 0, src |-> <<>>]

\* A defect the checks must notice: a failed write is followed by an update of
\* the checksum all the same.
InterruptedAndSealed(code) ==
  /\ \E k \in 0 .. Pending.n :
       LET m == BlockWritten(Pending.address, Pending.src, k)
           e == Encode(Sum([i \in 0 .. DataSize - 1 |-> m[DataAddress + i]]))
       IN  medium' = [a \in Address |-> IF a \in Place .. DataAddress - 1 THEN e[a - Place]
                                       ELSE m[a]]
  /\ Returns(code)
  /\ doubt' = IF call.op = "store" /\ doubt = "none" THEN "one" ELSE doubt
  /\ UNCHANGED <<base, target>>

Interrupted(code) ==
  /\ \E k \in 0 .. Pending.n :
       medium' = BlockWritten(Pending.address, Pending.src, k)
  /\ Returns(code)
  /\ doubt' = IF call.op = "store" /\ doubt = "none" THEN "one" ELSE doubt
  /\ UNCHANGED <<base, target>>

AtAccess ==
  \/ pc \in {"write_data", "write_sum", "fetch_sum"}
  \/ pc \in {"calculate", "reset_data"} /\ Rest(DataSize)
  \/ pc = "reset_sum" /\ Rest(SumSize)

IOError == AtAccess /\ Interrupted("io_error")
Crash   == pc # "idle" /\ Interrupted("none")

\* Progress of the call in progress.
Step == WriteData \/ WriteSum \/ Calculate \/ FetchSum \/ Compare \/ ResetStep

Next ==
  \/ \E offset \in Offset, n \in Length : \E src \in Block(n) : StorePart(offset, n, src)
  \/ \E offset \in Offset, n \in Length : FetchPart(offset, n)
  \/ Validate
  \/ \E item \in Fill : Reset(item)
  \/ Step
  \/ IOError
  \/ Crash

Spec == Init /\ [][Next]_vars

\* A call that was made goes on as long as it has something left to do.
FairSpec == Spec /\ WF_vars(Step)

(***************************************************************************)
(* Properties                                                              *)
(***************************************************************************)

TypeOK ==
  /\ medium \in [Address -> Octet]
  /\ pc \in {"idle", "write_data", "write_sum", "calculate", "fetch_sum", "compare",
            "reset_sum", "reset_data"}
  /\ call.op \in {"none", "store", "validate", "reset"}
  /\ call.op = "store" => /\ call.offset \in Offset /\ call.n \in Length
                          /\ call.src \in Block(call.n)
  /\ call.op = "reset" => call.src[1] \in Fill
  /\ pos \in 0 .. (IF pc = "reset_sum" THEN SumSize ELSE DataSize)
  /\ acc \in SumValue
  /\ stored \in Block(SumSize)
  /\ result \in {"success", "invalid_data", "io_error", "out_of_range", "none"}
  /\ doubt \in {"none", "one", "lost"}
  /\ IF doubt = "lost" THEN base = Nothing /\ target = Nothing
     ELSE base \in Block(DataSize) /\ target \in Block(DataSize)

\* Whichever way the checksum is calculated, from the source of a complete
\* store or from the medium in chunks of the buffer, it is that of the data in
\* the medium when it is written or compared.
ChecksumCoversData == pc \in {"write_sum", "compare"} => acc = Sum(Data)

\* Successful stores leave a section that persistent_validate() accepts and
\* that holds what was stored, on top of what was there before.
SettledIsValid == (pc = "idle" /\ doubt = "none") => (Valid /\ Data = base)

\* One store that failed or was cut short by a crash, at any octet, is noticed
\* by persistent_validate(), or else the data is complete: all of the old or
\* all of the new.  (Of a checksum that tells all blocks apart.)
OneFaultIsNoticed ==
  (pc = "idle" /\ doubt = "one" /\ Valid) => (Data = base \/ Data = target)

Detecting == \A d, e \in Block(DataSize) : Sum(d) = Sum(e) => d = e

\* No operation writes to an address outside of the section, neither in the
\* chunk loops nor with the offset of a partial store.
SectionOnly ==
  [][\A a \in Address : (a < Place \/ a >= DataAddress + DataSize) => medium'[a] = medium[a]]_vars

\* Every call returns: the chunk loops end.
CallsReturn == pc # "idle" ~> pc = "idle"
================================================================================
