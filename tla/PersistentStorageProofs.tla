------------------------ MODULE PersistentStorageProofs ------------------------
(***************************************************************************)
(* What persistent_validate() is worth: proofs about PersistentStorage for *)
(* every layout of the section, every buffer size and every checksum that  *)
(* satisfies ChecksumAssumption.                                           *)
(*                                                                         *)
(* None of the properties is inductive.  The strengthening Inv says, for   *)
(* every access of a call, which call it belongs to (CallFits), how much   *)
(* of the data the checksum already covers (SumFits) and what the medium   *)
(* holds compared to the last settled data and to the data that is about   *)
(* to replace it (HistoryFits).                                            *)
(***************************************************************************)
EXTENDS PersistentStorage, TLAPS

CallFits ==
  /\ pc = "idle" => call = None
  /\ pc \in {"write_data", "write_sum"} => call.op = "store"
  /\ pc \in {"fetch_sum", "compare"} => call.op = "validate"
  /\ pc = "calculate" => call.op \in {"store", "validate"}
  /\ pc \in {"reset_sum", "reset_data"} => call.op = "reset"
  /\ pc \in {"idle", "write_data", "fetch_sum"} => pos = 0 /\ acc = Initial
  /\ pc = "write_data" => ~OutOfRange(call.offset, call.n)

SumFits ==
  /\ pc = "calculate" => acc = Process(Initial, Data, 0, pos)
  /\ pc \in {"write_sum", "compare"} => acc = Sum(Data)
  /\ (pc \in {"calculate", "compare"} /\ call.op = "validate") => stored = StoredSum

\* The store in progress has written its data, but not yet the checksum.
DataWritten == call.op = "store" /\ pc \in {"calculate", "write_sum"}

HistoryFits ==
  /\ (doubt = "none" /\ ~DataWritten) => (StoredSum = Encode(Sum(Data)) /\ Data = base)
  /\ (doubt = "none" /\ pc = "write_data") => target = Overlay(Data, call.offset, call.src, call.n)
  /\ (doubt = "none" /\ DataWritten) => Data = target
  /\ (DataWritten /\ Whole(call.offset, call.n)) => Data = call.src
  /\ call.op = "store" => doubt # "one"
  /\ call.op = "reset" => doubt = "lost"
  /\ doubt = "one" => (Data = target \/ StoredSum = Encode(Sum(base)))

Inv == TypeOK /\ CallFits /\ SumFits /\ HistoryFits

(***************************************************************************)
(* The layout and the two callbacks.                                       *)
(***************************************************************************)

LEMMA LayoutLemma ==
  /\ Place \in Nat /\ SumSize \in Nat /\ SumSize > 0 /\ DataSize \in Nat /\ DataSize > 0
  /\ BufferSize \in Nat /\ BufferSize > 0
  /\ DataAddress \in Nat /\ DataAddress = Place + SumSize
  /\ MediumSize \in Nat /\ Word \in Nat /\ MediumSize <= Word
  /\ DataAddress + DataSize <= MediumSize
  /\ Offset \subseteq Nat /\ Length \subseteq Nat
  BY LayoutAssumption DEF DataAddress

LEMMA WrappedLemma ==
  /\ \A x \in Nat : Wrapped(x) \in Nat
  /\ \A x \in 0 .. Word - 1 : Wrapped(x) = x
  BY LayoutLemma, SMTT(30) DEF Wrapped

\* A block written to the medium leaves a medium behind.
LEMMA WriteType ==
  ASSUME NEW address \in Nat, NEW n \in Nat, NEW src,
         medium \in [Address -> Octet], \A i \in 0 .. n - 1 : src[i] \in Octet
  PROVE  BlockWritten(address, src, n) \in [Address -> Octet]
<1>1. ASSUME NEW a \in Address, address <= a, a < address + n PROVE src[a - address] \in Octet
  <2>1. a - address \in 0 .. n - 1
    BY <1>1, LayoutLemma DEF Address
  <2>. QED
    BY <2>1
<1>. QED
  BY <1>1 DEF BlockWritten

LEMMA BlockTypes ==
  ASSUME medium \in [Address -> Octet]
  PROVE  Data \in Block(DataSize) /\ StoredSum \in Block(SumSize)
<1>1. \A i \in 0 .. DataSize - 1 : DataAddress + i \in Address
  BY LayoutLemma DEF Address
<1>2. \A i \in 0 .. SumSize - 1 : Place + i \in Address
  BY LayoutLemma DEF Address
<1>. QED
  BY <1>1, <1>2 DEF Data, StoredSum, BlockRead, Block

LEMMA SumType ==
  ASSUME NEW d \in Block(DataSize)
  PROVE  Sum(d) \in SumValue
<1>1. 0 \in 0 .. DataSize /\ DataSize \in 0 .. DataSize /\ 0 <= DataSize
  BY LayoutLemma
<1>. QED
  BY <1>1, ChecksumAssumption DEF Sum

\* The chunk loops stay inside of the area and end at its end.
LEMMA ChunkLemma ==
  ASSUME NEW size \in Nat, pos \in 0 .. size, Rest(size)
  PROVE  /\ ToGet(size) \in 1 .. BufferSize
         /\ pos + ToGet(size) \in 0 .. size
  BY LayoutLemma DEF Rest, ToGet, Minimum

(***************************************************************************)
(* The type of the state, for all offsets and lengths.                     *)
(***************************************************************************)

LEMMA NoSumLemma == NoSum \in Block(SumSize)
<1>1. (CHOOSE o \in Octet : TRUE) \in Octet
  BY LayoutAssumption
<1>. QED
  BY <1>1 DEF NoSum, Block

LEMMA ReturnsType ==
  ASSUME NEW code, Returns(code)
  PROVE  /\ CallFits'
         /\ pc' = "idle" /\ call'.op = "none" /\ pos' = 0 /\ acc' \in SumValue
         /\ stored' \in Block(SumSize) /\ result' = code
  BY NoSumLemma, ChecksumAssumption DEF Returns, CallFits, None

LEMMA InitTypes == Init => TypeOK /\ CallFits
<1>. SUFFICES ASSUME Init PROVE TypeOK /\ CallFits
  OBVIOUS
<1>1. medium \in [Address -> Octet]
  BY DEF Init
<1>2. pos \in 0 .. (IF pc = "reset_sum" THEN SumSize ELSE DataSize)
  BY LayoutLemma DEF Init
<1>3. acc \in SumValue /\ stored \in Block(SumSize)
  BY ChecksumAssumption, NoSumLemma DEF Init
<1>. QED
  BY <1>1, <1>2, <1>3 DEF Init, TypeOK, CallFits, None

LEMMA StorePartType ==
  ASSUME TypeOK, CallFits, NEW offset \in Offset, NEW n \in Length, NEW src \in Block(n),
         StorePart(offset, n, src)
  PROVE  TypeOK' /\ CallFits'
<1>1. CASE pc = "idle" /\ OutOfRange(offset, n) /\ Returns("out_of_range")
           /\ UNCHANGED <<medium, history>>
  BY <1>1, ReturnsType, LayoutLemma DEF TypeOK, history
<1>2. CASE /\ ~OutOfRange(offset, n)
           /\ Calls([op |-> "store", offset |-> offset, n |-> n, src |-> src], "write_data")
           /\ UNCHANGED <<medium, pos, acc, stored>>
           /\ IF doubt = "none"
                THEN target' = Overlay(Data, offset, src, n) /\ UNCHANGED <<base, doubt>>
                ELSE Lost
  <2>1. Data \in Block(DataSize)
    BY BlockTypes DEF TypeOK
  <2>2. \A i \in 0 .. DataSize - 1 :
          (offset <= i /\ i < offset + n) => src[i - offset] \in Octet
    BY LayoutLemma DEF Block
  <2>3. Overlay(Data, offset, src, n) \in Block(DataSize)
    BY <2>1, <2>2 DEF Overlay, Block
  <2>4. CallFits'
    BY <1>2 DEF CallFits, Calls, OutOfRange, Wrapped
  <2>5. IF doubt' = "lost" THEN base' = Nothing /\ target' = Nothing
        ELSE base' \in Block(DataSize) /\ target' \in Block(DataSize)
    BY <1>2, <2>3 DEF TypeOK, Lost
  <2>6. doubt' \in {"none", "one", "lost"}
    BY <1>2 DEF TypeOK, Lost
  <2>. QED
    BY <1>2, <2>4, <2>5, <2>6 DEF TypeOK, Calls
<1>. QED
  BY <1>1, <1>2 DEF StorePart

LEMMA FetchPartType ==
  ASSUME TypeOK, CallFits, NEW offset \in Offset, NEW n \in Length, FetchPart(offset, n)
  PROVE  TypeOK' /\ CallFits'
<1>1. PICK code \in {"success", "io_error", "out_of_range"} : Returns(code)
  BY DEF FetchPart
<1>. QED
  BY <1>1, ReturnsType, LayoutLemma DEF FetchPart, TypeOK, history

LEMMA ValidateType == TypeOK /\ CallFits /\ Validate => TypeOK' /\ CallFits'
  BY DEF Validate, Calls, TypeOK, CallFits, None, history

LEMMA ResetType ==
  ASSUME TypeOK, CallFits, NEW item \in Fill, Reset(item)
  PROVE  TypeOK' /\ CallFits'
<1>1. pos' = 0 /\ 0 \in 0 .. SumSize
  BY LayoutLemma DEF Reset, Calls, CallFits
<1>. QED
  BY <1>1 DEF Reset, Calls, TypeOK, CallFits, None, Lost

LEMMA WriteDataType == TypeOK /\ CallFits /\ WriteData => TypeOK' /\ CallFits'
<1>. SUFFICES ASSUME TypeOK, CallFits, WriteData
              PROVE  TypeOK' /\ CallFits'
  OBVIOUS
<1>1. call.op = "store" /\ call.offset \in Nat /\ call.n \in Nat /\ call.src \in Block(call.n)
  BY LayoutLemma DEF WriteData, CallFits, TypeOK
<1>2. medium' \in [Address -> Octet]
  <2>1. DataAddress + call.offset \in Nat
    BY <1>1, LayoutLemma
  <2>2. Wrapped(DataAddress + call.offset) \in Nat
    BY <2>1, WrappedLemma
  <2>3. \A i \in 0 .. call.n - 1 : call.src[i] \in Octet
    BY <1>1 DEF Block
  <2>4. medium \in [Address -> Octet]
    BY DEF TypeOK
  <2>. QED
    BY <1>1, <2>2, <2>3, <2>4, WriteType DEF WriteData
<1>3. acc' \in SumValue
  <2>1. CASE Whole(call.offset, call.n)
    <3>1. call.src \in Block(DataSize)
      BY <1>1, <2>1 DEF Whole
    <3>. QED
      BY <2>1, <3>1, SumType DEF WriteData
  <2>2. CASE ~Whole(call.offset, call.n)
    BY <2>2 DEF WriteData, TypeOK
  <2>. QED
    BY <2>1, <2>2
<1>. QED
  BY <1>1, <1>2, <1>3 DEF WriteData, TypeOK, CallFits, history

LEMMA WriteSumType == TypeOK /\ CallFits /\ WriteSum => TypeOK' /\ CallFits'
<1>. SUFFICES ASSUME TypeOK, CallFits, WriteSum
              PROVE  TypeOK' /\ CallFits'
  OBVIOUS
<1>1. Encode(acc) \in Block(SumSize)
  BY ChecksumAssumption DEF TypeOK
<1>2. medium' \in [Address -> Octet]
  <2>1. \A i \in 0 .. SumSize - 1 : Encode(acc)[i] \in Octet
    BY <1>1 DEF Block
  <2>2. medium \in [Address -> Octet]
    BY DEF TypeOK
  <2>. QED
    BY <2>1, <2>2, WriteType, LayoutLemma DEF WriteSum
<1>3. IF doubt' = "lost" THEN base' = Nothing /\ target' = Nothing
      ELSE base' \in Block(DataSize) /\ target' \in Block(DataSize)
  BY DEF WriteSum, Settled, Stored, Lost, TypeOK, CallFits, Whole
<1>4. doubt' \in {"none", "one", "lost"}
  BY DEF WriteSum, Settled, Lost, TypeOK
<1>5. 0 \in 0 .. DataSize
  BY LayoutLemma
<1>. QED
  BY <1>2, <1>3, <1>4, <1>5, ReturnsType DEF WriteSum, TypeOK

LEMMA CalculateType == TypeOK /\ CallFits /\ Calculate => TypeOK' /\ CallFits'
<1>. SUFFICES ASSUME TypeOK, CallFits, Calculate
              PROVE  TypeOK' /\ CallFits'
  OBVIOUS
<1>1. pos \in 0 .. DataSize /\ DataSize \in Nat
  BY LayoutLemma DEF Calculate, TypeOK
<1>2. CASE Rest(DataSize)
  <2>1. pos' \in 0 .. DataSize /\ pos <= pos' /\ acc' = Process(acc, Data, pos, pos')
    BY <1>1, <1>2, ChunkLemma, LayoutLemma DEF Calculate
  <2>2. acc' \in SumValue
    BY <1>1, <2>1, BlockTypes, ChecksumAssumption DEF TypeOK
  <2>. QED
    BY <1>2, <2>1, <2>2 DEF Calculate, TypeOK, CallFits, history
<1>3. CASE ~Rest(DataSize)
  BY <1>1, <1>3 DEF Calculate, TypeOK, CallFits, history
<1>. QED
  BY <1>2, <1>3

LEMMA FetchSumType == TypeOK /\ CallFits /\ FetchSum => TypeOK' /\ CallFits'
<1>. SUFFICES ASSUME TypeOK, CallFits, FetchSum
              PROVE  TypeOK' /\ CallFits'
  OBVIOUS
<1>1. StoredSum \in Block(SumSize)
  BY BlockTypes DEF TypeOK
<1>. QED
  BY <1>1 DEF FetchSum, TypeOK, CallFits, history

LEMMA CompareType == TypeOK /\ CallFits /\ Compare => TypeOK' /\ CallFits'
<1>. SUFFICES ASSUME TypeOK, CallFits, Compare
              PROVE  TypeOK' /\ CallFits'
  OBVIOUS
<1>1. PICK code \in {"success", "invalid_data"} : Returns(code)
  BY DEF Compare
<1>2. CallFits' /\ pc' = "idle" /\ call'.op = "none" /\ pos' = 0 /\ acc' \in SumValue
      /\ stored' \in Block(SumSize) /\ result' = code /\ 0 \in 0 .. DataSize
  BY <1>1, ReturnsType, LayoutLemma
<1>3. IF doubt' = "lost" THEN base' = Nothing /\ target' = Nothing
      ELSE base' \in Block(DataSize) /\ target' \in Block(DataSize)
  BY BlockTypes DEF Compare, Settled, TypeOK, history
<1>4. doubt' \in {"none", "one", "lost"} /\ medium' = medium
  BY DEF Compare, Settled, TypeOK, history
<1>. QED
  BY <1>2, <1>3, <1>4 DEF TypeOK

LEMMA ResetAreaType ==
  ASSUME TypeOK, CallFits, call.op = "reset",
         NEW address \in Nat, NEW size \in Nat, pos \in 0 .. size, ResetArea(address, size)
  PROVE  medium' \in [Address -> Octet] /\ pos' \in 0 .. size
<1>1. ToGet(size) \in 1 .. BufferSize /\ pos + ToGet(size) \in 0 .. size
  BY ChunkLemma DEF ResetArea
<1>2. call.src[1] \in Octet
  BY LayoutAssumption DEF TypeOK
<1>3. address + pos \in Nat /\ ToGet(size) \in Nat
  BY <1>1, LayoutLemma
<1>. DEFINE src == [i \in 0 .. BufferSize - 1 |-> call.src[1]]
<1>4. \A i \in 0 .. ToGet(size) - 1 : src[i] \in Octet
  BY <1>1, <1>2, LayoutLemma
<1>5. BlockWritten(address + pos, src, ToGet(size)) \in [Address -> Octet]
  <2>. HIDE DEF src
  <2>. QED
    BY <1>3, <1>4, WriteType DEF TypeOK
<1>. QED
  BY <1>1, <1>5 DEF ResetArea

LEMMA ResetStepType == TypeOK /\ CallFits /\ ResetStep => TypeOK' /\ CallFits'
<1>. SUFFICES ASSUME TypeOK, CallFits, ResetStep
              PROVE  TypeOK' /\ CallFits'
  OBVIOUS
<1>1. CASE pc = "reset_sum" /\ ResetArea(Place, SumSize)
  <2>1. medium' \in [Address -> Octet] /\ pos' \in 0 .. SumSize
    BY <1>1, ResetAreaType, LayoutLemma DEF TypeOK, CallFits
  <2>. QED
    BY <1>1, <2>1 DEF ResetStep, ResetArea, TypeOK, CallFits, history
<1>2. CASE /\ pc = "reset_sum" /\ pc' = "reset_data" /\ pos' = 0
           /\ UNCHANGED <<medium, call, acc, stored, result>>
  BY <1>2, LayoutLemma DEF ResetStep, TypeOK, CallFits, history
<1>3. CASE pc = "reset_data" /\ ResetArea(DataAddress, DataSize)
  <2>1. medium' \in [Address -> Octet] /\ pos' \in 0 .. DataSize
    BY <1>3, ResetAreaType, LayoutLemma DEF TypeOK, CallFits
  <2>. QED
    BY <1>3, <2>1 DEF ResetStep, ResetArea, TypeOK, CallFits, history
<1>4. CASE Returns("success") /\ UNCHANGED medium
  BY <1>4, ReturnsType, LayoutLemma DEF ResetStep, TypeOK, history
<1>. QED
  BY <1>1, <1>2, <1>3, <1>4 DEF ResetStep

\* What a failing access was asked to write is a block for some address.
LEMMA PendingType ==
  ASSUME TypeOK, CallFits
  PROVE  /\ Pending.address \in Nat /\ Pending.n \in Nat
         /\ \A i \in 0 .. Pending.n - 1 : Pending.src[i] \in Octet
<1>. DEFINE item == [i \in 0 .. BufferSize - 1 |-> call.src[1]]
<1>1. CASE pc = "write_data"
  <2>1. call.offset \in Nat /\ call.n \in Nat /\ call.src \in Block(call.n)
    BY <1>1, LayoutLemma DEF CallFits, TypeOK
  <2>2. Wrapped(DataAddress + call.offset) \in Nat
    BY <2>1, LayoutLemma, WrappedLemma
  <2>. QED
    BY <1>1, <2>1, <2>2 DEF Pending, Block
<1>2. CASE pc = "write_sum"
  <2>1. Encode(acc) \in Block(SumSize)
    BY ChecksumAssumption DEF TypeOK
  <2>. QED
    BY <1>2, <2>1, LayoutLemma DEF Pending, Block
<1>3. CASE pc \in {"reset_sum", "reset_data"}
  <2>. DEFINE size == IF pc = "reset_sum" THEN SumSize ELSE DataSize
              from == IF pc = "reset_sum" THEN Place ELSE DataAddress
  <2>1. size \in Nat /\ from \in Nat /\ pos \in 0 .. size
    BY <1>3, LayoutLemma DEF TypeOK
  <2>2. ToGet(size) \in Nat /\ ToGet(size) <= BufferSize
    BY <2>1, LayoutLemma DEF ToGet, Minimum
  <2>3. call.src[1] \in Octet
    BY <1>3, LayoutAssumption DEF TypeOK, CallFits
  <2>4. \A i \in 0 .. ToGet(size) - 1 : item[i] \in Octet
    BY <2>2, <2>3, LayoutLemma
  <2>5. Pending = [address |-> from + pos, n |-> ToGet(size), src |-> item]
    BY <1>3 DEF Pending
  <2>6. from + pos \in Nat
    BY <2>1
  <2>. QED
    BY <2>2, <2>4, <2>5, <2>6
<1>4. CASE pc \notin {"write_data", "write_sum", "reset_sum", "reset_data"}
  BY <1>4 DEF Pending
<1>. QED
  BY <1>1, <1>2, <1>3, <1>4

LEMMA InterruptedType ==
  ASSUME TypeOK, CallFits, NEW code \in {"io_error", "none"}, Interrupted(code)
  PROVE  TypeOK' /\ CallFits'
<1>1. PICK k \in 0 .. Pending.n :
        medium' = BlockWritten(Pending.address, Pending.src, k)
  BY DEF Interrupted
<1>2. k \in Nat /\ \A i \in 0 .. k - 1 : Pending.src[i] \in Octet
  BY PendingType
<1>3. medium' \in [Address -> Octet]
  BY <1>1, <1>2, PendingType, WriteType DEF TypeOK
<1>4. doubt' \in {"none", "one", "lost"} /\ (doubt' = "lost" <=> doubt = "lost")
  BY DEF Interrupted, TypeOK
<1>5. CallFits' /\ pc' = "idle" /\ call'.op = "none" /\ pos' = 0 /\ acc' \in SumValue
      /\ stored' \in Block(SumSize) /\ result' = code /\ 0 \in 0 .. DataSize
  BY ReturnsType, LayoutLemma DEF Interrupted
<1>. QED
  BY <1>3, <1>4, <1>5 DEF Interrupted, TypeOK

LEMMA StepTypes == TypeOK /\ CallFits /\ [Next]_vars => TypeOK' /\ CallFits'
<1>. SUFFICES ASSUME TypeOK, CallFits, [Next]_vars
              PROVE  TypeOK' /\ CallFits'
  OBVIOUS
<1>1. ASSUME NEW offset \in Offset, NEW n \in Length, NEW src \in Block(n),
             StorePart(offset, n, src)
      PROVE  TypeOK' /\ CallFits'
  BY <1>1, StorePartType
<1>2. ASSUME NEW offset \in Offset, NEW n \in Length, FetchPart(offset, n)
      PROVE  TypeOK' /\ CallFits'
  BY <1>2, FetchPartType
<1>3. CASE Validate
  BY <1>3, ValidateType
<1>4. ASSUME NEW item \in Fill, Reset(item) PROVE TypeOK' /\ CallFits'
  BY <1>4, ResetType
<1>5. CASE Step
  BY <1>5, WriteDataType, WriteSumType, CalculateType, FetchSumType, CompareType,
     ResetStepType DEF Step
<1>6. CASE IOError \/ Crash
  BY <1>6, InterruptedType DEF IOError, Crash
<1>7. CASE UNCHANGED vars
  BY <1>7 DEF vars, TypeOK, CallFits, OutOfRange, Wrapped
<1>. QED
  BY <1>1, <1>2, <1>3, <1>4, <1>5, <1>6, <1>7 DEF Next

LEMMA TypesInvariant == Spec => [](TypeOK /\ CallFits)
  BY InitTypes, StepTypes, PTL DEF Spec

\* The state of src/persistent-storage.c stays of its type for all parameters a
\* user may pass, those that make the range check wrap around included.
THEOREM TypeCorrect == Spec => []TypeOK
  BY TypesInvariant, PTL

(***************************************************************************)
(* What an access leaves of the two areas, as long as the parameters of a  *)
(* partial access do not wrap around.                                      *)
(***************************************************************************)

NoWrap == \A offset \in Offset, n \in Length : offset + n < Word

LEMMA ReadFrame ==
  ASSUME medium' = medium
  PROVE  Data' = Data /\ StoredSum' = StoredSum
  BY DEF Data, StoredSum, BlockRead

LEMMA WriteToData ==
  ASSUME TypeOK, NEW offset \in Nat, NEW n \in Nat, offset + n <= DataSize, NEW src,
         medium' = BlockWritten(Wrapped(DataAddress + offset), src, n)
  PROVE  /\ Data' = Overlay(Data, offset, src, n)
         /\ StoredSum' = StoredSum
         /\ \A a \in Address : (a < Place \/ a >= DataAddress + DataSize) => medium'[a] = medium[a]
<1>. DEFINE w == Wrapped(DataAddress + offset)
<1>1. w \in Nat /\ (n # 0 => w = DataAddress + offset)
  <2>1. DataAddress + offset \in Nat
    BY LayoutLemma
  <2>2. n # 0 => DataAddress + offset \in 0 .. Word - 1
    BY LayoutLemma
  <2>. QED
    BY <2>1, <2>2, WrappedLemma
<1>. HIDE DEF w
<1>2. \A a \in Address : medium'[a] = IF n # 0 /\ DataAddress + offset <= a /\ a < DataAddress + offset + n
                                     THEN src[a - (DataAddress + offset)] ELSE medium[a]
  <2>1. \A a \in Address : medium'[a] = IF w <= a /\ a < w + n THEN src[a - w] ELSE medium[a]
    BY DEF BlockWritten, w
  <2>. QED
    BY <1>1, <2>1, LayoutLemma DEF Address
<1>3. ASSUME NEW i \in 0 .. DataSize - 1
      PROVE  medium'[DataAddress + i] = IF offset <= i /\ i < offset + n THEN src[i - offset]
                                        ELSE medium[DataAddress + i]
  <2>1. DataAddress + i \in Address /\ DataAddress + i - (DataAddress + offset) = i - offset
    BY LayoutLemma DEF Address
  <2>. QED
    BY <1>2, <2>1, LayoutLemma
<1>4. Data' = Overlay(Data, offset, src, n)
  BY <1>3 DEF Data, BlockRead, Overlay
<1>5. ASSUME NEW i \in 0 .. SumSize - 1 PROVE medium'[Place + i] = medium[Place + i]
  <2>1. Place + i \in Address /\ Place + i < DataAddress
    BY LayoutLemma DEF Address
  <2>. QED
    BY <1>2, <2>1, LayoutLemma
<1>6. StoredSum' = StoredSum
  BY <1>5 DEF StoredSum, BlockRead
<1>7. \A a \in Address : (a < Place \/ a >= DataAddress + DataSize) => medium'[a] = medium[a]
  BY <1>2, LayoutLemma DEF Address
<1>. QED
  BY <1>4, <1>6, <1>7

LEMMA WriteToSum ==
  ASSUME TypeOK, NEW offset \in Nat, NEW n \in Nat, offset + n <= SumSize, NEW src,
         medium' = BlockWritten(Place + offset, src, n)
  PROVE  /\ Data' = Data
         /\ (offset = 0 /\ n = SumSize /\ src \in Block(SumSize)) => StoredSum' = src
         /\ \A a \in Address : (a < Place \/ a >= DataAddress + DataSize) => medium'[a] = medium[a]
<1>1. \A a \in Address : medium'[a] = IF Place + offset <= a /\ a < Place + offset + n
                                      THEN src[a - (Place + offset)] ELSE medium[a]
  BY DEF BlockWritten
<1>2. ASSUME NEW i \in 0 .. DataSize - 1
      PROVE  medium'[DataAddress + i] = medium[DataAddress + i]
  <2>1. DataAddress + i \in Address
    BY LayoutLemma DEF Address
  <2>. QED
    BY <1>1, <2>1, LayoutLemma
<1>3. Data' = Data
  BY <1>2 DEF Data, BlockRead
<1>4. ASSUME offset = 0, n = SumSize, src \in Block(SumSize)
      PROVE  StoredSum' = src
  <2>1. ASSUME NEW i \in 0 .. SumSize - 1 PROVE medium'[Place + i] = src[i]
    <3>1. Place + i \in Address /\ Place + i - (Place + offset) = i
      BY <1>4, LayoutLemma DEF Address
    <3>. QED
      BY <1>1, <1>4, <3>1, LayoutLemma
  <2>2. src = [i \in 0 .. SumSize - 1 |-> src[i]]
    BY <1>4 DEF Block
  <2>. QED
    BY <2>1, <2>2 DEF StoredSum, BlockRead
<1>5. \A a \in Address : (a < Place \/ a >= DataAddress + DataSize) => medium'[a] = medium[a]
  BY <1>1, LayoutLemma DEF Address
<1>. QED
  BY <1>3, <1>4, <1>5

\* The range check of persistent_store_part() as it is meant.
LEMMA AcceptedLemma ==
  ASSUME NoWrap, TypeOK, CallFits, pc = "write_data"
  PROVE  /\ call.op = "store" /\ call.offset \in Nat /\ call.n \in Nat
         /\ call.src \in Block(call.n) /\ call.offset + call.n <= DataSize
<1>1. call.op = "store" /\ call.offset \in Offset /\ call.n \in Length
      /\ call.src \in Block(call.n)
  BY DEF CallFits, TypeOK
<1>2. call.offset \in Nat /\ call.n \in Nat /\ call.offset + call.n \in 0 .. Word - 1
  <2>1. call.offset \in Nat /\ call.n \in Nat
    BY <1>1, LayoutLemma
  <2>2. call.offset + call.n < Word
    BY <1>1 DEF NoWrap
  <2>. QED
    BY <2>1, <2>2, LayoutLemma
<1>3. ~(call.offset + call.n > DataSize)
  BY <1>2, WrappedLemma DEF CallFits, OutOfRange
<1>. QED
  BY <1>1, <1>2, <1>3, LayoutLemma

LEMMA WholeOverlay ==
  ASSUME NEW d, NEW src \in Block(DataSize)
  PROVE  Overlay(d, 0, src, DataSize) = src
<1>1. \A i \in 0 .. DataSize - 1 : 0 <= i /\ i < 0 + DataSize /\ i - 0 = i
  BY LayoutLemma
<1>2. src = [i \in 0 .. DataSize - 1 |-> src[i]]
  BY DEF Block
<1>. QED
  BY <1>1, <1>2 DEF Overlay

(***************************************************************************)
(* The strengthened invariant, action by action.                           *)
(***************************************************************************)

Fits == SumFits /\ HistoryFits

LEMMA InitFits == Init => Fits
  BY DEF Init, Fits, SumFits, HistoryFits, DataWritten, None

\* A call that ends without changing anything in the medium or the history.
LEMMA ReturnsFits ==
  ASSUME Inv, ~DataWritten, NEW code, Returns(code), medium' = medium, UNCHANGED history
  PROVE  Fits'
  BY ReadFrame DEF Inv, Fits, SumFits, HistoryFits, Returns, None, DataWritten, history

LEMMA StorePartFits ==
  ASSUME Inv, NEW offset \in Offset, NEW n \in Length, NEW src \in Block(n),
         StorePart(offset, n, src)
  PROVE  Fits'
<1>1. CASE pc = "idle" /\ Returns("out_of_range") /\ UNCHANGED <<medium, history>>
  BY <1>1, ReturnsFits DEF DataWritten
<1>2. CASE /\ Calls([op |-> "store", offset |-> offset, n |-> n, src |-> src], "write_data")
           /\ UNCHANGED <<medium, pos, acc, stored>>
           /\ IF doubt = "none"
                THEN target' = Overlay(Data, offset, src, n) /\ UNCHANGED <<base, doubt>>
                ELSE Lost
  BY <1>2, ReadFrame
     DEF Inv, Fits, SumFits, HistoryFits, DataWritten, Calls, Lost, Overlay
<1>. QED
  BY <1>1, <1>2 DEF StorePart

LEMMA WriteDataFits == NoWrap /\ Inv /\ WriteData => Fits'
<1>. SUFFICES ASSUME NoWrap, Inv, WriteData
              PROVE  Fits'
  OBVIOUS
<1>1. /\ call.op = "store" /\ call.offset \in Nat /\ call.n \in Nat
      /\ call.src \in Block(call.n) /\ call.offset + call.n <= DataSize
  BY AcceptedLemma DEF Inv, WriteData
<1>2. Data' = Overlay(Data, call.offset, call.src, call.n) /\ StoredSum' = StoredSum
  BY <1>1, WriteToData DEF WriteData, Inv
<1>3. Whole(call.offset, call.n) => Data' = call.src
  BY <1>1, <1>2, WholeOverlay DEF Whole
<1>4. Data' \in Block(DataSize) /\ DataWritten'
  <2>1. medium' \in [Address -> Octet]
    BY WriteDataType DEF Inv, TypeOK
  <2>2. \A i \in 0 .. DataSize - 1 : DataAddress + i \in Address
    BY LayoutLemma DEF Address
  <2>3. Data' \in Block(DataSize)
    BY <2>1, <2>2 DEF Data, BlockRead, Block
  <2>. QED
    BY <1>1, <2>3 DEF WriteData, DataWritten
<1>5. SumFits'
  <2>1. CASE Whole(call.offset, call.n)
    BY <1>1, <1>3, <2>1 DEF WriteData, SumFits, Whole
  <2>2. CASE ~Whole(call.offset, call.n)
    <3>1. acc' = Initial /\ pos' = 0 /\ pc' = "calculate" /\ call'.op = "store"
      BY <1>1, <2>2 DEF WriteData, Inv, CallFits
    <3>2. Process(Initial, Data', 0, 0) = Initial
      BY <1>4, ChecksumAssumption
    <3>. QED
      BY <3>1, <3>2 DEF SumFits
  <2>. QED
    BY <2>1, <2>2
<1>6. HistoryFits'
  BY <1>1, <1>2, <1>3, <1>4 DEF WriteData, Inv, HistoryFits, Whole, DataWritten, history
<1>. QED
  BY <1>5, <1>6 DEF Fits

LEMMA WriteSumFits == Inv /\ WriteSum => Fits'
<1>. SUFFICES ASSUME Inv, WriteSum
              PROVE  Fits'
  OBVIOUS
<1>1. DataWritten /\ call.op = "store" /\ acc = Sum(Data) /\ acc \in SumValue
  BY DEF Inv, WriteSum, CallFits, SumFits, DataWritten, TypeOK
<1>2. Encode(acc) \in Block(SumSize)
  BY <1>1, ChecksumAssumption
<1>3. medium' = BlockWritten(Place + 0, Encode(acc), SumSize)
  BY LayoutLemma DEF WriteSum
<1>4. Data' = Data /\ StoredSum' = Encode(acc)
  BY <1>2, <1>3, WriteToSum, LayoutLemma DEF Inv
<1>5. (doubt = "none" \/ Whole(call.offset, call.n)) => Stored = Data
  BY <1>1 DEF Inv, HistoryFits, Stored
<1>6. pc' = "idle" /\ call'.op = "none" /\ ~DataWritten'
  BY DEF WriteSum, Returns, None, DataWritten
<1>7. HistoryFits'
  <2>1. CASE doubt = "none" \/ Whole(call.offset, call.n)
    BY <1>1, <1>4, <1>5, <1>6, <2>1 DEF WriteSum, Settled, HistoryFits
  <2>2. CASE ~(doubt = "none" \/ Whole(call.offset, call.n))
    BY <1>6, <2>2 DEF WriteSum, Lost, HistoryFits
  <2>. QED
    BY <2>1, <2>2
<1>. QED
  BY <1>6, <1>7 DEF Fits, SumFits

\* One turn of the loop of persistent_calculate_checksum(), or its end.
LEMMA CalculateFits == Inv /\ Calculate => Fits'
<1>. SUFFICES ASSUME Inv, Calculate
              PROVE  Fits'
  OBVIOUS
<1>1. pos \in 0 .. DataSize /\ acc = Process(Initial, Data, 0, pos) /\ DataSize \in Nat
  BY LayoutLemma DEF Inv, Calculate, TypeOK, SumFits
<1>2. Data' = Data /\ StoredSum' = StoredSum
  BY ReadFrame DEF Calculate
<1>3. SumFits'
  <2>1. CASE Rest(DataSize)
    <3>1. pos' \in 0 .. DataSize /\ pos <= pos' /\ acc' = Process(acc, Data, pos, pos')
      BY <1>1, <2>1, ChunkLemma, LayoutLemma DEF Calculate
    <3>2. acc' = Process(Initial, Data, 0, pos')
      <4>1. Data \in Block(DataSize) /\ 0 \in 0 .. DataSize /\ 0 <= pos
        BY <1>1, BlockTypes DEF Inv, TypeOK
      <4>. QED
        BY <1>1, <3>1, <4>1, ChecksumAssumption
    <3>. QED
      BY <1>2, <2>1, <3>2 DEF Calculate, Inv, SumFits
  <2>2. CASE ~Rest(DataSize)
    <3>1. pos = DataSize
      BY <1>1, <2>2 DEF Rest
    <3>. QED
      BY <1>1, <1>2, <2>2, <3>1 DEF Calculate, Inv, SumFits, Sum
  <2>. QED
    BY <2>1, <2>2
<1>4. DataWritten' <=> DataWritten
  BY DEF Calculate, DataWritten, Inv, CallFits
<1>5. pc' # "write_data" /\ call' = call /\ UNCHANGED <<base, target, doubt>>
  BY DEF Calculate, history
<1>6. HistoryFits'
  BY <1>2, <1>4, <1>5 DEF Inv, HistoryFits, Whole
<1>. QED
  BY <1>3, <1>6 DEF Fits

LEMMA FetchSumFits == Inv /\ FetchSum => Fits'
<1>. SUFFICES ASSUME Inv, FetchSum
              PROVE  Fits'
  OBVIOUS
<1>1. Data' = Data /\ StoredSum' = StoredSum
  BY ReadFrame DEF FetchSum
<1>2. acc' = Initial /\ pos' = 0 /\ call.op = "validate" /\ call' = call
      /\ ~DataWritten /\ ~DataWritten' /\ pc' = "calculate"
  BY DEF FetchSum, Inv, CallFits, DataWritten
<1>3. Process(Initial, Data, 0, 0) = Initial
  BY BlockTypes, ChecksumAssumption DEF Inv, TypeOK
<1>4. SumFits'
  BY <1>1, <1>2, <1>3 DEF FetchSum, SumFits
<1>5. HistoryFits'
  BY <1>1, <1>2 DEF FetchSum, Inv, HistoryFits, history
<1>. QED
  BY <1>4, <1>5 DEF Fits

LEMMA CompareFits == Inv /\ Compare => Fits'
<1>. SUFFICES ASSUME Inv, Compare
              PROVE  Fits'
  OBVIOUS
<1>1. Data' = Data /\ StoredSum' = StoredSum
  BY ReadFrame DEF Compare
<1>2. acc = Sum(Data) /\ stored = StoredSum /\ call.op = "validate" /\ ~DataWritten
  BY DEF Compare, Inv, CallFits, SumFits, DataWritten
<1>3. pc' = "idle" /\ call'.op = "none" /\ ~DataWritten'
  BY DEF Compare, Returns, None, DataWritten
<1>4. CASE stored = Encode(acc) /\ Settled(Data)
  BY <1>1, <1>2, <1>3, <1>4 DEF Fits, SumFits, HistoryFits, Settled
<1>5. CASE UNCHANGED history
  BY <1>1, <1>2, <1>3, <1>5 DEF Inv, Fits, SumFits, HistoryFits, history
<1>. QED
  BY <1>4, <1>5 DEF Compare

LEMMA ResetStepFits == Inv /\ ResetStep => Fits'
<1>. SUFFICES ASSUME Inv, ResetStep
              PROVE  Fits'
  OBVIOUS
<1>1. call.op = "reset" /\ doubt = "lost" /\ doubt' = "lost"
  BY DEF ResetStep, Inv, CallFits, HistoryFits, history
<1>2. call'.op \in {"reset", "none"} /\ pc' \in {"idle", "reset_sum", "reset_data"}
  BY <1>1 DEF ResetStep, ResetArea, Returns, None
<1>. QED
  BY <1>1, <1>2 DEF Fits, SumFits, HistoryFits, DataWritten

(***************************************************************************)
(* A failure in the middle of an access: what was written is a prefix of   *)
(* what was asked for, so the other area is as it was.                     *)
(***************************************************************************)

LEMMA InterruptedFrame ==
  ASSUME NoWrap, Inv, NEW k \in 0 .. Pending.n,
         medium' = BlockWritten(Pending.address, Pending.src, k)
  PROVE  /\ pc = "write_data" => StoredSum' = StoredSum
         /\ pc = "write_sum" => Data' = Data
         /\ pc \notin {"write_data", "write_sum", "reset_sum", "reset_data"} =>
              Data' = Data /\ StoredSum' = StoredSum
         /\ \A a \in Address : (a < Place \/ a >= DataAddress + DataSize) => medium'[a] = medium[a]
<1>0. TypeOK /\ CallFits /\ k \in Nat
  BY PendingType DEF Inv
<1>1. CASE pc = "write_data"
  <2>1. Pending.address = Wrapped(DataAddress + call.offset) /\ Pending.n = call.n
    BY <1>1 DEF Pending
  <2>2. call.offset \in Nat /\ call.n \in Nat /\ call.offset + call.n <= DataSize
    BY <1>0, <1>1, AcceptedLemma
  <2>3. call.offset + k <= DataSize
    BY <1>0, <2>1, <2>2, LayoutLemma
  <2>. QED
    BY <1>0, <1>1, <2>1, <2>2, <2>3, WriteToData
<1>2. CASE pc = "write_sum"
  <2>1. Pending.address = Place + 0 /\ Pending.n = SumSize
    BY <1>2, LayoutLemma DEF Pending
  <2>2. 0 \in Nat /\ 0 + k <= SumSize
    BY <1>0, <2>1, LayoutLemma
  <2>. QED
    BY <1>0, <1>2, <2>1, <2>2, WriteToSum
<1>3. CASE pc = "reset_sum"
  <2>1. Pending.address = Place + pos /\ Pending.n = ToGet(SumSize)
    BY <1>3 DEF Pending
  <2>2. pos \in Nat /\ pos <= SumSize /\ ToGet(SumSize) <= SumSize - pos
    BY <1>0, <1>3, LayoutLemma DEF TypeOK, ToGet, Minimum
  <2>3. pos + k <= SumSize
    BY <1>0, <2>1, <2>2, LayoutLemma DEF ToGet, Minimum
  <2>. QED
    BY <1>0, <1>3, <2>1, <2>2, <2>3, WriteToSum
<1>4. CASE pc = "reset_data"
  <2>1. Pending.address = DataAddress + pos /\ Pending.n = ToGet(DataSize)
    BY <1>4 DEF Pending
  <2>2. pos \in Nat /\ pos <= DataSize /\ ToGet(DataSize) <= DataSize - pos
    BY <1>0, <1>4, LayoutLemma DEF TypeOK, ToGet, Minimum
  <2>3. pos + k <= DataSize
    BY <1>0, <2>1, <2>2, LayoutLemma DEF ToGet, Minimum
  <2>4. k = 0 \/ Wrapped(DataAddress + pos) = DataAddress + pos
    <3>1. k # 0 => DataAddress + pos \in 0 .. Word - 1
      BY <1>0, <2>2, <2>3, LayoutLemma
    <3>. QED
      BY <3>1, WrappedLemma
  <2>5. medium' = BlockWritten(Wrapped(DataAddress + pos), Pending.src, k)
    <3>1. DataAddress + pos \in Nat /\ Wrapped(DataAddress + pos) \in Nat
      BY <2>2, LayoutLemma, WrappedLemma
    <3>2. CASE k = 0
      <4>1. \A w \in Nat : BlockWritten(w, Pending.src, k) = [a \in Address |-> medium[a]]
        BY <3>2, LayoutLemma DEF BlockWritten, Address
      <4>. QED
        BY <2>1, <3>1, <4>1
    <3>. QED
      BY <2>1, <2>4, <3>2
  <2>. QED
    BY <1>0, <1>4, <2>2, <2>3, <2>5, WriteToData
<1>5. CASE pc \notin {"write_data", "write_sum", "reset_sum", "reset_data"}
  <2>1. Pending.address = 0 /\ Pending.n = 0
    BY <1>5 DEF Pending
  <2>2. k = 0
    BY <2>1
  <2>3. medium' = medium
    BY <1>0, <2>1, <2>2 DEF BlockWritten, TypeOK, Address
  <2>. QED
    BY <1>5, <2>3, ReadFrame
<1>. QED
  BY <1>1, <1>2, <1>3, <1>4, <1>5

LEMMA InterruptedFits ==
  ASSUME NoWrap, Inv, NEW code, Interrupted(code)
  PROVE  Fits'
<1>1. PICK k \in 0 .. Pending.n : medium' = BlockWritten(Pending.address, Pending.src, k)
  BY DEF Interrupted
<1>2. /\ pc = "write_data" => StoredSum' = StoredSum
      /\ pc = "write_sum" => Data' = Data
      /\ pc \notin {"write_data", "write_sum", "reset_sum", "reset_data"} =>
           Data' = Data /\ StoredSum' = StoredSum
  BY <1>1, InterruptedFrame
<1>3. pc' = "idle" /\ call'.op = "none" /\ ~DataWritten' /\ UNCHANGED <<base, target>>
  BY DEF Interrupted, Returns, None, DataWritten
<1>4. CASE call.op = "store" /\ doubt = "none"
  <2>1. doubt' = "one"
    BY <1>4 DEF Interrupted
  <2>2. Data' = target' \/ StoredSum' = Encode(Sum(base'))
    <3>1. pc \in {"write_data", "write_sum", "calculate"}
      BY <1>4 DEF Inv, CallFits, TypeOK, None
    <3>2. CASE pc = "write_data"
      BY <1>2, <1>3, <1>4, <3>2 DEF Inv, HistoryFits, DataWritten
    <3>3. CASE pc # "write_data"
      BY <1>2, <1>3, <1>4, <3>1, <3>3 DEF Inv, HistoryFits, DataWritten
    <3>. QED
      BY <3>2, <3>3
  <2>. QED
    BY <1>3, <2>1, <2>2 DEF Fits, SumFits, HistoryFits
<1>5. CASE ~(call.op = "store" /\ doubt = "none")
  <2>1. doubt' = doubt
    BY <1>5 DEF Interrupted
  <2>2. CASE doubt = "lost"
    BY <1>3, <2>1, <2>2 DEF Fits, SumFits, HistoryFits
  <2>3. CASE doubt # "lost"
    <3>1. pc \notin {"write_data", "write_sum", "reset_sum", "reset_data"} /\ ~DataWritten
      BY <1>5, <2>3 DEF Inv, CallFits, HistoryFits, TypeOK, DataWritten
    <3>. QED
      BY <1>2, <1>3, <2>1, <3>1 DEF Inv, Fits, SumFits, HistoryFits
  <2>. QED
    BY <2>2, <2>3
<1>. QED
  BY <1>4, <1>5

LEMMA StepFits ==
  ASSUME NoWrap
  PROVE  Inv /\ [Next]_vars => Fits'
<1>. SUFFICES ASSUME Inv, [Next]_vars
              PROVE  Fits'
  OBVIOUS
<1>1. ASSUME NEW offset \in Offset, NEW n \in Length, NEW src \in Block(n),
             StorePart(offset, n, src)
      PROVE  Fits'
  BY <1>1, StorePartFits
<1>2. ASSUME NEW offset \in Offset, NEW n \in Length, FetchPart(offset, n)
      PROVE  Fits'
  BY <1>2, ReturnsFits DEF FetchPart, DataWritten
<1>3. CASE Validate
  BY <1>3, ReadFrame DEF Validate, Calls, Inv, Fits, SumFits, HistoryFits, DataWritten,
     None, history
<1>4. ASSUME NEW item \in Fill, Reset(item) PROVE Fits'
  BY <1>4 DEF Reset, Calls, Lost, Fits, SumFits, HistoryFits, DataWritten, None
<1>5. CASE Step
  BY <1>5, WriteDataFits, WriteSumFits, CalculateFits, FetchSumFits, CompareFits,
     ResetStepFits DEF Step
<1>6. CASE IOError \/ Crash
  BY <1>6, InterruptedFits DEF IOError, Crash
<1>7. CASE UNCHANGED vars
  BY <1>7, ReadFrame DEF vars, Inv, Fits, SumFits, HistoryFits, DataWritten, Overlay, Whole
<1>. QED
  BY <1>1, <1>2, <1>3, <1>4, <1>5, <1>6, <1>7 DEF Next

LEMMA InvInvariant ==
  ASSUME NoWrap
  PROVE  Spec => []Inv
<1>1. Init => Inv
  BY InitTypes, InitFits DEF Inv, Fits
<1>2. Inv /\ [Next]_vars => Inv'
  BY StepTypes, StepFits DEF Inv, Fits
<1>. QED
  BY <1>1, <1>2, PTL DEF Spec

(***************************************************************************)
(* Theorems: of a section whose partial accesses do not wrap around.       *)
(***************************************************************************)

\* persistent_checksum() of the source and persistent_calculate_checksum() of
\* the medium agree, for every data size and every size of the buffer.
THEOREM ChecksumIsOfTheData ==
  ASSUME NoWrap
  PROVE  Spec => []ChecksumCoversData
<1>1. Inv => ChecksumCoversData
  BY DEF Inv, SumFits, ChecksumCoversData
<1>. QED
  BY <1>1, InvInvariant, PTL

\* After successful calls of persistent_store_part() the section validates and
\* holds what was stored.
THEOREM StoresSettle ==
  ASSUME NoWrap
  PROVE  Spec => []SettledIsValid
<1>1. Inv => SettledIsValid
  BY DEF Inv, HistoryFits, CallFits, DataWritten, SettledIsValid, Valid
<1>. QED
  BY <1>1, InvInvariant, PTL

\* With a checksum that tells all blocks apart, persistent_validate() accepts
\* the section after one interrupted store only if the data is the old data or
\* the new data.
THEOREM OneFaultNoticed ==
  ASSUME NoWrap, Detecting
  PROVE  Spec => []OneFaultIsNoticed
<1>1. Inv => OneFaultIsNoticed
  <2>. SUFFICES ASSUME Inv, doubt = "one", Valid
                PROVE  Data = base \/ Data = target
    BY DEF OneFaultIsNoticed
  <2>1. Data \in Block(DataSize) /\ base \in Block(DataSize)
    BY BlockTypes DEF Inv, TypeOK
  <2>2. CASE StoredSum = Encode(Sum(base))
    <3>1. Encode(Sum(Data)) = Encode(Sum(base))
      BY <2>2 DEF Valid
    <3>2. Sum(Data) = Sum(base)
      BY <2>1, <3>1, SumType, ChecksumAssumption
    <3>. QED
      BY <2>1, <3>2 DEF Detecting
  <2>. QED
    BY <2>2 DEF Inv, HistoryFits
<1>. QED
  BY <1>1, InvInvariant, PTL

\* No operation of the API touches an octet outside of the section.
THEOREM WritesStayInSection ==
  ASSUME NoWrap
  PROVE  Spec => SectionOnly
<1>. DEFINE Frame == \A a \in Address :
              (a < Place \/ a >= DataAddress + DataSize) => medium'[a] = medium[a]
<1>1. ASSUME Inv, [Next]_vars
      PROVE  Frame
  <2>1. CASE WriteData
    BY <1>1, <2>1, AcceptedLemma, WriteToData DEF WriteData, Inv
  <2>2. CASE WriteSum
    <3>1. medium' = BlockWritten(Place + 0, Encode(acc), SumSize)
      BY <2>2, LayoutLemma DEF WriteSum
    <3>. QED
      BY <1>1, <3>1, WriteToSum, LayoutLemma DEF Inv
  <2>3. CASE ResetStep
    <3>1. CASE pc \in {"reset_sum", "reset_data"} /\ medium' # medium
      <4>1. medium' = BlockWritten(Pending.address, Pending.src, Pending.n)
        BY <2>3, <3>1 DEF ResetStep, ResetArea, Pending
      <4>2. Pending.n \in 0 .. Pending.n
        BY <1>1, PendingType DEF Inv
      <4>. QED
        BY <1>1, <4>1, <4>2, InterruptedFrame
    <3>. QED
      BY <2>3, <3>1 DEF ResetStep
  <2>4. CASE IOError \/ Crash
    BY <1>1, <2>4, InterruptedFrame DEF IOError, Crash, Interrupted
  <2>5. CASE medium' = medium
    BY <2>5
  <2>6. Calculate \/ FetchSum \/ Compare \/ UNCHANGED vars => medium' = medium
    BY DEF Calculate, FetchSum, Compare, vars
  <2>7. /\ \A offset \in Offset, n \in Length : \A src \in Block(n) :
             StorePart(offset, n, src) => medium' = medium
        /\ \A offset \in Offset, n \in Length : FetchPart(offset, n) => medium' = medium
        /\ Validate => medium' = medium
        /\ \A item \in Fill : Reset(item) => medium' = medium
    BY DEF StorePart, FetchPart, Validate, Reset
  <2>. QED
    BY <1>1, <2>1, <2>2, <2>3, <2>4, <2>5, <2>6, <2>7 DEF Next, Step
<1>2. Inv /\ [Next]_vars => [Frame]_vars
  BY <1>1
<1>. QED
  BY <1>2, InvInvariant, PTL DEF Spec, SectionOnly
================================================================================
