------------------------- MODULE RegisterProtocolProofs -------------------------
(***************************************************************************)
(* Proofs about the register protocol, for allocators, memories and blocks *)
(* of every size, and every set of requests and of things that happen to   *)
(* frames: where the blocks of the allocator are, that each request that   *)
(* arrives undamaged is answered once, and that the party that asked reads *)
(* the answer as the one to its request.                                   *)
(*                                                                         *)
(* The last of these needs to know what parse_frame() makes of what the    *)
(* make_*() functions write.  The lemmas about the header come first, then *)
(* those about the memory, about each kind of frame, and about each step.  *)
(***************************************************************************)
EXTENDS RegisterProtocol, Recursion, SequenceTheorems, TLAPS

(***************************************************************************)
(* Blocks.                                                                 *)
(***************************************************************************)

\* The RPMaybeFrame of a frame that was received.
FrameFits(f) ==
  /\ f = [id |-> f.id, block |-> f.block, header |-> f.header, payload |-> f.payload,
          asks |-> f.asks, sound |-> f.sound, replies |-> f.replies, sunk |-> f.sunk]
  /\ f.block \in BOOLEAN

\* BlocksReturn itself is inductive but for the types of what it counts.
IInv ==
  /\ pool \in Nat /\ others \in Nat /\ leaked \in Nat
  /\ stage \in {"idle", "received", "processed"}
  /\ stage # "idle" => FrameFits(mf)
  /\ BlocksReturn

\* The steps that leave the blocks and their owners alone.
LEMMA OtherSteps ==
  ASSUME IInv, UNCHANGED <<stage, mf, pool, others, leaked>>
  PROVE  IInv'
<1>. QED BY DEF IInv, BlocksReturn, FrameFits

LEMMA ResponderStays ==
  ASSUME IInv, UNCHANGED <<others, responder>>
  PROVE  IInv'
<1>. QED BY OtherSteps DEF responder

\* Sending a response, or none, changes what is known of a frame, and not its block.
LEMMA SendingKeepsBlock ==
  ASSUME NEW octets, NEW of, FrameFits(of), Sends(octets, of) \/ SendsNothing(of)
  PROVE  FrameFits(mf') /\ mf'.block = of.block
<1>1. CASE mf' = [of EXCEPT !.replies = @ + 1]
  BY <1>1 DEF FrameFits
<1>2. CASE mf' = [of EXCEPT !.sunk = TRUE]
  BY <1>2 DEF FrameFits
<1>3. CASE mf' = of
  BY <1>3
<1>. QED BY <1>1, <1>2, <1>3 DEF Sends, SendsNothing

\* The invariant behind a step that leaves a frame in mf, by whether it has a block.
LEMMA ReceivedFits ==
  ASSUME pool' \in Nat, others' \in Nat, leaked' \in Nat,
         stage' \in {"received", "processed"}, FrameFits(mf'),
         \/ mf'.block = TRUE /\ pool' + others' + leaked' = Blocks - 1
         \/ mf'.block = FALSE /\ pool' + others' + leaked' = Blocks
  PROVE  IInv'
<1>. DEFINE owned == IF mf'.block THEN 1 ELSE 0
<1>1. pool' + others' + leaked' = Blocks - owned
  <2>1. CASE mf'.block = TRUE /\ pool' + others' + leaked' = Blocks - 1
    <3>1. owned = 1
      BY <2>1, Zenon
    <3>. QED BY <2>1, <3>1
  <2>2. CASE mf'.block = FALSE /\ pool' + others' + leaked' = Blocks
    <3>1. owned = 0
      BY <2>2, Zenon
    <3>2. Blocks = Blocks - 0
      BY BlockAssumption
    <3>. QED BY <2>2, <3>1, <3>2, Zenon
  <2>. QED BY <2>1, <2>2
<1>2. FrameFits(mf)'
  BY DEF FrameFits
<1>. QED BY <1>1, <1>2 DEF IInv, BlocksReturn

\* regp_recv() takes the block of the frame it returns, unless there is none.
LEMMA ReceiveStep ==
  ASSUME IInv, Receive
  PROVE  IInv'
<1>. DEFINE busy == pool = 0
<1>1. stage = "idle" /\ stage' = "received" /\ UNCHANGED <<others, leaked>>
  BY DEF Receive
<1>2. pool' = IF busy THEN pool ELSE pool - 1
  BY DEF Receive
<1>3. FrameFits(mf') /\ mf'.block = ~busy
  <2>1. PICK frame, parsed : Hears(frame, ~busy, parsed)
    BY DEF Receive
  <2>. DEFINE of == Returned(frame, ~busy, parsed)
  <2>2. FrameFits(of) /\ of.block = ~busy
    BY DEF Returned, FrameFits
  <2>. HIDE DEF of
  <2>3. (\E octets : Sends(octets, of)) \/ SendsNothing(of)
    BY <2>1 DEF Hears, RejectsHeader, of
  <2>. QED BY <2>2, <2>3, SendingKeepsBlock
<1>4. CASE busy
  <2>1. mf'.block = FALSE /\ pool' = pool
    BY <1>2, <1>3, <1>4
  <2>2. pool' + others' + leaked' = Blocks
    BY <1>1, <2>1 DEF IInv, BlocksReturn
  <2>. QED BY <1>1, <1>3, <2>1, <2>2, ReceivedFits DEF IInv
<1>5. CASE ~busy
  <2>1. mf'.block = TRUE /\ pool' = pool - 1
    BY <1>2, <1>3, <1>5
  <2>2. pool' \in Nat /\ pool' + others' + leaked' = Blocks - 1
    BY <1>1, <1>5, <2>1, BlockAssumption DEF IInv, BlocksReturn
  <2>. QED BY <1>1, <1>3, <2>1, <2>2, ReceivedFits DEF IInv
<1>. QED BY <1>4, <1>5

\* regp_process() answers from the frame's block, and keeps it.
LEMMA ProcessStep ==
  ASSUME IInv, Process
  PROVE  IInv'
<1>1. /\ stage = "received" /\ stage' = "processed"
      /\ UNCHANGED <<pool, others, leaked>>
  BY DEF Process
<1>2. \E octets : Sends(octets, mf) \/ SendsNothing(mf)
  BY DEF Process, Serve
<1>3. FrameFits(mf)
  BY <1>1 DEF IInv
<1>4. FrameFits(mf') /\ mf'.block = mf.block
  BY <1>2, <1>3, SendingKeepsBlock
<1>. QED BY <1>1, <1>4 DEF IInv, BlocksReturn

\* regp_free() gives back the block that was taken for the frame, if one was.
LEMMA FreeStep ==
  ASSUME IInv, Free
  PROVE  IInv'
<1>1. /\ stage = "processed" /\ stage' = "idle"
      /\ pool' = (IF mf.block THEN pool + 1 ELSE pool)
      /\ UNCHANGED <<others, leaked>>
  BY DEF Free, Freed
<1>2. mf.block \in BOOLEAN
  BY <1>1 DEF IInv, FrameFits
<1>3. CASE mf.block = TRUE
  <2>1. pool' = pool + 1
    BY <1>1, <1>3
  <2>2. pool + others + leaked = Blocks - 1
    BY <1>1, <1>3 DEF IInv, BlocksReturn
  <2>. QED BY <1>1, <2>1, <2>2, BlockAssumption DEF IInv, BlocksReturn
<1>4. CASE mf.block = FALSE
  <2>1. pool' = pool
    BY <1>1, <1>4
  <2>2. pool + others + leaked = Blocks
    BY <1>1, <1>4, BlockAssumption DEF IInv, BlocksReturn
  <2>. QED BY <1>1, <2>1, <2>2 DEF IInv, BlocksReturn
<1>. QED BY <1>2, <1>3, <1>4

\* A transport that fails loses the block, or did not get one.
LEMMA ReceiveFailsStep ==
  ASSUME IInv, NEW i, ReceiveFails(i)
  PROVE  IInv'
<1>1. stage = "idle" /\ stage' = "idle" /\ UNCHANGED <<mf, others>>
  BY DEF ReceiveFails
<1>2. \/ pool > 0 /\ pool' = pool - 1 /\ leaked' = leaked + 1
      \/ UNCHANGED <<pool, leaked>>
  BY DEF ReceiveFails
<1>. QED BY <1>1, <1>2 DEF IInv, BlocksReturn

LEMMA Initially == RegpInit => IInv
<1>. QED BY BlockAssumption DEF RegpInit, IInv, BlocksReturn

LEMMA Preserved == IInv /\ [RegpNext]_regpVars => IInv'
<1>. SUFFICES ASSUME IInv, [RegpNext]_regpVars
              PROVE  IInv'
  OBVIOUS
<1>1. ASSUME NEW ask \in Asks, Request(ask)
      PROVE  IInv'
  BY <1>1, ResponderStays DEF Request
<1>2. ASSUME NEW octets \in Strays, Stray(octets)
      PROVE  IInv'
  BY <1>2, ResponderStays DEF Stray
<1>3. CASE ResetSession
  BY <1>3, ResponderStays DEF ResetSession
<1>4. ASSUME NEW frames, Happens(frames)
      PROVE  IInv'
  BY <1>4, ResponderStays DEF Happens
<1>5. CASE Lose
  BY <1>4, <1>5 DEF Lose
<1>6. CASE Join
  BY <1>6, ResponderStays DEF Join
<1>7. ASSUME NEW i, LoseOctet(i) \/ Split(i)
      PROVE  IInv'
  BY <1>4, <1>7 DEF LoseOctet, Split
<1>8. ASSUME NEW i, NEW d, ChangeOctet(i, d)
      PROVE  IInv'
  BY <1>4, <1>8 DEF ChangeOctet
<1>9. CASE OthersTake
  BY <1>9 DEF OthersTake, IInv, BlocksReturn, FrameFits
<1>10. CASE OthersFree
  BY <1>10 DEF OthersFree, IInv, BlocksReturn, FrameFits
<1>11. CASE Receive
  BY <1>11, ReceiveStep
<1>12. ASSUME NEW i, ReceiveFails(i)
       PROVE  IInv'
  BY <1>12, ReceiveFailsStep
<1>13. CASE Process
  BY <1>13, ProcessStep
<1>14. CASE Free
  BY <1>14, FreeStep
<1>15. CASE UNCHANGED regpVars
  BY <1>15, OtherSteps DEF regpVars
<1>. QED BY <1>1, <1>2, <1>3, <1>5, <1>6, <1>7, <1>8, <1>9, <1>10, <1>11, <1>12, <1>13,
            <1>14, <1>15 DEF RegpNext

\* Whatever happens to frames, to the allocator and to the transport, regp_recv(),
\* regp_process() and regp_free() return every block they took, and free none twice,
\* but for the blocks regp_recv() loses when the transport fails.
THEOREM EveryBlockReturns == RegpSpec => []BlocksReturn
<1>1. IInv => BlocksReturn
  BY DEF IInv
<1>. QED BY <1>1, Initially, Preserved, PTL DEF RegpSpec
(***************************************************************************)
(* Addresses.                                                              *)
(***************************************************************************)

LEMMA FirstOfIs ==
  ASSUME NEW S \in SUBSET Nat, S # {}
  PROVE  FirstOf(S) \in S /\ \A y \in S : FirstOf(S) <= y
  BY LeastNumber, Zenon DEF FirstOf

(***************************************************************************)
(* Checksums of octets are words of sixteen bits.                          *)
(***************************************************************************)

Word16 == {n \in Nat : n <= 65535}

LEMMA FourNibbles ==
  ASSUME NEW p \in Nibble, NEW q \in Nibble, NEW r \in Nibble, NEW s \in Nibble
  PROVE  1 * p + 16 * q + 256 * r + 4096 * s \in Word16
<1>1. /\ p \in Nat /\ p <= 15 /\ q \in Nat /\ q <= 15
      /\ r \in Nat /\ r <= 15 /\ s \in Nat /\ s <= 15
  BY DEF Nibble
<1>. HIDE DEF Nibble
<1>2. 1 * p + 16 * q + 256 * r + 4096 * s \in Nat
  BY <1>1
<1>3. 1 * p + 16 * q + 256 * r + 4096 * s <= 65535
  BY <1>1
<1>. QED BY <1>2, <1>3 DEF Word16

LEMMA NibblesOf ==
  ASSUME NEW a \in Nat
  PROVE  /\ (a \div 1) % 16 \in Nibble
         /\ (a \div 16) % 16 \in Nibble
         /\ (a \div 256) % 16 \in Nibble
         /\ (a \div 4096) % 16 \in Nibble
<1>1. ASSUME NEW n \in Nat PROVE n % 16 \in Nibble
  BY DEF Nibble
<1>2. (a \div 1) % 16 \in Nibble
  <2>1. a \div 1 \in Nat
    OBVIOUS
  <2>. QED BY <1>1, <2>1
<1>3. (a \div 16) % 16 \in Nibble
  <2>1. a \div 16 \in Nat
    OBVIOUS
  <2>. QED BY <1>1, <2>1
<1>4. (a \div 256) % 16 \in Nibble
  <2>1. a \div 256 \in Nat
    OBVIOUS
  <2>. QED BY <1>1, <2>1
<1>5. (a \div 4096) % 16 \in Nibble
  <2>1. a \div 4096 \in Nat
    OBVIOUS
  <2>. QED BY <1>1, <2>1
<1>. QED BY <1>2, <1>3, <1>4, <1>5

LEMMA XorType ==
  ASSUME NEW a \in Word16, NEW b \in Word16
  PROVE  Xor(a, b) \in Word16
<1>1. ASSUME NEW x \in Nibble, NEW y \in Nibble PROVE NibbleXor[x][y] \in Nibble
  BY <1>1 DEF NibbleXor, Nibble
<1>2. /\ (a \div 1) % 16 \in Nibble /\ (b \div 1) % 16 \in Nibble
      /\ (a \div 16) % 16 \in Nibble /\ (b \div 16) % 16 \in Nibble
      /\ (a \div 256) % 16 \in Nibble /\ (b \div 256) % 16 \in Nibble
      /\ (a \div 4096) % 16 \in Nibble /\ (b \div 4096) % 16 \in Nibble
  <2>1. a \in Nat /\ b \in Nat
    BY DEF Word16
  <2>. QED BY <2>1, NibblesOf
<1>. DEFINE d(i) == NibbleXor[(a \div i) % 16][(b \div i) % 16]
<1>3. d(1) \in Nibble /\ d(16) \in Nibble /\ d(256) \in Nibble /\ d(4096) \in Nibble
  BY <1>1, <1>2
<1>4. Xor(a, b) = 1 * d(1) + 16 * d(16) + 256 * d(256) + 4096 * d(4096)
  BY DEF Xor
<1>. HIDE DEF d
<1>. QED BY <1>3, <1>4, FourNibbles

LEMMA XorOfBytes ==
  ASSUME NEW a \in Byte, NEW b \in Byte
  PROVE  Xor(a, b) \in Byte
<1>1. ASSUME NEW x \in Nibble, NEW y \in Nibble PROVE NibbleXor[x][y] \in Nibble
  BY <1>1 DEF NibbleXor, Nibble
<1>2. NibbleXor[0][0] = 0
  BY DEF NibbleXor, Nibble
<1>3. /\ (a \div 1) % 16 \in Nibble /\ (b \div 1) % 16 \in Nibble
      /\ (a \div 16) % 16 \in Nibble /\ (b \div 16) % 16 \in Nibble
      /\ (a \div 256) % 16 = 0 /\ (b \div 256) % 16 = 0
      /\ (a \div 4096) % 16 = 0 /\ (b \div 4096) % 16 = 0
  BY DEF Byte, Nibble
<1>. DEFINE d(i) == NibbleXor[(a \div i) % 16][(b \div i) % 16]
<1>4. d(1) \in Nibble /\ d(16) \in Nibble /\ d(256) = 0 /\ d(4096) = 0
  BY <1>1, <1>2, <1>3
<1>5. Xor(a, b) = 1 * d(1) + 16 * d(16) + 256 * d(256) + 4096 * d(4096)
  BY DEF Xor
<1>. HIDE DEF d
<1>. QED BY <1>4, <1>5 DEF Nibble, Byte

\* The eight steps behind an entry of crc16_table[].
Shifts(f, i) ==
  f = [n \in 0 .. 8 |->
         IF n = 0 THEN i
         ELSE IF f[n - 1] % 2 = 1 THEN Xor(f[n - 1] \div 2, Polynomial) ELSE f[n - 1] \div 2]

LEMMA ShiftType ==
  ASSUME NEW c \in Word16
  PROVE  (IF c % 2 = 1 THEN Xor(c \div 2, Polynomial) ELSE c \div 2) \in Word16
<1>1. c \div 2 \in Word16 /\ Polynomial \in Word16
  BY DEF Word16, Polynomial
<1>. QED BY <1>1, XorType

LEMMA TableType ==
  ASSUME NEW i \in Byte
  PROVE  Table[i] \in Word16
<1>. DEFINE Shift(c) == IF c % 2 = 1 THEN Xor(c \div 2, Polynomial) ELSE c \div 2
            step == [n \in 1 .. 8 |-> [c \in Word16 |-> Shift(c)]]
            f == CHOOSE f : Shifts(f, i)
<1>1. \E g \in [0 .. 8 -> Word16] : Shifts(g, i)
  <2>1. step \in [1 .. 8 -> [Word16 -> Word16]]
    BY ShiftType
  <2>2. i \in Word16
    BY DEF Byte, Word16
  <2>. HIDE DEF step
  <2>3. PICK g : Iterates(g, Word16, i, 8, step)
    BY <2>1, <2>2, Iteration
  <2>g. g \in [0 .. 8 -> Word16] /\ g[0] = i /\ \A n \in 1 .. 8 : g[n] = step[n][g[n - 1]]
    BY <2>3 DEF Iterates
  <2>4. ASSUME NEW n \in 1 .. 8 PROVE g[n] = Shift(g[n - 1])
    <3>1. n - 1 \in 0 .. 8
      OBVIOUS
    <3>2. g[n - 1] \in Word16
      BY <2>g, <3>1
    <3>3. step[n][g[n - 1]] = Shift(g[n - 1])
      BY <3>2 DEF step
    <3>. QED BY <2>g, <3>3
  <2>5. g = [n \in 0 .. 8 |-> IF n = 0 THEN i ELSE Shift(g[n - 1])]
    <3>1. g = [n \in 0 .. 8 |-> g[n]]
      BY <2>g
    <3>2. \A n \in 0 .. 8 : g[n] = IF n = 0 THEN i ELSE Shift(g[n - 1])
      <4>1. \A n \in 0 .. 8 : n # 0 => n \in 1 .. 8
        OBVIOUS
      <4>. HIDE DEF Shift
      <4>. QED BY <2>g, <2>4, <4>1
    <3>. HIDE DEF Shift
    <3>. QED BY <3>1, <3>2
  <2>. QED BY <2>g, <2>5 DEF Shifts
<1>2. Table[i] = f[8]
  BY Zenon DEF Table, Shifts
<1>. HIDE DEF f
<1>3. Shifts(f, i)
  BY <1>1, Zenon DEF f
<1>4. \A n \in 0 .. 8 : f[n] = IF n = 0 THEN i ELSE Shift(f[n - 1])
  <2>1. f = [n \in 0 .. 8 |-> IF n = 0 THEN i ELSE Shift(f[n - 1])]
    BY <1>3 DEF Shifts
  <2>. HIDE DEF Shift
  <2>. QED BY <2>1, Zenon
<1>5. ASSUME NEW c \in Word16 PROVE Shift(c) \in Word16
  BY ShiftType
<1>. HIDE DEF Shift
<1>. DEFINE T == {n \in Nat : n <= 8 => f[n] \in Word16}
<1>6. 0 \in T
  <2>1. f[0] = i
    BY <1>4
  <2>2. i \in Word16
    BY DEF Byte, Word16
  <2>. QED BY <2>1, <2>2
<1>7. ASSUME NEW n \in T PROVE n + 1 \in T
  <2>1. n + 1 <= 8 => n + 1 \in 0 .. 8 /\ n + 1 # 0 /\ n + 1 - 1 = n /\ n <= 8
    OBVIOUS
  <2>. QED BY <1>4, <1>5, <2>1
<1>8. 8 \in T
  <2>1. T \in SUBSET Nat
    OBVIOUS
  <2>. HIDE DEF T
  <2>. QED BY <1>6, <1>7, <2>1, Induction
<1>. QED BY <1>2, <1>8

Sums(f, crc, octets) ==
  f = [n \in 0 .. Len(octets) |-> IF n = 0 THEN crc ELSE CrcOctet(f[n - 1], octets[n])]

LEMMA CrcFromType ==
  ASSUME NEW crc \in Word16, NEW octets \in Seq(Byte)
  PROVE  CrcFrom(crc, octets) \in Word16
<1>. DEFINE N == Len(octets)
            Next(n, c) == CrcOctet(c, octets[n])
            step == [n \in 1 .. N |-> [c \in Word16 |-> Next(n, c)]]
            f == CHOOSE f : Sums(f, crc, octets)
<1>1. N \in Nat
  OBVIOUS
<1>2. ASSUME NEW n \in 1 .. N, NEW c \in Word16 PROVE Next(n, c) \in Word16
  <2>1. octets[n] \in Byte
    OBVIOUS
  <2>2. c \div 256 \in Word16 /\ c % 256 \in Byte
    <3>1. c \in Nat /\ c <= 65535
      BY DEF Word16
    <3>2. c \div 256 \in Nat /\ c \div 256 <= 65535
      BY <3>1
    <3>3. c % 256 \in 0 .. 255
      BY <3>1
    <3>. QED BY <3>2, <3>3 DEF Word16, Byte
  <2>3. Xor(c % 256, octets[n]) \in Byte
    BY <2>1, <2>2, XorOfBytes
  <2>4. Table[Xor(c % 256, octets[n])] \in Word16
    BY <2>3, TableType
  <2>. QED BY <2>2, <2>4, XorType DEF CrcOctet
<1>3. \E g \in [0 .. N -> Word16] : Sums(g, crc, octets)
  <2>1. step \in [1 .. N -> [Word16 -> Word16]]
    BY <1>2
  <2>. HIDE DEF step
  <2>3. PICK g : Iterates(g, Word16, crc, N, step)
    BY <1>1, <2>1, Iteration
  <2>g. g \in [0 .. N -> Word16] /\ g[0] = crc /\ \A n \in 1 .. N : g[n] = step[n][g[n - 1]]
    BY <2>3 DEF Iterates
  <2>4. ASSUME NEW n \in 1 .. N PROVE g[n] = Next(n, g[n - 1])
    <3>1. n - 1 \in 0 .. N
      BY <1>1
    <3>2. g[n - 1] \in Word16
      BY <2>g, <3>1
    <3>3. step[n][g[n - 1]] = Next(n, g[n - 1])
      BY <3>2 DEF step
    <3>. QED BY <2>g, <3>3
  <2>. HIDE DEF Next
  <2>5. g = [n \in 0 .. N |-> IF n = 0 THEN crc ELSE Next(n, g[n - 1])]
    <3>1. g = [n \in 0 .. N |-> g[n]]
      BY <2>g
    <3>2. \A n \in 0 .. N : g[n] = IF n = 0 THEN crc ELSE Next(n, g[n - 1])
      <4>1. \A n \in 0 .. N : n # 0 => n \in 1 .. N
        BY <1>1
      <4>. QED BY <2>g, <2>4, <4>1
    <3>. QED BY <3>1, <3>2
  <2>. QED BY <2>g, <2>5 DEF Sums, Next
<1>4. CrcFrom(crc, octets) = f[N]
  BY Zenon DEF CrcFrom, Sums
<1>5. Sums(f, crc, octets)
  BY <1>3, Zenon
<1>. HIDE DEF f
<1>6. \A n \in 0 .. N : f[n] = IF n = 0 THEN crc ELSE Next(n, f[n - 1])
  <2>1. f = [n \in 0 .. N |-> IF n = 0 THEN crc ELSE Next(n, f[n - 1])]
    BY <1>5 DEF Sums
  <2>. HIDE DEF Next
  <2>. QED BY <2>1, Zenon
<1>. HIDE DEF Next
<1>. DEFINE T == {n \in Nat : n <= N => f[n] \in Word16}
<1>7. 0 \in T
  BY <1>1, <1>6
<1>8. ASSUME NEW n \in T PROVE n + 1 \in T
  <2>1. n + 1 <= N => n + 1 \in 0 .. N /\ n + 1 \in 1 .. N /\ n + 1 # 0 /\ n + 1 - 1 = n /\ n <= N
    BY <1>1
  <2>. QED BY <1>2, <1>6, <2>1
<1>9. N \in T
  <2>1. T \in SUBSET Nat
    OBVIOUS
  <2>. HIDE DEF T
  <2>. QED BY <1>1, <1>7, <1>8, <2>1, Induction
<1>. QED BY <1>1, <1>4, <1>9

LEMMA CrcType ==
  ASSUME NEW octets \in Seq(Byte)
  PROVE  Crc(octets) \in Word16
<1>1. 0 \in Word16
  BY DEF Word16
<1>. QED BY <1>1, CrcFromType DEF Crc

(***************************************************************************)
(* Numbers and their octets.                                               *)
(***************************************************************************)

LEMMA Digits ==
  ASSUME NEW n \in Nat
  PROVE  /\ n \div 256 \in Nat /\ n % 256 \in Byte /\ n = (n \div 256) * 256 + (n % 256)
         /\ n \div 65536 \in Nat /\ n % 65536 \in Word16
         /\ n = (n \div 65536) * 65536 + (n % 65536)
<1>1. n \div 256 \in Nat /\ n \div 65536 \in Nat
  BY SMT
<1>2. n % 256 \in Nat /\ n % 256 <= 255
  BY SMT
<1>3. n % 65536 \in Nat /\ n % 65536 <= 65535
  BY SMT
<1>4. n = 256 * (n \div 256) + (n % 256)
  BY SMT, <1>1, <1>2
<1>5. n = 65536 * (n \div 65536) + (n % 65536)
  BY SMT, <1>1, <1>3
<1>. QED BY SMT, <1>1, <1>2, <1>3, <1>4, <1>5 DEF Byte, Word16

LEMMA ByteBounds == \A b \in Byte : b \in Nat /\ b <= 255
  BY DEF Byte

LEMMA TwoParts ==
  ASSUME NEW s \in Seq(Byte), NEW t \in Seq(Byte)
  PROVE  /\ s \o t \in Seq(Byte) /\ Len(s \o t) = Len(s) + Len(t)
         /\ \A i \in 1 .. Len(s) : (s \o t)[i] = s[i]
         /\ \A i \in 1 .. Len(t) : (s \o t)[Len(s) + i] = t[i]
<1>1. Len(s) \in Nat /\ Len(t) \in Nat
  OBVIOUS
<1>2. s \o t \in Seq(Byte) /\ Len(s \o t) = Len(s) + Len(t)
  BY ConcatProperties
<1>3. \A i \in 1 .. Len(s) + Len(t) : (s \o t)[i] = IF i <= Len(s) THEN s[i] ELSE t[i - Len(s)]
  BY ConcatProperties
<1>4. \A i \in 1 .. Len(s) : i \in 1 .. Len(s) + Len(t) /\ i <= Len(s)
  BY <1>1
<1>5. \A i \in 1 .. Len(t) : /\ Len(s) + i \in 1 .. Len(s) + Len(t) /\ ~(Len(s) + i <= Len(s))
                            /\ Len(s) + i - Len(s) = i
  BY <1>1
<1>. QED BY <1>2, <1>3, <1>4, <1>5

LEMMA FourOctets ==
  ASSUME NEW s \in Seq(Byte), NEW t \in Seq(Byte), Len(s) = 2, Len(t) = 2
  PROVE  /\ s \o t \in Seq(Byte) /\ Len(s \o t) = 4
         /\ (s \o t)[1] = s[1] /\ (s \o t)[2] = s[2]
         /\ (s \o t)[3] = t[1] /\ (s \o t)[4] = t[2]
<1>1. 1 \in 1 .. Len(s) /\ 2 \in 1 .. Len(s) /\ 1 \in 1 .. Len(t) /\ 2 \in 1 .. Len(t)
  OBVIOUS
<1>2. (s \o t)[1] = s[1] /\ (s \o t)[2] = s[2]
  <2>1. \A i \in 1 .. Len(s) : (s \o t)[i] = s[i]
    BY TwoParts, Zenon
  <2>. QED BY <1>1, <2>1, Zenon
<1>3. (s \o t)[Len(s) + 1] = t[1] /\ (s \o t)[Len(s) + 2] = t[2]
  <2>1. \A i \in 1 .. Len(t) : (s \o t)[Len(s) + i] = t[i]
    BY TwoParts, Zenon
  <2>. QED BY <1>1, <2>1, Zenon
<1>4. Len(s) + 1 = 3 /\ Len(s) + 2 = 4
  OBVIOUS
<1>5. s \o t \in Seq(Byte) /\ Len(s \o t) = 4
  <2>1. s \o t \in Seq(Byte) /\ Len(s \o t) = Len(s) + Len(t)
    BY TwoParts, Zenon
  <2>2. Len(s) + Len(t) = 4
    OBVIOUS
  <2>. QED BY <2>1, <2>2, Zenon
<1>. QED BY <1>2, <1>3, <1>4, <1>5

LEMMA U16Is ==
  ASSUME NEW n \in Word16
  PROVE  /\ U16(n) \in Seq(Byte) /\ Len(U16(n)) = 2
         /\ Number16(U16(n)) = n
         /\ U16(n)[1] = n \div 256 /\ U16(n)[2] = n % 256
<1>1. n \in Nat /\ n <= 65535
  BY SMT DEF Word16
<1>2. n \div 256 \in Byte
  <2>1. n \div 256 \in Nat /\ n \div 256 <= 255
    BY SMT, <1>1
  <2>. QED BY SMT, <2>1 DEF Byte
<1>3. n % 256 \in Byte /\ n = (n \div 256) * 256 + (n % 256)
  BY SMT, <1>1, Digits
<1>. QED BY SMT, <1>2, <1>3 DEF U16, Number16

LEMMA Number16Type ==
  ASSUME NEW octets \in Seq(Byte), Len(octets) = 2
  PROVE  Number16(octets) \in Word16
<1>1. octets[1] \in Byte /\ octets[2] \in Byte
  BY SMT
<1>2. octets[1] \in Nat /\ octets[1] <= 255 /\ octets[2] \in Nat /\ octets[2] <= 255
  BY <1>1, ByteBounds
<1>3. octets[1] * 256 + octets[2] \in Nat /\ octets[1] * 256 + octets[2] <= 65535
  BY SMT, <1>2
<1>. QED BY <1>3 DEF Number16, Word16

LEMMA Number32Type ==
  ASSUME NEW octets \in Seq(Byte), Len(octets) = 4
  PROVE  Number32(octets) \in Nat /\ Number32(octets) <= Huge
<1>1. octets[1] \in Byte /\ octets[2] \in Byte /\ octets[3] \in Byte /\ octets[4] \in Byte
  OBVIOUS
<1>2. /\ octets[2] \in Nat /\ octets[3] \in Nat /\ octets[4] \in Nat
      /\ octets[2] <= 255 /\ octets[3] <= 255 /\ octets[4] <= 255
  BY <1>1, ByteBounds
<1>. DEFINE n == octets[2] * 65536 + octets[3] * 256 + octets[4]
<1>3. n \in Nat /\ n <= 16777215
  BY SMT, <1>2
<1>. HIDE DEF n
<1>4. Huge \in Nat /\ n <= Huge /\ Huge <= Huge
  BY SMT, <1>3 DEF Huge
<1>5. Number32(octets) = IF octets[1] # 0 THEN Huge ELSE n
  BY SMT DEF Number32, n
<1>. QED BY SMT, <1>3, <1>4, <1>5

LEMMA U32Is ==
  ASSUME NEW n \in Word32
  PROVE  /\ U32(n) \in Seq(Byte) /\ Len(U32(n)) = 4
         /\ Number32(U32(n)) = IF n < Huge THEN n ELSE Huge
<1>. DEFINE h == n \div 65536
            l == n % 65536
<1>1. n \in Nat /\ h \in Nat /\ h <= 65535
  BY SMT DEF Word32
<1>2. h \in Word16 /\ l \in Word16 /\ n = h * 65536 + l
  BY SMT, <1>1, Digits DEF Word16
<1>. HIDE DEF h, l
<1>3. U32(n) = U16(h) \o U16(l)
  BY SMT DEF U32, h, l
<1>4. /\ U16(h) \in Seq(Byte) /\ Len(U16(h)) = 2 /\ U16(l) \in Seq(Byte) /\ Len(U16(l)) = 2
      /\ U16(h)[1] = h \div 256 /\ U16(h)[2] = h % 256
      /\ U16(l)[1] = l \div 256 /\ U16(l)[2] = l % 256
  BY SMT, <1>2, U16Is
<1>5. U32(n) \in Seq(Byte) /\ Len(U32(n)) = 4
  BY <1>3, <1>4, FourOctets
<1>6. /\ U32(n)[1] = h \div 256 /\ U32(n)[2] = h % 256
      /\ U32(n)[3] = l \div 256 /\ U32(n)[4] = l % 256
  BY <1>3, <1>4, FourOctets
<1>7. /\ h \div 256 \in Nat /\ h % 256 \in Byte /\ h = (h \div 256) * 256 + (h % 256)
      /\ l \div 256 \in Nat /\ l % 256 \in Byte /\ l = (l \div 256) * 256 + (l % 256)
  BY SMT, <1>2, Digits DEF Word16
<1>8. CASE h \div 256 = 0
  <2>1. Number32(U32(n)) = (h % 256) * 65536 + (l \div 256) * 256 + (l % 256)
    BY SMT, <1>6, <1>8 DEF Number32
  <2>2. h = h % 256 /\ h <= 255
    BY SMT, <1>1, <1>7, <1>8 DEF Byte
  <2>3. Number32(U32(n)) = n
    BY SMT, <1>1, <1>2, <1>7, <2>1, <2>2 DEF Word16, Byte
  <2>4. n < Huge
    BY SMT, <1>2, <2>2 DEF Word16, Huge
  <2>. QED BY SMT, <1>5, <2>3, <2>4
<1>9. CASE h \div 256 # 0
  <2>1. Number32(U32(n)) = Huge
    BY SMT, <1>6, <1>9 DEF Number32
  <2>2. h >= 256
    BY SMT, <1>1, <1>7, <1>9 DEF Byte
  <2>3. ~(n < Huge)
    BY SMT, <1>2, <2>2 DEF Word16, Huge
  <2>. QED BY SMT, <1>5, <2>1, <2>3
<1>. QED BY SMT, <1>8, <1>9

(***************************************************************************)
(* Pieces of concatenations.                                               *)
(***************************************************************************)

LEMMA Front ==
  ASSUME NEW s \in Seq(Byte), NEW t \in Seq(Byte), NEW i \in 1 .. Len(s), NEW j \in 1 .. Len(s)
  PROVE  SubSeq(s \o t, i, j) = SubSeq(s, i, j)
  BY SubSeqOfConcat1

LEMMA Back ==
  ASSUME NEW s \in Seq(Byte), NEW t \in Seq(Byte)
  PROVE  SubSeq(s \o t, Len(s) + 1, Len(s) + Len(t)) = t
<1>0. Len(s) \in Nat /\ Len(t) \in Nat
  OBVIOUS
<1>1. CASE t = <<>>
  <2>1. Len(t) = 0
    BY <1>1
  <2>2. Len(s) + Len(t) < Len(s) + 1
    BY <1>0, <2>1
  <2>3. SubSeq(s \o t, Len(s) + 1, Len(s) + Len(t)) = <<>>
    BY <1>0, <2>2, SubSeqEmpty
  <2>. QED BY <1>1, <2>3
<1>2. CASE t # <<>>
  <2>1. Len(t) > 0
    BY <1>2
  <2>2. /\ Len(s) + 1 \in Len(s) + 1 .. Len(s) + Len(t)
        /\ Len(s) + Len(t) \in Len(s) + 1 .. Len(s) + Len(t)
    BY <1>0, <2>1
  <2>3. SubSeq(s \o t, Len(s) + 1, Len(s) + Len(t))
          = SubSeq(t, Len(s) + 1 - Len(s), Len(s) + Len(t) - Len(s))
    BY <2>2, SubSeqOfConcat2
  <2>4. Len(s) + 1 - Len(s) = 1 /\ Len(s) + Len(t) - Len(s) = Len(t)
    BY <1>0
  <2>. QED BY <2>3, <2>4, SubSeqFull
<1>. QED BY <1>1, <1>2

(***************************************************************************)
(* Headers: what make_motv() writes is what parse_header() reads.          *)
(***************************************************************************)

LEMMA ThreeBits ==
  ASSUME NEW a \in {0, 1}, NEW b \in {0, 1}, NEW c \in {0, 1}, NEW x, x = a + 2 * b + 4 * c
  PROVE  x \in 0 .. 7 /\ x % 2 = a /\ (x \div 2) % 2 = b /\ (x \div 4) % 2 = c
<1>1. x \in 0 .. 7
  OBVIOUS
<1>2. x % 2 = a
  OBVIOUS
<1>3. x \div 2 = b + 2 * c /\ (b + 2 * c) % 2 = b
  OBVIOUS
<1>4. x \div 4 = c /\ c % 2 = c
  OBVIOUS
<1>. QED BY <1>1, <1>2, <1>3, <1>4

LEMMA OptionsBits ==
  ASSUME NEW s \in BOOLEAN, NEW w \in BOOLEAN, NEW type, NEW n \in Nat, NEW options,
         options = Options(s, w, type, n)
  PROVE  /\ options \in 0 .. 7
         /\ Has16Bit(options) <=> w
         /\ HasHeaderCrc(options) <=> s
         /\ HasPayloadCrc(options) <=> s /\ n > 0 /\ type # "READ_REQUEST"
<1>. DEFINE p == s /\ n > 0 /\ type # "READ_REQUEST"
            a == IF w THEN 1 ELSE 0
            b == IF s THEN 1 ELSE 0
            c == IF p THEN 1 ELSE 0
<1>1. options = a + 2 * b + 4 * c
  BY DEF Options
<1>2. /\ a \in {0, 1} /\ b \in {0, 1} /\ c \in {0, 1}
      /\ a = 1 <=> w
      /\ b = 1 <=> s
      /\ c = 1 <=> p
  OBVIOUS
<1>. HIDE DEF a, b, c, p
<1>3. options \in 0 .. 7 /\ options % 2 = a /\ (options \div 2) % 2 = b /\ (options \div 4) % 2 = c
  BY <1>1, <1>2, ThreeBits
<1>4. p <=> s /\ n > 0 /\ type # "READ_REQUEST"
  BY DEF p
<1>. QED BY <1>2, <1>3, <1>4, Zenon DEF Has16Bit, HasHeaderCrc, HasPayloadCrc

\* What a header has in front of its checksums.
Body(options, type, meta, number, address, n) ==
  <<meta * 16 + options, TypeCode[type] * 16>> \o U16(number) \o address \o U32(n)

Addresses == {a \in Seq(Byte) : Len(a) = 4}

LEMMA TypeCodes ==
  /\ \A type \in Types : TypeCode[type] \in Nat /\ TypeCode[type] <= 15
  /\ \A type \in Types, other \in Types : TypeCode[type] = TypeCode[other] => type = other
  /\ Types = {"READ_REQUEST", "READ_RESPONSE", "WRITE_REQUEST", "WRITE_RESPONSE", "META"}
  BY DEF TypeCode, Types

BodyReads(body, options, type, meta, number, address, n) ==
  /\ body \in Seq(Byte) /\ Len(body) = 12
  /\ body[1] = meta * 16 + options /\ body[2] = TypeCode[type] * 16
  /\ SubSeq(body, 3, 4) = U16(number)
  /\ SubSeq(body, 5, 8) = address
  /\ SubSeq(body, 9, 12) = U32(n)

LEMMA BodyIs ==
  ASSUME NEW options \in 0 .. 7, NEW type \in Types, NEW meta \in 0 .. 15, NEW number \in Word16,
         NEW address \in Addresses, NEW n \in Word32
  PROVE  BodyReads(Body(options, type, meta, number, address, n),
                   options, type, meta, number, address, n)
<1>. DEFINE body == Body(options, type, meta, number, address, n)
            x == meta * 16 + options
            y == TypeCode[type] * 16
            h == <<x, y>>
            s == U16(number)
            u == U32(n)
<1>1. x \in Byte /\ y \in Byte
  <2>1. meta \in Nat /\ meta <= 15 /\ options \in Nat /\ options <= 7
    OBVIOUS
  <2>2. x \in Nat /\ x <= 255
    BY <2>1
  <2>3. y \in Nat /\ y <= 255
    BY TypeCodes
  <2>. QED BY <2>2, <2>3 DEF Byte
<1>. HIDE DEF x, y
<1>2. h \in Seq(Byte) /\ Len(h) = 2 /\ h[1] = x /\ h[2] = y
  BY <1>1
<1>. HIDE DEF h
<1>3. s \in Seq(Byte) /\ Len(s) = 2
  BY U16Is
<1>4. u \in Seq(Byte) /\ Len(u) = 4
  BY U32Is
<1>5. address \in Seq(Byte) /\ Len(address) = 4
  BY DEF Addresses
<1>6. body = ((h \o s) \o address) \o u
  BY DEF Body, h, x, y
<1>. HIDE DEF s, u, body
<1>7. /\ h \o s \in Seq(Byte) /\ Len(h \o s) = 4
      /\ (h \o s)[1] = x /\ (h \o s)[2] = y
      /\ SubSeq(h \o s, 3, 4) = s
  <2>1. SubSeq(h \o s, Len(h) + 1, Len(h) + Len(s)) = s
    BY <1>2, <1>3, Back
  <2>2. Len(h) + 1 = 3 /\ Len(h) + Len(s) = 4
    BY <1>2, <1>3
  <2>. QED BY <1>2, <1>3, <2>1, <2>2, FourOctets
<1>8. /\ (h \o s) \o address \in Seq(Byte) /\ Len((h \o s) \o address) = 8
      /\ ((h \o s) \o address)[1] = x /\ ((h \o s) \o address)[2] = y
      /\ SubSeq((h \o s) \o address, 3, 4) = s
      /\ SubSeq((h \o s) \o address, 5, 8) = address
  <2>. DEFINE a == h \o s
  <2>. HIDE DEF a
  <2>1. a \in Seq(Byte) /\ Len(a) = 4 /\ a[1] = x /\ a[2] = y /\ SubSeq(a, 3, 4) = s
    BY <1>7 DEF a
  <2>2. a \o address \in Seq(Byte) /\ Len(a \o address) = 8
    <3>1. a \o address \in Seq(Byte) /\ Len(a \o address) = Len(a) + Len(address)
      BY <1>5, <2>1, TwoParts
    <3>. QED BY <1>5, <2>1, <3>1
  <2>3. 1 \in 1 .. Len(a) /\ 2 \in 1 .. Len(a) /\ 3 \in 1 .. Len(a) /\ 4 \in 1 .. Len(a)
    BY <2>1
  <2>4. (a \o address)[1] = x /\ (a \o address)[2] = y
    BY <1>5, <2>1, <2>3, TwoParts
  <2>5. SubSeq(a \o address, 3, 4) = s
    BY <1>5, <2>1, <2>3, Front
  <2>6. SubSeq(a \o address, Len(a) + 1, Len(a) + Len(address)) = address
    BY <1>5, <2>1, Back
  <2>7. Len(a) + 1 = 5 /\ Len(a) + Len(address) = 8
    BY <1>5, <2>1
  <2>. QED BY <2>2, <2>4, <2>5, <2>6, <2>7 DEF a
<1>9. /\ body \in Seq(Byte) /\ Len(body) = 12
      /\ body[1] = x /\ body[2] = y
      /\ SubSeq(body, 3, 4) = s
      /\ SubSeq(body, 5, 8) = address
      /\ SubSeq(body, 9, 12) = u
  <2>. DEFINE a == (h \o s) \o address
  <2>. HIDE DEF a
  <2>1. /\ a \in Seq(Byte) /\ Len(a) = 8 /\ a[1] = x /\ a[2] = y
        /\ SubSeq(a, 3, 4) = s /\ SubSeq(a, 5, 8) = address
    BY <1>8 DEF a
  <2>2. a \o u \in Seq(Byte) /\ Len(a \o u) = 12
    <3>1. a \o u \in Seq(Byte) /\ Len(a \o u) = Len(a) + Len(u)
      BY <1>4, <2>1, TwoParts
    <3>. QED BY <1>4, <2>1, <3>1
  <2>3. /\ 1 \in 1 .. Len(a) /\ 2 \in 1 .. Len(a) /\ 3 \in 1 .. Len(a) /\ 4 \in 1 .. Len(a)
        /\ 5 \in 1 .. Len(a) /\ 8 \in 1 .. Len(a)
    BY <2>1
  <2>4. (a \o u)[1] = x /\ (a \o u)[2] = y
    BY <1>4, <2>1, <2>3, TwoParts
  <2>5. SubSeq(a \o u, 3, 4) = s /\ SubSeq(a \o u, 5, 8) = address
    BY <1>4, <2>1, <2>3, Front
  <2>6. SubSeq(a \o u, Len(a) + 1, Len(a) + Len(u)) = u
    BY <1>4, <2>1, Back
  <2>7. Len(a) + 1 = 9 /\ Len(a) + Len(u) = 12
    BY <1>4, <2>1
  <2>. QED BY <1>6, <2>2, <2>4, <2>5, <2>6, <2>7 DEF a
<1>. QED BY <1>9, Zenon DEF x, y, s, u, body, BodyReads

Regroups(s, t, u) == (s \o t) \o u = s \o (t \o u)

LEMMA Regroup ==
  ASSUME NEW s \in Seq(Byte), NEW t \in Seq(Byte), NEW u \in Seq(Byte)
  PROVE  Regroups(s, t, u)
  BY ConcatAssociative DEF Regroups

\* Four pieces, of which the first is as long as a header without checksums.
InPieces(raw, body, c, p, rest) ==
  /\ raw \in Seq(Byte) /\ Len(raw) = 12 + Len(c) + Len(p) + Len(rest)
  /\ raw[1] = body[1] /\ raw[2] = body[2]
  /\ \A i, j \in 1 .. 12 : SubSeq(raw, i, j) = SubSeq(body, i, j)
  /\ Len(c) = 2 => SubSeq(raw, 13, 14) = c
  /\ Len(c) = 2 /\ Len(p) = 2 => SubSeq(raw, 15, 16) = p
  /\ SubSeq(raw, 12 + Len(c) + Len(p) + 1, Len(raw)) = rest

LEMMA Pieces ==
  ASSUME NEW body \in Seq(Byte), NEW c \in Seq(Byte), NEW p \in Seq(Byte), NEW rest \in Seq(Byte),
         Len(body) = 12
  PROVE  InPieces(((body \o c) \o p) \o rest, body, c, p, rest)
<1>. DEFINE raw == ((body \o c) \o p) \o rest
<1>0. Len(c) \in Nat /\ Len(p) \in Nat /\ Len(rest) \in Nat
  OBVIOUS
<1>. DEFINE a == body \o c
            k == a \o p
            x == p \o rest
            y == c \o x
<1>1. a \in Seq(Byte) /\ Len(a) = 12 + Len(c)
  <2>1. a \in Seq(Byte) /\ Len(a) = Len(body) + Len(c)
    BY TwoParts, Zenon
  <2>. QED BY <2>1
<1>2. x \in Seq(Byte)
  BY TwoParts, Zenon
<1>3. raw = k \o rest /\ k = a \o p /\ a = body \o c
  OBVIOUS
<1>. HIDE DEF a, x, raw
<1>4. k \in Seq(Byte) /\ Len(k) = Len(a) + Len(p)
  BY <1>1, TwoParts
<1>5. y \in Seq(Byte)
  BY <1>2, TwoParts
<1>6. raw = a \o x
  <2>1. Regroups(a, p, rest)
    BY <1>1, Regroup, Zenon
  <2>. QED BY <1>3, <2>1, Zenon DEF x, Regroups
<1>. HIDE DEF k, y
<1>7. raw = body \o y
  <2>1. Regroups(body, c, x)
    BY <1>2, Regroup, Zenon
  <2>. QED BY <1>3, <1>6, <2>1, Zenon DEF y, Regroups
<1>8. raw \in Seq(Byte) /\ Len(raw) = 12 + Len(c) + Len(p) + Len(rest)
  <2>1. raw \in Seq(Byte) /\ Len(raw) = Len(k) + Len(rest)
    BY <1>3, <1>4, TwoParts
  <2>. QED BY <1>0, <1>1, <1>4, <2>1
<1>9. raw[1] = body[1] /\ raw[2] = body[2]
  <2>1. 1 \in 1 .. Len(body) /\ 2 \in 1 .. Len(body)
    OBVIOUS
  <2>2. \A i \in 1 .. Len(body) : (body \o y)[i] = body[i]
    BY <1>5, TwoParts, Zenon
  <2>. QED BY <1>7, <2>1, <2>2, Zenon
<1>10. ASSUME NEW i \in 1 .. 12, NEW j \in 1 .. 12 PROVE SubSeq(raw, i, j) = SubSeq(body, i, j)
  <2>1. i \in 1 .. Len(body) /\ j \in 1 .. Len(body)
    OBVIOUS
  <2>2. SubSeq(body \o y, i, j) = SubSeq(body, i, j)
    BY <1>5, <2>1, Front, Zenon
  <2>. QED BY <1>7, <2>2, Zenon
<1>11. ASSUME Len(c) = 2 PROVE SubSeq(raw, 13, 14) = c
  <2>1. 13 \in 1 .. Len(a) /\ 14 \in 1 .. Len(a)
    BY <1>1, <1>11
  <2>2. SubSeq(raw, 13, 14) = SubSeq(a, 13, 14)
    BY <1>1, <1>2, <1>6, <2>1, Front
  <2>3. SubSeq(a, Len(body) + 1, Len(body) + Len(c)) = c
    BY <1>3, Back
  <2>4. Len(body) + 1 = 13 /\ Len(body) + Len(c) = 14
    BY <1>11
  <2>. QED BY <2>2, <2>3, <2>4
<1>12. ASSUME Len(c) = 2, Len(p) = 2 PROVE SubSeq(raw, 15, 16) = p
  <2>0. Len(a) = 14 /\ Len(k) = 16
    BY <1>1, <1>4, <1>12
  <2>1. 15 \in 1 .. Len(k) /\ 16 \in 1 .. Len(k)
    BY <2>0
  <2>2. SubSeq(raw, 15, 16) = SubSeq(k, 15, 16)
    BY <1>3, <1>4, <2>1, Front
  <2>3. SubSeq(k, Len(a) + 1, Len(a) + Len(p)) = p
    BY <1>1, <1>3, Back
  <2>4. Len(a) + 1 = 15 /\ Len(a) + Len(p) = 16
    BY <2>0, <1>12
  <2>. QED BY <2>2, <2>3, <2>4
<1>13. SubSeq(raw, 12 + Len(c) + Len(p) + 1, Len(raw)) = rest
  <2>1. SubSeq(raw, Len(k) + 1, Len(k) + Len(rest)) = rest
    BY <1>3, <1>4, Back
  <2>2. Len(k) = 12 + Len(c) + Len(p)
    BY <1>0, <1>1, <1>4
  <2>3. Len(k) + Len(rest) = Len(raw)
    BY <1>0, <1>8, <2>2
  <2>. QED BY <2>1, <2>2, <2>3
<1>. QED BY <1>8, <1>9, <1>10, <1>11, <1>12, <1>13, Zenon DEF InPieces, raw

\* How EncodeHeader puts a header together.
Assembled(frame, body, options, plcrc) ==
  \E c, p \in Seq(Byte) :
    /\ frame = (body \o c) \o p
    /\ 12 + Len(c) + Len(p) = SizeWith(options)
    /\ HasHeaderCrc(options) =>
         Len(c) = 2 /\ c = U16(HeaderCrc(body, HasPayloadCrc(options), U16(plcrc)))
    /\ HasPayloadCrc(options) => p = U16(plcrc) /\ Len(p) = 2

LEMMA EncodedIs ==
  ASSUME NEW s \in BOOLEAN, NEW w \in BOOLEAN, NEW type \in Types, NEW meta \in 0 .. 15,
         NEW number \in Word16, NEW address \in Addresses, NEW n \in Word32, NEW plcrc \in Word16
  PROVE  LET options == Options(s, w, type, n)
         IN  Assembled(EncodeHeader(s, w, type, meta, number, address, n, plcrc),
                       Body(options, type, meta, number, address, n), options, plcrc)
<1>. DEFINE options == Options(s, w, type, n)
            body == Body(options, type, meta, number, address, n)
<1>. DEFINE with == HasPayloadCrc(options)
            c == IF HasHeaderCrc(options) THEN U16(HeaderCrc(body, with, U16(plcrc))) ELSE <<>>
            p == IF with THEN U16(plcrc) ELSE <<>>
<1>1. n \in Nat
  BY DEF Word32
<1>2. options \in 0 .. 7 /\ with \in BOOLEAN /\ HasHeaderCrc(options) \in BOOLEAN
  BY <1>1, OptionsBits DEF HasPayloadCrc, HasHeaderCrc
<1>. HIDE DEF options
<1>3. body \in Seq(Byte)
  BY <1>2, BodyIs, Zenon DEF BodyReads
<1>4. U16(plcrc) \in Seq(Byte) /\ Len(U16(plcrc)) = 2
  BY U16Is
<1>5. HeaderCrc(body, with, U16(plcrc)) \in Word16
  <2>1. Crc(body) \in Word16
    BY <1>3, CrcType
  <2>2. CrcFrom(Crc(body), U16(plcrc)) \in Word16
    BY <1>4, <2>1, CrcFromType
  <2>. QED BY <2>1, <2>2 DEF HeaderCrc
<1>6. /\ U16(HeaderCrc(body, with, U16(plcrc))) \in Seq(Byte)
      /\ Len(U16(HeaderCrc(body, with, U16(plcrc)))) = 2
  BY <1>5, U16Is
<1>7. EncodeHeader(s, w, type, meta, number, address, n, plcrc) = (body \o c) \o p
  BY DEF EncodeHeader, Body, options
<1>. HIDE DEF body
<1>8. <<>> \in Seq(Byte) /\ Len(<<>>) = 0
  OBVIOUS
<1>. HIDE DEF with
<1>9. /\ c \in Seq(Byte)
      /\ HasHeaderCrc(options) => c = U16(HeaderCrc(body, with, U16(plcrc))) /\ Len(c) = 2
      /\ ~HasHeaderCrc(options) => Len(c) = 0
  BY <1>6, <1>8
<1>10. /\ p \in Seq(Byte)
       /\ with => p = U16(plcrc) /\ Len(p) = 2
       /\ ~with => Len(p) = 0
  BY <1>4, <1>8
<1>. HIDE DEF c, p
<1>11. 12 + Len(c) + Len(p) = SizeWith(options)
  BY <1>2, <1>9, <1>10 DEF SizeWith, HeaderMin, with
<1>12. Assembled(EncodeHeader(s, w, type, meta, number, address, n, plcrc), body, options, plcrc)
  BY <1>7, <1>9, <1>10, <1>11, Zenon DEF Assembled, with
<1>. QED BY <1>12, Zenon DEF body, options

\* The fields of the header that was written.
FieldsOf(options, type, meta, number, address, n, plcrc) ==
  [type |-> type, options |-> options, meta |-> meta, sequence |-> number, address |-> address,
   blocksize |-> Number32(U32(n)), plcrc |-> IF HasPayloadCrc(options) THEN plcrc ELSE 0]

LEMMA HighAndLow ==
  ASSUME NEW i \in Nat, NEW k \in Nat, k < 16
  PROVE  (i * 16 + k) % 16 = k /\ (i * 16 + k) \div 16 = i
  OBVIOUS

LEMMA HighOnly ==
  ASSUME NEW i \in Nat
  PROVE  (i * 16) % 16 = 0 /\ (i * 16) \div 16 = i
  OBVIOUS

HeaderReads(raw, options, type, meta, number, address, n, plcrc, rest) ==
  /\ raw \in Seq(Byte) /\ Len(raw) = SizeWith(options) + Len(rest) /\ SizeWith(options) \in 12 .. 16
  /\ SubSeq(raw, SizeWith(options) + 1, Len(raw)) = rest
  /\ TypesOf(raw) = {type} /\ raw[1] % 16 = options /\ raw[1] \div 16 = meta
  /\ LegalMeta(type, meta) =>
       ParseHeader(raw) = [rc |-> "ok", size |-> SizeWith(options),
                           header |-> FieldsOf(options, type, meta, number, address, n, plcrc)]

LEMMA HeaderParses ==
  ASSUME NEW s \in BOOLEAN, NEW w \in BOOLEAN, NEW type \in Types, NEW meta \in 0 .. 15,
         NEW number \in Word16, NEW address \in Addresses, NEW n \in Word32, NEW plcrc \in Word16,
         NEW rest \in Seq(Byte)
  PROVE  HeaderReads(EncodeHeader(s, w, type, meta, number, address, n, plcrc) \o rest,
                     Options(s, w, type, n), type, meta, number, address, n, plcrc, rest)
<1>. DEFINE options == Options(s, w, type, n)
            raw == EncodeHeader(s, w, type, meta, number, address, n, plcrc) \o rest
<1>a. options = Options(s, w, type, n)
      /\ raw = EncodeHeader(s, w, type, meta, number, address, n, plcrc) \o rest
  OBVIOUS
<1>. HIDE DEF options, raw
<1>. DEFINE body == Body(options, type, meta, number, address, n)
            frame == EncodeHeader(s, w, type, meta, number, address, n, plcrc)
<1>0. n \in Nat /\ options \in 0 .. 7 /\ (HasPayloadCrc(options) => HasHeaderCrc(options))
  <2>1. n \in Nat
    BY DEF Word32
  <2>. QED BY <1>a, <2>1, OptionsBits
<1>b. body = Body(options, type, meta, number, address, n)
      /\ frame = EncodeHeader(s, w, type, meta, number, address, n, plcrc)
  OBVIOUS
<1>. HIDE DEF body, frame
<1>1. /\ body \in Seq(Byte) /\ Len(body) = 12
      /\ body[1] = meta * 16 + options /\ body[2] = TypeCode[type] * 16
      /\ SubSeq(body, 3, 4) = U16(number)
      /\ SubSeq(body, 5, 8) = address
      /\ SubSeq(body, 9, 12) = U32(n)
  <2>1. BodyReads(body, options, type, meta, number, address, n)
    BY <1>0, <1>b, BodyIs, Zenon
  <2>. QED BY <2>1, Zenon DEF BodyReads
<1>2. PICK c \in Seq(Byte), p \in Seq(Byte) :
        /\ frame = (body \o c) \o p
        /\ 12 + Len(c) + Len(p) = SizeWith(options)
        /\ HasHeaderCrc(options) =>
             Len(c) = 2 /\ c = U16(HeaderCrc(body, HasPayloadCrc(options), U16(plcrc)))
        /\ HasPayloadCrc(options) => p = U16(plcrc) /\ Len(p) = 2
  <2>1. Assembled(frame, body, options, plcrc)
    BY <1>a, <1>b, EncodedIs, Zenon
  <2>. QED BY <2>1, Zenon DEF Assembled
<1>3. raw = ((body \o c) \o p) \o rest
  BY <1>a, <1>2, Zenon DEF frame
<1>4. /\ raw \in Seq(Byte) /\ Len(raw) = 12 + Len(c) + Len(p) + Len(rest)
      /\ raw[1] = body[1] /\ raw[2] = body[2]
      /\ \A i, j \in 1 .. 12 : SubSeq(raw, i, j) = SubSeq(body, i, j)
      /\ Len(c) = 2 => SubSeq(raw, 13, 14) = c
      /\ Len(c) = 2 /\ Len(p) = 2 => SubSeq(raw, 15, 16) = p
      /\ SubSeq(raw, 12 + Len(c) + Len(p) + 1, Len(raw)) = rest
  <2>1. InPieces(raw, body, c, p, rest)
    BY <1>1, <1>3, Pieces, Zenon
  <2>. QED BY <2>1, Zenon DEF InPieces
<1>5. Len(raw) = SizeWith(options) + Len(rest) /\ SubSeq(raw, SizeWith(options) + 1, Len(raw)) = rest
  BY <1>2, <1>4, Zenon
<1>6. /\ SubSeq(raw, 1, 12) = body /\ SubSeq(raw, 3, 4) = U16(number)
      /\ SubSeq(raw, 5, 8) = address /\ SubSeq(raw, 9, 12) = U32(n)
  <2>1. /\ 1 \in 1 .. 12 /\ 12 \in 1 .. 12 /\ 3 \in 1 .. 12 /\ 4 \in 1 .. 12
        /\ 5 \in 1 .. 12 /\ 8 \in 1 .. 12 /\ 9 \in 1 .. 12
    OBVIOUS
  <2>2. SubSeq(body, 1, 12) = body
    BY <1>1, SubSeqFull
  <2>. QED BY <1>1, <1>4, <2>1, <2>2, Zenon
<1>7. /\ raw[1] % 16 = options /\ raw[1] \div 16 = meta
      /\ raw[2] % 16 = 0 /\ raw[2] \div 16 = TypeCode[type]
  <2>1. raw[1] = meta * 16 + options /\ raw[2] = TypeCode[type] * 16
    BY <1>1, <1>4
  <2>2. meta \in Nat /\ options \in Nat /\ options < 16 /\ TypeCode[type] \in Nat
    BY <1>0, TypeCodes
  <2>5. raw[1] % 16 = options /\ raw[1] \div 16 = meta
    BY <2>1, <2>2, HighAndLow, Zenon
  <2>6. raw[2] % 16 = 0 /\ raw[2] \div 16 = TypeCode[type]
    BY <2>1, <2>2, HighOnly, Zenon
  <2>. QED BY <2>5, <2>6, Zenon
<1>8. TypesOf(raw) = {type}
  BY <1>7, TypeCodes DEF TypesOf
<1>9. SizeWith(options) \in Nat /\ Len(rest) \in Nat /\ Len(raw) >= 12
  <2>1. Len(c) \in Nat /\ Len(p) \in Nat /\ Len(rest) \in Nat
    OBVIOUS
  <2>2. SizeWith(options) = 12 + Len(c) + Len(p) /\ Len(raw) = 12 + Len(c) + Len(p) + Len(rest)
    BY <1>2, <1>4, Zenon
  <2>. HIDE DEF raw
  <2>. QED BY <2>1, <2>2
<1>10. ASSUME LegalMeta(type, meta) PROVE WellFormed(raw)
  <2>1. Len(raw) >= HeaderMin
    BY <1>9 DEF HeaderMin
  <2>2. \E t \in TypesOf(raw) : LegalMeta(t, raw[1] \div 16)
    BY <1>7, <1>8, <1>10, Zenon
  <2>3. Len(raw) >= SizeWith(raw[1] % 16)
    BY <1>5, <1>7, <1>9
  <2>4. raw[1] % 16 < 8
    BY <1>0, <1>7
  <2>. QED BY <1>7, <2>1, <2>2, <2>3, <2>4, Zenon DEF WellFormed
<1>11. PayloadCrcIn(raw, options) = IF HasPayloadCrc(options) THEN U16(plcrc) ELSE U16(0)
  <2>1. CASE HasPayloadCrc(options)
    <3>1. SizeWith(options) = 16 /\ SizeWith(options) - 1 = 15
      BY <1>0, <2>1 DEF SizeWith, HeaderMin
    <3>2. SubSeq(raw, 15, 16) = U16(plcrc)
      BY <1>0, <1>2, <1>4, <2>1, Zenon
    <3>. QED BY <2>1, <3>1, <3>2, Zenon DEF PayloadCrcIn
  <2>2. CASE ~HasPayloadCrc(options)
    BY <2>2, Zenon DEF PayloadCrcIn
  <2>. QED BY <2>1, <2>2
<1>12. CrcMatches(raw, options)
  <2>. SUFFICES ASSUME HasHeaderCrc(options)
                PROVE  SubSeq(raw, HeaderMin + 1, HeaderMin + 2)
                         = U16(HeaderCrc(SubSeq(raw, 1, HeaderMin), HasPayloadCrc(options),
                                         PayloadCrcIn(raw, options)))
    BY Zenon DEF CrcMatches
  <2>1. HeaderMin = 12 /\ HeaderMin + 1 = 13 /\ HeaderMin + 2 = 14
    BY DEF HeaderMin
  <2>2. SubSeq(raw, 13, 14) = U16(HeaderCrc(body, HasPayloadCrc(options), U16(plcrc)))
    BY <1>2, <1>4, Zenon
  <2>3. HeaderCrc(body, HasPayloadCrc(options), U16(plcrc))
          = HeaderCrc(body, HasPayloadCrc(options), PayloadCrcIn(raw, options))
    BY <1>11, Zenon DEF HeaderCrc
  <2>. QED BY <1>6, <2>1, <2>2, <2>3, Zenon
<1>13. HeaderIn(raw, options) = FieldsOf(options, type, meta, number, address, n, plcrc)
  <2>1. (CHOOSE t \in TypesOf(raw) : TRUE) = type
    BY <1>8
  <2>2. Number16(SubSeq(raw, 3, 4)) = number
    BY <1>6, U16Is, Zenon
  <2>3. Number16(PayloadCrcIn(raw, options)) = IF HasPayloadCrc(options) THEN plcrc ELSE 0
    <3>1. Number16(U16(plcrc)) = plcrc
      BY U16Is, Zenon
    <3>2. 0 \in Word16
      BY DEF Word16
    <3>3. Number16(U16(0)) = 0
      BY <3>2, U16Is, Zenon
    <3>. QED BY <1>11, <3>1, <3>3, Zenon
  <2>. QED BY <1>6, <1>7, <2>1, <2>2, <2>3, Zenon DEF HeaderIn, FieldsOf
<1>14. ASSUME LegalMeta(type, meta)
       PROVE  ParseHeader(raw) = [rc |-> "ok", size |-> SizeWith(options),
                header |-> FieldsOf(options, type, meta, number, address, n, plcrc)]
  BY <1>7, <1>10, <1>12, <1>13, <1>14, Zenon DEF ParseHeader
<1>15. SizeWith(options) \in 12 .. 16
  BY DEF SizeWith, HeaderMin
<1>16. HeaderReads(raw, options, type, meta, number, address, n, plcrc, rest)
  BY <1>4, <1>5, <1>7, <1>8, <1>14, <1>15, Zenon DEF HeaderReads
<1>. QED BY <1>16, <1>a, Zenon

(***************************************************************************)
(* Frames: what regp_recv() makes of any octets, and of the ones that were *)
(* sent.                                                                   *)
(***************************************************************************)

LEMMA Piece ==
  ASSUME NEW s \in Seq(Byte), NEW i \in Nat, i > 0, NEW j \in Nat, j <= Len(s)
  PROVE  /\ SubSeq(s, i, j) \in Seq(Byte)
         /\ i <= j => Len(SubSeq(s, i, j)) = j - i + 1
<1>1. \A x \in i .. j : s[x] \in Byte
  <2>1. \A x \in i .. j : x \in 1 .. Len(s)
    OBVIOUS
  <2>. QED BY <2>1
<1>2. i \in Int /\ j \in Int
  OBVIOUS
<1>3. /\ SubSeq(s, i, j) \in Seq(Byte)
      /\ Len(SubSeq(s, i, j)) = IF i <= j THEN j - i + 1 ELSE 0
  BY <1>1, <1>2, SubSeqProperties
<1>. QED BY <1>3

\* What is known of a header, whoever sent it.
HeaderFits(h) == h.blocksize \in Nat /\ h.blocksize <= Huge /\ h.address \in Addresses

Errors == {"EBADMSG", "EILSEQ"}

FrameTyped(f) ==
  /\ f.id \in {"ok", "EFAULT", "EPROTO"} \cup Errors
  /\ f.payload \in Seq(Byte)
  /\ HeaderFits(f.header)
  /\ f.id = "ok" => PayloadPlausible(f.header, f.payload)

LEMMA HeaderType ==
  ASSUME NEW raw \in Seq(Byte)
  PROVE  LET p == ParseHeader(raw)
         IN  /\ p.rc \in {"ok"} \cup Errors
             /\ p.size \in Nat
             /\ HeaderFits(p.header)
<1>1. CASE ~WellFormed(raw)
  <2>1. ParseHeader(raw) = BadHeader("EBADMSG")
    BY <1>1 DEF ParseHeader
  <2>2. <<0, 0, 0, 0>> \in Addresses
    BY DEF Addresses, Byte
  <2>3. 0 \in Nat /\ 0 <= Huge
    BY SMT DEF Huge
  <2>. QED BY <2>1, <2>2, <2>3 DEF BadHeader, NoHeader, HeaderFits, Errors
<1>2. CASE WellFormed(raw)
  <2>. DEFINE options == raw[1] % 16
              rc == IF CrcMatches(raw, options) THEN "ok" ELSE "EILSEQ"
  <2>1. ParseHeader(raw) = [rc |-> rc, size |-> SizeWith(options), header |-> HeaderIn(raw, options)]
    BY <1>2, Zenon DEF ParseHeader
  <2>2. Len(raw) \in Nat /\ Len(raw) >= 12
    BY <1>2 DEF WellFormed, HeaderMin
  <2>. HIDE DEF options
  <2>3. SizeWith(options) \in Nat
    BY DEF SizeWith, HeaderMin
  <2>4. SubSeq(raw, 5, 8) \in Addresses
    <3>1. SubSeq(raw, 5, 8) \in Seq(Byte) /\ Len(SubSeq(raw, 5, 8)) = 8 - 5 + 1
      BY <2>2, Piece
    <3>. QED BY <3>1 DEF Addresses
  <2>5. Number32(SubSeq(raw, 9, 12)) \in Nat /\ Number32(SubSeq(raw, 9, 12)) <= Huge
    <3>1. SubSeq(raw, 9, 12) \in Seq(Byte) /\ Len(SubSeq(raw, 9, 12)) = 12 - 9 + 1
      BY <2>2, Piece
    <3>2. Len(SubSeq(raw, 9, 12)) = 4
      BY <3>1
    <3>. QED BY <3>1, <3>2, Number32Type, Zenon
  <2>6. HeaderFits(HeaderIn(raw, options))
    BY <2>4, <2>5, Zenon DEF HeaderIn, HeaderFits
  <2>7. rc \in {"ok"} \cup Errors
    BY DEF Errors
  <2>. HIDE DEF rc
  <2>8. /\ ParseHeader(raw).rc = rc
        /\ ParseHeader(raw).size = SizeWith(options)
        /\ ParseHeader(raw).header = HeaderIn(raw, options)
    BY <2>1
  <2>. QED BY <2>3, <2>6, <2>7, <2>8, Zenon
<1>. QED BY <1>1, <1>2

LEMMA JudgedIs ==
  ASSUME NEW h, NEW payload
  PROVE  /\ Judged(h, payload).header = h
         /\ Judged(h, payload).payload = payload
         /\ Judged(h, payload).id \in {"ok", "EFAULT", "EPROTO"}
         /\ Judged(h, payload).id = "ok" => PayloadPlausible(h, payload)
         /\ PayloadPlausible(h, payload) /\ CheckPayload(h, payload) =>
              Judged(h, payload) = [id |-> "ok", header |-> h, payload |-> payload]
  BY DEF Judged

LEMMA ParsedType ==
  ASSUME NEW raw \in Seq(Byte)
  PROVE  FrameTyped(ParseFrame(raw))
<1>. DEFINE p == ParseHeader(raw)
            payload == SubSeq(raw, p.size + 1, Len(raw))
<1>1. ParseFrame(raw) = IF p.rc # "ok" THEN [id |-> p.rc, header |-> p.header, payload |-> <<>>]
                        ELSE Judged(p.header, payload)
  BY Zenon DEF ParseFrame, Behind
<1>2. p.rc \in {"ok"} \cup Errors /\ p.size \in Nat /\ HeaderFits(p.header)
  BY HeaderType, Zenon
<1>3. payload \in Seq(Byte)
  <2>1. p.size + 1 \in Nat /\ p.size + 1 > 0 /\ Len(raw) \in Nat /\ Len(raw) <= Len(raw)
    BY <1>2
  <2>. QED BY <2>1, Piece, Zenon
<1>4. <<>> \in Seq(Byte)
  OBVIOUS
<1>. HIDE DEF p, payload
<1>5. CASE p.rc # "ok"
  <2>1. ParseFrame(raw) = [id |-> p.rc, header |-> p.header, payload |-> <<>>]
    BY <1>1, <1>5, Zenon
  <2>. QED BY <1>2, <1>4, <1>5, <2>1 DEF FrameTyped
<1>6. CASE p.rc = "ok"
  <2>1. ParseFrame(raw) = Judged(p.header, payload)
    BY <1>1, <1>6, Zenon
  <2>2. /\ Judged(p.header, payload).header = p.header
        /\ Judged(p.header, payload).payload = payload
        /\ Judged(p.header, payload).id \in {"ok", "EFAULT", "EPROTO"}
        /\ Judged(p.header, payload).id = "ok" => PayloadPlausible(p.header, payload)
    BY DEF Judged
  <2>3. FrameTyped(Judged(p.header, payload))
    BY <1>2, <1>3, <2>2 DEF FrameTyped
  <2>. QED BY <2>1, <2>3
<1>. QED BY <1>5, <1>6

LEMMA NoOctets == ParseFrame(<<>>).id = "EBADMSG"
<1>1. ~WellFormed(<<>>)
  BY DEF WellFormed, HeaderMin
<1>2. ParseHeader(<<>>) = BadHeader("EBADMSG")
  BY <1>1, Zenon DEF ParseHeader
<1>3. ParseHeader(<<>>).rc = "EBADMSG" /\ "EBADMSG" # "ok"
  BY <1>2 DEF BadHeader
<1>. QED BY <1>3 DEF ParseFrame, Behind

LEMMA SentParses ==
  ASSUME NEW raw, NEW options, NEW type, NEW meta, NEW number, NEW address, NEW n, NEW plcrc, NEW rest,
         HeaderReads(raw, options, type, meta, number, address, n, plcrc, rest),
         LegalMeta(type, meta)
  PROVE  ParseFrame(raw) = Judged(FieldsOf(options, type, meta, number, address, n, plcrc), rest)
<1>. DEFINE h == FieldsOf(options, type, meta, number, address, n, plcrc)
<1>. HIDE DEF h
<1>1. ParseHeader(raw) = [rc |-> "ok", size |-> SizeWith(options), header |-> h]
  BY Zenon DEF HeaderReads, h
<1>2. SubSeq(raw, SizeWith(options) + 1, Len(raw)) = rest
  BY Zenon DEF HeaderReads
<1>3. ParseFrame(raw) = Judged(h, rest)
  <2>1. /\ ParseHeader(raw).rc = "ok" /\ ParseHeader(raw).size = SizeWith(options)
        /\ ParseHeader(raw).header = h
    BY <1>1
  <2>. QED BY <1>2, <2>1, Zenon DEF ParseFrame, Behind
<1>. QED BY <1>3 DEF h

\* A payload that has the length and the checksum that the header says.
Matches(w, type, n, plcrc, rest) ==
  /\ n < Huge
  /\ Len(rest) = IF w THEN 2 * n ELSE n
  /\ type # "READ_RESPONSE" => n = 0
  /\ n > 0 => plcrc = Crc(rest)

ReadFrom(raw, h, rest) == ParseFrame(raw) = [id |-> "ok", header |-> h, payload |-> rest]

ReplyTypes == {"READ_RESPONSE", "WRITE_RESPONSE", "META"}

\* A reply with such a payload is read as it was sent.
LEMMA ReplyReads ==
  ASSUME NEW s \in BOOLEAN, NEW w \in BOOLEAN, NEW type \in ReplyTypes,
         NEW meta \in 0 .. 15, LegalMeta(type, meta), NEW number \in Word16,
         NEW address \in Addresses, NEW n \in Word32, NEW plcrc \in Word16,
         NEW rest \in Seq(Byte), Matches(w, type, n, plcrc, rest)
  PROVE  ReadFrom(EncodeHeader(s, w, type, meta, number, address, n, plcrc) \o rest,
                  FieldsOf(Options(s, w, type, n), type, meta, number, address, n, plcrc), rest)
<1>0. /\ n < Huge
      /\ Len(rest) = IF w THEN 2 * n ELSE n
      /\ type # "READ_RESPONSE" => n = 0
      /\ n > 0 => plcrc = Crc(rest)
  BY Zenon DEF Matches
<1>. DEFINE options == Options(s, w, type, n)
            h == FieldsOf(options, type, meta, number, address, n, plcrc)
            raw == EncodeHeader(s, w, type, meta, number, address, n, plcrc) \o rest
<1>1. type \in Types /\ type # "READ_REQUEST" /\ type # "WRITE_REQUEST"
  BY TypeCodes DEF ReplyTypes
<1>2. HeaderReads(raw, options, type, meta, number, address, n, plcrc, rest)
  BY <1>1, HeaderParses, Zenon
<1>3. ParseFrame(raw) = Judged(h, rest)
  BY <1>2, SentParses, Zenon
<1>4. n \in Nat /\ Number32(U32(n)) = n
  <2>1. n \in Nat
    BY DEF Word32
  <2>. QED BY <1>0, <2>1, U32Is, Zenon
<1>5. /\ Has16Bit(options) <=> w
      /\ HasHeaderCrc(options) <=> s
      /\ HasPayloadCrc(options) <=> s /\ n > 0 /\ type # "READ_REQUEST"
  BY <1>4, OptionsBits, Zenon
<1>. HIDE DEF options
<1>6. /\ h.type = type /\ h.options = options /\ h.blocksize = n
      /\ h.plcrc = IF HasPayloadCrc(options) THEN plcrc ELSE 0
  BY <1>4, Zenon DEF FieldsOf
<1>. HIDE DEF h
<1>7. (IF Has16Bit(options) THEN Len(rest) \div 2 ELSE Len(rest)) = n
  <2>1. CASE w
    BY <1>0, <1>4, <1>5, <2>1
  <2>2. CASE ~w
    BY <1>0, <1>4, <1>5, <2>2
  <2>. QED BY <2>1, <2>2
<1>8. PayloadPlausible(h, rest)
  BY <1>0, <1>1, <1>6, <1>7, Zenon DEF PayloadPlausible
<1>9. CheckPayload(h, rest)
  <2>. SUFFICES ASSUME s, rest # <<>>
                PROVE  LET m == IF Has16Bit(options) THEN 2 * n ELSE n
                       IN  m <= Len(rest) /\ Crc(SubSeq(rest, 1, m)) = plcrc
    <3>1. rest # <<>> => n > 0
      BY <1>0, <1>4
    <3>2. s /\ rest # <<>> => h.plcrc = plcrc
      BY <1>1, <1>5, <1>6, <3>1, Zenon
    <3>. QED BY <1>5, <1>6, <3>2, Zenon DEF CheckPayload
  <2>1. (IF Has16Bit(options) THEN 2 * n ELSE n) = Len(rest)
    BY <1>0, <1>5, Zenon
  <2>2. n > 0
    BY <1>0, <1>4
  <2>3. SubSeq(rest, 1, Len(rest)) = rest
    BY SubSeqFull
  <2>4. Len(rest) <= Len(rest)
    OBVIOUS
  <2>. QED BY <1>0, <2>1, <2>2, <2>3, <2>4, Zenon
<1>10. Judged(h, rest) = [id |-> "ok", header |-> h, payload |-> rest]
  BY <1>8, <1>9, JudgedIs, Zenon
<1>. QED BY <1>3, <1>10, Zenon DEF h, options, ReadFrom

(***************************************************************************)
(* The memory: what a read returns and what a write leaves.                *)
(***************************************************************************)

Cells == {c \in Seq(Byte) : Len(c) = Width}

Filled(f, cells, address, n) ==
  f = [i \in 0 .. n |-> IF i = 0 THEN <<>> ELSE f[i - 1] \o cells[address + i - 1]]

LEMMA WidthIs == Width \in Nat /\ (w16 => Width = 2) /\ (~w16 => Width = 1)
  BY DEF Width

LEMMA ContentsIs ==
  ASSUME NEW cells, NEW address \in Nat, NEW n \in Nat,
         \A i \in address .. address + n - 1 : cells[i] \in Cells
  PROVE  Contents(cells, address, n) \in Seq(Byte) /\ Len(Contents(cells, address, n)) = n * Width
<1>. DEFINE S == Seq(Byte)
            Next(i, c) == c \o cells[address + i - 1]
            step == [i \in 1 .. n |-> [c \in S |-> Next(i, c)]]
            f == CHOOSE f : Filled(f, cells, address, n)
<1>1. ASSUME NEW i \in 1 .. n PROVE cells[address + i - 1] \in Seq(Byte) /\ Len(cells[address + i - 1]) = Width
  <2>1. address + i - 1 \in address .. address + n - 1
    OBVIOUS
  <2>. QED BY <2>1 DEF Cells
<1>2. ASSUME NEW i \in 1 .. n, NEW c \in S
      PROVE  Next(i, c) \in S /\ Len(Next(i, c)) = Len(c) + Width
  <2>1. cells[address + i - 1] \in Seq(Byte) /\ Len(cells[address + i - 1]) = Width
    BY <1>1
  <2>. QED BY <2>1, TwoParts
<1>3. \E g \in [0 .. n -> S] : Filled(g, cells, address, n)
  <2>1. step \in [1 .. n -> [S -> S]]
    BY <1>2
  <2>2. <<>> \in S
    OBVIOUS
  <2>. HIDE DEF step, S
  <2>3. PICK g : Iterates(g, S, <<>>, n, step)
    BY <2>1, <2>2, Iteration
  <2>g. g \in [0 .. n -> S] /\ g[0] = <<>> /\ \A i \in 1 .. n : g[i] = step[i][g[i - 1]]
    BY <2>3 DEF Iterates
  <2>4. ASSUME NEW i \in 1 .. n PROVE g[i] = Next(i, g[i - 1])
    <3>1. i - 1 \in 0 .. n
      OBVIOUS
    <3>2. g[i - 1] \in S
      BY <2>g, <3>1
    <3>. HIDE DEF Next
    <3>3. step[i][g[i - 1]] = Next(i, g[i - 1])
      BY <3>2 DEF step
    <3>. QED BY <2>g, <3>3
  <2>. HIDE DEF Next
  <2>5. g = [i \in 0 .. n |-> IF i = 0 THEN <<>> ELSE Next(i, g[i - 1])]
    <3>1. g = [i \in 0 .. n |-> g[i]]
      BY <2>g
    <3>2. \A i \in 0 .. n : g[i] = IF i = 0 THEN <<>> ELSE Next(i, g[i - 1])
      <4>1. \A i \in 0 .. n : i # 0 => i \in 1 .. n
        OBVIOUS
      <4>. QED BY <2>g, <2>4, <4>1
    <3>. QED BY <3>1, <3>2
  <2>. QED BY <2>g, <2>5 DEF Filled, Next
<1>4. Contents(cells, address, n) = f[n]
  BY Zenon DEF Contents, Filled
<1>5. Filled(f, cells, address, n)
  BY <1>3, Zenon
<1>. HIDE DEF f
<1>6. \A i \in 0 .. n : f[i] = IF i = 0 THEN <<>> ELSE Next(i, f[i - 1])
  <2>1. f = [i \in 0 .. n |-> IF i = 0 THEN <<>> ELSE Next(i, f[i - 1])]
    BY <1>5 DEF Filled
  <2>. HIDE DEF Next
  <2>. QED BY <2>1, Zenon
<1>. HIDE DEF Next
<1>. DEFINE T == {i \in Nat : i <= n => f[i] \in S /\ Len(f[i]) = i * Width}
<1>7. 0 \in T
  <2>1. f[0] = <<>>
    BY <1>6
  <2>2. 0 * Width = 0
    BY WidthIs
  <2>3. Len(<<>>) = 0 /\ <<>> \in S
    OBVIOUS
  <2>4. f[0] \in S /\ Len(f[0]) = 0 * Width
    BY <2>1, <2>2, <2>3, Zenon
  <2>. HIDE DEF S
  <2>. QED BY <2>4
<1>8. ASSUME NEW i \in T PROVE i + 1 \in T
  <2>. SUFFICES ASSUME i + 1 <= n PROVE f[i + 1] \in S /\ Len(f[i + 1]) = (i + 1) * Width
    OBVIOUS
  <2>1. i \in Nat /\ i + 1 \in 0 .. n /\ i + 1 \in 1 .. n /\ i + 1 # 0 /\ i + 1 - 1 = i /\ i <= n
    OBVIOUS
  <2>2. f[i] \in S /\ Len(f[i]) = i * Width
    BY <2>1
  <2>3. f[i + 1] = Next(i + 1, f[i])
    BY <1>6, <2>1
  <2>. HIDE DEF S
  <2>4. f[i + 1] \in S /\ Len(f[i + 1]) = Len(f[i]) + Width
    BY <1>2, <2>1, <2>2, <2>3, Zenon
  <2>5. i * Width + Width = (i + 1) * Width
    <3>1. Width \in Nat
      BY WidthIs
    <3>. QED BY <2>1, <3>1
  <2>. QED BY <2>2, <2>4, <2>5, Zenon
<1>9. n \in T
  <2>1. T \in SUBSET Nat
    OBVIOUS
  <2>. HIDE DEF T
  <2>. QED BY <1>7, <1>8, <2>1, Induction
<1>. QED BY <1>4, <1>9

LEMMA NoContents ==
  ASSUME NEW cells, NEW address \in Nat
  PROVE  Contents(cells, address, 0) = <<>>
<1>1. address .. address + 0 - 1 = {}
  OBVIOUS
<1>2. Contents(cells, address, 0) \in Seq(Byte) /\ Len(Contents(cells, address, 0)) = 0 * Width
  BY <1>1, ContentsIs
<1>3. 0 * Width = 0
  BY WidthIs
<1>. QED BY <1>2, <1>3

LEMMA WrittenType ==
  ASSUME memory \in [0 .. MemSize - 1 -> Cells], MemSize \in Nat, NEW address \in Nat, NEW n \in Nat,
         NEW payload \in Seq(Byte), n * Width <= Len(payload)
  PROVE  Written(address, n, payload) \in [0 .. MemSize - 1 -> Cells]
<1>0. Width \in Nat /\ Width > 0
  BY WidthIs
<1>1. ASSUME NEW i \in 0 .. MemSize - 1, i \in address .. address + n - 1
      PROVE  SubSeq(payload, (i - address) * Width + 1, (i - address + 1) * Width) \in Cells
  <2>. DEFINE k == i - address
              a == k * Width + 1
              b == (k + 1) * Width
  <2>1. k \in Nat /\ k + 1 <= n /\ Len(payload) \in Nat
    BY <1>1
  <2>. HIDE DEF k
  <2>2. a \in Nat /\ b \in Nat /\ a > 0 /\ b <= n * Width
    <3>1. CASE w16
      <4>1. Width = 2
        BY <3>1, WidthIs
      <4>. QED BY <2>1, <4>1
    <3>2. CASE ~w16
      <4>1. Width = 1
        BY <3>2, WidthIs
      <4>. QED BY <2>1, <4>1
    <3>. QED BY <3>1, <3>2
  <2>3. b - a + 1 = Width /\ a <= b
    BY <1>0, <2>1
  <2>4. b <= Len(payload)
    <3>1. n * Width \in Nat
      BY <1>0
    <3>. HIDE DEF b
    <3>. QED BY <2>1, <2>2, <3>1
  <2>. HIDE DEF a, b
  <2>5. SubSeq(payload, a, b) \in Seq(Byte) /\ Len(SubSeq(payload, a, b)) = b - a + 1
    BY <2>2, <2>3, <2>4, Piece
  <2>6. SubSeq(payload, a, b) \in Cells
    BY <2>3, <2>5 DEF Cells
  <2>. QED BY <2>6 DEF a, b, k
<1>2. DOMAIN memory = 0 .. MemSize - 1
  OBVIOUS
<1>3. \A i \in 0 .. MemSize - 1 : memory[i] \in Cells
  OBVIOUS
<1>. HIDE DEF Cells
<1>. QED BY <1>1, <1>2, <1>3 DEF Written

(***************************************************************************)
(* What is sent for each message.                                          *)
(***************************************************************************)

Encoded(frame) == frame \in Seq(Byte) /\ Len(frame) \in 12 .. 16 /\ frame \o <<>> = frame

LEMMA EncodedType ==
  ASSUME NEW s \in BOOLEAN, NEW w \in BOOLEAN, NEW type \in Types, NEW meta \in 0 .. 15,
         NEW number \in Word16, NEW address \in Addresses, NEW n \in Word32, NEW plcrc \in Word16
  PROVE  Encoded(EncodeHeader(s, w, type, meta, number, address, n, plcrc))
<1>. DEFINE frame == EncodeHeader(s, w, type, meta, number, address, n, plcrc)
            options == Options(s, w, type, n)
            body == Body(options, type, meta, number, address, n)
<1>1. n \in Nat
  BY DEF Word32
<1>2. options \in 0 .. 7
  BY <1>1, OptionsBits, Zenon
<1>3. Assembled(frame, body, options, plcrc)
  BY EncodedIs, Zenon
<1>. HIDE DEF options
<1>4. BodyReads(body, options, type, meta, number, address, n)
  BY <1>2, BodyIs, Zenon
<1>. HIDE DEF frame, body
<1>5. body \in Seq(Byte) /\ Len(body) = 12
  BY <1>4, Zenon DEF BodyReads
<1>6. PICK c \in Seq(Byte), p \in Seq(Byte) :
        frame = (body \o c) \o p /\ 12 + Len(c) + Len(p) = SizeWith(options)
  BY <1>3, Zenon DEF Assembled
<1>7. body \o c \in Seq(Byte) /\ Len(body \o c) = Len(body) + Len(c)
  BY <1>5, TwoParts, Zenon
<1>8. (body \o c) \o p \in Seq(Byte) /\ Len((body \o c) \o p) = Len(body \o c) + Len(p)
  BY <1>7, TwoParts, Zenon
<1>9. frame \in Seq(Byte) /\ Len(frame) = SizeWith(options)
  BY <1>5, <1>6, <1>7, <1>8
<1>10. SizeWith(options) \in 12 .. 16
  BY DEF SizeWith, HeaderMin
<1>11. frame \o <<>> = frame
  BY <1>9, ConcatEmptySeq
<1>. QED BY <1>9, <1>10, <1>11, Zenon DEF frame, Encoded

\* The continuable sink keeps a header, and what fits of the data behind it.
LEMMA KeptHeader ==
  ASSUME NEW head \in Seq(Byte), Len(head) <= 16, NEW rest \in Seq(Byte)
  PROVE  \E some \in Seq(Byte) : Kept(head \o rest) = head \o some
<1>. DEFINE raw == head \o rest
            m == IF Len(raw) > Room THEN Room ELSE Len(raw)
            k == Len(head)
            some == SubSeq(raw, k + 1, m)
<1>1. k \in Nat /\ Len(rest) \in Nat
  OBVIOUS
<1>2. raw \in Seq(Byte) /\ Len(raw) = k + Len(rest)
  BY TwoParts, Zenon
<1>3. Room \in Nat /\ Room >= 16
  BY BlockAssumption DEF Word32, HeaderSize
<1>4. Kept(raw) = SubSeq(raw, 1, m)
  BY Zenon DEF Kept
<1>. HIDE DEF raw
<1>5. m \in Nat /\ k <= m /\ m <= Len(raw) /\ k <= Len(raw)
  BY <1>1, <1>2, <1>3
<1>. HIDE DEF m
<1>6. some \in Seq(Byte)
  BY <1>1, <1>2, <1>5, Piece
<1>7. SubSeq(raw, 1, k) = head
  <2>1. CASE k = 0
    <3>1. head = <<>>
      BY <2>1
    <3>2. SubSeq(raw, 1, k) = <<>>
      BY <2>1, SubSeqEmpty
    <3>. QED BY <3>1, <3>2
  <2>2. CASE k # 0
    <3>1. 1 \in 1 .. Len(head) /\ k \in 1 .. Len(head)
      BY <1>1, <2>2
    <3>2. SubSeq(raw, 1, k) = SubSeq(head, 1, k)
      BY <3>1, Front DEF raw
    <3>. QED BY <3>2, SubSeqFull
  <2>. QED BY <2>1, <2>2
<1>8. SubSeq(raw, 1, k) \o some = SubSeq(raw, 1, m)
  <2>1. 1 \in 1 .. Len(raw) + 1 /\ k \in 1 - 1 .. Len(raw) /\ m \in k .. Len(raw)
    BY <1>1, <1>2, <1>5
  <2>. QED BY <1>2, <2>1, ConcatAdjacentSubSeq
<1>9. Kept(raw) = head \o some
  BY <1>4, <1>7, <1>8
<1>. QED BY <1>6, <1>9 DEF raw

LEMMA Smaller ==
  ASSUME NEW n \in Word32, NEW m \in Nat, m <= n
  PROVE  m \in Word32
<1>1. n \in Nat /\ n \div 65536 < 65536
  BY DEF Word32
<1>2. m \div 65536 <= n \div 65536 /\ m \div 65536 \in Nat /\ n \div 65536 \in Nat
  BY SMT, <1>1
<1>3. m \div 65536 < 65536
  BY SMT, <1>1, <1>2
<1>. QED BY SMT, <1>3 DEF Word32

LEMMA SmallWords ==
  /\ 0 \in Word16
  /\ \A n \in Nat : n <= 2 * Huge => n \in Word32
<1>1. 0 \in Word16
  BY SMT DEF Word16
<1>2. ASSUME NEW n \in Nat, n <= 2 * Huge PROVE n \in Word32
  BY SMT, <1>2 DEF Word32, Huge
<1>. QED BY <1>1, <1>2

LEMMA LegalMetas ==
  /\ \A type \in RequestTypes : type \in Types /\ LegalMeta(type, 0)
  /\ \A type \in ResponseTypes, code \in DOMAIN ResponseCode :
       /\ type \in Types /\ ResponseCode[code] \in 0 .. 15
       /\ code # "EIO" => LegalMeta(type, ResponseCode[code])
       /\ code # "ACK" => ResponseCode[code] # ResponseCode["ACK"]
  /\ \A meta \in {EHEADERENC, EHEADERCRC} : "META" \in Types /\ LegalMeta("META", meta) /\ meta \in 0 .. 15
<1>1. ASSUME NEW type \in RequestTypes PROVE type \in Types /\ LegalMeta(type, 0)
  <2>1. type \in Types /\ type \notin ResponseTypes /\ type # "META"
    BY TypeCodes DEF ResponseTypes, RequestTypes
  <2>2. LegalMeta(type, 0)
    BY <2>1 DEF LegalMeta
  <2>. QED BY <2>1, <2>2
<1>2. ASSUME NEW type \in ResponseTypes, NEW code \in DOMAIN ResponseCode
      PROVE  /\ type \in Types /\ ResponseCode[code] \in 0 .. 15
             /\ code # "EIO" => LegalMeta(type, ResponseCode[code])
             /\ code # "ACK" => ResponseCode[code] # ResponseCode["ACK"]
  <2>1. type \in Types /\ type \notin RequestTypes
    BY TypeCodes DEF ResponseTypes, RequestTypes
  <2>2. /\ ResponseCode[code] \in 0 .. 15
        /\ code # "EIO" => ResponseCode[code] <= ResponseCode["EINVALID"]
        /\ code # "ACK" => ResponseCode[code] # ResponseCode["ACK"]
    BY DEF ResponseCode
  <2>3. \A meta : LegalMeta(type, meta) <=> meta <= ResponseCode["EINVALID"]
    BY DEF LegalMeta, ResponseTypes, RequestTypes
  <2>. QED BY <2>1, <2>2, <2>3
<1>3. ASSUME NEW meta \in {EHEADERENC, EHEADERCRC}
      PROVE  "META" \in Types /\ LegalMeta("META", meta) /\ meta \in 0 .. 15
  <2>1. "META" \in Types
    BY TypeCodes
  <2>2. LegalMeta("META", meta)
    BY DEF LegalMeta, ResponseTypes, RequestTypes
  <2>3. meta \in 0 .. 15
    BY DEF EHEADERENC, EHEADERCRC
  <2>. QED BY <2>1, <2>2, <2>3
<1>. QED BY <1>1, <1>2, <1>3

(***************************************************************************)
(* Frames on the line.                                                     *)
(***************************************************************************)

SentAsks ==
  {ask \in [kind : {"read", "write"}, w16 : BOOLEAN, address : Word32, n : Word32,
            data : Seq(Byte), sequence : Word16] : Len(ask.data) \in Word32}

FrameOf(ask) ==
  IF ask.kind = "read" THEN ReadRequest(serial, ask.w16, ask.sequence, U32(ask.address), ask.n)
  ELSE WriteRequest(serial, ask.w16, ask.sequence, U32(ask.address), ask.data)

\* A sound frame is the request it comes from, or a stray.
TrueTo(frame) ==
  \/ \E ask \in frame.asks : frame.asks = {ask} /\ frame.octets = FrameOf(ask)
  \/ frame.asks = {} /\ frame.octets \in Strays

Frames ==
  {frame \in [octets : Seq(Byte), asks : SUBSET SentAsks, sound : BOOLEAN] :
     frame.sound => TrueTo(frame)}

\* The header of a frame that comes from a request, or from none.
HeaderAsks(h, ask) ==
  /\ h.type = (IF ask.kind = "read" THEN "READ_REQUEST" ELSE "WRITE_REQUEST")
  /\ h.sequence = ask.sequence
  /\ h.address = U32(ask.address)
  /\ ask.kind = "read" => h.blocksize = Number32(U32(ask.n))

Judgeable(f) == f.id \in {"ok", "EFAULT", "EPROTO"}

ReadAs(f, h) == Judgeable(f) /\ f.header = h

\* What is received of a frame that was written with these fields.
LEMMA KeptParses ==
  ASSUME NEW s \in BOOLEAN, NEW w \in BOOLEAN, NEW type \in Types, NEW meta \in 0 .. 15,
         LegalMeta(type, meta), NEW number \in Word16, NEW address \in Addresses, NEW n \in Word32,
         NEW plcrc \in Word16, NEW rest \in Seq(Byte)
  PROVE  ReadAs(ParseFrame(Kept(EncodeHeader(s, w, type, meta, number, address, n, plcrc) \o rest)),
                FieldsOf(Options(s, w, type, n), type, meta, number, address, n, plcrc))
<1>. DEFINE head == EncodeHeader(s, w, type, meta, number, address, n, plcrc)
            options == Options(s, w, type, n)
            h == FieldsOf(options, type, meta, number, address, n, plcrc)
<1>0. Encoded(head)
  BY EncodedType, Zenon
<1>. HIDE DEF head
<1>1. head \in Seq(Byte) /\ Len(head) \in 12 .. 16
  BY <1>0 DEF Encoded
<1>2. Len(head) <= 16
  <2>1. \A k \in 12 .. 16 : k <= 16
    OBVIOUS
  <2>. QED BY <1>1, <2>1, Zenon
<1>3. PICK some \in Seq(Byte) : Kept(head \o rest) = head \o some
  BY <1>1, <1>2, KeptHeader, Zenon
<1>4. HeaderReads(head \o some, options, type, meta, number, address, n, plcrc, some)
  BY HeaderParses, Zenon DEF head
<1>5. ParseFrame(head \o some) = Judged(h, some)
  BY <1>4, SentParses, Zenon
<1>6. Judged(h, some).header = h /\ Judged(h, some).id \in {"ok", "EFAULT", "EPROTO"}
  BY JudgedIs, Zenon
<1>. QED BY <1>3, <1>5, <1>6, Zenon DEF Judgeable, ReadAs, head

LEMMA U32Address ==
  ASSUME NEW n \in Word32
  PROVE  U32(n) \in Addresses
  BY U32Is DEF Addresses

\* What a request says in its header, and how many atoms of data it has.
LEMMA AskIs ==
  ASSUME NEW ask \in SentAsks
  PROVE  /\ ask.kind \in {"read", "write"} /\ ask.w16 \in BOOLEAN /\ ask.sequence \in Word16
         /\ U32(ask.address) \in Addresses /\ ask.address \in Nat /\ ask.address \in Word32
         /\ ask.n \in Word32 /\ ask.n \in Nat
         /\ ask.data \in Seq(Byte)
         /\ (IF ask.w16 THEN Len(ask.data) \div 2 ELSE Len(ask.data)) \in Word32
<1>1. /\ ask.kind \in {"read", "write"} /\ ask.w16 \in BOOLEAN /\ ask.sequence \in Word16
      /\ ask.address \in Word32 /\ ask.n \in Word32 /\ ask.data \in Seq(Byte)
      /\ Len(ask.data) \in Word32
  BY DEF SentAsks
<1>2. ask.n \in Nat /\ ask.address \in Nat /\ Len(ask.data) \in Nat
  BY <1>1 DEF Word32
<1>3. Len(ask.data) \div 2 \in Nat /\ Len(ask.data) \div 2 <= Len(ask.data)
  <2>1. \A n \in Nat : n \div 2 \in Nat /\ n \div 2 <= n
    OBVIOUS
  <2>. QED BY <1>2, <2>1
<1>4. Len(ask.data) \div 2 \in Word32
  BY <1>1, <1>3, Smaller
<1>5. U32(ask.address) \in Addresses
  BY <1>1, U32Address
<1>. QED BY <1>1, <1>2, <1>4, <1>5

LEMMA AskParses ==
  ASSUME serial \in BOOLEAN, NEW ask \in SentAsks
  PROVE  /\ FrameOf(ask) \in Seq(Byte)
         /\ Judgeable(ParseFrame(Kept(FrameOf(ask))))
         /\ HeaderAsks(ParseFrame(Kept(FrameOf(ask))).header, ask)
<1>1. /\ ask.kind \in {"read", "write"} /\ ask.w16 \in BOOLEAN /\ ask.sequence \in Word16
      /\ U32(ask.address) \in Addresses /\ ask.n \in Word32 /\ ask.data \in Seq(Byte)
  BY AskIs
<1>2. /\ "READ_REQUEST" \in Types /\ "WRITE_REQUEST" \in Types
      /\ LegalMeta("READ_REQUEST", 0) /\ LegalMeta("WRITE_REQUEST", 0)
      /\ 0 \in 0 .. 15 /\ 0 \in Word16
  BY LegalMetas, SmallWords DEF RequestTypes
<1>3. CASE ask.kind = "read"
  <2>. DEFINE head == EncodeHeader(serial, ask.w16, "READ_REQUEST", 0, ask.sequence,
                                   U32(ask.address), ask.n, 0)
              f == ParseFrame(Kept(head))
              h == FieldsOf(Options(serial, ask.w16, "READ_REQUEST", ask.n), "READ_REQUEST", 0,
                            ask.sequence, U32(ask.address), ask.n, 0)
  <2>1. FrameOf(ask) = head
    BY <1>3, Zenon DEF FrameOf, ReadRequest
  <2>2. Encoded(head)
    BY <1>1, <1>2, EncodedType, Zenon
  <2>3. <<>> \in Seq(Byte)
    OBVIOUS
  <2>4. ReadAs(ParseFrame(Kept(head \o <<>>)), h)
    BY <1>1, <1>2, <2>3, KeptParses, Zenon
  <2>5. Judgeable(f) /\ f.header = h
    BY <2>2, <2>4, Zenon DEF Encoded, ReadAs
  <2>. HIDE DEF f
  <2>6. HeaderAsks(h, ask)
    BY <1>3 DEF HeaderAsks, FieldsOf
  <2>. QED BY <2>1, <2>2, <2>5, <2>6, Zenon DEF f, Encoded
<1>4. CASE ask.kind = "write"
  <2>. DEFINE n == IF ask.w16 THEN Len(ask.data) \div 2 ELSE Len(ask.data)
              head == EncodeHeader(serial, ask.w16, "WRITE_REQUEST", 0, ask.sequence,
                                   U32(ask.address), n, Crc(ask.data))
              frame == head \o ask.data
              f == ParseFrame(Kept(frame))
              h == FieldsOf(Options(serial, ask.w16, "WRITE_REQUEST", n), "WRITE_REQUEST", 0,
                            ask.sequence, U32(ask.address), n, Crc(ask.data))
  <2>0. n \in Word32
    BY AskIs, Zenon
  <2>1. FrameOf(ask) = frame
    <3>1. ask.kind # "read"
      BY <1>4
    <3>. QED BY <3>1, Zenon DEF FrameOf, WriteRequest
  <2>. HIDE DEF n
  <2>a. Crc(ask.data) \in Word16
    BY <1>1, CrcType
  <2>2. Encoded(head)
    BY <1>1, <1>2, <2>0, <2>a, EncodedType, Zenon
  <2>3. frame \in Seq(Byte)
    BY <1>1, <2>2, TwoParts, Zenon DEF Encoded
  <2>b. ReadAs(f, h)
    BY <1>1, <1>2, <2>0, <2>a, KeptParses, Zenon
  <2>4. Judgeable(f) /\ f.header = h
    BY <2>b, Zenon DEF ReadAs
  <2>. HIDE DEF f, frame
  <2>6. HeaderAsks(h, ask)
    BY <1>4 DEF HeaderAsks, FieldsOf
  <2>. QED BY <2>1, <2>3, <2>4, <2>6, Zenon DEF f
<1>. QED BY <1>1, <1>3, <1>4

LEMMA StrayParses ==
  ASSUME serial \in BOOLEAN, w16 \in BOOLEAN, NEW octets \in Strays
  PROVE  /\ octets \in Seq(Byte)
         /\ Judgeable(ParseFrame(Kept(octets)))
         /\ ~IsRequest(ParseFrame(Kept(octets)).header)
<1>1. ASSUME NEW w \in BOOLEAN, NEW type \in Types, type \notin RequestTypes, NEW meta \in 0 .. 15,
             LegalMeta(type, meta), NEW n \in Word32, NEW rest \in Seq(Byte), NEW plcrc \in Word16,
             octets = EncodeHeader(serial, w, type, meta, 0, U32(0), n, plcrc) \o rest
      PROVE  /\ octets \in Seq(Byte)
             /\ Judgeable(ParseFrame(Kept(octets)))
             /\ ~IsRequest(ParseFrame(Kept(octets)).header)
  <2>1. 0 \in Word16 /\ U32(0) \in Addresses
    BY SmallWords, U32Address DEF Word32
  <2>. DEFINE head == EncodeHeader(serial, w, type, meta, 0, U32(0), n, plcrc)
              h == FieldsOf(Options(serial, w, type, n), type, meta, 0, U32(0), n, plcrc)
  <2>2. Encoded(head)
    BY <2>1, EncodedType, Zenon
  <2>3. head \o rest \in Seq(Byte)
    BY <2>2, TwoParts, Zenon DEF Encoded
  <2>a. ReadAs(ParseFrame(Kept(head \o rest)), h)
    BY <1>1, <2>1, KeptParses, Zenon
  <2>4. Judgeable(ParseFrame(Kept(head \o rest))) /\ ParseFrame(Kept(head \o rest)).header = h
    BY <2>a, Zenon DEF ReadAs
  <2>5. h.type = type
    BY DEF FieldsOf
  <2>. QED BY <1>1, <2>3, <2>4, <2>5, Zenon DEF IsRequest
<1>2. /\ 0 \in Word32 /\ 1 \in Word32 /\ 2 \in Word32 /\ 4 \in Word32
      /\ 0 \in Word16 /\ TRUE \in BOOLEAN /\ FALSE \in BOOLEAN
  BY SmallWords DEF Word32
<1>3. CASE octets = MetaMessage(serial, EHEADERENC)
  <2>1. /\ "META" \in Types /\ "META" \notin RequestTypes
        /\ LegalMeta("META", EHEADERENC) /\ EHEADERENC \in 0 .. 15
    BY LegalMetas DEF RequestTypes
  <2>2. octets = EncodeHeader(serial, FALSE, "META", EHEADERENC, 0, U32(0), 0, 0)
    BY <1>3, Zenon DEF MetaMessage
  <2>3. U32(0) \in Addresses
    BY <1>2, U32Address
  <2>a. Encoded(EncodeHeader(serial, FALSE, "META", EHEADERENC, 0, U32(0), 0, 0))
    BY <1>2, <2>1, <2>3, EncodedType, Zenon
  <2>4. octets = EncodeHeader(serial, FALSE, "META", EHEADERENC, 0, U32(0), 0, 0) \o <<>>
    BY <2>2, <2>a, Zenon DEF Encoded
  <2>5. <<>> \in Seq(Byte)
    OBVIOUS
  <2>. QED BY <1>1, <1>2, <2>1, <2>4, <2>5, Zenon
<1>4. CASE octets = Acknowledge(serial, w16, [type |-> "READ_REQUEST", sequence |-> 0, address |-> U32(0)], <<1, 2>>)
  <2>. DEFINE h == [type |-> "READ_REQUEST", sequence |-> 0, address |-> U32(0)]
              rest == <<1, 2>>
              n == IF w16 THEN Len(rest) \div 2 ELSE Len(rest)
  <2>1. /\ "READ_RESPONSE" \in Types /\ "READ_RESPONSE" \notin RequestTypes
        /\ LegalMeta("READ_RESPONSE", ResponseCode["ACK"]) /\ ResponseCode["ACK"] \in 0 .. 15
    <3>1. "READ_RESPONSE" \in ResponseTypes /\ "READ_RESPONSE" \notin RequestTypes
      BY DEF ResponseTypes, RequestTypes
    <3>2. "ACK" \in DOMAIN ResponseCode /\ "ACK" # "EIO"
      BY DEF ResponseCode
    <3>. QED BY <3>1, <3>2, LegalMetas, Zenon
  <2>2. h.type = "READ_REQUEST" /\ h.sequence = 0 /\ h.address = U32(0)
    OBVIOUS
  <2>3. octets = EncodeHeader(serial, w16, ResponseTo(h.type), ResponseCode["ACK"], h.sequence,
                              h.address, n, Crc(rest)) \o rest
    BY <1>4, Zenon DEF Acknowledge
  <2>4. ResponseTo("READ_REQUEST") = "READ_RESPONSE"
    BY DEF ResponseTo
  <2>5. rest \in Seq(Byte) /\ n \in {1, 2}
    BY DEF Byte
  <2>. HIDE DEF rest, n, h
  <2>6. Crc(rest) \in Word16
    BY <2>5, CrcType
  <2>7. octets = EncodeHeader(serial, w16, "READ_RESPONSE", ResponseCode["ACK"], 0, U32(0), n, Crc(rest))
                 \o rest
    BY <2>2, <2>3, <2>4, Zenon
  <2>8. n \in Word32
    BY <1>2, <2>5
  <2>. QED BY <1>1, <2>1, <2>5, <2>6, <2>7, <2>8, Zenon
<1>5. CASE octets = ErrorWithNumber(serial, [type |-> "WRITE_REQUEST", sequence |-> 0, address |-> U32(0)],
                                    "EUNMAPPED", U32(0))
  <2>. DEFINE h == [type |-> "WRITE_REQUEST", sequence |-> 0, address |-> U32(0)]
              rest == U32(0)
              n == Len(rest)
  <2>1. /\ "WRITE_RESPONSE" \in Types /\ "WRITE_RESPONSE" \notin RequestTypes
        /\ LegalMeta("WRITE_RESPONSE", ResponseCode["EUNMAPPED"]) /\ ResponseCode["EUNMAPPED"] \in 0 .. 15
    <3>1. "WRITE_RESPONSE" \in ResponseTypes /\ "WRITE_RESPONSE" \notin RequestTypes
      BY DEF ResponseTypes, RequestTypes
    <3>2. "EUNMAPPED" \in DOMAIN ResponseCode /\ "EUNMAPPED" # "EIO"
      BY DEF ResponseCode
    <3>. QED BY <3>1, <3>2, LegalMetas, Zenon
  <2>2. h.type = "WRITE_REQUEST" /\ h.sequence = 0 /\ h.address = U32(0)
    OBVIOUS
  <2>3. octets = EncodeHeader(serial, FALSE, ResponseTo(h.type), ResponseCode["EUNMAPPED"], h.sequence,
                              h.address, n, Crc(rest)) \o rest
    BY <1>5, Zenon DEF ErrorWithNumber
  <2>4. ResponseTo("WRITE_REQUEST") = "WRITE_RESPONSE"
    BY DEF ResponseTo
  <2>5. rest \in Seq(Byte) /\ n = 4
    BY <1>2, U32Is
  <2>. HIDE DEF rest, n, h
  <2>6. Crc(rest) \in Word16
    BY <2>5, CrcType
  <2>7. octets = EncodeHeader(serial, FALSE, "WRITE_RESPONSE", ResponseCode["EUNMAPPED"], 0, U32(0), n,
                              Crc(rest)) \o rest
    BY <2>2, <2>3, <2>4, Zenon DEF rest
  <2>8. n \in Word32
    BY <1>2, <2>5
  <2>. QED BY <1>1, <1>2, <2>1, <2>5, <2>6, <2>7, <2>8, Zenon
<1>. QED BY <1>3, <1>4, <1>5, Zenon DEF Strays

(***************************************************************************)
(* Replies: each one is read as an answer to the request it is sent for.   *)
(***************************************************************************)

\* RepliesAnswer for one reply: the memory that was accessed, and the frame that came.
GoodReply(octets, asks, cells) ==
  LET seen == ParseFrame(octets)
  IN  /\ seen.id = "ok"
      /\ seen.header.type # "META" =>
           \A ask \in asks :
             /\ seen.header.type = (IF ask.kind = "read" THEN "READ_RESPONSE" ELSE "WRITE_RESPONSE")
             /\ seen.header.sequence = ask.sequence
             /\ seen.header.address = U32(ask.address)
             /\ (ask.kind = "read" /\ seen.header.meta = ResponseCode["ACK"] =>
                   seen.payload = Contents(cells, ask.address, ask.n))

FitReply(octets, asks, cells) == ~Unreadable(octets) => GoodReply(octets, asks, cells)

LEMMA ReplyOfFits ==
  ASSUME NEW octets, NEW of, NEW cells,
         reply' = [octets |-> octets, of |-> of, cells |-> cells], w16' = w16,
         of.sound => FitReply(octets, of.asks, cells)
  PROVE  RepliesAnswer'
<1>1. reply'.octets = octets /\ reply'.of = of /\ reply'.cells = cells
  OBVIOUS
<1>2. \A c, a, n : Contents(c, a, n)' = Contents(c, a, n)
  BY DEF Contents
<1>. QED BY <1>1, <1>2 DEF RepliesAnswer, Answers, AnswerTo, FitReply, GoodReply

LEMMA MetaFits ==
  ASSUME serial \in BOOLEAN, NEW meta \in {EHEADERENC, EHEADERCRC}, NEW asks, NEW cells
  PROVE  FitReply(MetaMessage(serial, meta), asks, cells)
<1>. DEFINE head == EncodeHeader(serial, FALSE, "META", meta, 0, U32(0), 0, 0)
            h == FieldsOf(Options(serial, FALSE, "META", 0), "META", meta, 0, U32(0), 0, 0)
<1>1. /\ "META" \in Types /\ LegalMeta("META", meta) /\ meta \in 0 .. 15
      /\ 0 \in Word16 /\ 0 \in Word32 /\ FALSE \in BOOLEAN /\ 0 < Huge
  BY LegalMetas, SmallWords DEF Word32, Huge
<1>2. U32(0) \in Addresses
  BY <1>1, U32Address
<1>3. Encoded(head)
  BY <1>1, <1>2, EncodedType, Zenon
<1>4. <<>> \in Seq(Byte) /\ "META" \in ReplyTypes
  BY DEF ReplyTypes
<1>a. Matches(FALSE, "META", 0, 0, <<>>)
  BY <1>1 DEF Matches
<1>5. ReadFrom(head \o <<>>, h, <<>>)
  BY <1>1, <1>2, <1>4, <1>a, ReplyReads, Zenon
<1>6. ParseFrame(head) = [id |-> "ok", header |-> h, payload |-> <<>>]
  BY <1>3, <1>5, Zenon DEF Encoded, ReadFrom
<1>. HIDE DEF head
<1>7. ParseFrame(head).id = "ok" /\ ParseFrame(head).header = h
  BY <1>6
<1>8. h.type = "META"
  BY DEF FieldsOf
<1>. QED BY <1>7, <1>8, Zenon DEF MetaMessage, FitReply, GoodReply, head

\* A response to a request, but for its payload.
LEMMA ResponseFits ==
  ASSUME serial \in BOOLEAN, NEW w \in BOOLEAN, NEW ask \in SentAsks, NEW h, HeaderAsks(h, ask),
         NEW code \in DOMAIN ResponseCode, NEW n \in Word32, NEW rest \in Seq(Byte),
         NEW plcrc \in Word16, NEW cells,
         n < Huge, Len(rest) = (IF w THEN 2 * n ELSE n), n > 0 => plcrc = Crc(rest),
         code = "ACK" /\ ask.kind = "read" => rest = Contents(cells, ask.address, ask.n)
  PROVE  FitReply(EncodeHeader(serial, w, ResponseTo(h.type), ResponseCode[code], h.sequence, h.address,
                               n, plcrc) \o rest,
                  {ask}, cells)
<1>. DEFINE type == IF ask.kind = "read" THEN "READ_RESPONSE" ELSE "WRITE_RESPONSE"
            meta == ResponseCode[code]
            raw == EncodeHeader(serial, w, type, meta, ask.sequence, U32(ask.address), n, plcrc) \o rest
            options == Options(serial, w, type, n)
            f == FieldsOf(options, type, meta, ask.sequence, U32(ask.address), n, plcrc)
<1>1. ResponseTo(h.type) = type /\ h.sequence = ask.sequence /\ h.address = U32(ask.address)
  BY DEF HeaderAsks, ResponseTo
<1>2. SUFFICES FitReply(raw, {ask}, cells)
  BY <1>1, Zenon
<1>3. /\ ask.kind \in {"read", "write"} /\ ask.sequence \in Word16 /\ U32(ask.address) \in Addresses
  BY AskIs
<1>4. type \in ResponseTypes
  BY DEF ResponseTypes
<1>5. /\ type \in Types /\ meta \in 0 .. 15
      /\ code # "EIO" => LegalMeta(type, meta)
      /\ code # "ACK" => meta # ResponseCode["ACK"]
  BY <1>4, LegalMetas, Zenon
<1>6. HeaderReads(raw, options, type, meta, ask.sequence, U32(ask.address), n, plcrc, rest)
  <2>. HIDE DEF type, meta
  <2>. QED BY <1>3, <1>5, HeaderParses, Zenon
<1>7. n \in Nat
  BY DEF Word32
<1>8. CASE code = "EIO"
  <2>1. meta = ResponseCode["EIO"]
    BY <1>8
  <2>2. raw[1] \div 16 = meta
    BY <1>6, Zenon DEF HeaderReads
  <2>. QED BY <2>1, <2>2, Zenon DEF FitReply, Unreadable
<1>9. CASE type = "WRITE_RESPONSE" /\ n > 0
  <2>1. /\ TypesOf(raw) = {"WRITE_RESPONSE"} /\ raw[1] % 16 = options
        /\ Len(raw) = SizeWith(options) + Len(rest) /\ SizeWith(options) \in 12 .. 16
    BY <1>6, <1>9, Zenon DEF HeaderReads
  <2>2. Len(rest) \in Nat /\ Len(rest) > 0
    BY <1>7, <1>9
  <2>. HIDE DEF raw, options
  <2>3. SizeWith(options) < Len(raw)
    BY <2>1, <2>2
  <2>. QED BY <2>1, <2>3, Zenon DEF FitReply, Unreadable
<1>10. CASE code # "EIO" /\ (type # "READ_RESPONSE" => n = 0)
  <2>1. type \in ReplyTypes
    BY DEF ReplyTypes
  <2>2. ParseFrame(raw) = [id |-> "ok", header |-> f, payload |-> rest]
    <3>1. LegalMeta(type, meta)
      BY <1>5, <1>10, Zenon
    <3>2. Matches(w, type, n, plcrc, rest)
      BY <1>10, Zenon DEF Matches
    <3>. HIDE DEF type, meta
    <3>4. ask.sequence \in Word16 /\ U32(ask.address) \in Addresses /\ meta \in 0 .. 15
      BY <1>3, <1>5, Zenon
    <3>3. ReadFrom(raw, f, rest)
      BY <2>1, <3>1, <3>2, <3>4, ReplyReads, Zenon
    <3>. QED BY <3>3, Zenon DEF ReadFrom
  <2>. HIDE DEF raw
  <2>3. ParseFrame(raw).id = "ok" /\ ParseFrame(raw).header = f /\ ParseFrame(raw).payload = rest
    BY <2>2
  <2>. HIDE DEF options, meta, type
  <2>4. /\ f.type = type /\ f.sequence = ask.sequence /\ f.address = U32(ask.address) /\ f.meta = meta
    BY DEF FieldsOf
  <2>. HIDE DEF f
  <2>5. ask.kind = "read" /\ meta = ResponseCode["ACK"] => rest = Contents(cells, ask.address, ask.n)
    BY <1>5, Zenon
  <2>6. GoodReply(raw, {ask}, cells)
    BY <2>3, <2>4, <2>5 DEF GoodReply, type
  <2>. QED BY <2>6, Zenon DEF FitReply
<1>11. type = "READ_RESPONSE" \/ type = "WRITE_RESPONSE"
  OBVIOUS
<1>12. n > 0 \/ n = 0
  BY <1>7
<1>. QED BY <1>8, <1>9, <1>10, <1>11, <1>12, Zenon

LEMMA OutcomesAre ==
  ASSUME memory \in [0 .. MemSize - 1 -> Cells], NEW write \in BOOLEAN, NEW address \in Nat,
         NEW n \in Nat, NEW payload \in Seq(Byte),
         write => n = (IF w16 THEN Len(payload) \div 2 ELSE Len(payload)),
         NEW end \in Outcomes(write, address, n, payload)
  PROVE  /\ end[1] \in {"SUCCESS", "NOENTRY", "READONLY", "RANGE", "INVALID", "IO_ERROR"}
         /\ end[2] \in Nat /\ end[2] <= address + n
         /\ end[1] = "SUCCESS" => end[2] = address /\ address .. address + n - 1 \subseteq 0 .. MemSize - 1
<1>. DEFINE range    == address .. address + n - 1
            unmapped == range \ DOMAIN memory
            locked   == IF write THEN range \cap ReadOnly ELSE {}
            bad      == IF write THEN {address + (i - 1) \div Width : i \in {j \in DOMAIN payload :
                                                                         payload[j] \in BadValues}}
                        ELSE {}
            Near     == {x \in Nat : x <= address + n}
<1>1. DOMAIN memory = 0 .. MemSize - 1
  OBVIOUS
<1>2. range \subseteq Near
  OBVIOUS
<1>3. unmapped \subseteq Near /\ locked \subseteq Near
  BY <1>2
<1>4. bad \subseteq Near
  <2>. SUFFICES ASSUME write, NEW i \in DOMAIN payload PROVE address + (i - 1) \div Width \in Near
    OBVIOUS
  <2>1. i \in Nat /\ i > 0 /\ i <= Len(payload) /\ Len(payload) \in Nat
    OBVIOUS
  <2>2. (i - 1) \div Width \in Nat /\ (i - 1) \div Width <= n
    <3>1. CASE w16
      <4>1. Width = 2 /\ n = Len(payload) \div 2
        BY <3>1, WidthIs
      <4>2. \A k, m \in Nat : k > 0 /\ k <= m => (k - 1) \div 2 \in Nat /\ (k - 1) \div 2 <= m \div 2
        OBVIOUS
      <4>. QED BY <2>1, <4>1, <4>2
    <3>2. CASE ~w16
      <4>1. Width = 1 /\ n = Len(payload)
        BY <3>2, WidthIs
      <4>2. \A k, m \in Nat : k > 0 /\ k <= m => (k - 1) \div 1 \in Nat /\ (k - 1) \div 1 <= m
        OBVIOUS
      <4>. QED BY <2>1, <4>1, <4>2
    <3>. QED BY <3>1, <3>2
  <2>. QED BY <2>2
<1>5. ASSUME NEW S \in SUBSET Near, S # {} PROVE FirstOf(S) \in Near
  <2>1. S \in SUBSET Nat
    OBVIOUS
  <2>2. FirstOf(S) \in S
    BY <1>5, <2>1, FirstOfIs
  <2>. QED BY <2>2
<1>6. end \in IF unmapped # {} THEN {<<"NOENTRY", FirstOf(unmapped)>>}
              ELSE IF locked # {} THEN {<<"READONLY", FirstOf(locked)>>}
              ELSE IF bad # {} THEN {<<code, FirstOf(bad)>> : code \in {"RANGE", "INVALID"}}
              ELSE {<<"SUCCESS", address>>, <<"IO_ERROR", address>>}
  BY Zenon DEF Outcomes
<1>7. address \in Near
  OBVIOUS
<1>8. unmapped = {} => range \subseteq 0 .. MemSize - 1
  BY <1>1
<1>9. \A x \in Near : x \in Nat /\ x <= address + n
  OBVIOUS
<1>. HIDE DEF unmapped, locked, bad, Near, range
<1>10. /\ end[1] \in {"SUCCESS", "NOENTRY", "READONLY", "RANGE", "INVALID", "IO_ERROR"}
       /\ end[2] \in Near
       /\ end[1] = "SUCCESS" => unmapped = {} /\ end[2] = address
  <2>1. CASE unmapped # {}
    <3>1. end = <<"NOENTRY", FirstOf(unmapped)>>
      BY <1>6, <2>1
    <3>. QED BY <1>3, <1>5, <2>1, <3>1
  <2>2. CASE unmapped = {} /\ locked # {}
    <3>1. end = <<"READONLY", FirstOf(locked)>>
      BY <1>6, <2>2
    <3>. QED BY <1>3, <1>5, <2>2, <3>1
  <2>3. CASE unmapped = {} /\ locked = {} /\ bad # {}
    <3>1. PICK code \in {"RANGE", "INVALID"} : end = <<code, FirstOf(bad)>>
      BY <1>6, <2>3
    <3>. QED BY <1>4, <1>5, <2>3, <3>1
  <2>4. CASE unmapped = {} /\ locked = {} /\ bad = {}
    <3>1. end = <<"SUCCESS", address>> \/ end = <<"IO_ERROR", address>>
      BY <1>6, <2>4
    <3>. QED BY <1>7, <2>4, <3>1
  <2>. QED BY <2>1, <2>2, <2>3, <2>4
<1>11. end[1] = "SUCCESS" => range \subseteq 0 .. MemSize - 1
  BY <1>8, <1>10
<1>. QED BY <1>9, <1>10, <1>11 DEF range

AccessCodes == {"ACK", "EUNMAPPED", "EACCESS", "ERANGE", "EINVALID", "EIO"}

LEMMA AccessCode ==
  ASSUME NEW code \in {"SUCCESS", "NOENTRY", "READONLY", "RANGE", "INVALID", "IO_ERROR"}
  PROVE  BlockAccessCode(code) \in AccessCodes /\ (BlockAccessCode(code) = "ACK" => code = "SUCCESS")
  BY DEF BlockAccessCode, AccessCodes

LEMMA ErrorFits ==
  ASSUME serial \in BOOLEAN, NEW ask \in SentAsks, NEW h, HeaderAsks(h, ask),
         NEW code \in DOMAIN ResponseCode, code # "ACK", NEW cells
  PROVE  FitReply(ErrorResponse(serial, h, code), {ask}, cells)
<1>. DEFINE head == EncodeHeader(serial, FALSE, ResponseTo(h.type), ResponseCode[code], h.sequence,
                                 h.address, 0, 0)
<1>1. 0 \in Word16 /\ 0 \in Word32 /\ FALSE \in BOOLEAN /\ 0 < Huge /\ ~(0 > 0)
  BY SmallWords DEF Word32, Huge
<1>2. <<>> \in Seq(Byte) /\ Len(<<>>) = (IF FALSE THEN 2 * 0 ELSE 0)
  OBVIOUS
<1>3. FitReply(head \o <<>>, {ask}, cells)
  BY <1>1, <1>2, ResponseFits, Zenon
<1>4. ResponseTo(h.type) \in ResponseTypes
  BY DEF HeaderAsks, ResponseTo, ResponseTypes
<1>5. ResponseTo(h.type) \in Types /\ ResponseCode[code] \in 0 .. 15
  BY <1>4, LegalMetas, Zenon
<1>6. h.sequence \in Word16 /\ h.address \in Addresses
  BY AskIs DEF HeaderAsks
<1>7. Encoded(head)
  BY <1>1, <1>5, <1>6, EncodedType, Zenon
<1>. QED BY <1>3, <1>7, Zenon DEF Encoded, ErrorResponse

LEMMA NumberFits ==
  ASSUME serial \in BOOLEAN, NEW ask \in SentAsks, NEW h, HeaderAsks(h, ask),
         NEW code \in DOMAIN ResponseCode, code # "ACK", NEW x \in Word32, NEW cells
  PROVE  FitReply(ErrorWithNumber(serial, h, code, U32(x)), {ask}, cells)
<1>. DEFINE rest == U32(x)
            n == Len(rest)
<1>1. rest \in Seq(Byte) /\ n = 4
  BY U32Is
<1>2. ErrorWithNumber(serial, h, code, rest)
        = EncodeHeader(serial, FALSE, ResponseTo(h.type), ResponseCode[code], h.sequence, h.address,
                       n, Crc(rest)) \o rest
  BY Zenon DEF ErrorWithNumber
<1>3. n = (IF FALSE THEN 2 * n ELSE n)
  OBVIOUS
<1>4. n \in Word32 /\ n < Huge /\ FALSE \in BOOLEAN
  BY <1>1, SMT DEF Word32, Huge
<1>. HIDE DEF rest
<1>5. Crc(rest) \in Word16
  BY <1>1, CrcType
<1>6. FitReply(EncodeHeader(serial, FALSE, ResponseTo(h.type), ResponseCode[code], h.sequence, h.address,
                            n, Crc(rest)) \o rest, {ask}, cells)
  BY <1>1, <1>3, <1>4, <1>5, ResponseFits, Zenon
<1>. QED BY <1>2, <1>6, Zenon DEF rest

\* What an access of the memory is answered with, and from where.
Accessed(h, code, x) ==
  code = "ACK" => x = Number32(h.address) /\ x .. x + h.blocksize - 1 \subseteq 0 .. MemSize - 1

\* A read that is acknowledged is one of the registers that were asked for.
LEMMA WasRead ==
  ASSUME memory \in [0 .. MemSize - 1 -> Cells], NEW ask \in SentAsks, ask.kind = "read",
         NEW h, HeaderAsks(h, ask), HeaderFits(h), NEW x \in Nat, Accessed(h, "ACK", x)
  PROVE  /\ h.blocksize < Huge
         /\ Contents(memory, x, h.blocksize) \in Seq(Byte)
         /\ Len(Contents(memory, x, h.blocksize)) = h.blocksize * Width
         /\ Contents(memory, x, h.blocksize) = Contents(memory, ask.address, ask.n)
<1>. DEFINE n == h.blocksize
<1>1. n \in Nat /\ x = Number32(h.address) /\ x .. x + n - 1 \subseteq 0 .. MemSize - 1
  BY DEF HeaderFits, Accessed
<1>2. h.address = U32(ask.address) /\ n = Number32(U32(ask.n))
  BY DEF HeaderAsks
<1>3. ask.address \in Word32 /\ ask.n \in Word32 /\ ask.address \in Nat /\ ask.n \in Nat
  BY AskIs
<1>4. x = (IF ask.address < Huge THEN ask.address ELSE Huge) /\ n = (IF ask.n < Huge THEN ask.n ELSE Huge)
  BY <1>1, <1>2, <1>3, U32Is, Zenon
<1>. HIDE DEF n
<1>5. MemSize \in Nat /\ MemSize < Huge
  BY MemoryAssumption
<1>6. Huge \in Nat /\ Huge > 0
  BY SMT DEF Huge
<1>7. n < Huge /\ (n > 0 => x < Huge)
  <2>1. CASE n = 0
    BY <1>6, <2>1
  <2>2. CASE n # 0
    <3>1. x \in x .. x + n - 1 /\ x + n - 1 \in x .. x + n - 1
      BY <1>1, <2>2
    <3>2. x \in 0 .. MemSize - 1 /\ x + n - 1 \in 0 .. MemSize - 1
      BY <1>1, <3>1
    <3>. QED BY <1>1, <1>5, <1>6, <3>2
  <2>. QED BY <2>1, <2>2
<1>8. n = ask.n
  BY <1>3, <1>4, <1>6, <1>7
<1>9. n > 0 => x = ask.address
  BY <1>3, <1>4, <1>6, <1>7
<1>10. \A i \in x .. x + n - 1 : memory[i] \in Cells
  BY <1>1
<1>11. Contents(memory, x, n) \in Seq(Byte) /\ Len(Contents(memory, x, n)) = n * Width
  BY <1>1, <1>10, ContentsIs
<1>12. Contents(memory, x, n) = Contents(memory, ask.address, ask.n)
  <2>1. CASE n = 0
    BY <1>3, <1>8, <2>1, NoContents
  <2>2. CASE n # 0
    BY <1>1, <1>8, <1>9, <2>2
  <2>. QED BY <2>1, <2>2
<1>. QED BY <1>7, <1>11, <1>12 DEF n

LEMMA AckFits ==
  ASSUME serial \in BOOLEAN, w16 \in BOOLEAN, memory \in [0 .. MemSize - 1 -> Cells],
         NEW ask \in SentAsks, NEW h, HeaderAsks(h, ask), HeaderFits(h),
         NEW x \in Nat, Accessed(h, "ACK", x)
  PROVE  FitReply(Answer(h, h.blocksize, "ACK", x), {ask}, memory)
<1>. DEFINE rest == IF h.type = "READ_REQUEST" THEN Contents(memory, x, h.blocksize) ELSE <<>>
            n == IF w16 THEN Len(rest) \div 2 ELSE Len(rest)
<1>1. h.blocksize \in Nat
  BY DEF HeaderFits
<1>2. ask.kind \in {"read", "write"} /\ (h.type = "READ_REQUEST" <=> ask.kind = "read")
  BY AskIs DEF HeaderAsks
<1>3. Answer(h, h.blocksize, "ACK", x)
        = EncodeHeader(serial, w16, ResponseTo(h.type), ResponseCode["ACK"], h.sequence, h.address,
                       n, Crc(rest)) \o rest
  BY DEF Answer, Acknowledge
<1>4. CASE ask.kind = "read"
  <2>1. rest = Contents(memory, x, h.blocksize)
    BY <1>2, <1>4
  <2>2. /\ h.blocksize < Huge /\ rest \in Seq(Byte) /\ Len(rest) = h.blocksize * Width
        /\ rest = Contents(memory, ask.address, ask.n)
    BY <1>4, <2>1, WasRead
  <2>3. Len(rest) = IF w16 THEN 2 * h.blocksize ELSE h.blocksize
    <3>. HIDE DEF rest
    <3>1. CASE w16
      <4>1. Width = 2
        BY <3>1, WidthIs
      <4>. QED BY <1>1, <2>2, <3>1, <4>1
    <3>2. CASE ~w16
      <4>1. Width = 1
        BY <3>2, WidthIs
      <4>. QED BY <1>1, <2>2, <3>2, <4>1
    <3>. QED BY <3>1, <3>2
  <2>. HIDE DEF rest
  <2>4. n = h.blocksize
    BY <1>1, <2>3
  <2>5. n \in Word32
    <3>1. Huge \in Nat
      BY SMT DEF Huge
    <3>2. h.blocksize <= 2 * Huge
      BY <1>1, <2>2, <3>1
    <3>. QED BY <1>1, <2>4, <3>2, SmallWords
  <2>6. Crc(rest) \in Word16
    BY <2>2, CrcType
  <2>7. "ACK" \in DOMAIN ResponseCode
    BY DEF ResponseCode
  <2>8. n < Huge /\ Len(rest) = IF w16 THEN 2 * n ELSE n
    BY <2>2, <2>3, <2>4
  <2>. HIDE DEF n
  <2>9. FitReply(EncodeHeader(serial, w16, ResponseTo(h.type), ResponseCode["ACK"], h.sequence,
                              h.address, n, Crc(rest)) \o rest, {ask}, memory)
    BY <2>2, <2>5, <2>6, <2>7, <2>8, ResponseFits, Zenon
  <2>. QED BY <1>3, <2>9, Zenon DEF n
<1>5. CASE ask.kind = "write"
  <2>1. rest = <<>>
    BY <1>2, <1>5
  <2>. HIDE DEF rest
  <2>2. rest \in Seq(Byte) /\ Len(rest) = 0
    BY <2>1
  <2>3. n = 0 /\ Len(rest) = IF w16 THEN 2 * n ELSE n
    BY <2>2
  <2>. HIDE DEF n
  <2>4. n \in Word32 /\ n < Huge
    <3>1. 0 \in Word32
      BY SmallWords DEF Word32
    <3>2. 0 < Huge
      BY SMT DEF Huge
    <3>. QED BY <2>3, <3>1, <3>2
  <2>5. Crc(rest) \in Word16
    BY <2>2, CrcType
  <2>6. "ACK" \in DOMAIN ResponseCode /\ ask.kind # "read"
    BY <1>5 DEF ResponseCode
  <2>7. FitReply(EncodeHeader(serial, w16, ResponseTo(h.type), ResponseCode["ACK"], h.sequence,
                              h.address, n, Crc(rest)) \o rest, {ask}, memory)
    BY <2>2, <2>3, <2>4, <2>5, <2>6, ResponseFits, Zenon
  <2>. QED BY <1>3, <2>7, Zenon DEF n
<1>. QED BY <1>2, <1>4, <1>5

LEMMA AnswerFits ==
  ASSUME serial \in BOOLEAN, w16 \in BOOLEAN, memory \in [0 .. MemSize - 1 -> Cells],
         NEW ask \in SentAsks, NEW h, HeaderAsks(h, ask), HeaderFits(h),
         NEW code \in AccessCodes \cup {"ETXOVERFLOW"}, NEW x \in Word32, Accessed(h, code, x)
  PROVE  FitReply(Answer(h, h.blocksize, code, x), {ask}, memory)
<1>1. /\ code \in DOMAIN ResponseCode
      /\ code \in {"ACK", "EUNMAPPED", "EACCESS", "ERANGE", "EINVALID", "EIO", "ETXOVERFLOW"}
  BY DEF AccessCodes, ResponseCode
<1>2. CASE code = "ACK"
  <2>1. x \in Nat
    BY DEF Word32
  <2>2. Accessed(h, "ACK", x)
    BY <1>2
  <2>. QED BY <1>2, <2>1, <2>2, AckFits
<1>3. CASE code \in {"EUNMAPPED", "EACCESS", "ERANGE", "EINVALID"}
  <2>1. Answer(h, h.blocksize, code, x) = ErrorWithNumber(serial, h, code, U32(x))
    BY <1>3 DEF Answer
  <2>2. code # "ACK"
    BY <1>3
  <2>. QED BY <1>1, <2>1, <2>2, NumberFits
<1>4. CASE code = "ETXOVERFLOW"
  <2>1. Answer(h, h.blocksize, code, x) = ErrorWithNumber(serial, h, code, U32(Room))
    BY <1>4 DEF Answer
  <2>2. code # "ACK"
    BY <1>4
  <2>3. Room \in Word32
    BY BlockAssumption
  <2>. QED BY <1>1, <2>1, <2>2, <2>3, NumberFits
<1>5. CASE code = "EIO"
  <2>1. Answer(h, h.blocksize, code, x) = ErrorResponse(serial, h, code)
    BY <1>5 DEF Answer
  <2>2. code # "ACK"
    BY <1>5
  <2>. QED BY <1>1, <2>1, <2>2, ErrorFits
<1>. QED BY <1>1, <1>2, <1>3, <1>4, <1>5

(***************************************************************************)
(* The loop: what is on the line, in the memory and in the RPMaybeFrame.   *)
(***************************************************************************)

Refused == {"EBUSY", "EBADMSG", "EILSEQ"}

\* The header of a sound frame is the one of the request it comes from.
Meant(asks, h) ==
  \/ \E ask \in asks : asks = {ask} /\ ask \in SentAsks /\ HeaderAsks(h, ask)
  \/ asks = {} /\ ~IsRequest(h)

Sent(f) == f.replies + (IF f.sunk THEN 1 ELSE 0)

\* A frame that waits for regp_process(): regp_recv() answered it when it refused it.
Waits(f) ==
  /\ FrameFits(f)
  /\ f.id \in {"ok", "EFAULT", "EPROTO"} \cup Refused
  /\ f.payload \in Seq(Byte) /\ HeaderFits(f.header)
  /\ f.id = "ok" => PayloadPlausible(f.header, f.payload)
  /\ f.id \in Refused => Sent(f) = 1
  /\ f.id \notin Refused => f.replies = 0 /\ f.sunk = FALSE
  /\ f.sound /\ f.id \notin Refused => Meant(f.asks, f.header)

\* OneReplyPerRequest and RepliesAnswer, and what they rest on.
AnswersInv ==
  /\ serial \in BOOLEAN /\ w16 \in BOOLEAN
  /\ sequence \in Word16
  /\ line \in Seq(Frames)
  /\ memory \in [0 .. MemSize - 1 -> Cells]
  /\ stage \in {"idle", "received", "processed"}
  /\ stage = "received" => Waits(mf)
  /\ OneReplyPerRequest
  /\ RepliesAnswer

LEMMA FramesStay ==
  ASSUME UNCHANGED <<serial, w16>>
  PROVE  Frames' = Frames
<1>1. \A ask : FrameOf(ask)' = FrameOf(ask)
  BY DEF FrameOf
<1>2. Strays' = Strays
  BY DEF Strays
<1>. QED BY <1>1, <1>2 DEF Frames, TrueTo

LEMMA ReplyStays ==
  ASSUME RepliesAnswer, UNCHANGED <<w16, reply>>
  PROVE  RepliesAnswer'
<1>1. \A c, a, n : Contents(c, a, n)' = Contents(c, a, n)
  BY DEF Contents
<1>. QED BY <1>1 DEF RepliesAnswer, Answers, AnswerTo

\* Steps of the requesting party and the line.
LEMMA LineStep ==
  ASSUME AnswersInv, UNCHANGED <<serial, w16, memory, stage, mf, reply>>,
         sequence' \in Word16, line' \in Seq(Frames)
  PROVE  AnswersInv'
<1>1. Frames' = Frames
  BY FramesStay
<1>2. RepliesAnswer'
  BY ReplyStays DEF AnswersInv
<1>3. (stage = "received" => Waits(mf))'
  BY DEF AnswersInv, Waits, FrameFits, HeaderFits, Sent, Meant, IsRequest, HeaderAsks
<1>4. OneReplyPerRequest'
  BY DEF AnswersInv, OneReplyPerRequest
<1>5. Cells' = Cells
  BY DEF Cells, Width
<1>. QED BY <1>1, <1>2, <1>3, <1>4, <1>5 DEF AnswersInv

LEMMA PutsFrame ==
  ASSUME NEW octets \in Seq(Byte), NEW asks \in SUBSET SentAsks, line \in Seq(Frames),
         TrueTo([octets |-> octets, asks |-> asks, sound |-> TRUE]), Puts(octets, asks)
  PROVE  line' \in Seq(Frames)
<1>1. [octets |-> octets, asks |-> asks, sound |-> TRUE] \in Frames
  BY DEF Frames
<1>2. line' = Append(line, [octets |-> octets, asks |-> asks, sound |-> TRUE])
  BY DEF Puts
<1>. HIDE DEF Frames
<1>. QED BY <1>1, <1>2, AppendProperties

\* A request is sent with the number that is current.
LEMMA Numbered ==
  ASSUME NEW ask \in Asks, sequence \in Word16
  PROVE  /\ [ask EXCEPT !.sequence = sequence] \in SentAsks
         /\ FrameOf([ask EXCEPT !.sequence = sequence])
              = IF ask.kind = "read"
                THEN ReadRequest(serial, ask.w16, sequence, U32(ask.address), ask.n)
                ELSE WriteRequest(serial, ask.w16, sequence, U32(ask.address), ask.data)
<1>1. /\ ask \in [kind : {"read", "write"}, w16 : BOOLEAN, address : Word32, n : Word32,
                  data : Seq(Byte), sequence : Nat]
      /\ Len(ask.data) \in Word32
  BY AskAssumption
<1>. DEFINE sent == [ask EXCEPT !.sequence = sequence]
<1>2. /\ sent.kind = ask.kind /\ sent.w16 = ask.w16 /\ sent.address = ask.address /\ sent.n = ask.n
      /\ sent.data = ask.data /\ sent.sequence = sequence
      /\ sent \in [kind : {"read", "write"}, w16 : BOOLEAN, address : Word32, n : Word32,
                   data : Seq(Byte), sequence : Word16]
  BY <1>1
<1>. HIDE DEF sent
<1>3. sent \in SentAsks
  BY <1>1, <1>2 DEF SentAsks
<1>4. FrameOf(sent) = IF ask.kind = "read"
                      THEN ReadRequest(serial, ask.w16, sequence, U32(ask.address), ask.n)
                      ELSE WriteRequest(serial, ask.w16, sequence, U32(ask.address), ask.data)
  BY <1>2, Zenon DEF FrameOf
<1>. QED BY <1>3, <1>4 DEF sent

LEMMA RequestStep ==
  ASSUME AnswersInv, NEW ask \in Asks, Request(ask)
  PROVE  AnswersInv'
<1>. DEFINE sent == [ask EXCEPT !.sequence = sequence]
<1>1. /\ serial \in BOOLEAN /\ sequence \in Word16 /\ line \in Seq(Frames)
  BY DEF AnswersInv
<1>2. sequence' \in Word16
  <2>1. sequence' = (sequence + 1) % 65536
    BY DEF Request
  <2>2. sequence \in Nat
    BY <1>1 DEF Word16
  <2>. QED BY <2>1, <2>2, SMT DEF Word16
<1>3. sent \in SentAsks
  BY <1>1, Numbered
<1>4. \/ Puts(FrameOf(sent), {sent})
      \/ line' = line
  <2>1. Puts(IF ask.kind = "read"
             THEN ReadRequest(serial, ask.w16, sequence, U32(ask.address), ask.n)
             ELSE WriteRequest(serial, ask.w16, sequence, U32(ask.address), ask.data), {sent})
        \/ line' = line
    BY DEF Request
  <2>. QED BY <1>1, <2>1, Numbered, Zenon
<1>. HIDE DEF sent
<1>5. FrameOf(sent) \in Seq(Byte)
  BY <1>1, <1>3, AskParses
<1>6. TrueTo([octets |-> FrameOf(sent), asks |-> {sent}, sound |-> TRUE])
  BY DEF TrueTo
<1>7. line' \in Seq(Frames)
  BY <1>1, <1>3, <1>4, <1>5, <1>6, PutsFrame
<1>8. UNCHANGED <<serial, w16, memory, stage, mf, reply>>
  BY DEF Request, responder
<1>. QED BY <1>2, <1>7, <1>8, LineStep

LEMMA StrayStep ==
  ASSUME AnswersInv, NEW octets \in Strays, Stray(octets)
  PROVE  AnswersInv'
<1>1. /\ serial \in BOOLEAN /\ w16 \in BOOLEAN /\ sequence \in Word16 /\ line \in Seq(Frames)
  BY DEF AnswersInv
<1>2. octets \in Seq(Byte)
  BY <1>1, StrayParses
<1>3. TrueTo([octets |-> octets, asks |-> {}, sound |-> TRUE])
  BY DEF TrueTo
<1>4. Puts(octets, {}) /\ UNCHANGED <<serial, w16, sequence, memory, stage, mf, reply>>
  BY DEF Stray, responder
<1>5. line' \in Seq(Frames)
  BY <1>1, <1>2, <1>3, <1>4, PutsFrame
<1>. QED BY <1>1, <1>4, <1>5, LineStep

(***************************************************************************)
(* What happens to frames leaves octets, of the same requests.             *)
(***************************************************************************)

LEMMA FirstFrame ==
  ASSUME line \in Seq(Frames), line # <<>>
  PROVE  Head(line) \in Frames /\ Tail(line) \in Seq(Frames)
  BY HeadTailProperties

LEMMA DamagedFrame ==
  ASSUME line \in Seq(Frames), line # <<>>, NEW octets \in Seq(Byte)
  PROVE  Damaged(octets) \in Frames
<1>1. Head(line) \in [octets : Seq(Byte), asks : SUBSET SentAsks, sound : BOOLEAN]
  BY FirstFrame DEF Frames
<1>2. Damaged(octets) \in [octets : Seq(Byte), asks : SUBSET SentAsks, sound : BOOLEAN]
      /\ Damaged(octets).sound = FALSE
  BY <1>1 DEF Damaged
<1>. QED BY <1>2 DEF Frames

LEMMA HappensStep ==
  ASSUME AnswersInv, NEW frames \in Seq(Frames), Happens(frames)
  PROVE  AnswersInv'
<1>1. line \in Seq(Frames) /\ sequence \in Word16 /\ line # <<>>
  BY DEF AnswersInv, Happens
<1>2. Tail(line) \in Seq(Frames)
  BY <1>1, FirstFrame
<1>3. line' = frames \o Tail(line) /\ UNCHANGED <<serial, w16, sequence, memory, stage, mf, reply>>
  BY DEF Happens, responder
<1>4. line' \in Seq(Frames)
  BY <1>2, <1>3, ConcatProperties
<1>. QED BY <1>1, <1>3, <1>4, LineStep

LEMMA OctetsOfLine ==
  ASSUME line \in Seq(Frames), line # <<>>
  PROVE  Head(line).octets \in Seq(Byte)
  BY FirstFrame DEF Frames

LEMMA ChangeOctetStep ==
  ASSUME AnswersInv, NEW i, NEW d \in Changes, ChangeOctet(i, d)
  PROVE  AnswersInv'
<1>. DEFINE octets == Head(line).octets
            changed == [octets EXCEPT ![i] = (@ + d) % 256]
<1>1. line \in Seq(Frames) /\ line # <<>> /\ i \in DOMAIN octets /\ Happens(<<Damaged(changed)>>)
  BY DEF AnswersInv, ChangeOctet
<1>2. octets \in Seq(Byte)
  BY <1>1, OctetsOfLine
<1>. HIDE DEF octets
<1>3. (octets[i] + d) % 256 \in Byte
  <2>1. octets[i] \in Byte
    <3>1. i \in 1 .. Len(octets)
      <4>1. i \in DOMAIN octets
        BY <1>1, Zenon
      <4>. QED BY <1>2, <4>1
    <3>. QED BY <1>2, <3>1, ElementOfSeq, Zenon
  <2>2. \A x, k \in Int : (x + k) % 256 \in 0 .. 255
    OBVIOUS
  <2>3. octets[i] \in Int
    BY <2>1, ByteBounds
  <2>4. d \in Int
    <3>1. Changes \subseteq Int
      BY LineAssumption, SMT
    <3>. QED BY <3>1, Zenon
  <2>. QED BY <2>2, <2>3, <2>4, Zenon DEF Byte
<1>4. changed \in Seq(Byte)
  <2>. DEFINE x == (octets[i] + d) % 256
  <2>1. changed = [octets EXCEPT ![i] = x]
    OBVIOUS
  <2>2. x \in Byte
    BY <1>3
  <2>. HIDE DEF x, changed
  <2>3. [octets EXCEPT ![i] = x] \in Seq(Byte)
    BY <1>1, <1>2, <2>2, ExceptSeq
  <2>. QED BY <2>1, <2>3
<1>. HIDE DEF changed
<1>5. Damaged(changed) \in Frames
  BY <1>1, <1>4, DamagedFrame
<1>6. <<Damaged(changed)>> \in Seq(Frames)
  BY <1>5
<1>. QED BY <1>1, <1>6, HappensStep

LEMMA LoseOctetStep ==
  ASSUME AnswersInv, NEW i, LoseOctet(i)
  PROVE  AnswersInv'
<1>. DEFINE octets == Head(line).octets
            a == SubSeq(octets, 1, i - 1)
            b == SubSeq(octets, i + 1, Len(octets))
<1>1. line \in Seq(Frames) /\ line # <<>> /\ i \in DOMAIN octets /\ Happens(<<Damaged(a \o b)>>)
  BY DEF AnswersInv, LoseOctet
<1>2. octets \in Seq(Byte)
  BY <1>1, OctetsOfLine
<1>. HIDE DEF octets
<1>3. i \in Nat /\ i > 0 /\ i <= Len(octets) /\ Len(octets) \in Nat
  BY <1>1, <1>2
<1>4. a \in Seq(Byte) /\ b \in Seq(Byte)
  BY <1>2, <1>3, Piece
<1>. HIDE DEF a, b
<1>5. a \o b \in Seq(Byte)
  BY <1>4, TwoParts
<1>6. Damaged(a \o b) \in Frames
  BY <1>1, <1>5, DamagedFrame
<1>7. <<Damaged(a \o b)>> \in Seq(Frames)
  BY <1>6
<1>. QED BY <1>1, <1>7, HappensStep

LEMMA SplitStep ==
  ASSUME AnswersInv, NEW i, Split(i)
  PROVE  AnswersInv'
<1>. DEFINE octets == Head(line).octets
            a == SubSeq(octets, 1, i)
            b == SubSeq(octets, i + 1, Len(octets))
<1>1. line \in Seq(Frames) /\ line # <<>> /\ i \in 1 .. Len(octets) - 1
      /\ Happens(<<Damaged(a), Damaged(b)>>)
  BY DEF AnswersInv, Split
<1>2. octets \in Seq(Byte)
  BY <1>1, OctetsOfLine
<1>. HIDE DEF octets
<1>3. i \in Nat /\ i > 0 /\ i <= Len(octets) /\ Len(octets) \in Nat
  BY <1>1, <1>2
<1>4. a \in Seq(Byte) /\ b \in Seq(Byte)
  BY <1>2, <1>3, Piece
<1>. HIDE DEF a, b
<1>5. Damaged(a) \in Frames /\ Damaged(b) \in Frames
  BY <1>1, <1>4, DamagedFrame
<1>6. <<Damaged(a), Damaged(b)>> \in Seq(Frames)
  BY <1>5
<1>. QED BY <1>1, <1>6, HappensStep

LEMMA JoinStep ==
  ASSUME AnswersInv, Join
  PROVE  AnswersInv'
<1>1. line \in Seq(Frames) /\ sequence \in Word16 /\ Len(line) > 1
  BY DEF AnswersInv, Join
<1>2. /\ line' = <<Joined>> \o Tail(Tail(line))
      /\ UNCHANGED <<serial, w16, sequence, memory, stage, mf, reply>>
  BY DEF Join, responder
<1>3. line[1] \in Frames /\ line[2] \in Frames
  BY <1>1
<1>4. Joined \in Frames
  <2>1. /\ line[1].octets \in Seq(Byte) /\ line[2].octets \in Seq(Byte)
        /\ line[1].asks \cup line[2].asks \in SUBSET SentAsks
    BY <1>3 DEF Frames
  <2>2. line[1].octets \o line[2].octets \in Seq(Byte)
    BY <2>1, TwoParts
  <2>. QED BY <2>1, <2>2 DEF Joined, Frames
<1>5. Tail(Tail(line)) \in Seq(Frames)
  <2>1. Tail(line) \in Seq(Frames) /\ Len(Tail(line)) = Len(line) - 1 /\ Len(line) \in Nat
    BY <1>1, HeadTailProperties
  <2>2. Len(Tail(line)) # 0 /\ Len(<<>>) = 0
    BY <1>1, <2>1
  <2>3. Tail(line) # <<>>
    BY <2>2, Zenon
  <2>. QED BY <2>1, <2>3, HeadTailProperties
<1>6. <<Joined>> \in Seq(Frames)
  BY <1>4
<1>7. line' \in Seq(Frames)
  BY <1>2, <1>5, <1>6, ConcatProperties
<1>. QED BY <1>1, <1>2, <1>7, LineStep

LEMMA FailsStep ==
  ASSUME AnswersInv, NEW i \in Nat, ReceiveFails(i)
  PROVE  AnswersInv'
<1>. DEFINE octets == Head(line).octets
            b == SubSeq(octets, i + 1, Len(octets))
<1>1. line \in Seq(Frames) /\ line # <<>> /\ sequence \in Word16
  BY DEF AnswersInv, ReceiveFails
<1>2. line' = (IF serial THEN <<Damaged(b)>> \o Tail(line) ELSE <<>>)
      /\ UNCHANGED <<serial, w16, sequence, memory, stage, mf, reply>>
  BY DEF ReceiveFails
<1>3. octets \in Seq(Byte)
  BY <1>1, OctetsOfLine
<1>. HIDE DEF octets
<1>4. b \in Seq(Byte)
  <2>1. i + 1 \in Nat /\ i + 1 > 0 /\ Len(octets) \in Nat /\ Len(octets) <= Len(octets)
    BY <1>3
  <2>. QED BY <1>3, <2>1, Piece
<1>. HIDE DEF b
<1>5. Damaged(b) \in Frames /\ Tail(line) \in Seq(Frames)
  BY <1>1, <1>4, DamagedFrame, FirstFrame
<1>6. <<Damaged(b)>> \in Seq(Frames) /\ <<>> \in Seq(Frames)
  BY <1>5
<1>7. <<Damaged(b)>> \o Tail(line) \in Seq(Frames)
  BY <1>5, <1>6, ConcatProperties
<1>8. line' \in Seq(Frames)
  BY <1>2, <1>6, <1>7
<1>. QED BY <1>1, <1>2, <1>8, LineStep

(***************************************************************************)
(* The responding party.                                                   *)
(***************************************************************************)

LEMMA ResponderStep ==
  ASSUME AnswersInv, UNCHANGED <<serial, w16, sequence>>, line' \in Seq(Frames),
         memory' \in [0 .. MemSize - 1 -> Cells], stage' \in {"idle", "received", "processed"},
         stage' = "received" => Waits(mf'), OneReplyPerRequest', RepliesAnswer'
  PROVE  AnswersInv'
<1>1. Frames' = Frames
  BY FramesStay
<1>2. Cells' = Cells
  BY DEF Cells, Width
<1>3. (stage = "received" => Waits(mf))'
  BY DEF Waits, FrameFits, HeaderFits, Sent, Meant, IsRequest, HeaderAsks
<1>. QED BY <1>1, <1>2, <1>3 DEF AnswersInv

SameFrame(f, of) ==
  /\ FrameFits(f)
  /\ f.id = of.id /\ f.header = of.header /\ f.payload = of.payload
  /\ f.asks = of.asks /\ f.sound = of.sound

\* Whether the sink takes the reply or fails, it is one reply.
LEMMA SendsOnce ==
  ASSUME NEW octets, NEW of, FrameFits(of), of.replies = 0, of.sunk = FALSE, Sends(octets, of)
  PROVE  SameFrame(mf', of) /\ Sent(mf') = 1
<1>1. CASE mf' = [of EXCEPT !.replies = @ + 1]
  <2>1. /\ mf'.id = of.id /\ mf'.header = of.header /\ mf'.payload = of.payload
        /\ mf'.asks = of.asks /\ mf'.sound = of.sound /\ mf'.replies = 0 + 1 /\ mf'.sunk = of.sunk
    BY <1>1 DEF FrameFits
  <2>2. FrameFits(mf')
    BY <1>1 DEF FrameFits
  <2>3. (IF mf'.sunk THEN 1 ELSE 0) = 0
    BY <2>1, Zenon
  <2>4. Sent(mf') = 1
    BY <2>1, <2>3 DEF Sent
  <2>. QED BY <2>1, <2>2, <2>4 DEF SameFrame
<1>2. CASE mf' = [of EXCEPT !.sunk = TRUE]
  <2>1. /\ mf'.id = of.id /\ mf'.header = of.header /\ mf'.payload = of.payload
        /\ mf'.asks = of.asks /\ mf'.sound = of.sound /\ mf'.replies = 0 /\ mf'.sunk = TRUE
    BY <1>2 DEF FrameFits
  <2>2. FrameFits(mf')
    BY <1>2 DEF FrameFits
  <2>3. (IF mf'.sunk THEN 1 ELSE 0) = 1
    BY <2>1, Zenon
  <2>4. Sent(mf') = 1
    BY <2>1, <2>3 DEF Sent
  <2>. QED BY <2>1, <2>2, <2>4 DEF SameFrame
<1>. QED BY <1>1, <1>2 DEF Sends

LEMMA SendsFit ==
  ASSUME NEW octets, NEW of, RepliesAnswer, w16' = w16, Sends(octets, of),
         of.sound => FitReply(octets, of.asks, memory)
  PROVE  RepliesAnswer'
<1>1. CASE reply' = [octets |-> octets, of |-> of, cells |-> memory]
  BY <1>1, ReplyOfFits, Zenon
<1>2. CASE reply' = reply
  BY <1>2, ReplyStays
<1>. QED BY <1>1, <1>2 DEF Sends

\* What regp_recv() returns, before it answers anything.
Fresh(of, id, frame, parsed) ==
  /\ FrameFits(of) /\ of.id = id
  /\ of.header = parsed.header /\ of.payload = parsed.payload
  /\ of.asks = frame.asks /\ of.sound = frame.sound
  /\ of.replies = 0 /\ of.sunk = FALSE

LEMMA ReturnedIs ==
  ASSUME NEW frame, NEW block \in BOOLEAN, NEW parsed
  PROVE  Fresh(Returned(frame, block, parsed), IF block THEN parsed.id ELSE "EBUSY", frame, parsed)
<1>. DEFINE id == IF block THEN parsed.id ELSE "EBUSY"
            of == Returned(frame, block, parsed)
<1>1. of = [id |-> id, block |-> block, header |-> parsed.header, payload |-> parsed.payload,
            asks |-> frame.asks, sound |-> frame.sound, replies |-> 0, sunk |-> FALSE]
  BY DEF Returned
<1>. HIDE DEF of, id
<1>2. FrameFits(of)
  BY <1>1 DEF FrameFits
<1>3. /\ of.id = id /\ of.header = parsed.header /\ of.payload = parsed.payload
      /\ of.asks = frame.asks /\ of.sound = frame.sound
      /\ of.replies = 0 /\ of.sunk = FALSE
  BY <1>1
<1>4. Fresh(of, id, frame, parsed)
  BY <1>2, <1>3 DEF Fresh
<1>. QED BY <1>4 DEF of, id

\* regp_recv() without a block: it cannot read the header.
LEMMA HearsBusy ==
  ASSUME AnswersInv, UNCHANGED <<serial, w16>>, NEW frame, NEW parsed, parsed.id = "EBADMSG",
         FrameTyped(parsed), Hears(frame, FALSE, parsed)
  PROVE  Waits(mf') /\ RepliesAnswer'
<1>. DEFINE of == Returned(frame, FALSE, parsed)
<1>2. Sends(MetaMessage(serial, EHEADERENC), of)
  BY DEF Hears, RejectsHeader
<1>3. /\ FrameFits(of) /\ of.replies = 0 /\ of.sunk = FALSE /\ of.id = "EBUSY"
      /\ of.header = parsed.header /\ of.payload = parsed.payload
  <2>1. FALSE \in BOOLEAN /\ (IF FALSE THEN parsed.id ELSE "EBUSY") = "EBUSY"
    OBVIOUS
  <2>2. Fresh(of, "EBUSY", frame, parsed)
    BY <2>1, ReturnedIs, Zenon
  <2>. QED BY <2>2 DEF Fresh
<1>. HIDE DEF of
<1>4. SameFrame(mf', of) /\ Sent(mf') = 1
  BY <1>2, <1>3, SendsOnce
<1>5. Waits(mf')
  BY <1>3, <1>4 DEF SameFrame, Waits, FrameTyped, Refused
<1>6. FitReply(MetaMessage(serial, EHEADERENC), of.asks, memory)
  BY MetaFits DEF AnswersInv
<1>. QED BY <1>2, <1>5, <1>6, SendsFit DEF AnswersInv

\* regp_recv() with a block.
LEMMA HearsFrame ==
  ASSUME AnswersInv, UNCHANGED <<serial, w16>>, NEW frame, NEW parsed, FrameTyped(parsed),
         frame.sound => Judgeable(parsed) /\ Meant(frame.asks, parsed.header),
         Hears(frame, TRUE, parsed)
  PROVE  Waits(mf') /\ RepliesAnswer'
<1>. DEFINE of == Returned(frame, TRUE, parsed)
<1>1. /\ FrameFits(of) /\ of.replies = 0 /\ of.sunk = FALSE /\ of.id = parsed.id
      /\ of.header = parsed.header /\ of.payload = parsed.payload
      /\ of.asks = frame.asks /\ of.sound = frame.sound
  <2>1. TRUE \in BOOLEAN /\ (IF TRUE THEN parsed.id ELSE "EBUSY") = parsed.id
    OBVIOUS
  <2>2. Fresh(of, parsed.id, frame, parsed)
    BY <2>1, ReturnedIs, Zenon
  <2>. QED BY <2>2 DEF Fresh
<1>2. CASE parsed.id \in Errors
  <2>1. PICK meta \in {EHEADERENC, EHEADERCRC} : Sends(MetaMessage(serial, meta), of)
    BY <1>2 DEF Hears, RejectsHeader, Errors
  <2>. HIDE DEF of
  <2>2. SameFrame(mf', of) /\ Sent(mf') = 1
    BY <2>1, <1>1, SendsOnce
  <2>3. Waits(mf')
    BY <1>2, <1>1, <2>2 DEF SameFrame, Waits, FrameTyped, Refused, Errors
  <2>4. FitReply(MetaMessage(serial, meta), of.asks, memory)
    BY MetaFits DEF AnswersInv
  <2>. QED BY <2>1, <2>3, <2>4, SendsFit DEF AnswersInv
<1>3. CASE parsed.id \notin Errors
  <2>1. mf' = of /\ reply' = reply
    BY <1>3 DEF Hears, SendsNothing, Errors
  <2>. HIDE DEF of
  <2>2. parsed.id \in {"ok", "EFAULT", "EPROTO"}
    BY <1>3 DEF FrameTyped
  <2>3. Waits(of)
    BY <1>1, <2>2 DEF Waits, FrameTyped, Refused
  <2>4. RepliesAnswer'
    BY <2>1, ReplyStays DEF AnswersInv
  <2>. QED BY <2>1, <2>3, <2>4
<1>. QED BY <1>2, <1>3

LEMMA AnswersReceiveStep ==
  ASSUME AnswersInv, Receive
  PROVE  AnswersInv'
<1>. DEFINE frame == Head(line)
            raw == IF pool = 0 THEN KeptByFallback(frame.octets) ELSE Kept(frame.octets)
<1>1. /\ line # <<>> /\ line' = Tail(line) /\ stage' = "received"
      /\ UNCHANGED <<serial, w16, sequence, memory>>
      /\ Hears(frame, pool # 0, ParseFrame(raw))
  BY DEF Receive
<1>2. frame \in Frames /\ line' \in Seq(Frames)
  BY <1>1, FirstFrame DEF AnswersInv
<1>. HIDE DEF frame
<1>3. Waits(mf') /\ RepliesAnswer'
  <2>1. CASE pool = 0
    <3>1. raw = <<>>
      BY <2>1 DEF KeptByFallback
    <3>2. <<>> \in Seq(Byte)
      OBVIOUS
    <3>3. ParseFrame(raw).id = "EBADMSG" /\ FrameTyped(ParseFrame(raw))
      BY <3>1, <3>2, NoOctets, ParsedType
    <3>. HIDE DEF raw
    <3>4. (pool # 0) = FALSE
      BY <2>1
    <3>5. Hears(frame, FALSE, ParseFrame(raw))
      BY <1>1, <3>4
    <3>. QED BY <1>1, <3>3, <3>5, HearsBusy
  <2>2. CASE pool # 0
    <3>1. raw = Kept(frame.octets)
      BY <2>2
    <3>2. frame.octets \in Seq(Byte)
      BY <1>2 DEF Frames
    <3>3. raw \in Seq(Byte)
      <4>. DEFINE m == IF Len(frame.octets) > Room THEN Room ELSE Len(frame.octets)
      <4>1. Room \in Nat
        BY BlockAssumption DEF Word32
      <4>2. m \in Nat /\ m <= Len(frame.octets) /\ 1 \in Nat /\ 1 > 0
        BY <3>2, <4>1
      <4>3. raw = SubSeq(frame.octets, 1, m)
        BY <3>1 DEF Kept
      <4>. HIDE DEF m, raw
      <4>. QED BY <3>2, <4>2, <4>3, Piece
    <3>4. frame.sound => Judgeable(ParseFrame(raw)) /\ Meant(frame.asks, ParseFrame(raw).header)
      <4>. SUFFICES ASSUME frame.sound
                    PROVE  Judgeable(ParseFrame(raw)) /\ Meant(frame.asks, ParseFrame(raw).header)
        OBVIOUS
      <4>1. serial \in BOOLEAN /\ w16 \in BOOLEAN
        BY DEF AnswersInv
      <4>2. TrueTo(frame) /\ frame.asks \in SUBSET SentAsks
        BY <1>2 DEF Frames
      <4>. HIDE DEF raw
      <4>3. ASSUME NEW ask \in frame.asks, frame.asks = {ask}, frame.octets = FrameOf(ask)
            PROVE  Judgeable(ParseFrame(raw)) /\ Meant(frame.asks, ParseFrame(raw).header)
        <5>1. ask \in SentAsks
          BY <4>2
        <5>2. raw = Kept(FrameOf(ask))
          BY <3>1, <4>3
        <5>3. Judgeable(ParseFrame(raw)) /\ HeaderAsks(ParseFrame(raw).header, ask)
          BY <4>1, <5>1, <5>2, AskParses
        <5>. QED BY <4>3, <5>1, <5>3 DEF Meant
      <4>4. ASSUME frame.asks = {}, frame.octets \in Strays
            PROVE  Judgeable(ParseFrame(raw)) /\ Meant(frame.asks, ParseFrame(raw).header)
        <5>1. Judgeable(ParseFrame(raw)) /\ ~IsRequest(ParseFrame(raw).header)
          BY <3>1, <4>1, <4>4, StrayParses
        <5>. QED BY <4>4, <5>1 DEF Meant
      <4>. QED BY <4>2, <4>3, <4>4 DEF TrueTo
    <3>5. FrameTyped(ParseFrame(raw))
      BY <3>3, ParsedType
    <3>. HIDE DEF raw
    <3>6. (pool # 0) = TRUE
      BY <2>2
    <3>7. Hears(frame, TRUE, ParseFrame(raw))
      BY <1>1, <3>6
    <3>. QED BY <1>1, <3>4, <3>5, <3>7, HearsFrame
  <2>. QED BY <2>1, <2>2
<1>4. OneReplyPerRequest'
  BY <1>1 DEF OneReplyPerRequest
<1>5. memory' \in [0 .. MemSize - 1 -> Cells]
  BY <1>1 DEF AnswersInv
<1>. QED BY <1>1, <1>2, <1>3, <1>4, <1>5, ResponderStep

\* A request's answer, whatever becomes of it.
LEMMA AnsweredFits ==
  ASSUME RepliesAnswer, w16' = w16, Waits(mf), mf.id \notin Refused, IsRequest(mf.header),
         NEW octets, Sends(octets, mf),
         NEW asks, asks = mf.asks,
         \A ask \in SentAsks : asks = {ask} /\ HeaderAsks(mf.header, ask) => FitReply(octets, {ask}, memory)
  PROVE  OneReplyPerRequest' /\ RepliesAnswer'
<1>1. FrameFits(mf) /\ mf.replies = 0 /\ mf.sunk = FALSE
  BY DEF Waits
<1>2. SameFrame(mf', mf) /\ Sent(mf') = 1
  BY <1>1, SendsOnce
<1>3. mf.sound => \E ask \in SentAsks : asks = {ask} /\ HeaderAsks(mf.header, ask)
  BY DEF Waits, Meant
<1>4. mf.sound => FitReply(octets, asks, memory)
  BY <1>3
<1>5. RepliesAnswer'
  BY <1>4, SendsFit
<1>6. OneReplyPerRequest'
  <2>1. mf'.sound => mf'.asks # {}
    BY <1>2, <1>3 DEF SameFrame
  <2>. QED BY <1>2, <2>1 DEF OneReplyPerRequest, Sent
<1>. QED BY <1>5, <1>6

\* The memory's answer to a request in order: what is sent fits, and the registers stay
\* as wide as they are.
LEMMA ServeFits ==
  ASSUME AnswersInv, UNCHANGED <<serial, w16>>, Waits(mf), mf.id = "ok", IsRequest(mf.header),
         MemtypeValid(mf.header), Serve(mf.header, mf.payload)
  PROVE  /\ memory' \in [0 .. MemSize - 1 -> Cells]
         /\ OneReplyPerRequest' /\ RepliesAnswer'
<1>. DEFINE h == mf.header
            payload == mf.payload
            n == h.blocksize
            at == Number32(h.address)
            write == h.type = "WRITE_REQUEST"
<1>1. /\ serial \in BOOLEAN /\ w16 \in BOOLEAN /\ memory \in [0 .. MemSize - 1 -> Cells]
      /\ RepliesAnswer /\ MemSize \in Nat
  BY MemoryAssumption DEF AnswersInv
<1>2. HeaderFits(h) /\ payload \in Seq(Byte) /\ PayloadPlausible(h, payload) /\ mf.id \notin Refused
  BY DEF Waits, Refused
<1>3. n \in Nat /\ n <= Huge /\ at \in Nat /\ at <= Huge
  <2>1. n \in Nat /\ n <= Huge /\ h.address \in Seq(Byte) /\ Len(h.address) = 4
    BY <1>2 DEF HeaderFits, Addresses
  <2>. QED BY <2>1, Number32Type
<1>4. write \in BOOLEAN
  OBVIOUS
<1>5. write => n = (IF w16 THEN Len(payload) \div 2 ELSE Len(payload))
  BY <1>2 DEF PayloadPlausible, MemtypeValid
<1>6. ASSUME NEW code \in AccessCodes \cup {"ETXOVERFLOW"}, NEW x \in Nat, x <= at + n,
             Accessed(h, code, x), Sends(Answer(h, n, code, x), mf)
      PROVE  OneReplyPerRequest' /\ RepliesAnswer'
  <2>1. x \in Word32
    <3>1. Huge \in Nat
      BY SMT DEF Huge
    <3>2. x <= 2 * Huge
      BY <1>3, <1>6, <3>1
    <3>. QED BY <3>2, SmallWords
  <2>. HIDE DEF at, n, h
  <2>2. ASSUME NEW ask \in SentAsks, HeaderAsks(h, ask)
        PROVE  FitReply(Answer(h, n, code, x), {ask}, memory)
    <3>1. FitReply(Answer(h, h.blocksize, code, x), {ask}, memory)
      BY <1>1, <1>2, <1>6, <2>1, <2>2, AnswerFits
    <3>. QED BY <3>1 DEF n
  <2>3. \A ask \in SentAsks : mf.asks = {ask} /\ HeaderAsks(mf.header, ask)
                                => FitReply(Answer(h, n, code, x), {ask}, memory)
    BY <2>2 DEF h
  <2>4. RepliesAnswer /\ w16' = w16 /\ mf.id \notin Refused
    BY <1>1, <1>2
  <2>. HIDE DEF payload, write
  <2>. QED BY <1>6, <2>3, <2>4, AnsweredFits, Zenon
<1>7. ASSUME Sends(Answer(h, n, "ETXOVERFLOW", at), mf), memory' = memory
      PROVE  /\ memory' \in [0 .. MemSize - 1 -> Cells]
             /\ OneReplyPerRequest' /\ RepliesAnswer'
  <2>1. "ETXOVERFLOW" \in AccessCodes \cup {"ETXOVERFLOW"} /\ Accessed(h, "ETXOVERFLOW", at)
    BY DEF Accessed
  <2>2. at <= at + n
    BY <1>3
  <2>. HIDE DEF h, n, at
  <2>. QED BY <1>1, <1>3, <1>6, <1>7, <2>1, <2>2
<1>8. ASSUME NEW end \in Outcomes(write, at, n, payload),
             memory' = (IF write /\ end[1] = "SUCCESS" THEN Written(at, n, payload) ELSE memory),
             Sends(Answer(h, n, BlockAccessCode(end[1]), end[2]), mf)
      PROVE  /\ memory' \in [0 .. MemSize - 1 -> Cells]
             /\ OneReplyPerRequest' /\ RepliesAnswer'
  <2>. DEFINE code == BlockAccessCode(end[1])
  <2>1. /\ end[1] \in {"SUCCESS", "NOENTRY", "READONLY", "RANGE", "INVALID", "IO_ERROR"}
        /\ end[2] \in Nat /\ end[2] <= at + n
        /\ end[1] = "SUCCESS" => end[2] = at /\ at .. at + n - 1 \subseteq 0 .. MemSize - 1
    <3>. HIDE DEF at, n, payload, write, h
    <3>. QED BY <1>1, <1>2, <1>3, <1>4, <1>5, <1>8, OutcomesAre
  <2>2. code \in AccessCodes \cup {"ETXOVERFLOW"} /\ (code = "ACK" => end[1] = "SUCCESS")
    BY <2>1, AccessCode
  <2>3. Accessed(h, code, end[2])
    BY <2>1, <2>2 DEF Accessed
  <2>4. OneReplyPerRequest' /\ RepliesAnswer'
    <3>. HIDE DEF at, n, h, payload, write
    <3>. QED BY <1>6, <1>8, <2>1, <2>2, <2>3
  <2>5. memory' \in [0 .. MemSize - 1 -> Cells]
    <3>. HIDE DEF at, n, h, payload, write
    <3>1. write => n * Width <= Len(payload)
      <4>1. \A k \in Nat : (k \div 2) * 2 <= k /\ k * 1 <= k
        OBVIOUS
      <4>2. Len(payload) \in Nat
        BY <1>2
      <4>. QED BY <1>1, <1>5, <4>1, <4>2, WidthIs
    <3>2. write => Written(at, n, payload) \in [0 .. MemSize - 1 -> Cells]
      BY <1>1, <1>2, <1>3, <3>1, WrittenType
    <3>. QED BY <1>1, <1>8, <3>2
  <2>. QED BY <2>4, <2>5
<1>9. \/ Sends(Answer(h, n, "ETXOVERFLOW", at), mf) /\ memory' = memory
      \/ \E end \in Outcomes(write, at, n, payload) :
           /\ memory' = (IF write /\ end[1] = "SUCCESS" THEN Written(at, n, payload) ELSE memory)
           /\ Sends(Answer(h, n, BlockAccessCode(end[1]), end[2]), mf)
  BY Zenon DEF Serve
<1>. QED BY <1>7, <1>8, <1>9, Zenon

LEMMA AnswersProcessStep ==
  ASSUME AnswersInv, Process
  PROVE  AnswersInv'
<1>. DEFINE h == mf.header
<1>1. /\ stage = "received" /\ stage' = "processed"
      /\ UNCHANGED <<serial, w16, sequence, line>>
  BY DEF Process
<1>2. Waits(mf) /\ RepliesAnswer /\ memory \in [0 .. MemSize - 1 -> Cells] /\ serial \in BOOLEAN
      /\ line \in Seq(Frames)
  BY <1>1 DEF AnswersInv
<1>3. ASSUME memory' = memory, mf.id \in {"ok", "EPROTO", "EFAULT"}, IsRequest(h),
             NEW code \in {"EWORDSIZE", "EPAYLOADCRC", "EPAYLOADSIZE"},
             Sends(ErrorResponse(serial, h, code), mf)
      PROVE  /\ memory' \in [0 .. MemSize - 1 -> Cells]
             /\ OneReplyPerRequest' /\ RepliesAnswer'
  <2>1. code \in DOMAIN ResponseCode /\ code # "ACK" /\ mf.id \notin Refused
    BY <1>3 DEF ResponseCode, Refused
  <2>2. ASSUME NEW ask \in SentAsks, HeaderAsks(mf.header, ask)
        PROVE  FitReply(ErrorResponse(serial, h, code), {ask}, memory)
    BY <1>2, <2>1, <2>2, ErrorFits
  <2>3. OneReplyPerRequest' /\ RepliesAnswer'
    BY <1>1, <1>2, <1>3, <2>1, <2>2, AnsweredFits
  <2>. QED BY <1>2, <1>3, <2>3
<1>4. ASSUME memory' = memory, mf' = mf, reply' = reply,
             mf.id \in Refused \/ ~IsRequest(h)
      PROVE  /\ memory' \in [0 .. MemSize - 1 -> Cells]
             /\ OneReplyPerRequest' /\ RepliesAnswer'
  <2>1. RepliesAnswer'
    BY <1>1, <1>2, <1>4, ReplyStays
  <2>2. OneReplyPerRequest'
    <3>. SUFFICES ASSUME mf.sound
                  PROVE  Sent(mf) = IF mf.asks # {} \/ mf.id \in {"EBUSY", "EBADMSG", "EILSEQ"}
                                    THEN 1 ELSE 0
      BY <1>4 DEF OneReplyPerRequest, Sent
    <3>1. CASE mf.id \in Refused
      BY <1>2, <3>1 DEF Waits, Refused
    <3>2. CASE mf.id \notin Refused
      <4>1. mf.asks = {}
        BY <1>2, <1>4, <3>2 DEF Waits, Meant, HeaderAsks, IsRequest, RequestTypes
      <4>2. mf.replies = 0 /\ (IF mf.sunk THEN 1 ELSE 0) = 0
        <5>1. mf.replies = 0 /\ mf.sunk = FALSE
          BY <1>2, <3>2 DEF Waits
        <5>. QED BY <5>1, Zenon
      <4>3. Sent(mf) = 0
        BY <4>2 DEF Sent
      <4>. QED BY <3>2, <4>1, <4>3 DEF Refused
    <3>. QED BY <3>1, <3>2
  <2>. QED BY <1>2, <1>4, <2>1, <2>2
<1>5. /\ memory' \in [0 .. MemSize - 1 -> Cells]
      /\ OneReplyPerRequest' /\ RepliesAnswer'
  <2>1. CASE mf.id = "ok" /\ IsRequest(h) /\ MemtypeValid(h) /\ Serve(h, mf.payload)
    BY <1>1, <1>2, <2>1, ServeFits
  <2>2. CASE /\ mf.id = "ok" /\ IsRequest(h)
             /\ Sends(ErrorResponse(serial, h, "EWORDSIZE"), mf)
             /\ UNCHANGED <<memory, access>>
    BY <1>3, <2>2
  <2>3. CASE /\ mf.id \in {"EPROTO", "EFAULT"} /\ AnswersErrorsOf(h)
             /\ Sends(ErrorResponse(serial, h,
                        IF mf.id = "EPROTO" THEN "EPAYLOADCRC" ELSE "EPAYLOADSIZE"), mf)
             /\ UNCHANGED <<memory, access>>
    <3>1. IsRequest(h)
      BY <2>3 DEF AnswersErrorsOf
    <3>2. \E code \in {"EPAYLOADCRC", "EPAYLOADSIZE"} : Sends(ErrorResponse(serial, h, code), mf)
      BY <2>3
    <3>. QED BY <1>3, <2>3, <3>1, <3>2
  <2>4. CASE /\ \/ mf.id \in {"EBADMSG", "EILSEQ", "EBUSY"}
                \/ (mf.id = "ok" /\ ~IsRequest(h))
                \/ (mf.id \in {"EPROTO", "EFAULT"} /\ ~AnswersErrorsOf(h))
             /\ SendsNothing(mf)
             /\ UNCHANGED <<memory, access>>
    BY <1>4, <2>4 DEF SendsNothing, AnswersErrorsOf, Refused
  <2>. QED BY <2>1, <2>2, <2>3, <2>4 DEF Process
<1>6. line' \in Seq(Frames)
  BY <1>1, <1>2
<1>. QED BY <1>1, <1>5, <1>6, ResponderStep

LEMMA AnswersFreeStep ==
  ASSUME AnswersInv, Free
  PROVE  AnswersInv'
<1>1. /\ stage' = "idle" /\ reply' = NoReply
      /\ UNCHANGED <<serial, w16, sequence, line, memory>>
  BY DEF Free
<1>2. line' \in Seq(Frames) /\ memory' \in [0 .. MemSize - 1 -> Cells]
  BY <1>1 DEF AnswersInv
<1>3. RepliesAnswer' /\ OneReplyPerRequest'
  BY <1>1 DEF RepliesAnswer, OneReplyPerRequest, NoReply
<1>. QED BY <1>1, <1>2, <1>3, ResponderStep

LEMMA AnswersInitially == RegpInit => AnswersInv
<1>. SUFFICES ASSUME RegpInit PROVE AnswersInv
  OBVIOUS
<1>1. serial \in BOOLEAN /\ w16 \in BOOLEAN /\ stage = "idle" /\ reply = NoReply /\ line \in Seq(Frames)
  BY DEF RegpInit
<1>2. sequence \in Word16
  <2>1. sequence = FirstNumber
    BY Zenon DEF RegpInit
  <2>2. FirstNumber \in Word16
    BY LineAssumption, SMT DEF Word16
  <2>. QED BY <2>1, <2>2, Zenon
<1>3. memory \in [0 .. MemSize - 1 -> Cells]
  <2>1. memory = [i \in 0 .. MemSize - 1 |->
                    IF w16 THEN <<(i + 1) % 256, (i + 17) % 256>> ELSE <<(i + 1) % 256>>]
    BY DEF RegpInit
  <2>2. ASSUME NEW i \in 0 .. MemSize - 1
        PROVE  (IF w16 THEN <<(i + 1) % 256, (i + 17) % 256>> ELSE <<(i + 1) % 256>>) \in Cells
    <3>1. (i + 1) % 256 \in Byte /\ (i + 17) % 256 \in Byte
      BY DEF Byte
    <3>. DEFINE a == (i + 1) % 256
                b == (i + 17) % 256
    <3>. HIDE DEF a, b
    <3>2. a \in Byte /\ b \in Byte
      BY <3>1 DEF a, b
    <3>3. CASE w16
      <4>1. Width = 2
        BY <3>3, WidthIs
      <4>2. <<a, b>> \in Cells
        BY <3>2, <4>1 DEF Cells
      <4>. QED BY <3>3, <4>2, Zenon DEF a, b
    <3>4. CASE ~w16
      <4>1. Width = 1
        BY <3>4, WidthIs
      <4>2. <<a>> \in Cells
        BY <3>2, <4>1 DEF Cells
      <4>. QED BY <3>4, <4>2, Zenon DEF a
    <3>. QED BY <3>3, <3>4
  <2>. QED BY <2>1, <2>2
<1>4. RepliesAnswer /\ OneReplyPerRequest
  BY <1>1 DEF RepliesAnswer, OneReplyPerRequest
<1>. QED BY <1>1, <1>2, <1>3, <1>4 DEF AnswersInv

LEMMA AnswersPreserved == AnswersInv /\ [RegpNext]_regpVars => AnswersInv'
<1>. SUFFICES ASSUME AnswersInv, [RegpNext]_regpVars
              PROVE  AnswersInv'
  OBVIOUS
<1>1. line \in Seq(Frames) /\ sequence \in Word16
  BY DEF AnswersInv
<1>2. ASSUME UNCHANGED <<serial, w16, sequence, line, memory, stage, mf, reply>>
      PROVE  AnswersInv'
  BY <1>1, <1>2, LineStep
<1>3. CASE \E ask \in Asks : Request(ask)
  BY <1>3, RequestStep
<1>4. CASE \E octets \in Strays : Stray(octets)
  BY <1>4, StrayStep
<1>5. CASE ResetSession
  <2>1. sequence' \in Word16
    BY <1>5, SmallWords DEF ResetSession
  <2>2. line' \in Seq(Frames) /\ UNCHANGED <<serial, w16, memory, stage, mf, reply>>
    BY <1>1, <1>5 DEF ResetSession, responder
  <2>. QED BY <2>1, <2>2, LineStep
<1>6. CASE Lose
  <2>1. <<>> \in Seq(Frames)
    OBVIOUS
  <2>. QED BY <1>6, <2>1, HappensStep DEF Lose
<1>7. CASE Join
  BY <1>7, JoinStep
<1>8. ASSUME NEW i, LoseOctet(i) \/ Split(i)
      PROVE  AnswersInv'
  BY <1>8, LoseOctetStep, SplitStep
<1>9. ASSUME NEW i, NEW d \in Changes, ChangeOctet(i, d)
      PROVE  AnswersInv'
  BY <1>9, ChangeOctetStep
<1>10. CASE OthersTake
  BY <1>2, <1>10 DEF OthersTake
<1>11. CASE OthersFree
  BY <1>2, <1>11 DEF OthersFree
<1>12. CASE Receive
  BY <1>12, AnswersReceiveStep
<1>13. ASSUME NEW i \in {0, 1, HeaderMin, Room}, ReceiveFails(i)
       PROVE  AnswersInv'
  <2>1. i \in Nat
    BY BlockAssumption DEF HeaderMin, Word32
  <2>. QED BY <1>13, <2>1, FailsStep
<1>14. CASE Process
  BY <1>14, AnswersProcessStep
<1>15. CASE Free
  BY <1>15, AnswersFreeStep
<1>16. CASE UNCHANGED regpVars
  BY <1>2, <1>16 DEF regpVars
<1>. QED BY <1>3, <1>4, <1>5, <1>6, <1>7, <1>8, <1>9, <1>10, <1>11, <1>12, <1>13, <1>14,
            <1>15, <1>16, Zenon DEF RegpNext

\* Whatever the line does to frames, and however often there is no block for one or the
\* sink fails: regp_recv() and regp_process() together answer a request that arrived
\* undamaged with one frame, and a response that did with none, unless it is refused.
THEOREM EveryRequestIsAnswered == RegpSpec => []OneReplyPerRequest
<1>1. AnswersInv => OneReplyPerRequest
  BY DEF AnswersInv
<1>. QED BY <1>1, AnswersInitially, AnswersPreserved, PTL DEF RegpSpec

\* What the responding party sends back to an undamaged request is read by the requesting
\* party's parse_frame() as the answer to this request, with the registers' contents if it
\* is an acknowledged read: for memories, blocks, requests and register widths of all sizes.
THEOREM RepliesFitRequests == RegpSpec => []RepliesAnswer
<1>1. AnswersInv => RepliesAnswer
  BY DEF AnswersInv
<1>. QED BY <1>1, AnswersInitially, AnswersPreserved, PTL DEF RegpSpec
================================================================================
