-------------------------- MODULE RegisterTableProofs --------------------------
(***************************************************************************)
(* Proofs about register tables, for all set-ups and address spaces.       *)
(***************************************************************************)
EXTENDS RegisterTable, FiniteSetTheorems, TLAPS

LEMMA LeastIsLeast ==
  ASSUME NEW S \in SUBSET Nat, S # {}
  PROVE  Least(S) \in S /\ \A y \in S : Least(S) <= y
<1>. DEFINE T == {0 .. x : x \in S}
            R == StrictSubsetOrdering(Nat)
            F == FiniteSubsetsOf(Nat)
<1>1. T \subseteq F
  <2>1. ASSUME NEW x \in S PROVE 0 .. x \in F
    <3>1. IsFiniteSet(0 .. x)
      <4>1. 0 \in Int /\ x \in Int
        OBVIOUS
      <4>. QED BY <4>1, FS_Interval
    <3>2. 0 .. x \in SUBSET Nat
      OBVIOUS
    <3>. QED BY <3>1, <3>2 DEF FiniteSubsetsOf
  <2>. QED BY <2>1
<1>2. IsWellFoundedOn(R, F)
  BY FS_StrictSubsetOrderingWellFounded
<1>3. T # {}
  OBVIOUS
<1>4. PICK s \in T : \A t \in T : <<t, s>> \notin R
  <2>. HIDE DEF T, R, F
  <2>. QED BY <1>1, <1>2, <1>3, WFMin
<1>5. PICK x \in S : s = 0 .. x
  BY <1>4
<1>6. ASSUME NEW y \in S PROVE x <= y
  <2>1. <<0 .. y, 0 .. x>> \notin R
    BY <1>4, <1>5
  <2>2. y < x => 0 .. y \subseteq 0 .. x /\ x \notin 0 .. y /\ x \in 0 .. x
    BY <1>5
  <2>3. 0 .. x \in SUBSET Nat /\ 0 .. y \in SUBSET Nat
    OBVIOUS
  <2>4. y < x => <<0 .. y, 0 .. x>> \in R
    BY <2>2, <2>3 DEF StrictSubsetOrdering
  <2>. QED BY <2>1, <2>4
<1>. QED BY <1>5, <1>6 DEF Least

(***************************************************************************)
(* The shape of a table.                                                   *)
(***************************************************************************)

LEMMA TableShape ==
  ASSUME table \in Tables
  PROVE  /\ Len(table.area) \in Nat /\ Len(table.entry) \in Nat
         /\ \A an \in Areas :
              /\ an \in Nat /\ Area(an).base \in Nat /\ Area(an).size \in Nat
              /\ Area(an).base + Area(an).size <= AddressCount
              /\ Area(an) \in AreaType
         /\ \A h \in Handles :
              /\ h \in Nat /\ Entry(h).address \in Nat /\ Size(h) \in {1, 2, 4}
              /\ Entry(h).type \in Type /\ Entry(h).default \in Bits(Size(h))
<1>1. table.area \in Seq(AreaType) /\ table.entry \in Seq(EntryType)
  BY TableAssumption
<1>2. Len(table.area) \in Nat /\ Len(table.entry) \in Nat
  BY <1>1
<1>3. ASSUME NEW an \in Areas
      PROVE  /\ an \in Nat /\ Area(an).base \in Nat /\ Area(an).size \in Nat
             /\ Area(an).base + Area(an).size <= AddressCount
             /\ Area(an) \in AreaType
  <2>1. an \in Nat /\ an + 1 \in 1 .. Len(table.area)
    BY <1>2 DEF Areas
  <2>2. Area(an) \in AreaType
    BY <1>1, <2>1 DEF Area
  <2>. QED BY <2>1, <2>2 DEF AreaType
<1>4. ASSUME NEW h \in Handles
      PROVE  /\ h \in Nat /\ Entry(h).address \in Nat /\ Size(h) \in {1, 2, 4}
             /\ Entry(h).type \in Type /\ Entry(h).default \in Bits(Size(h))
  <2>1. h \in Nat /\ h + 1 \in 1 .. Len(table.entry)
    BY <1>2 DEF Handles
  <2>2. Entry(h) \in EntryType
    BY <1>1, <2>1 DEF Entry
  <2>. DEFINE e == Entry(h)
  <2>3. /\ e.address \in Nat /\ e.type \in Type
        /\ e.default \in UNION {Bits(n) : n \in {1, 2, 4}} /\ Len(e.default) = SizeOf(e.type)
    BY <2>2 DEF EntryType
  <2>4. PICK n \in {1, 2, 4} : e.default \in Bits(n)
    BY <2>3
  <2>5. Len(e.default) = n
    <3>. HIDE DEF e
    <3>. QED BY <2>4 DEF Bits
  <2>. QED BY <2>1, <2>3, <2>4, <2>5 DEF Size
<1>. QED BY <1>2, <1>3, <1>4

\* Neighbours that are in order put all of a list in order.
LEMMA EntriesSorted ==
  ASSUME table \in Tables, BadEntries = {}
  PROVE  \A i, j \in Handles : i < j => End(i) < Entry(j).address
<1>. SUFFICES ASSUME NEW i \in Handles,
                     NEW k \in Handles, i < k, ~(End(i) < Entry(k).address)
              PROVE  FALSE
  OBVIOUS
<1>. DEFINE S == {j \in Handles : i < j /\ ~(End(i) < Entry(j).address)}
<1>1. PICK j \in S : \A y \in S : j <= y
  <2>1. S \in SUBSET Nat /\ S # {}
    BY TableShape
  <2>. QED BY <2>1, LeastIsLeast
<1>2. /\ j \in Nat /\ i \in Nat /\ i < j /\ j - 1 \in Handles /\ j \in Handles \ {0}
      /\ ~(End(i) < Entry(j).address)
  <2>1. j \in Handles /\ i < j /\ ~(End(i) < Entry(j).address)
    OBVIOUS
  <2>. HIDE DEF S
  <2>. QED BY <2>1, TableShape DEF Handles
<1>3. i < j - 1 => End(i) < Entry(j - 1).address
  <2>1. ~(j <= j - 1)
    BY <1>2
  <2>. QED BY <1>1, <1>2, <2>1
<1>. HIDE DEF S
<1>4. EntryOrder(j) = "success"
  BY <1>2 DEF BadEntries
<1>5. Entry(j - 1).address + Size(j - 1) <= Entry(j).address
  <2>1. /\ Entry(j).address \in Nat /\ Entry(j - 1).address \in Nat /\ Size(j - 1) \in Nat
    BY <1>2, TableShape
  <2>. QED BY <1>4, <2>1 DEF EntryOrder, Disorder
<1>6. /\ Entry(j).address \in Nat /\ Entry(j - 1).address \in Nat /\ Size(j - 1) \in Nat \ {0}
      /\ Entry(i).address \in Nat /\ Size(i) \in Nat
  BY <1>2, TableShape
<1>7. CASE i = j - 1
  BY <1>2, <1>5, <1>6, <1>7 DEF End
<1>8. CASE i < j - 1
  BY <1>2, <1>3, <1>5, <1>6, <1>8 DEF End
<1>. QED BY <1>2, <1>7, <1>8

LEMMA AreasSorted ==
  ASSUME table \in Tables, BadAreas = {}
  PROVE  \A i, j \in Areas : i < j => Area(i).base + Area(i).size <= Area(j).base
<1>. SUFFICES ASSUME NEW i \in Areas,
                     NEW k \in Areas, i < k, ~(Area(i).base + Area(i).size <= Area(k).base)
              PROVE  FALSE
  OBVIOUS
<1>. DEFINE S == {j \in Areas : i < j /\ ~(Area(i).base + Area(i).size <= Area(j).base)}
<1>1. PICK j \in S : \A y \in S : j <= y
  <2>1. S \in SUBSET Nat /\ S # {}
    BY TableShape
  <2>. QED BY <2>1, LeastIsLeast
<1>2. /\ j \in Nat /\ i \in Nat /\ i < j /\ j - 1 \in Areas /\ j \in Areas \ {0}
      /\ ~(Area(i).base + Area(i).size <= Area(j).base)
  <2>1. j \in Areas /\ i < j /\ ~(Area(i).base + Area(i).size <= Area(j).base)
    OBVIOUS
  <2>. HIDE DEF S
  <2>. QED BY <2>1, TableShape DEF Areas
<1>3. i < j - 1 => Area(i).base + Area(i).size <= Area(j - 1).base
  <2>1. ~(j <= j - 1)
    BY <1>2
  <2>. QED BY <1>1, <1>2, <2>1
<1>. HIDE DEF S
<1>4. AreaOrder(j) = "success"
  BY <1>2 DEF BadAreas
<1>5. /\ Area(j).base \in Nat /\ Area(j - 1).base \in Nat /\ Area(j - 1).size \in Nat
      /\ Area(i).base \in Nat /\ Area(i).size \in Nat
  BY <1>2, TableShape
<1>6. Area(j - 1).base + Area(j - 1).size <= Area(j).base
  BY <1>4, <1>5 DEF AreaOrder, Disorder
<1>7. CASE i = j - 1
  BY <1>2, <1>6, <1>7
<1>8. CASE i < j - 1
  BY <1>2, <1>3, <1>5, <1>6, <1>8
<1>. QED BY <1>2, <1>7, <1>8

\* An address that is mapped lies in the area that is found for it.
LEMMA FoundArea ==
  ASSUME table \in Tables, NEW a, Mapped(a)
  PROVE  FindArea(a) \in Areas /\ IsPartOf(FindArea(a), a)
<1>. DEFINE S == {an \in Areas : IsPartOf(an, a)}
<1>1. S \in SUBSET Nat /\ S # {}
  BY TableShape DEF Mapped
<1>2. Least(S) \in S
  BY <1>1, LeastIsLeast
<1>. QED BY <1>2 DEF FindArea

\* In a table that is in order, it lies in no other.
LEMMA OnlyArea ==
  ASSUME table \in Tables, BadAreas = {}, NEW a \in Nat, NEW an \in Areas, IsPartOf(an, a)
  PROVE  Mapped(a) /\ FindArea(a) = an /\ a \in Address
<1>1. Mapped(a)
  BY DEF Mapped
<1>. DEFINE k == FindArea(a)
<1>2. k \in Areas /\ IsPartOf(k, a)
  BY <1>1, FoundArea
<1>. HIDE DEF k
<1>3. /\ Area(k).base \in Nat /\ Area(k).size \in Nat /\ Area(an).base \in Nat
      /\ Area(an).size \in Nat /\ k \in Nat /\ an \in Nat
      /\ Area(an).base + Area(an).size <= AddressCount
  BY <1>2, TableShape
<1>4. ~(k < an) /\ ~(an < k)
  BY <1>2, <1>3, AreasSorted DEF IsPartOf
<1>5. k = an
  BY <1>3, <1>4
<1>6. a \in Address
  BY <1>3, BoundsAssumption DEF IsPartOf, Address
<1>. QED BY <1>1, <1>5, <1>6 DEF k

\* The atoms of a register that is in memory lie in one area.
LEMMA PlacedAtoms ==
  ASSUME table \in Tables, BadAreas = {}, NEW h \in Handles, IsInMemory(h),
         NEW a \in Entry(h).address .. End(h)
  PROVE  a \in Address /\ Mapped(a) /\ FindArea(a) = AreaOf(h) /\ AreaOf(h) \in Areas
<1>. DEFINE k == AreaOf(h)
<1>1. k \in Areas /\ IsPartOf(k, Entry(h).address)
  BY FoundArea DEF AreaOf, IsInMemory
<1>2. End(h) < Area(k).base + Area(k).size
  BY DEF IsInMemory
<1>3. Entry(h).address \in Nat /\ End(h) \in Int
  BY TableShape DEF End
<1>. HIDE DEF k
<1>4. Area(k).base \in Nat /\ Area(k).size \in Nat
  BY <1>1, TableShape
<1>5. a \in Nat /\ IsPartOf(k, a)
  BY <1>1, <1>2, <1>3, <1>4 DEF IsPartOf
<1>6. Mapped(a) /\ FindArea(a) = k /\ a \in Address
  BY <1>1, <1>5, OnlyArea
<1>. QED BY <1>1, <1>6 DEF k

(***************************************************************************)
(* Values and memory.                                                      *)
(***************************************************************************)

Memory == [Address -> Atom]

LEMMA BitsLength ==
  ASSUME NEW n \in Nat, NEW b \in Bits(n)
  PROVE  Len(b) = n /\ b \in Seq(Atom) /\ DOMAIN b = 1 .. n /\ \A i \in 1 .. n : b[i] \in Atom
BY DEF Bits

\* Storing and loading a value are inverse to each other.
LEMMA RawTwice ==
  ASSUME NEW n \in Nat, NEW b \in Bits(n)
  PROVE  Raw(b) \in Bits(n) /\ Raw(Raw(b)) = b
<1>1. Len(b) = n /\ DOMAIN b = 1 .. n /\ \A i \in 1 .. n : b[i] \in Atom
  BY BitsLength
<1>2. Swapped(b) = [i \in 1 .. n |-> b[n + 1 - i]]
  BY <1>1 DEF Swapped
<1>3. Swapped(b) \in Bits(n)
  <2>1. \A i \in 1 .. n : n + 1 - i \in 1 .. n
    OBVIOUS
  <2>. QED BY <1>1, <1>2, <2>1 DEF Bits
<1>4. Len(Swapped(b)) = n
  BY <1>3, BitsLength
<1>5. Swapped(Swapped(b)) = b
  <2>1. Swapped(Swapped(b)) = [i \in 1 .. n |-> Swapped(b)[n + 1 - i]]
    BY <1>4 DEF Swapped
  <2>2. \A i \in 1 .. n : n + 1 - i \in 1 .. n /\ n + 1 - (n + 1 - i) = i
    OBVIOUS
  <2>3. \A i \in 1 .. n : Swapped(b)[n + 1 - i] = b[i]
    BY <1>2, <2>2
  <2>4. b = [i \in 1 .. n |-> b[i]]
    BY DEF Bits
  <2>. QED BY <2>1, <2>3, <2>4
<1>. QED BY <1>3, <1>5 DEF Raw

\* What is stored for a register depends on its own atoms only.
LEMMA StoredDepends ==
  ASSUME table \in Tables, NEW h \in Handles, NEW m, NEW w,
         \A a \in Entry(h).address .. End(h) : w[a] = m[a]
  PROVE  Stored(w, h) = Stored(m, h)
<1>1. Entry(h).address \in Nat /\ Size(h) \in Nat
  BY TableShape
<1>2. \A i \in 1 .. Size(h) : Entry(h).address + i - 1 \in Entry(h).address .. End(h)
  BY <1>1 DEF End
<1>3. [i \in 1 .. Size(h) |-> w[Entry(h).address + i - 1]]
        = [i \in 1 .. Size(h) |-> m[Entry(h).address + i - 1]]
  BY <1>2
<1>. QED BY <1>3 DEF Stored

\* Of a register whose atoms are the raw form of a value, that value is loaded.
LEMMA StoredIs ==
  ASSUME table \in Tables, NEW h \in Handles, NEW m, NEW b \in Bits(Size(h)),
         \A a \in Entry(h).address .. End(h) : m[a] = Raw(b)[a - Entry(h).address + 1]
  PROVE  Stored(m, h) = b
<1>1. Entry(h).address \in Nat /\ Size(h) \in Nat
  BY TableShape
<1>2. ASSUME NEW i \in 1 .. Size(h)
      PROVE  m[Entry(h).address + i - 1] = Raw(b)[i]
  <2>. DEFINE a == Entry(h).address + i - 1
  <2>1. a \in Entry(h).address .. End(h) /\ a - Entry(h).address + 1 = i
    BY <1>1 DEF End
  <2>2. m[a] = Raw(b)[a - Entry(h).address + 1]
    BY <2>1
  <2>. QED BY <2>1, <2>2
<1>3. [i \in 1 .. Size(h) |-> m[Entry(h).address + i - 1]] = Raw(b)
  <2>1. Raw(b) = [i \in 1 .. Size(h) |-> Raw(b)[i]]
    BY <1>1, RawTwice DEF Bits
  <2>. QED BY <1>2, <2>1
<1>. QED BY <1>1, <1>3, RawTwice DEF Stored

LEMMA StoredType ==
  ASSUME table \in Tables, BadAreas = {}, NEW h \in Handles, IsInMemory(h), NEW m \in Memory
  PROVE  Stored(m, h) \in Bits(Size(h))
<1>1. Entry(h).address \in Nat /\ Size(h) \in Nat
  BY TableShape
<1>2. \A i \in 1 .. Size(h) : Entry(h).address + i - 1 \in Entry(h).address .. End(h)
  BY <1>1 DEF End
<1>3. \A i \in 1 .. Size(h) : m[Entry(h).address + i - 1] \in Atom
  BY <1>2, PlacedAtoms DEF Memory
<1>4. [i \in 1 .. Size(h) |-> m[Entry(h).address + i - 1]] \in Bits(Size(h))
  BY <1>3 DEF Bits
<1>. QED BY <1>1, <1>4, RawTwice DEF Stored

LEMMA WithRegisterType ==
  ASSUME table \in Tables, NEW h \in Handles, NEW m \in Memory, NEW b \in Bits(Size(h))
  PROVE  WithRegister(m, h, b) \in Memory
<1>1. Entry(h).address \in Nat /\ Size(h) \in Nat
  BY TableShape
<1>2. Raw(b) \in [1 .. Size(h) -> Atom]
  BY <1>1, RawTwice DEF Bits
<1>3. ASSUME NEW a \in Address, Entry(h).address <= a, a <= End(h)
      PROVE  Raw(b)[a - Entry(h).address + 1] \in Atom
  <2>1. a - Entry(h).address + 1 \in 1 .. Size(h)
    BY <1>1, <1>3 DEF End, Address
  <2>. QED BY <1>2, <2>1
<1>. QED BY <1>3 DEF WithRegister, Memory

\* Storing to a register changes that register and no other.
LEMMA WithRegisterStores ==
  ASSUME table \in Tables, BadAreas = {}, BadEntries = {},
         NEW h \in Handles, IsInMemory(h), NEW m, NEW b \in Bits(Size(h))
  PROVE  /\ Stored(WithRegister(m, h, b), h) = b
         /\ \A k \in Handles \ {h} :
              IsInMemory(k) => Stored(WithRegister(m, h, b), k) = Stored(m, k)
<1>. DEFINE w == WithRegister(m, h, b)
<1>1. \A a \in Address : w[a] = IF Entry(h).address <= a /\ a <= End(h)
                                THEN Raw(b)[a - Entry(h).address + 1] ELSE m[a]
  BY DEF WithRegister
<1>. HIDE DEF w
<1>2. Stored(w, h) = b
  <2>1. ASSUME NEW a \in Entry(h).address .. End(h)
        PROVE  w[a] = Raw(b)[a - Entry(h).address + 1]
    <3>1. a \in Address
      BY PlacedAtoms
    <3>2. Entry(h).address <= a /\ a <= End(h)
      BY TableShape DEF End
    <3>. QED BY <1>1, <3>1, <3>2
  <2>. QED BY <2>1, StoredIs
<1>3. ASSUME NEW k \in Handles \ {h}, IsInMemory(k)
      PROVE  Stored(w, k) = Stored(m, k)
  <2>1. ASSUME NEW a \in Entry(k).address .. End(k)
        PROVE  w[a] = m[a]
    <3>1. a \in Address
      BY <1>3, PlacedAtoms
    <3>2. /\ h \in Nat /\ k \in Nat /\ Entry(h).address \in Nat /\ Entry(k).address \in Nat
          /\ End(h) \in Int /\ End(k) \in Int /\ a \in Int
      BY TableShape DEF End
    <3>3. End(h) < Entry(k).address \/ End(k) < Entry(h).address
      BY <3>2, EntriesSorted
    <3>4. ~(Entry(h).address <= a /\ a <= End(h))
      BY <3>2, <3>3
    <3>. QED BY <1>1, <3>1, <3>4
  <2>. QED BY <2>1, StoredDepends
<1>. QED BY <1>2, <1>3 DEF w

LEMMA WithDefaultsType ==
  ASSUME table \in Tables, NEW H \in SUBSET Handles, NEW m \in Memory
  PROVE  WithDefaults(m, H) \in Memory
<1>. DEFINE Covers(h, a) == Entry(h).address <= a /\ a <= End(h)
            Choice(a) == CHOOSE h \in H : Covers(h, a)
<1>1. ASSUME NEW a \in Address, \E h \in H : Covers(h, a)
      PROVE  Raw(Entry(Choice(a)).default)[a - Entry(Choice(a)).address + 1] \in Atom
  <2>. DEFINE h == Choice(a)
  <2>1. h \in H /\ Covers(h, a)
    BY <1>1
  <2>. HIDE DEF h, Choice
  <2>2. Entry(h).address \in Nat /\ Size(h) \in Nat /\ Entry(h).default \in Bits(Size(h))
    BY <2>1, TableShape
  <2>3. Raw(Entry(h).default) \in [1 .. Size(h) -> Atom]
    BY <2>2, RawTwice DEF Bits
  <2>4. a - Entry(h).address + 1 \in 1 .. Size(h)
    BY <2>1, <2>2 DEF End, Address
  <2>. QED BY <2>3, <2>4 DEF h
<1>. QED BY <1>1 DEF WithDefaults, Memory

\* Loading defaults changes the registers they are loaded to and no others.
LEMMA WithDefaultsStores ==
  ASSUME table \in Tables, BadAreas = {}, BadEntries = {}, NEW H \in SUBSET Handles, NEW m,
         NEW k \in Handles, IsInMemory(k)
  PROVE  Stored(WithDefaults(m, H), k) = IF k \in H THEN Entry(k).default ELSE Stored(m, k)
<1>. DEFINE w == WithDefaults(m, H)
            Covers(h, a) == Entry(h).address <= a /\ a <= End(h)
<1>1. \A a \in Address : w[a] = IF \E h \in H : Covers(h, a)
                                THEN LET h == CHOOSE h \in H : Covers(h, a)
                                     IN  Raw(Entry(h).default)[a - Entry(h).address + 1]
                                ELSE m[a]
  BY DEF WithDefaults
<1>2. ASSUME NEW a \in Entry(k).address .. End(k), NEW h \in H, Covers(h, a)
      PROVE  h = k
  <2>1. /\ h \in Nat /\ k \in Nat /\ Entry(h).address \in Nat /\ Entry(k).address \in Nat
        /\ End(h) \in Int /\ End(k) \in Int /\ a \in Int
    BY TableShape DEF End
  <2>2. ~(End(h) < Entry(k).address) /\ ~(End(k) < Entry(h).address)
    BY <1>2, <2>1
  <2>. QED BY <2>1, <2>2, EntriesSorted
<1>3. \A a \in Entry(k).address .. End(k) : a \in Address /\ Covers(k, a)
  BY PlacedAtoms, TableShape DEF End
<1>. HIDE DEF w, Covers
<1>4. CASE k \in H
  <2>1. ASSUME NEW a \in Entry(k).address .. End(k)
        PROVE  w[a] = Raw(Entry(k).default)[a - Entry(k).address + 1]
    <3>1. (CHOOSE h \in H : Covers(h, a)) = k
      BY <1>2, <1>3, <1>4
    <3>. QED BY <1>1, <1>3, <1>4, <3>1
  <2>2. Entry(k).default \in Bits(Size(k))
    BY TableShape
  <2>3. Stored(w, k) = Entry(k).default
    BY <2>1, <2>2, StoredIs
  <2>. QED BY <1>4, <2>3 DEF w
<1>5. CASE k \notin H
  <2>1. \A a \in Entry(k).address .. End(k) : w[a] = m[a]
    BY <1>1, <1>2, <1>3, <1>5
  <2>2. Stored(w, k) = Stored(m, k)
    BY <2>1, StoredDepends
  <2>. QED BY <1>5, <2>2 DEF w
<1>. QED BY <1>4, <1>5

LEMMA WithBlockType ==
  ASSUME NEW m \in Memory, NEW addr \in Int, NEW buf \in Seq(Atom)
  PROVE  WithBlock(m, addr, buf) \in Memory
<1>1. ASSUME NEW a \in Address, addr <= a, a < addr + Len(buf)
      PROVE  buf[a - addr + 1] \in Atom
  <2>1. a - addr + 1 \in 1 .. Len(buf)
    BY <1>1 DEF Address
  <2>. QED BY <2>1
<1>. QED BY <1>1 DEF WithBlock, Memory

\* A block changes registers in its range only.
LEMMA WithBlockSpares ==
  ASSUME table \in Tables, BadAreas = {}, NEW m, NEW addr \in Int, NEW buf \in Seq(Atom),
         NEW k \in Handles, IsInMemory(k), k \notin InRange(addr, Len(buf))
  PROVE  Stored(WithBlock(m, addr, buf), k) = Stored(m, k)
<1>. DEFINE w == WithBlock(m, addr, buf)
<1>1. \A a \in Address : w[a] = IF addr <= a /\ a < addr + Len(buf) THEN buf[a - addr + 1] ELSE m[a]
  BY DEF WithBlock
<1>. HIDE DEF w
<1>2. ASSUME NEW a \in Entry(k).address .. End(k)
      PROVE  w[a] = m[a]
  <2>1. a \in Address
    BY PlacedAtoms
  <2>2. Entry(k).address \in Nat /\ End(k) \in Int /\ a \in Int /\ Len(buf) \in Nat
    BY TableShape DEF End
  <2>3. ~(Entry(k).address < addr + Len(buf) /\ addr <= End(k))
    BY DEF InRange
  <2>4. ~(addr <= a /\ a < addr + Len(buf))
    BY <2>2, <2>3
  <2>. QED BY <1>1, <2>1, <2>4
<1>. QED BY <1>2, StoredDepends DEF w

(***************************************************************************)
(* The invariant: an initialised table is in order and all of its          *)
(* registers are in memory; so are the registers with validated contents.  *)
(***************************************************************************)

InOrder == Areas # {} /\ BadAreas = {} /\ BadEntries = {}

RegisterInv ==
  /\ table \in Tables
  /\ mem \in Memory
  /\ counted \in BOOLEAN /\ initialised \in BOOLEAN /\ bigendian \in BOOLEAN
  /\ touched \subseteq Handles /\ sound \subseteq Handles
  /\ initialised \/ sound # {} => InOrder
  /\ initialised => \A h \in Handles : IsInMemory(h)
  /\ \A h \in sound : IsInMemory(h)

\* The kinds of steps.  Quiet ones change no memory.
Quiet ==
  /\ touched' \subseteq Handles
  /\ last'.op # "init"
  /\ UNCHANGED <<table, mem, counted, initialised, bigendian, span, sound>>

\* Memory is written without a validation.
RawWrite ==
  /\ \E addr \in Int, buf \in Seq(Atom) :
       /\ mem' = WithBlock(mem, addr, buf)
       /\ sound' \subseteq sound \ InRange(addr, Len(buf))
  /\ last'.op = "other"
  /\ UNCHANGED <<table, counted, initialised, bigendian, span, touched>>

\* A value is stored to a register, validated or not.
RegisterWrite ==
  /\ \E h \in Handles : \E b \in Bits(Size(h)) :
       /\ mem' = WithRegister(mem, h, b)
       /\ \/ sound' = sound \cup {h} /\ Converts(Entry(h).type, b) /\ Accepts(h, b, FALSE)
          \/ sound' = sound \ {h}
  /\ initialised
  /\ last'.op = "other"
  /\ UNCHANGED <<table, counted, initialised, bigendian, span, touched>>

LEMMA ValuesFit ==
  ASSUME table \in Tables, NEW h, NEW v \in ValuesFor(h)
  PROVE  /\ h \in Handles /\ v.type = Entry(h).type => v.bits \in Bits(Size(h))
         /\ v = [type |-> v.type, bits |-> v.bits]
<1>. DEFINE other == CHOOSE type \in Type : h \in Handles => type # Entry(h).type
<1>1. other \in Type /\ (h \in Handles => other # Entry(h).type)
  BY DEF Type
<1>2. CASE h \in Handles /\ v \in {[type |-> Entry(h).type, bits |-> b] : b \in Bits(Size(h))}
  BY <1>2
<1>3. CASE v = [type |-> other, bits |-> [i \in 1 .. SizeOf(other) |-> 0]]
  BY <1>1, <1>3
<1>. QED BY <1>2, <1>3 DEF ValuesFor

LEMMA SetXKind ==
  ASSUME RegisterInv, NEW op, op \notin Observed, NEW h \in AnyHandle, NEW v,
         h \in Handles /\ v.type = Entry(h).type => v.bits \in Bits(Size(h)),
         NEW withValidator \in BOOLEAN, NEW broken,
         (initialised /\ ~withValidator) => h \in Handles /\ v.type = Entry(h).type,
         SetX(op, h, v, withValidator, broken)
  PROVE  Quiet \/ RegisterWrite
<1>. DEFINE code == SetCode(h, v, withValidator, broken)
<1>1. CASE code # "success"
  BY <1>1 DEF SetX, Unchanged, Returns, Quiet, RegisterInv
<1>2. CASE code = "success"
  <2>1. /\ initialised /\ ~(h > Len(table.entry)) /\ h # Len(table.entry)
        /\ withValidator => v.type = Entry(h).type /\ Accepts(h, v.bits, FALSE)
        /\ Converts(v.type, v.bits)
    BY <1>2 DEF SetCode
  <2>2. h \in Handles
    BY <2>1, TableShape DEF AnyHandle, Handles, RegisterInv
  <2>3. v.type = Entry(h).type /\ v.bits \in Bits(Size(h))
    BY <2>1, <2>2
  <2>4. /\ mem' = WithRegister(mem, h, v.bits)
        /\ sound' = IF withValidator THEN sound \cup {h} ELSE sound \ {h}
        /\ last'.op = "other"
        /\ UNCHANGED <<table, counted, initialised, bigendian, span, touched>>
    BY <1>2 DEF SetX, Returns, Unchanged
  <2>. QED BY <2>1, <2>2, <2>3, <2>4 DEF RegisterWrite
<1>. HIDE DEF code
<1>. QED BY <1>1, <1>2

LEMMA BitChangeKind ==
  ASSUME RegisterInv, NEW op, op \notin Observed, NEW h \in AnyHandle, NEW v \in ValuesFor(h),
         NEW set, NEW broken, BitChange(op, h, v, set, broken)
  PROVE  Quiet \/ RegisterWrite
<1>. DEFINE code == GetCode(h, broken)
            b == WithBits(Stored(mem, h), v.bits, set)
            u == [v EXCEPT !.bits = b]
<1>1. CASE ~(code = "success" /\ v.type = Entry(h).type /\ v.type \in {"u16", "u32", "u64"})
  <2>1. \E c : Unchanged(op, c)
    <3>. HIDE DEF u
    <3>. QED BY <1>1 DEF BitChange
  <2>2. PICK c : Unchanged(op, c)
    BY <2>1
  <2>. QED BY <2>2 DEF Unchanged, Returns, Quiet, RegisterInv
<1>2. CASE code = "success" /\ v.type = Entry(h).type /\ v.type \in {"u16", "u32", "u64"}
  <2>1. initialised /\ h \in Handles
    BY <1>2 DEF GetCode
  <2>2. Stored(mem, h) \in Bits(Size(h)) /\ Size(h) \in Nat
    BY <2>1, StoredType, TableShape DEF RegisterInv, InOrder
  <2>3. Len(Stored(mem, h)) = Size(h) /\ \A i \in 1 .. Size(h) : Stored(mem, h)[i] \in Atom
    BY <2>2, BitsLength
  <2>4. b \in Bits(Size(h))
    <3>1. b = [i \in 1 .. Size(h) |-> IF v.bits[i] = 1 THEN IF set THEN 1 ELSE 0
                                      ELSE Stored(mem, h)[i]]
      BY <2>3 DEF WithBits
    <3>. QED BY <2>3, <3>1 DEF Bits, Atom
  <2>5. u.type = v.type /\ u.bits = b
    BY ValuesFit DEF RegisterInv
  <2>6. SetX(op, h, u, TRUE, broken)
    BY <1>2 DEF BitChange
  <2>. HIDE DEF u, b
  <2>. QED BY <2>4, <2>5, <2>6, SetXKind
<1>. QED BY <1>1, <1>2

LEMMA ByRegisterKind ==
  ASSUME RegisterInv, ByRegister
  PROVE  Quiet \/ RegisterWrite \/ \E broken \in SUBSET Custom : RegisterSanitise(broken)
<1>1. PICK broken \in SUBSET Custom :
        \/ \E h \in AnyHandle : \E v \in ValuesFor(h) :
             \/ Set(h, v, broken)
             \/ SetUnsafe(h, v, broken)
             \/ BitSet(h, v, broken)
             \/ BitClear(h, v, broken)
        \/ RegisterSanitise(broken)
  BY DEF ByRegister
<1>2. ASSUME NEW h \in AnyHandle, NEW v \in ValuesFor(h),
             Set(h, v, broken) \/ SetUnsafe(h, v, broken) \/ BitSet(h, v, broken)
               \/ BitClear(h, v, broken)
      PROVE  Quiet \/ RegisterWrite
  <2>1. h \in Handles /\ v.type = Entry(h).type => v.bits \in Bits(Size(h))
    BY ValuesFit DEF RegisterInv
  <2>2. /\ "set" \notin Observed /\ "set_unsafe" \notin Observed
        /\ "bit_set" \notin Observed /\ "bit_clear" \notin Observed
    BY DEF Observed
  <2>3. CASE Set(h, v, broken)
    BY <2>1, <2>2, <2>3, SetXKind DEF Set
  <2>4. CASE SetUnsafe(h, v, broken)
    BY <2>1, <2>2, <2>4, SetXKind DEF SetUnsafe
  <2>5. CASE BitSet(h, v, broken)
    BY <2>2, <2>5, BitChangeKind DEF BitSet
  <2>6. CASE BitClear(h, v, broken)
    BY <2>2, <2>6, BitChangeKind DEF BitClear
  <2>. QED BY <1>2, <2>3, <2>4, <2>5, <2>6
<1>. QED BY <1>1, <1>2

LEMMA BlocksAreSequences ==
  ASSUME NEW buf \in Blocks
  PROVE  buf \in Seq(Atom) /\ Len(buf) \in 0 .. MaxBlock
<1>1. PICK n \in 0 .. MaxBlock : buf \in Bits(n)
  BY DEF Blocks
<1>2. n \in Nat
  BY BoundsAssumption
<1>. QED BY <1>1, <1>2, BitsLength

\* What is pushed is the block up to the first atom that lies in a failing area.
LEMMA PushedIs ==
  ASSUME NEW addr \in Nat, NEW buf \in Seq(Atom), NEW broken
  PROVE  LET p == Pushed(addr, buf, broken)
         IN  /\ p \in Seq(Atom) /\ Len(p) <= Len(buf)
             /\ \A i \in 1 .. Len(p) : p[i] = buf[i]
             /\ Len(p) < Len(buf) => addr + Len(p) \in Broken(addr, Len(buf), broken)
             /\ \A a \in addr .. addr + Len(p) - 1 : a \notin Broken(addr, Len(buf), broken)
<1>. DEFINE bad == Broken(addr, Len(buf), broken)
            p == Pushed(addr, buf, broken)
<1>1. bad \in SUBSET (addr .. addr + Len(buf) - 1)
  BY DEF Broken
<1>2. p = IF bad = {} THEN buf ELSE SubSeq(buf, 1, Least(bad) - addr)
  BY DEF Pushed
<1>. HIDE DEF bad, p
<1>3. CASE bad = {}
  BY <1>2, <1>3 DEF bad, p
<1>4. CASE bad # {}
  <2>1. bad \in SUBSET Nat
    BY <1>1
  <2>2. Least(bad) \in bad /\ \A a \in bad : Least(bad) <= a
    BY <1>4, <2>1, LeastIsLeast
  <2>. DEFINE k == Least(bad) - addr
  <2>3. k \in 0 .. Len(buf) - 1 /\ Least(bad) = addr + k
    <3>1. Least(bad) \in addr .. addr + Len(buf) - 1
      BY <1>1, <2>2
    <3>2. Len(buf) \in Nat
      OBVIOUS
    <3>. QED BY <3>1, <3>2
  <2>4. p = SubSeq(buf, 1, k)
    BY <1>2, <1>4
  <2>5. \A a \in bad : addr + k <= a
    BY <2>2, <2>3
  <2>. HIDE DEF k
  <2>6. p \in Seq(Atom) /\ Len(p) = k /\ \A i \in 1 .. k : p[i] = buf[i]
    BY <2>3, <2>4
  <2>7. \A a \in addr .. addr + k - 1 : a \notin bad
    BY <2>3, <2>5
  <2>. QED BY <2>2, <2>3, <2>6, <2>7 DEF bad, p
<1>. QED BY <1>3, <1>4

LEMMA BlockWriteUnsafeKind ==
  ASSUME RegisterInv, NEW addr \in Address, NEW buf \in Blocks, NEW broken,
         BlockWriteUnsafe(addr, buf, broken)
  PROVE  RawWrite
<1>. DEFINE p == Pushed(addr, buf, broken)
<1>1. addr \in Nat /\ buf \in Seq(Atom)
  BY BlocksAreSequences DEF Address
<1>2. p \in Seq(Atom) /\ Len(p) <= Len(buf)
  BY <1>1, PushedIs
<1>. HIDE DEF p
<1>3. mem' = WithBlock(mem, addr, p) /\ sound' = sound \ InRange(addr, Len(buf))
  BY DEF BlockWriteUnsafe, p
<1>4. InRange(addr, Len(p)) \subseteq InRange(addr, Len(buf))
  <2>1. ASSUME NEW h \in Handles, Entry(h).address < addr + Len(p)
        PROVE  Entry(h).address < addr + Len(buf)
    <3>1. Entry(h).address \in Nat /\ Len(p) \in Nat /\ Len(buf) \in Nat
      BY <1>1, <1>2, TableShape DEF RegisterInv
    <3>. QED BY <1>1, <1>2, <2>1, <3>1
  <2>. QED BY <2>1 DEF InRange
<1>5. /\ last'.op = "other"
      /\ UNCHANGED <<table, counted, initialised, bigendian, span, touched>>
  BY DEF BlockWriteUnsafe, Returns, Observed
<1>6. sound' \subseteq sound \ InRange(addr, Len(p))
  BY <1>3, <1>4
<1>. QED BY <1>1, <1>2, <1>3, <1>5, <1>6 DEF RawWrite

LEMMA MCopyKind ==
  ASSUME RegisterInv, NEW dst \in Areas, NEW src \in Areas, NEW broken, MCopy(dst, src, broken)
  PROVE  Quiet \/ RawWrite
<1>. DEFINE n == Lesser(Area(dst).size, Area(src).size)
            copied == [i \in 1 .. n |-> mem[Area(src).base + i - 1]]
<1>1. /\ Area(dst).base \in Nat /\ Area(src).base \in Nat /\ n \in Nat
      /\ Area(src).base + n <= AddressCount
  <2>1. /\ Area(dst).base \in Nat /\ Area(dst).size \in Nat
        /\ Area(src).base \in Nat /\ Area(src).size \in Nat
        /\ Area(src).base + Area(src).size <= AddressCount
    BY TableShape DEF RegisterInv
  <2>2. n \in Nat /\ n <= Area(src).size
    BY <2>1 DEF Lesser
  <2>. HIDE DEF n
  <2>. QED BY <2>1, <2>2, BoundsAssumption
<1>2. CASE \E code : Unchanged("mcopy", code)
  BY <1>2 DEF Unchanged, Returns, Observed, Quiet, RegisterInv
<1>3. CASE ~\E code : Unchanged("mcopy", code)
  <2>1. /\ mem' = WithBlock(mem, Area(dst).base, copied)
        /\ sound' = sound \ InRange(Area(dst).base, n)
        /\ last'.op = "other"
        /\ UNCHANGED <<table, counted, initialised, bigendian, span, touched>>
    <3>. HIDE DEF copied
    <3>1. /\ mem' = WithBlock(mem, Area(dst).base, copied)
          /\ sound' = sound \ InRange(Area(dst).base, n)
          /\ Returns("mcopy", "success")
          /\ UNCHANGED <<table, counted, initialised, bigendian, span, touched>>
      BY <1>3 DEF MCopy, copied
    <3>. QED BY <3>1 DEF Returns, Observed
  <2>2. copied \in Bits(n)
    <3>. HIDE DEF n
    <3>1. \A i \in 1 .. n : mem[Area(src).base + i - 1] \in Atom
      <4>1. \A i \in 1 .. n : Area(src).base + i - 1 \in Address
        BY <1>1, BoundsAssumption DEF Address
      <4>. QED BY <4>1 DEF RegisterInv, Memory
    <3>. QED BY <3>1 DEF Bits
  <2>. HIDE DEF n, copied
  <2>3. copied \in Seq(Atom) /\ Len(copied) = n
    BY <1>1, <2>2, BitsLength
  <2>. QED BY <1>1, <2>1, <2>3 DEF RawWrite
<1>. QED BY <1>2, <1>3

LEMMA SetFromHexstrKind ==
  ASSUME RegisterInv, NEW start \in Address, NEW k \in Nat, NEW str \in [1 .. k -> {1, NoHex}],
         NEW broken, SetFromHexstr(start, str, broken)
  PROVE  RawWrite
<1>. DEFINE stops == {i \in 1 .. Len(str) : HexCode(start + i - 1, str[i], broken) # "success"}
            n == IF stops = {} THEN Len(str) ELSE Least(stops) - 1
            buf == SubSeq(str, 1, n)
<1>1. Len(str) = k /\ DOMAIN str = 1 .. k /\ str \in Seq({1, NoHex})
  OBVIOUS
<1>2. n \in 0 .. k /\ \A i \in 1 .. n : i \notin stops
  <2>1. stops \in SUBSET (1 .. k)
    BY <1>1
  <2>. HIDE DEF stops
  <2>2. CASE stops = {}
    BY <1>1, <2>2
  <2>3. CASE stops # {}
    <3>1. stops \in SUBSET Nat
      BY <2>1
    <3>2. Least(stops) \in stops /\ \A i \in stops : Least(stops) <= i
      BY <2>3, <3>1, LeastIsLeast
    <3>3. Least(stops) \in 1 .. k
      BY <2>1, <3>2
    <3>4. n = Least(stops) - 1
      BY <2>3
    <3>. HIDE DEF n
    <3>. QED BY <3>2, <3>3, <3>4
  <2>. QED BY <2>2, <2>3
<1>3. mem' = WithBlock(mem, start, buf) /\ sound' = sound \ InRange(start, n)
  BY DEF SetFromHexstr
<1>4. \A i \in 1 .. n : str[i] \in Atom
  <2>1. ASSUME NEW i \in 1 .. n PROVE HexCode(start + i - 1, str[i], broken) = "success"
    <3>1. i \in 1 .. Len(str) /\ i \notin stops
      BY <1>1, <1>2
    <3>. HIDE DEF n
    <3>. QED BY <3>1
  <2>. HIDE DEF n
  <2>. QED BY <2>1 DEF HexCode
<1>. HIDE DEF stops, n
<1>5. Len(buf) = n /\ buf \in Seq(Atom)
  BY <1>1, <1>2, <1>4
<1>6. /\ last'.op = "other"
      /\ UNCHANGED <<table, counted, initialised, bigendian, span, touched>>
  BY DEF SetFromHexstr, Returns, Observed
<1>. HIDE DEF buf
<1>7. start \in Int
  BY DEF Address
<1>. QED BY <1>3, <1>5, <1>6, <1>7 DEF RawWrite

LEMMA PokeKind ==
  ASSUME RegisterInv, NEW a \in Address, NEW x \in Atom, Poke(a, x)
  PROVE  RawWrite
<1>1. mem' = [mem EXCEPT ![a] = x] /\ sound' = sound \ InRange(a, 1)
  BY DEF Poke
<1>2. mem' = [b \in Address |-> IF b = a THEN x ELSE mem[b]]
  BY <1>1 DEF RegisterInv, Memory
<1>3. \A b \in Address : (a <= b /\ b < a + 1) <=> b = a
  BY DEF Address
<1>4. Len(<<x>>) = 1 /\ <<x>> \in Seq(Atom) /\ <<x>>[1] = x
  OBVIOUS
<1>5. WithBlock(mem, a, <<x>>) = mem'
  <2>1. WithBlock(mem, a, <<x>>)
          = [b \in Address |-> IF a <= b /\ b < a + 1 THEN <<x>>[b - a + 1] ELSE mem[b]]
    BY <1>4 DEF WithBlock
  <2>2. \A b \in Address : (IF a <= b /\ b < a + 1 THEN <<x>>[b - a + 1] ELSE mem[b])
                             = IF b = a THEN x ELSE mem[b]
    <3>1. a - a + 1 = 1
      BY DEF Address
    <3>. QED BY <1>3, <1>4, <3>1
  <2>. QED BY <1>2, <2>1, <2>2
<1>6. /\ last'.op = "other"
      /\ UNCHANGED <<table, counted, initialised, bigendian, span, touched>>
  BY DEF Poke, Returns, Observed
<1>7. a \in Int
  BY DEF Address
<1>. QED BY <1>1, <1>4, <1>5, <1>6, <1>7 DEF RawWrite

BlockWrites ==
  \E addr \in Address, buf \in Blocks, unreadable, broken \in SUBSET Custom :
    /\ BlockWriteCode(addr, buf, unreadable) = "success" /\ buf # <<>>
    /\ BlockWrite(addr, buf, unreadable, broken)

\* Every step is of one of the kinds.
LEMMA StepKinds ==
  ASSUME RegisterInv, Next
  PROVE  \/ Quiet \/ RawWrite \/ RegisterWrite
         \/ \E broken \in SUBSET Custom : RegisterSanitise(broken)
         \/ BlockWrites
         \/ RegisterInit
         \/ \E state \in BOOLEAN : MakeBigEndian(state)
<1>1. CASE ByRegister
  BY <1>1, ByRegisterKind
<1>2. CASE ByBlock
  <2>1. PICK broken \in SUBSET Custom :
          \/ \E addr \in Address, buf \in Blocks :
               \/ \E unreadable \in {{}, Custom} : BlockWrite(addr, buf, unreadable, broken)
               \/ BlockWriteUnsafe(addr, buf, broken)
          \/ BadAreas = {} /\ \E dst, src \in Areas : MCopy(dst, src, broken)
    BY <1>2 DEF ByBlock
  <2>2. ASSUME NEW addr \in Address, NEW buf \in Blocks, NEW unreadable \in {{}, Custom},
               BlockWrite(addr, buf, unreadable, broken)
        PROVE  Quiet \/ BlockWrites
    <3>1. CASE BlockWriteCode(addr, buf, unreadable) = "success" /\ buf # <<>>
      BY <2>2, <3>1 DEF BlockWrites
    <3>2. CASE ~(BlockWriteCode(addr, buf, unreadable) = "success" /\ buf # <<>>)
      <4>1. PICK code : Unchanged("block_write", code)
        BY <2>2, <3>2 DEF BlockWrite
      <4>. QED BY <4>1 DEF Unchanged, Returns, Observed, Quiet, RegisterInv
    <3>. QED BY <3>1, <3>2
  <2>3. ASSUME NEW addr \in Address, NEW buf \in Blocks, BlockWriteUnsafe(addr, buf, broken)
        PROVE  RawWrite
    BY <2>3, BlockWriteUnsafeKind
  <2>4. ASSUME NEW dst \in Areas, NEW src \in Areas, MCopy(dst, src, broken)
        PROVE  Quiet \/ RawWrite
    BY <2>4, MCopyKind
  <2>. QED BY <2>1, <2>2, <2>3, <2>4
<1>3. CASE ByString
  <2>1. PICK broken \in SUBSET Custom, addr \in Address, n \in 1 .. MaxBlock :
          \E str \in [1 .. n -> {1, NoHex}] : SetFromHexstr(addr, str, broken)
    BY <1>3 DEF ByString
  <2>2. n \in Nat
    BY BoundsAssumption
  <2>. QED BY <2>1, <2>2, SetFromHexstrKind
<1>4. ASSUME NEW h \in Handles, Touch(h) \/ Untouch(h)
      PROVE  Quiet
  BY <1>4 DEF Touch, Untouch, Returns, Observed, Quiet, RegisterInv
<1>5. ASSUME NEW a \in Address, NEW x \in Atom, Poke(a, x)
      PROVE  RawWrite
  BY <1>5, PokeKind
<1>. QED BY <1>1, <1>2, <1>3, <1>4, <1>5 DEF Next

LEMMA SameTable ==
  ASSUME UNCHANGED table
  PROVE  /\ Handles' = Handles /\ Areas' = Areas /\ InOrder' = InOrder
         /\ \A h : IsInMemory(h)' = IsInMemory(h)
BY DEF Handles, Areas, InOrder, BadAreas, BadEntries, AreaOrder, EntryOrder, Area, Entry, Size,
       IsInMemory, Mapped, IsPartOf, AreaOf, FindArea, End

\* Where the invariant does not depend on what happens to memory.
LEMMA InvFrame ==
  ASSUME RegisterInv, UNCHANGED <<table, counted, initialised>>, mem' \in Memory,
         bigendian' \in BOOLEAN, touched' \subseteq Handles, sound' \subseteq Handles,
         initialised \/ sound' \subseteq sound
  PROVE  RegisterInv'
<1>1. /\ Handles' = Handles /\ InOrder' = InOrder
      /\ \A h : IsInMemory(h)' = IsInMemory(h)
  BY SameTable
<1>2. initialised \/ sound' # {} => InOrder
  BY DEF RegisterInv
<1>3. (\A h \in Handles : IsInMemory(h)) \/ ~initialised
  BY DEF RegisterInv
<1>4. \A h \in sound' : IsInMemory(h)
  BY <1>3 DEF RegisterInv
<1>. QED BY <1>1, <1>2, <1>3, <1>4 DEF RegisterInv

\* What register_init() does once the lists are in order.
LEMMA LoadsDoes ==
  ASSUME RegisterInv, NEW broken, RegisterInitLoads(broken)
  PROVE  /\ InOrder
         /\ mem' \in Memory
         /\ sound' \subseteq Handles
         /\ \A h \in sound' : /\ EntryVerdict(h, broken) = "success" /\ NeedToLoadDefault(h)
                              /\ Stored(mem', h) = Entry(h).default
         /\ UNCHANGED <<table, bigendian, touched>> /\ counted' = TRUE
         /\ last'.op = "init"
         /\ \/ /\ initialised' = TRUE /\ span' = Spans
               /\ \A h \in Handles : EntryVerdict(h, broken) = "success"
            \/ /\ initialised' = FALSE /\ UNCHANGED span
               /\ \E h \in Handles : /\ EntryVerdict(h, broken) = last'.code
                                     /\ last'.code # "success"
<1>. DEFINE bad == {h \in Handles : EntryVerdict(h, broken) # "success"}
            loaded == {h \in Handles : (\A k \in bad : h < k) /\ NeedToLoadDefault(h)}
            cleared == [a \in Address |-> IF \E an \in Areas \ Custom : IsPartOf(an, a) THEN 0
                                          ELSE mem[a]]
<1>1. InOrder
  BY DEF RegisterInitLoads, InOrder
<1>2. mem' = WithDefaults(cleared, loaded) /\ sound' = loaded
  BY DEF RegisterInitLoads
<1>3. cleared \in Memory
  BY DEF RegisterInv, Memory, Atom
<1>4. loaded \in SUBSET Handles /\ table \in Tables
  BY DEF RegisterInv
<1>5. mem' \in Memory
  <2>. HIDE DEF cleared, loaded
  <2>. QED BY <1>2, <1>3, <1>4, WithDefaultsType
<1>6. ASSUME NEW h \in loaded
      PROVE  /\ EntryVerdict(h, broken) = "success" /\ NeedToLoadDefault(h)
             /\ Stored(mem', h) = Entry(h).default
  <2>1. h \in Handles /\ h \in Nat /\ NeedToLoadDefault(h) /\ \A k \in bad : h < k
    BY <1>4, TableShape
  <2>2. h \notin bad
    BY <2>1
  <2>3. EntryVerdict(h, broken) = "success"
    BY <2>1, <2>2
  <2>4. IsInMemory(h)
    BY <2>3 DEF EntryVerdict
  <2>5. Stored(mem', h) = Entry(h).default
    <3>. HIDE DEF cleared, loaded, bad
    <3>. QED BY <1>1, <1>2, <1>4, <1>6, <2>1, <2>4, WithDefaultsStores DEF InOrder
  <2>. QED BY <2>1, <2>3, <2>5
<1>7. /\ UNCHANGED <<table, bigendian, touched>> /\ counted' = TRUE
      /\ \E code : last' = [op |-> "init", code |-> code]
  BY DEF RegisterInitLoads, InitReturns, Returns, Observed
<1>8. \/ bad = {} /\ span' = Spans /\ InitReturns("success")
      \/ bad # {} /\ InitReturns(EntryVerdict(Least(bad), broken)) /\ UNCHANGED span
  BY DEF RegisterInitLoads
<1>9. CASE bad = {} /\ span' = Spans /\ InitReturns("success")
  <2>1. initialised' = TRUE
    BY <1>9 DEF InitReturns
  <2>2. \A h \in Handles : EntryVerdict(h, broken) = "success"
    BY <1>9
  <2>3. last'.op = "init"
    BY <1>7
  <2>. HIDE DEF bad, loaded, cleared
  <2>. QED BY <1>1, <1>2, <1>4, <1>5, <1>6, <1>7, <1>9, <2>1, <2>2, <2>3
<1>10. CASE bad # {} /\ InitReturns(EntryVerdict(Least(bad), broken)) /\ UNCHANGED span
  <2>1. bad \in SUBSET Nat
    BY TableShape DEF RegisterInv
  <2>2. Least(bad) \in bad
    BY <1>10, <2>1, LeastIsLeast
  <2>3. Least(bad) \in Handles /\ EntryVerdict(Least(bad), broken) # "success"
    BY <2>2
  <2>. HIDE DEF bad, loaded, cleared
  <2>4. initialised' = FALSE /\ last'.op = "init" /\ last'.code = EntryVerdict(Least(bad), broken)
    BY <1>10, <2>3 DEF InitReturns, Returns, Observed
  <2>. QED BY <1>1, <1>2, <1>4, <1>5, <1>6, <1>7, <1>10, <2>3, <2>4
<1>. HIDE DEF bad, loaded, cleared
<1>. QED BY <1>8, <1>9, <1>10

\* What it does if they are not.
LEMMA FailsDoes ==
  ASSUME RegisterInv, RegisterInitFails
  PROVE  /\ ~InOrder /\ initialised' = FALSE /\ counted' = TRUE
         /\ last'.op = "init"
         /\ UNCHANGED <<table, mem, bigendian, span, touched, sound>>
<1>1. ~InOrder /\ UNCHANGED <<table, mem, bigendian, span, touched, sound>>
  BY DEF RegisterInitFails, InOrder
<1>2. \E code : InitReturns(code) /\ code # "success"
  <2>1. BadAreas \in SUBSET Nat /\ BadEntries \in SUBSET Nat
    BY TableShape DEF RegisterInv, BadAreas, BadEntries
  <2>2. BadAreas # {} => AreaOrder(Least(BadAreas)) # "success"
    <3>1. BadAreas # {} => Least(BadAreas) \in BadAreas
      BY <2>1, LeastIsLeast
    <3>. QED BY <3>1 DEF BadAreas
  <2>3. BadEntries # {} => EntryOrder(Least(BadEntries)) # "success"
    <3>1. BadEntries # {} => Least(BadEntries) \in BadEntries
      BY <2>1, LeastIsLeast
    <3>. QED BY <3>1 DEF BadEntries
  <2>. QED BY <2>2, <2>3 DEF RegisterInitFails
<1>3. PICK code : InitReturns(code) /\ code # "success"
  BY <1>2
<1>4. initialised' = FALSE /\ counted' = TRUE /\ last'.op = "init"
  BY <1>3 DEF InitReturns, Returns, Observed
<1>. QED BY <1>1, <1>4

\* What register_sanitise() does.
LEMMA SanitiseDoes ==
  ASSUME RegisterInv, NEW broken, RegisterSanitise(broken)
  PROVE  \/ Quiet
         \/ \E done \in SUBSET Handles :
              /\ initialised
              /\ \A h \in done : SanitiseCode(h, broken) = "success"
              /\ mem' = WithDefaults(mem, {h \in done : Insane(h)})
              /\ sound' = sound \cup done
              /\ touched' = touched \ done
              /\ last'.op = "sanitise"
              /\ UNCHANGED <<table, counted, initialised, bigendian, span>>
<1>1. CASE initialised
  <2>. DEFINE failing == {h \in Handles : SanitiseCode(h, broken) # "success"}
              done == {h \in Handles : \A k \in failing : h < k}
  <2>1. \A h \in done : SanitiseCode(h, broken) = "success"
    <3>1. ASSUME NEW h \in done PROVE h \notin failing
      <4>1. h \in Nat
        BY TableShape DEF RegisterInv
      <4>. QED BY <4>1
    <3>. QED BY <3>1
  <2>2. /\ mem' = WithDefaults(mem, {h \in done : Insane(h)})
        /\ sound' = sound \cup done /\ touched' = touched \ done
        /\ UNCHANGED <<table, counted, initialised, bigendian, span>>
    BY <1>1 DEF RegisterSanitise
  <2>3. last'.op = "sanitise"
    <3>1. \E code : Returns("sanitise", code)
      BY <1>1 DEF RegisterSanitise
    <3>. QED BY <3>1 DEF Returns, Observed
  <2>4. done \in SUBSET Handles
    OBVIOUS
  <2>. HIDE DEF done
  <2>. QED BY <1>1, <2>1, <2>2, <2>3, <2>4
<1>2. CASE ~initialised
  BY <1>2 DEF RegisterSanitise, Unchanged, Returns, Observed, Quiet, RegisterInv
<1>. QED BY <1>1, <1>2

LEMMA InvInit ==
  ASSUME Init
  PROVE  RegisterInv
BY DEF Init, RegisterInv, Memory, Atom

LEMMA InvNext ==
  ASSUME RegisterInv, [Next]_vars
  PROVE  RegisterInv'
<1>1. CASE Quiet
  BY <1>1, InvFrame DEF Quiet, RegisterInv
<1>2. CASE RawWrite
  <2>1. mem' \in Memory
    BY <1>2, WithBlockType DEF RawWrite, RegisterInv
  <2>. QED BY <1>2, <2>1, InvFrame DEF RawWrite, RegisterInv
<1>3. CASE RegisterWrite
  <2>1. mem' \in Memory
    BY <1>3, WithRegisterType DEF RegisterWrite, RegisterInv
  <2>2. sound' \subseteq Handles
    BY <1>3 DEF RegisterWrite, RegisterInv
  <2>. QED BY <1>3, <2>1, <2>2, InvFrame DEF RegisterWrite, RegisterInv
<1>4. ASSUME NEW broken, RegisterSanitise(broken)
      PROVE  RegisterInv'
  <2>1. CASE Quiet
    BY <1>1, <2>1
  <2>2. ASSUME NEW done \in SUBSET Handles, initialised,
               mem' = WithDefaults(mem, {h \in done : Insane(h)}),
               sound' = sound \cup done, touched' = touched \ done,
               UNCHANGED <<table, counted, initialised, bigendian, span>>
        PROVE  RegisterInv'
    <3>1. mem' \in Memory
      <4>. DEFINE H == {h \in done : Insane(h)}
      <4>1. H \in SUBSET Handles
        OBVIOUS
      <4>. HIDE DEF H
      <4>2. mem' = WithDefaults(mem, H)
        BY <2>2 DEF H
      <4>. QED BY <4>1, <4>2, WithDefaultsType DEF RegisterInv
    <3>. QED BY <2>2, <3>1, InvFrame DEF RegisterInv
  <2>. QED BY <1>4, <2>1, <2>2, SanitiseDoes
<1>5. CASE BlockWrites
  <2>1. PICK addr \in Address, buf \in Blocks, unreadable, broken \in SUBSET Custom :
          /\ BlockWriteCode(addr, buf, unreadable) = "success" /\ buf # <<>>
          /\ BlockWrite(addr, buf, unreadable, broken)
    BY <1>5 DEF BlockWrites
  <2>2. /\ mem' = WithBlock(mem, addr, Pushed(addr, buf, broken))
        /\ touched' \subseteq Handles
        /\ UNCHANGED <<table, counted, initialised, bigendian, span, sound>>
    BY <2>1 DEF BlockWrite, TaintInRange, RegisterInv
  <2>3. addr \in Nat /\ buf \in Seq(Atom)
    BY BlocksAreSequences DEF Address
  <2>4. Pushed(addr, buf, broken) \in Seq(Atom)
    BY <2>3, PushedIs
  <2>5. mem' \in Memory
    BY <2>2, <2>3, <2>4, WithBlockType DEF RegisterInv
  <2>. QED BY <2>2, <2>5, InvFrame DEF RegisterInv
<1>6. CASE RegisterInitFails
  <2>1. /\ ~InOrder /\ initialised' = FALSE /\ counted' = TRUE
        /\ UNCHANGED <<table, mem, bigendian, span, touched, sound>>
    BY <1>6, FailsDoes
  <2>2. /\ Handles' = Handles /\ InOrder' = InOrder
        /\ \A h : IsInMemory(h)' = IsInMemory(h)
    BY <2>1, SameTable
  <2>. QED BY <2>1, <2>2 DEF RegisterInv
<1>7. ASSUME NEW broken, RegisterInitLoads(broken)
      PROVE  RegisterInv'
  <2>1. /\ InOrder /\ mem' \in Memory /\ sound' \subseteq Handles
        /\ \A h \in sound' : EntryVerdict(h, broken) = "success"
        /\ UNCHANGED <<table, bigendian, touched>> /\ counted' = TRUE
        /\ initialised' \in BOOLEAN
        /\ initialised' => \A h \in Handles : EntryVerdict(h, broken) = "success"
    BY <1>7, LoadsDoes
  <2>2. /\ Handles' = Handles /\ InOrder' = InOrder
        /\ \A h : IsInMemory(h)' = IsInMemory(h)
    BY <2>1, SameTable
  <2>3. \A h : EntryVerdict(h, broken) = "success" => IsInMemory(h)
    BY DEF EntryVerdict
  <2>. QED BY <2>1, <2>2, <2>3 DEF RegisterInv
<1>8. ASSUME NEW state \in BOOLEAN, MakeBigEndian(state)
      PROVE  RegisterInv'
  <2>1. /\ bigendian' \in BOOLEAN /\ sound' \subseteq sound
        /\ UNCHANGED <<table, mem, counted, initialised, span, touched>>
    BY <1>8 DEF MakeBigEndian
  <2>. QED BY <2>1, InvFrame DEF RegisterInv
<1>9. CASE UNCHANGED vars
  <2>1. UNCHANGED <<table, mem, counted, initialised, bigendian, span, touched, sound>>
    BY <1>9 DEF vars
  <2>. QED BY <2>1, InvFrame DEF RegisterInv
<1>. QED BY <1>1, <1>2, <1>3, <1>4, <1>5, <1>6, <1>7, <1>8, <1>9, StepKinds DEF RegisterInit

LEMMA InvAlways == Spec => []RegisterInv
<1>1. Init => RegisterInv
  BY InvInit
<1>2. RegisterInv /\ [Next]_vars => RegisterInv'
  BY InvNext
<1>. QED BY <1>1, <1>2, PTL DEF Spec

(***************************************************************************)
(* Block writes.                                                           *)
(***************************************************************************)

\* What a block write that passed its checks has checked, and what it does.
LEMMA BlockDoes ==
  ASSUME RegisterInv, BlockWrites
  PROVE  \E addr \in Address, buf \in Seq(Atom), unreadable, broken \in SUBSET Custom :
           /\ initialised /\ Len(buf) \in Nat \ {0}
           /\ Writeable(addr, Len(buf)) /\ Hole(addr, Len(buf)) = {}
           /\ Malformed(addr, buf, unreadable) = {}
           /\ mem' = WithBlock(mem, addr, Pushed(addr, buf, broken))
           /\ last'.op = "block_write"
           /\ last'.code = "success" => touched' = touched \cup TaintInRange(addr, Len(buf))
           /\ UNCHANGED <<table, counted, initialised, bigendian, span, sound>>
<1>1. PICK addr \in Address, buf \in Blocks, unreadable, broken \in SUBSET Custom :
        /\ BlockWriteCode(addr, buf, unreadable) = "success" /\ buf # <<>>
        /\ BlockWrite(addr, buf, unreadable, broken)
  BY DEF BlockWrites
<1>2. buf \in Seq(Atom) /\ Len(buf) \in Nat \ {0}
  BY <1>1, BlocksAreSequences
<1>3. /\ initialised /\ Writeable(addr, Len(buf)) /\ Hole(addr, Len(buf)) = {}
      /\ Malformed(addr, buf, unreadable) = {}
  <2>1. initialised /\ Writeable(addr, Len(buf)) /\ Hole(addr, Len(buf)) = {}
    BY <1>1 DEF BlockWriteCode
  <2>2. ASSUME Malformed(addr, buf, unreadable) # {}
        PROVE  FALSE
    <3>. DEFINE bad == Malformed(addr, buf, unreadable)
    <3>1. bad \in SUBSET Nat
      BY TableShape DEF RegisterInv, Malformed, InRange
    <3>2. Least(bad) \in bad
      BY <2>2, <3>1, LeastIsLeast
    <3>3. MalformedCode(Least(bad), addr, buf, unreadable) # "success"
      BY <3>2 DEF Malformed
    <3>. HIDE DEF bad
    <3>4. BlockWriteCode(addr, buf, unreadable)
            = MalformedCode(Least(bad), addr, buf, unreadable)
      BY <1>1, <2>1, <2>2 DEF BlockWriteCode, bad
    <3>. QED BY <1>1, <3>3, <3>4
  <2>. QED BY <2>1, <2>2
<1>4. /\ mem' = WithBlock(mem, addr, Pushed(addr, buf, broken))
      /\ last'.op = "block_write"
      /\ last'.code = "success" => touched' = touched \cup TaintInRange(addr, Len(buf))
      /\ UNCHANGED <<table, counted, initialised, bigendian, span, sound>>
  BY <1>1 DEF BlockWrite, Returns, Observed
<1>. QED BY <1>2, <1>3, <1>4

\* No area holds the last address.  Where one does, the address behind a range
\* may wrap around to zero, and the range is taken to touch nothing.
LastAddressFree ==
  \A t \in Tables : \A i \in DOMAIN t.area : t.area[i].base + t.area[i].size < AddressCount

LEMMA RangesDoNotWrap ==
  ASSUME RegisterInv, LastAddressFree, NEW addr \in Address, NEW n \in Nat \ {0},
         Hole(addr, n) = {}
  PROVE  Plus(addr, n) = addr + n /\ addr + n < AddressCount
<1>1. Mapped(addr + n - 1)
  BY DEF Hole, Address
<1>2. PICK an \in Areas : IsPartOf(an, addr + n - 1)
  BY <1>1 DEF Mapped
<1>3. Area(an).base + Area(an).size < AddressCount
  <2>1. table \in Tables /\ table.area \in Seq(AreaType)
    BY TableAssumption DEF RegisterInv
  <2>2. an + 1 \in DOMAIN table.area
    BY <2>1 DEF Areas
  <2>. QED BY <2>1, <2>2 DEF LastAddressFree, Area
<1>4. addr \in Nat /\ Area(an).base \in Nat /\ Area(an).size \in Nat /\ AddressCount \in Nat \ {0}
  BY TableShape, BoundsAssumption DEF RegisterInv, Address
<1>5. addr + n < AddressCount
  BY <1>2, <1>3, <1>4 DEF IsPartOf
<1>6. (addr + n) % AddressCount = addr + n
  BY <1>4, <1>5
<1>. QED BY <1>5, <1>6 DEF Plus

\* Block writes keep the memory of areas that are not writeable from the outside.
LEMMA BlocksKeepReadOnly ==
  ASSUME RegisterInv, LastAddressFree, BlockWrites,
         NEW a \in Address, Mapped(a), ~IsWriteable(FindArea(a))
  PROVE  mem'[a] = mem[a]
<1>1. PICK addr \in Address, buf \in Seq(Atom), unreadable, broken \in SUBSET Custom :
           /\ initialised /\ Len(buf) \in Nat \ {0}
           /\ Writeable(addr, Len(buf)) /\ Hole(addr, Len(buf)) = {}
           /\ mem' = WithBlock(mem, addr, Pushed(addr, buf, broken))
  BY BlockDoes
<1>. DEFINE n == Len(buf)
            p == Pushed(addr, buf, broken)
            k == FindArea(a)
<1>2. p \in Seq(Atom) /\ Len(p) <= n /\ addr \in Nat
  <2>1. addr \in Nat
    BY DEF Address
  <2>. QED BY <2>1, PushedIs
<1>3. k \in Areas /\ IsPartOf(k, a)
  BY FoundArea DEF RegisterInv
<1>. HIDE DEF n, p, k
<1>4. ~RangeTouchesArea(k, addr, n)
  BY <1>1, <1>3 DEF Writeable, n, k
<1>5. Plus(addr, n) = addr + n
  BY <1>1, RangesDoNotWrap DEF n
<1>6. ~(addr <= a /\ a < addr + n)
  <2>1. /\ Area(k).base \in Nat /\ Area(k).size \in Nat /\ a \in Nat /\ n \in Nat
    BY <1>1, <1>3, TableShape DEF RegisterInv, Address, n
  <2>. QED BY <1>2, <1>3, <1>4, <1>5, <2>1 DEF IsPartOf, RangeTouchesArea
<1>7. ~(addr <= a /\ a < addr + Len(p))
  BY <1>1, <1>2, <1>6 DEF n, Address
<1>. QED BY <1>1, <1>7 DEF WithBlock, p

\* Block writes change no memory of areas that are not writeable from the
\* outside: register_block_write(), through ra_writeable() and the writes area
\* by area.
THEOREM ReadOnlyAreasKept ==
  ASSUME LastAddressFree
  PROVE  Spec => ReadOnlyKept
<1>1. ASSUME RegisterInv, [Next]_vars, last'.op = "block_write",
             NEW a \in Address, Mapped(a), ~IsWriteable(FindArea(a))
      PROVE  mem'[a] = mem[a]
  <2>1. CASE BlockWrites
    BY <1>1, <2>1, BlocksKeepReadOnly
  <2>2. CASE Quiet
    BY <2>2 DEF Quiet
  <2>3. CASE RawWrite \/ RegisterWrite
    BY <1>1, <2>3 DEF RawWrite, RegisterWrite
  <2>4. ASSUME NEW broken, RegisterSanitise(broken)
        PROVE  mem'[a] = mem[a]
    BY <1>1, <2>4, SanitiseDoes DEF Quiet
  <2>5. CASE RegisterInit
    BY <1>1, <2>5, FailsDoes, LoadsDoes DEF RegisterInit
  <2>6. ASSUME NEW state, MakeBigEndian(state)
        PROVE  mem'[a] = mem[a]
    BY <2>6 DEF MakeBigEndian
  <2>7. CASE UNCHANGED vars
    BY <2>7 DEF vars
  <2>. QED BY <1>1, <2>1, <2>2, <2>3, <2>4, <2>5, <2>6, <2>7, StepKinds
<1>2. RegisterInv /\ [Next]_vars =>
        [last'.op = "block_write" =>
           \A a \in Address : (Mapped(a) /\ ~IsWriteable(FindArea(a))) => mem'[a] = mem[a]]_vars
  BY <1>1
<1>. QED BY <1>2, InvAlways, PTL DEF Spec, ReadOnlyKept

\* A register whose memory a block write has changed is touched.
LEMMA BlocksTouch ==
  ASSUME RegisterInv, LastAddressFree, BlockWrites, last'.code = "success",
         NEW h \in Handles, Stored(mem', h) # Stored(mem, h)
  PROVE  h \in touched'
<1>1. PICK addr \in Address, buf \in Seq(Atom), unreadable, broken \in SUBSET Custom :
           /\ initialised /\ Len(buf) \in Nat \ {0}
           /\ Hole(addr, Len(buf)) = {}
           /\ mem' = WithBlock(mem, addr, Pushed(addr, buf, broken))
           /\ touched' = touched \cup TaintInRange(addr, Len(buf))
  BY BlockDoes
<1>. DEFINE n == Len(buf)
            p == Pushed(addr, buf, broken)
<1>2. p \in Seq(Atom) /\ Len(p) <= n /\ addr \in Nat /\ Len(p) \in Nat
  <2>1. addr \in Nat
    BY DEF Address
  <2>. QED BY <2>1, PushedIs
<1>3. table \in Tables /\ BadAreas = {} /\ IsInMemory(h)
  BY <1>1 DEF RegisterInv, InOrder
<1>4. Entry(h).address \in Nat /\ End(h) \in Int
  BY <1>3, TableShape DEF End
<1>. HIDE DEF n, p
<1>5. h \in InRange(addr, Len(p))
  BY <1>1, <1>2, <1>3, WithBlockSpares DEF p
<1>6. Entry(h).address < addr + Len(p) /\ addr <= End(h)
  BY <1>5 DEF InRange
<1>7. Plus(addr, n) = addr + n
  BY <1>1, RangesDoNotWrap DEF n
<1>8. RangeTouches(h, addr, n)
  BY <1>1, <1>2, <1>4, <1>6, <1>7 DEF RangeTouches, n
<1>. QED BY <1>1, <1>8 DEF TaintInRange, n

\* The registers a successful block write has changed are marked as touched:
\* register_block_write(), through reg_taint_in_range().
THEOREM ChangesAreTouched ==
  ASSUME LastAddressFree
  PROVE  Spec => ChangedIsTouched
<1>1. ASSUME RegisterInv, [Next]_vars, last'.op = "block_write", last'.code = "success",
             NEW h \in Handles, Stored(mem', h) # Stored(mem, h)
      PROVE  h \in touched'
  <2>1. CASE BlockWrites
    BY <1>1, <2>1, BlocksTouch
  <2>2. CASE Quiet
    BY <1>1, <2>2 DEF Quiet
  <2>3. CASE RawWrite \/ RegisterWrite
    BY <1>1, <2>3 DEF RawWrite, RegisterWrite
  <2>4. ASSUME NEW broken, RegisterSanitise(broken)
        PROVE  FALSE
    BY <1>1, <2>4, SanitiseDoes DEF Quiet
  <2>5. CASE RegisterInit
    BY <1>1, <2>5, FailsDoes, LoadsDoes DEF RegisterInit
  <2>6. ASSUME NEW state, MakeBigEndian(state)
        PROVE  FALSE
    BY <1>1, <2>6 DEF MakeBigEndian
  <2>7. CASE UNCHANGED vars
    BY <1>1, <2>7 DEF vars
  <2>. QED BY <1>1, <2>1, <2>2, <2>3, <2>4, <2>5, <2>6, <2>7, StepKinds
<1>2. RegisterInv /\ [Next]_vars =>
        [(last'.op = "block_write" /\ last'.code = "success") =>
           \A h \in Handles : Stored(mem', h) # Stored(mem, h) => h \in touched']_vars
  BY <1>1
<1>. QED BY <1>2, InvAlways, PTL DEF Spec, ChangedIsTouched

(***************************************************************************)
(* register_init() and well-formed tables.                                 *)
(***************************************************************************)

LEMMA WellFormedInOrder ==
  ASSUME table \in Tables, WellFormed
  PROVE  InOrder
<1>1. ASSUME NEW an \in Areas \ {0}
      PROVE  AreaOrder(an) = "success"
  <2>1. an \in Nat /\ an - 1 \in Areas /\ an - 1 < an
    BY TableShape DEF Areas
  <2>2. Area(an - 1).base + Area(an - 1).size <= Area(an).base
    BY <2>1 DEF WellFormed
  <2>3. Area(an - 1).base \in Nat /\ Area(an - 1).size \in Nat /\ Area(an).base \in Nat
    BY <2>1, TableShape
  <2>. QED BY <2>2, <2>3 DEF AreaOrder, Disorder
<1>2. ASSUME NEW h \in Handles \ {0}
      PROVE  EntryOrder(h) = "success"
  <2>1. h \in Nat /\ h - 1 \in Handles /\ h - 1 < h
    BY TableShape DEF Handles
  <2>2. End(h - 1) < Entry(h).address
    BY <2>1 DEF WellFormed
  <2>3. Entry(h - 1).address \in Nat /\ Size(h - 1) \in Nat \ {0} /\ Entry(h).address \in Nat
    BY <2>1, TableShape
  <2>. QED BY <2>2, <2>3 DEF EntryOrder, Disorder, End
<1>. QED BY <1>1, <1>2 DEF InOrder, BadAreas, BadEntries, WellFormed

\* A register is in memory when all of its atoms lie in an area.
LEMMA InMemoryIff ==
  ASSUME table \in Tables, BadAreas = {}, NEW h \in Handles
  PROVE  /\ IsInMemory(h) => /\ AreaOf(h) \in Areas
                             /\ \A a \in Entry(h).address .. End(h) : IsPartOf(AreaOf(h), a)
         /\ \A an \in Areas : (\A a \in Entry(h).address .. End(h) : IsPartOf(an, a)) =>
                                IsInMemory(h) /\ AreaOf(h) = an
<1>1. /\ Entry(h).address \in Nat /\ End(h) \in Nat /\ Entry(h).address <= End(h)
      /\ Entry(h).address \in Entry(h).address .. End(h)
      /\ End(h) \in Entry(h).address .. End(h)
  BY TableShape DEF End
<1>2. ASSUME IsInMemory(h)
      PROVE  /\ AreaOf(h) \in Areas
             /\ \A a \in Entry(h).address .. End(h) : IsPartOf(AreaOf(h), a)
  <2>1. AreaOf(h) \in Areas
    BY <1>1, <1>2, PlacedAtoms
  <2>2. ASSUME NEW a \in Entry(h).address .. End(h)
        PROVE  IsPartOf(AreaOf(h), a)
    <3>1. Mapped(a) /\ FindArea(a) = AreaOf(h)
      BY <1>2, PlacedAtoms
    <3>. QED BY <3>1, FoundArea
  <2>. QED BY <2>1, <2>2
<1>3. ASSUME NEW an \in Areas, \A a \in Entry(h).address .. End(h) : IsPartOf(an, a)
      PROVE  IsInMemory(h) /\ AreaOf(h) = an
  <2>1. IsPartOf(an, Entry(h).address) /\ IsPartOf(an, End(h))
    BY <1>1, <1>3
  <2>2. Mapped(Entry(h).address) /\ AreaOf(h) = an
    BY <1>1, <2>1, OnlyArea DEF AreaOf
  <2>. QED BY <2>1, <2>2 DEF IsInMemory, IsPartOf
<1>. QED BY <1>2, <1>3

\* A table is well-formed when all of its registers can be loaded.
LEMMA LoadableIsWellFormed ==
  ASSUME table \in Tables, InOrder, NEW broken,
         \A h \in Handles : EntryVerdict(h, broken) = "success"
  PROVE  WellFormed
<1>1. BadAreas = {} /\ BadEntries = {} /\ Areas # {}
  BY DEF InOrder
<1>2. \A i, j \in Areas : i < j => Area(i).base + Area(i).size <= Area(j).base
  BY <1>1, AreasSorted
<1>3. \A i, j \in Handles : i < j => End(i) < Entry(j).address
  BY <1>1, EntriesSorted
<1>4. ASSUME NEW h \in Handles
      PROVE  \E an \in Areas :
               /\ \A a \in Entry(h).address .. End(h) : IsPartOf(an, a)
               /\ (CanWrite(an) /\ ~Area(an).skip) =>
                    /\ Converts(Entry(h).type, Entry(h).default)
                    /\ Accepts(h, Entry(h).default, TRUE)
  <2>1. IsInMemory(h) /\ (NeedToLoadDefault(h) => DefaultIsSet(h, broken, TRUE))
    BY DEF EntryVerdict
  <2>2. AreaOf(h) \in Areas /\ \A a \in Entry(h).address .. End(h) : IsPartOf(AreaOf(h), a)
    BY <1>1, <2>1, InMemoryIff
  <2>3. (CanWrite(AreaOf(h)) /\ ~Area(AreaOf(h)).skip) =>
          /\ Converts(Entry(h).type, Entry(h).default)
          /\ Accepts(h, Entry(h).default, TRUE)
    BY <2>1 DEF NeedToLoadDefault, DefaultIsSet
  <2>. QED BY <2>2, <2>3
<1>. QED BY <1>1, <1>2, <1>3, <1>4 DEF WellFormed

\* All registers of a well-formed table can be loaded, but for failing areas.
LEMMA WellFormedIsLoadable ==
  ASSUME table \in Tables, WellFormed, NEW broken, NEW h \in Handles,
         EntryVerdict(h, broken) # "success"
  PROVE  EntryVerdict(h, broken) = "entry_invalid_default" /\ broken # {}
<1>1. BadAreas = {}
  BY WellFormedInOrder DEF InOrder
<1>2. PICK an \in Areas :
        /\ \A a \in Entry(h).address .. End(h) : IsPartOf(an, a)
        /\ (CanWrite(an) /\ ~Area(an).skip) =>
             /\ Converts(Entry(h).type, Entry(h).default)
             /\ Accepts(h, Entry(h).default, TRUE)
  BY DEF WellFormed
<1>3. IsInMemory(h) /\ AreaOf(h) = an
  BY <1>1, <1>2, InMemoryIff
<1>4. /\ EntryVerdict(h, broken) = "entry_invalid_default"
      /\ NeedToLoadDefault(h) /\ ~DefaultIsSet(h, broken, TRUE)
  BY <1>3 DEF EntryVerdict
<1>5. AreaOf(h) \in broken
  BY <1>2, <1>3, <1>4 DEF NeedToLoadDefault, DefaultIsSet
<1>. QED BY <1>4, <1>5

LEMMA SameWellFormed ==
  ASSUME UNCHANGED table
  PROVE  WellFormed' = WellFormed /\ Custom' = Custom
BY DEF WellFormed, Custom, Areas, Handles, Area, Entry, End, Size, IsPartOf, CanWrite, Accepts

\* register_init() accepts exactly the tables that are well-formed, unless an
\* area it depends on fails.
THEOREM AcceptsWellFormed == Spec => []InitIffWellFormed
<1>1. Init => InitIffWellFormed
  BY DEF Init, InitIffWellFormed
<1>2. ASSUME RegisterInv, InitIffWellFormed, [Next]_vars
      PROVE  InitIffWellFormed'
  <2>1. CASE last'.op # "init"
    BY <2>1 DEF InitIffWellFormed
  <2>2. CASE RegisterInitFails
    <3>1. ~InOrder /\ initialised' = FALSE /\ UNCHANGED table
      BY <1>2, <2>2, FailsDoes
    <3>2. ~WellFormed
      BY <1>2, <3>1, WellFormedInOrder DEF RegisterInv
    <3>3. ~WellFormed'
      BY <3>1, <3>2, SameWellFormed
    <3>. QED BY <3>1, <3>3 DEF InitIffWellFormed
  <2>3. ASSUME NEW broken \in SUBSET Custom, RegisterInitLoads(broken)
        PROVE  InitIffWellFormed'
    <3>1. /\ InOrder /\ UNCHANGED table
          /\ \/ initialised' = TRUE /\ \A h \in Handles : EntryVerdict(h, broken) = "success"
             \/ /\ initialised' = FALSE
                /\ \E h \in Handles : /\ EntryVerdict(h, broken) = last'.code
                                      /\ last'.code # "success"
      BY <1>2, <2>3, LoadsDoes
    <3>2. initialised' => WellFormed
      BY <1>2, <3>1, LoadableIsWellFormed DEF RegisterInv
    <3>3. ASSUME ~initialised', WellFormed
          PROVE  last'.code = "entry_invalid_default" /\ broken # {}
      BY <1>2, <3>1, <3>3, WellFormedIsLoadable DEF RegisterInv
    <3>4. WellFormed' = WellFormed /\ Custom' = Custom
      BY <3>1, SameWellFormed
    <3>5. broken # {} => Custom # {}
      OBVIOUS
    <3>. QED BY <3>2, <3>3, <3>4, <3>5 DEF InitIffWellFormed
  <2>4. CASE UNCHANGED vars
    <3>1. UNCHANGED <<table, last, initialised>>
      BY <2>4 DEF vars
    <3>2. WellFormed' = WellFormed /\ Custom' = Custom
      BY <3>1, SameWellFormed
    <3>. QED BY <1>2, <3>1, <3>2 DEF InitIffWellFormed
  <2>5. CASE Quiet \/ RawWrite \/ RegisterWrite
    BY <2>1, <2>5 DEF Quiet, RawWrite, RegisterWrite
  <2>6. ASSUME NEW broken \in SUBSET Custom, RegisterSanitise(broken)
        PROVE  last'.op # "init"
    BY <1>2, <2>6, SanitiseDoes DEF Quiet
  <2>7. CASE BlockWrites
    <3>1. last'.op = "block_write"
      BY <1>2, <2>7, BlockDoes
    <3>. QED BY <2>1, <3>1
  <2>8. ASSUME NEW state \in BOOLEAN, MakeBigEndian(state)
        PROVE  last'.op # "init"
    BY <2>8 DEF MakeBigEndian, Returns, Observed
  <2>. QED
    BY <1>2, <2>1, <2>2, <2>3, <2>4, <2>5, <2>6, <2>7, <2>8, StepKinds DEF RegisterInit
<1>. QED BY <1>1, <1>2, InvAlways, PTL DEF Spec

(***************************************************************************)
(* What registers hold.                                                    *)
(***************************************************************************)

GoodValue(h, b) ==
  /\ Converts(Entry(h).type, b)
  /\ IF Entry(h).check = "fail" THEN b = Entry(h).default ELSE Accepts(h, b, FALSE)

LEMMA HoldsNow ==
  ASSUME NEW h
  PROVE  Holds(h) = GoodValue(h, Stored(mem, h))
BY DEF Holds, GoodValue

LEMMA HoldsNext ==
  ASSUME NEW h, UNCHANGED <<table, bigendian>>
  PROVE  Holds(h)' = GoodValue(h, Stored(mem', h))
BY DEF Holds, GoodValue, Stored, Raw, Swapped, Entry, Size, Accepts

\* A value that is accepted outside of initialisation is a good one.
LEMMA AcceptedIsGood ==
  ASSUME NEW h, NEW b, Converts(Entry(h).type, b), Accepts(h, b, FALSE)
  PROVE  Entry(h).check # "fail" /\ GoodValue(h, b)
<1>1. Entry(h).check # "fail"
  BY DEF Accepts
<1>. QED BY <1>1 DEF GoodValue

\* During initialisation, so is a default that is accepted.
LEMMA DefaultIsGood ==
  ASSUME table \in Tables, NEW h \in Handles,
         Converts(Entry(h).type, Entry(h).default), Accepts(h, Entry(h).default, TRUE)
  PROVE  GoodValue(h, Entry(h).default)
<1>1. CASE Entry(h).check = "fail"
  BY <1>1 DEF GoodValue
<1>2. CASE Entry(h).check # "fail"
  <2>1. Entry(h).check \in {"trivial", "fail", "min", "max", "range", "callback"}
    <3>1. table.entry \in Seq(EntryType) /\ h + 1 \in 1 .. Len(table.entry)
      BY TableAssumption DEF Handles
    <3>2. Entry(h) \in EntryType
      BY <3>1 DEF Entry
    <3>. QED BY <3>2 DEF EntryType
  <2>2. Accepts(h, Entry(h).default, FALSE)
    BY <1>2, <2>1 DEF Accepts
  <2>. QED BY <2>2, AcceptedIsGood
<1>. QED BY <1>1, <1>2

\* register_sanitise() goes past a register that holds a good value, or one that
\* accepts its default.
LEMMA SanitisedIsGood ==
  ASSUME RegisterInv, initialised, NEW h \in Handles, NEW broken,
         SanitiseCode(h, broken) = "success"
  PROVE  /\ ~Insane(h) => Holds(h)
         /\ Insane(h) => /\ Entry(h).check # "fail"
                         /\ GoodValue(h, Entry(h).default)
<1>1. ASSUME ~Insane(h)
      PROVE  Holds(h)
  BY <1>1, AcceptedIsGood, HoldsNow DEF Insane
<1>2. ASSUME Insane(h)
      PROVE  Entry(h).check # "fail" /\ GoodValue(h, Entry(h).default)
  <2>. DEFINE v == [type |-> Entry(h).type, bits |-> Entry(h).default]
  <2>1. ~(GetCode(h, broken) = "success" /\ Accepts(h, Stored(mem, h), FALSE))
    BY <1>2 DEF Insane, GetCode
  <2>2. SetCode(h, v, TRUE, broken) = "success"
    BY <2>1 DEF SanitiseCode
  <2>3. Accepts(h, v.bits, FALSE) /\ Converts(v.type, v.bits)
    <3>. HIDE DEF v
    <3>. QED BY <2>2 DEF SetCode
  <2>4. Accepts(h, Entry(h).default, FALSE) /\ Converts(Entry(h).type, Entry(h).default)
    BY <2>3
  <2>. QED BY <2>4, AcceptedIsGood
<1>. QED BY <1>1, <1>2

\* What becomes of a register that register_sanitise() may have repaired.
LEMMA SanitiseStores ==
  ASSUME RegisterInv, NEW done \in SUBSET Handles, initialised,
         mem' = WithDefaults(mem, {h \in done : Insane(h)}), NEW h \in Handles
  PROVE  Stored(mem', h) = IF h \in done /\ Insane(h) THEN Entry(h).default ELSE Stored(mem, h)
<1>. DEFINE H == {k \in done : Insane(k)}
<1>1. /\ H \in SUBSET Handles /\ table \in Tables /\ BadAreas = {} /\ BadEntries = {}
      /\ IsInMemory(h)
  BY DEF RegisterInv, InOrder
<1>2. h \in H <=> h \in done /\ Insane(h)
  OBVIOUS
<1>3. mem' = WithDefaults(mem, H)
  OBVIOUS
<1>. HIDE DEF H
<1>4. Stored(mem', h) = IF h \in H THEN Entry(h).default ELSE Stored(mem, h)
  BY <1>1, <1>3, WithDefaultsStores
<1>. QED BY <1>2, <1>4

\* register_sanitise() repairs without harm: a register that holds an acceptable
\* value keeps it, be it that a repair fails on the way.
THEOREM SanitiseDoesNoHarm == Spec => SanitiseKeepsGood
<1>1. ASSUME RegisterInv, [Next]_vars, last'.op = "sanitise", NEW h \in Handles, Holds(h)
      PROVE  Stored(mem', h) = Stored(mem, h)
  <2>1. ASSUME NEW broken, RegisterSanitise(broken)
        PROVE  Stored(mem', h) = Stored(mem, h)
    <3>1. CASE Quiet
      BY <3>1 DEF Quiet
    <3>2. ASSUME NEW done \in SUBSET Handles, initialised,
                 \A k \in done : SanitiseCode(k, broken) = "success",
                 mem' = WithDefaults(mem, {k \in done : Insane(k)})
          PROVE  Stored(mem', h) = Stored(mem, h)
      <4>1. Stored(mem', h) = IF h \in done /\ Insane(h) THEN Entry(h).default
                              ELSE Stored(mem, h)
        BY <1>1, <3>2, SanitiseStores
      <4>2. ASSUME h \in done, Insane(h)
            PROVE  FALSE
        <5>1. Entry(h).check # "fail"
          BY <1>1, <3>2, <4>2, SanitisedIsGood
        <5>. QED BY <1>1, <4>2, <5>1 DEF Holds, Insane
      <4>. QED BY <4>1, <4>2
    <3>. QED BY <1>1, <2>1, <3>1, <3>2, SanitiseDoes
  <2>2. CASE Quiet
    BY <2>2 DEF Quiet
  <2>3. CASE RawWrite \/ RegisterWrite
    BY <1>1, <2>3 DEF RawWrite, RegisterWrite
  <2>4. CASE BlockWrites
    <3>1. last'.op = "block_write"
      BY <1>1, <2>4, BlockDoes
    <3>. QED BY <1>1, <3>1
  <2>5. CASE RegisterInit
    BY <1>1, <2>5, FailsDoes, LoadsDoes DEF RegisterInit
  <2>6. ASSUME NEW state, MakeBigEndian(state)
        PROVE  Stored(mem', h) = Stored(mem, h)
    BY <2>6 DEF MakeBigEndian
  <2>7. CASE UNCHANGED vars
    BY <2>7 DEF vars
  <2>. QED BY <1>1, <2>1, <2>2, <2>3, <2>4, <2>5, <2>6, <2>7, StepKinds
<1>2. RegisterInv /\ [Next]_vars =>
        [last'.op = "sanitise" =>
           \A h \in Handles : Holds(h) => Stored(mem', h) = Stored(mem, h)]_vars
  BY <1>1
<1>. QED BY <1>2, InvAlways, PTL DEF Spec, SanitiseKeepsGood

(***************************************************************************)
(* Validated registers.                                                    *)
(***************************************************************************)

\* Registers of four atoms, whose parts block writes validate wrongly, accept
\* every value.
WideAcceptAll ==
  \A t \in Tables : \A i \in DOMAIN t.entry :
    \/ SizeOf(t.entry[i].type) <= 2
    \/ t.entry[i].check = "trivial" /\ t.entry[i].type \notin {"f32", "f64"}

LEMMA NarrowOrFree ==
  ASSUME RegisterInv, WideAcceptAll, NEW h \in Handles
  PROVE  Size(h) \in {1, 2} \/ \A b : GoodValue(h, b)
<1>1. table \in Tables /\ table.entry \in Seq(EntryType)
  BY TableAssumption DEF RegisterInv
<1>2. h + 1 \in DOMAIN table.entry
  BY <1>1 DEF Handles
<1>3. \/ SizeOf(Entry(h).type) <= 2
      \/ Entry(h).check = "trivial" /\ Entry(h).type \notin {"f32", "f64"}
  BY <1>1, <1>2 DEF WideAcceptAll, Entry
<1>4. CASE SizeOf(Entry(h).type) <= 2
  <2>1. Size(h) \in {1, 2, 4}
    BY <1>1, TableShape
  <2>. QED BY <1>4, <2>1 DEF Size
<1>5. CASE Entry(h).check = "trivial" /\ Entry(h).type \notin {"f32", "f64"}
  BY <1>5 DEF GoodValue, Converts, Accepts
<1>. QED BY <1>3, <1>4, <1>5

\* What a whole block would leave at an address.
AtomWith(addr, buf, a) ==
  IF addr <= a /\ a < addr + Len(buf) THEN buf[a - addr + 1] ELSE mem[a]

\* What is validated for a register of at most two atoms is what the block
\* would leave in its memory.
LEMMA MergedIs ==
  ASSUME table \in Tables, NEW h \in Handles, Size(h) \in {1, 2},
         NEW addr \in Nat, NEW buf \in Seq(Atom), h \in InRange(addr, Len(buf)), buf # <<>>
  PROVE  Merged(h, addr, buf) =
           [i \in 1 .. Size(h) |-> AtomWith(addr, buf, Entry(h).address + i - 1)]
<1>. DEFINE E == Entry(h).address
            z == Size(h)
            n == Len(buf)
            bs == IF addr > E THEN 0 ELSE E - addr
            rs == IF addr > E THEN addr - E ELSE 0
            len1 == IF addr > E THEN z - (rs - 1) ELSE z
            rlen == IF End(h) > addr + n - 1 THEN len1 - (bs + z - n) ELSE len1
<1>1. E \in Nat /\ z \in {1, 2} /\ n \in Nat \ {0} /\ End(h) = E + z - 1
      /\ E < addr + n /\ addr <= End(h)
  BY TableShape DEF End, InRange
<1>2. Merged(h, addr, buf) = [i \in 1 .. z |-> IF i - 1 \in rs .. rs + rlen - 1
                                               THEN buf[bs + i - rs] ELSE mem[E + i - 1]]
  BY DEF Merged
<1>. HIDE DEF E, z, n
<1>3. ASSUME NEW i \in 1 .. z
      PROVE  (IF i - 1 \in rs .. rs + rlen - 1 THEN buf[bs + i - rs] ELSE mem[E + i - 1])
               = AtomWith(addr, buf, E + i - 1)
  <2>. DEFINE a == E + i - 1
  <2>1. /\ (i - 1 \in rs .. rs + rlen - 1) <=> (addr <= a /\ a < addr + n)
        /\ i - 1 \in rs .. rs + rlen - 1 => bs + i - rs = a - addr + 1
    <3>1. CASE addr > E
      <4>1. z = 2 /\ addr = E + 1 /\ rs = 1 /\ bs = 0 /\ len1 = 2
        BY <1>1, <3>1
      <4>2. ~(End(h) > addr + n - 1) /\ rlen = 2
        BY <1>1, <4>1
      <4>. HIDE DEF rs, bs, len1, rlen
      <4>. QED BY <1>1, <4>1, <4>2
    <3>2. CASE addr <= E
      <4>1. rs = 0 /\ bs = E - addr /\ len1 = z
        BY <1>1, <3>2
      <4>2. rlen = IF E + z > addr + n THEN addr + n - E ELSE z
        BY <1>1, <4>1
      <4>. HIDE DEF rs, bs, len1, rlen
      <4>. QED BY <1>1, <3>2, <4>1, <4>2
    <3>. QED BY <1>1, <3>1, <3>2
  <2>. HIDE DEF a, rs, bs, len1, rlen
  <2>2. (IF i - 1 \in rs .. rs + rlen - 1 THEN buf[bs + i - rs] ELSE mem[a])
          = AtomWith(addr, buf, a)
    BY <2>1 DEF AtomWith, n
  <2>. QED BY <2>2 DEF a
<1>. HIDE DEF rs, bs, len1, rlen
<1>. QED BY <1>2, <1>3 DEF E, z

\* The part of a block that is pushed holds the atoms the block has for a
\* register either all or not at all: the register lies in one area.
LEMMA PushedWhole ==
  ASSUME RegisterInv, initialised, NEW addr \in Address, NEW buf \in Seq(Atom), NEW broken,
         Hole(addr, Len(buf)) = {}, NEW h \in Handles
  PROVE  LET w == WithBlock(mem, addr, Pushed(addr, buf, broken))
         IN  \/ \A a \in Entry(h).address .. End(h) : w[a] = mem[a]
             \/ /\ h \in InRange(addr, Len(buf))
                /\ \A a \in Entry(h).address .. End(h) :
                     w[a] = AtomWith(addr, buf, a)
<1>. DEFINE p == Pushed(addr, buf, broken)
            w == WithBlock(mem, addr, p)
            bad == Broken(addr, Len(buf), broken)
            atoms == Entry(h).address .. End(h)
<1>1. table \in Tables /\ BadAreas = {} /\ IsInMemory(h) /\ addr \in Nat
  BY DEF RegisterInv, InOrder, Address
<1>2. /\ p \in Seq(Atom) /\ Len(p) <= Len(buf) /\ \A i \in 1 .. Len(p) : p[i] = buf[i]
      /\ Len(p) < Len(buf) => addr + Len(p) \in bad
      /\ \A a \in addr .. addr + Len(p) - 1 : a \notin bad
  <2>. USE <1>1
  <2>1. p \in Seq(Atom) /\ Len(p) <= Len(buf)
    BY PushedIs
  <2>2. \A i \in 1 .. Len(p) : p[i] = buf[i]
    BY PushedIs
  <2>3. Len(p) < Len(buf) => addr + Len(p) \in bad
    BY PushedIs
  <2>4. \A a \in addr .. addr + Len(p) - 1 : a \notin bad
    BY PushedIs
  <2>. QED BY <2>1, <2>2, <2>3, <2>4
<1>3. Len(p) \in Nat /\ Len(buf) \in Nat /\ Entry(h).address \in Nat /\ End(h) \in Nat
  BY <1>1, <1>2, TableShape DEF End
<1>4. \A a \in atoms : a \in Address /\ FindArea(a) = AreaOf(h) /\ a \in Nat
  BY <1>1, <1>3, PlacedAtoms
<1>5. \A a \in addr .. addr + Len(buf) - 1 : a \in bad <=> FindArea(a) \in broken
  BY DEF Broken
<1>. HIDE DEF p, bad, atoms
<1>6. \A a \in atoms : w[a] = IF addr <= a /\ a < addr + Len(p) THEN p[a - addr + 1] ELSE mem[a]
  BY <1>4 DEF WithBlock
<1>. HIDE DEF w
<1>7. CASE Len(p) < Len(buf) /\ addr + Len(p) \in atoms
  <2>1. addr + Len(p) \in bad
    BY <1>2, <1>7
  <2>2. AreaOf(h) \in broken
    <3>1. addr + Len(p) \in addr .. addr + Len(buf) - 1
      BY <1>1, <1>3, <1>7
    <3>. QED BY <1>4, <1>5, <1>7, <2>1, <3>1
  <2>3. ASSUME NEW a \in atoms, addr <= a, a < addr + Len(p)
        PROVE  FALSE
    <3>1. a \in addr .. addr + Len(p) - 1 /\ a \in addr .. addr + Len(buf) - 1
      BY <1>1, <1>2, <1>3, <1>4, <2>3
    <3>2. a \in bad
      BY <1>4, <1>5, <2>2, <3>1
    <3>. QED BY <1>2, <3>1, <3>2
  <2>4. \A a \in atoms : w[a] = mem[a]
    BY <1>6, <2>3
  <2>. QED BY <2>4 DEF w, p, atoms
<1>8. CASE ~(Len(p) < Len(buf) /\ addr + Len(p) \in atoms)
  <2>1. CASE \A a \in atoms : ~(addr <= a /\ a < addr + Len(p))
    <3>1. \A a \in atoms : w[a] = mem[a]
      BY <1>6, <2>1
    <3>. QED BY <3>1 DEF w, p, atoms
  <2>2. ASSUME NEW b \in atoms, addr <= b, b < addr + Len(p)
        PROVE  /\ h \in InRange(addr, Len(buf))
               /\ \A a \in atoms :
                    w[a] = AtomWith(addr, buf, a)
    <3>1. Entry(h).address < addr + Len(buf) /\ addr <= End(h)
      BY <1>1, <1>2, <1>3, <1>4, <2>2 DEF atoms
    <3>2. ASSUME NEW a \in atoms
          PROVE  w[a] = AtomWith(addr, buf, a)
      <4>1. CASE addr <= a /\ a < addr + Len(p)
        <5>1. a - addr + 1 \in 1 .. Len(p) /\ a < addr + Len(buf)
          BY <1>1, <1>2, <1>3, <1>4, <4>1
        <5>. QED BY <1>2, <1>6, <4>1, <5>1 DEF AtomWith
      <4>2. CASE ~(addr <= a /\ a < addr + Len(p))
        <5>1. ~(addr <= a /\ a < addr + Len(buf))
          <6>1. ASSUME addr + Len(p) <= a, Len(p) < Len(buf)
                PROVE  FALSE
            <7>1. addr + Len(p) \in atoms
              BY <1>1, <1>3, <1>4, <2>2, <6>1 DEF atoms
            <7>. QED BY <1>8, <6>1, <7>1
          <6>. QED BY <1>1, <1>2, <1>3, <1>4, <4>2, <6>1
        <5>. QED BY <1>6, <4>2, <5>1 DEF AtomWith
      <4>. QED BY <4>1, <4>2
    <3>. QED BY <3>1, <3>2 DEF InRange
  <2>. QED BY <2>1, <2>2 DEF w, p, atoms
<1>. QED BY <1>7, <1>8

\* A block write that passed its checks leaves good values.
LEMMA BlocksKeepGood ==
  ASSUME RegisterInv, WideAcceptAll, BlockWrites, NEW h \in sound, Holds(h)
  PROVE  GoodValue(h, Stored(mem', h))
<1>1. PICK addr \in Address, buf \in Seq(Atom), unreadable, broken \in SUBSET Custom :
           /\ initialised /\ Len(buf) \in Nat \ {0}
           /\ Hole(addr, Len(buf)) = {}
           /\ Malformed(addr, buf, unreadable) = {}
           /\ mem' = WithBlock(mem, addr, Pushed(addr, buf, broken))
  BY BlockDoes
<1>. DEFINE E == Entry(h).address
            atoms == Entry(h).address .. End(h)
<1>2. h \in Handles /\ table \in Tables /\ addr \in Nat /\ buf # <<>>
  BY <1>1 DEF RegisterInv, Address
<1>3. CASE \A b : GoodValue(h, b)
  BY <1>3
<1>4. CASE \A a \in atoms : mem'[a] = mem[a]
  <2>1. Stored(mem', h) = Stored(mem, h)
    BY <1>2, <1>4, StoredDepends
  <2>. QED BY <2>1, HoldsNow
<1>5. CASE /\ Size(h) \in {1, 2} /\ h \in InRange(addr, Len(buf))
           /\ \A a \in atoms :
                mem'[a] = AtomWith(addr, buf, a)
  <2>1. Merged(h, addr, buf) = [i \in 1 .. Size(h) |-> AtomWith(addr, buf, E + i - 1)]
    BY <1>2, <1>5, MergedIs
  <2>2. E \in Nat /\ End(h) = E + Size(h) - 1 /\ Size(h) \in Nat
    BY <1>2, TableShape DEF End
  <2>3. \A i \in 1 .. Size(h) : E + i - 1 \in atoms
    <3>. HIDE DEF E
    <3>1. atoms = E .. E + Size(h) - 1
      BY <2>2 DEF E
    <3>. HIDE DEF atoms
    <3>. QED BY <2>2, <3>1
  <2>. HIDE DEF E, atoms
  <2>4. Merged(h, addr, buf) = [i \in 1 .. Size(h) |-> mem'[E + i - 1]]
    <3>1. \A i \in 1 .. Size(h) : mem'[E + i - 1] = AtomWith(addr, buf, E + i - 1)
      BY <1>5, <2>3
    <3>. QED BY <2>1, <3>1
  <2>5. Stored(mem', h) = Raw(Merged(h, addr, buf))
    BY <2>4 DEF Stored, E
  <2>6. MalformedCode(h, addr, buf, unreadable) = "success"
    BY <1>1, <1>5 DEF Malformed
  <2>7. /\ Converts(Entry(h).type, Raw(Merged(h, addr, buf)))
        /\ Accepts(h, Raw(Merged(h, addr, buf)), FALSE)
    BY <2>6 DEF MalformedCode
  <2>. QED BY <2>5, <2>7, AcceptedIsGood
<1>6. \/ \A a \in atoms : mem'[a] = mem[a]
      \/ /\ h \in InRange(addr, Len(buf))
         /\ \A a \in atoms :
              mem'[a] = AtomWith(addr, buf, a)
  BY <1>1, <1>2, PushedWhole
<1>. QED BY <1>2, <1>3, <1>4, <1>5, <1>6, NarrowOrFree

\* What initialisation, sanitising and validated writes leave in registers stays
\* acceptable, whatever else is done, as long as registers of four atoms accept
\* every value: register_set(), register_block_write(), register_sanitise().
THEOREM RegistersHoldConstraints ==
  ASSUME WideAcceptAll
  PROVE  Spec => []ConstraintsHold
<1>1. Init => ConstraintsHold
  BY DEF Init, ConstraintsHold
<1>2. ASSUME RegisterInv, ConstraintsHold, [Next]_vars
      PROVE  ConstraintsHold'
  <2>1. ASSUME UNCHANGED <<table, bigendian>>,
               \A h \in sound' : GoodValue(h, Stored(mem', h))
        PROVE  ConstraintsHold'
    BY <2>1, HoldsNext DEF ConstraintsHold
  <2>2. /\ table \in Tables /\ sound \subseteq Handles
        /\ \A h \in sound : GoodValue(h, Stored(mem, h)) /\ IsInMemory(h) /\ BadAreas = {}
    BY <1>2, HoldsNow DEF ConstraintsHold, RegisterInv, InOrder
  <2>3. CASE Quiet
    BY <2>1, <2>2, <2>3 DEF Quiet
  <2>4. CASE RawWrite
    <3>1. PICK addr \in Int, buf \in Seq(Atom) :
            /\ mem' = WithBlock(mem, addr, buf)
            /\ sound' \subseteq sound \ InRange(addr, Len(buf))
      BY <2>4 DEF RawWrite
    <3>2. ASSUME NEW h \in sound'
          PROVE  GoodValue(h, Stored(mem', h))
      <4>1. h \in sound /\ h \in Handles /\ h \notin InRange(addr, Len(buf))
        BY <2>2, <3>1
      <4>2. Stored(mem', h) = Stored(mem, h)
        BY <2>2, <3>1, <4>1, WithBlockSpares
      <4>. QED BY <2>2, <4>1, <4>2
    <3>. QED BY <2>1, <2>4, <3>2 DEF RawWrite
  <2>5. CASE RegisterWrite
    <3>0. PICK h \in Handles : \E b \in Bits(Size(h)) :
            /\ mem' = WithRegister(mem, h, b)
            /\ \/ sound' = sound \cup {h} /\ Converts(Entry(h).type, b) /\ Accepts(h, b, FALSE)
               \/ sound' = sound \ {h}
      BY <2>5 DEF RegisterWrite
    <3>1. PICK b \in Bits(Size(h)) :
            /\ mem' = WithRegister(mem, h, b)
            /\ \/ sound' = sound \cup {h} /\ Converts(Entry(h).type, b) /\ Accepts(h, b, FALSE)
               \/ sound' = sound \ {h}
      BY <3>0
    <3>2. IsInMemory(h) /\ BadAreas = {} /\ BadEntries = {}
      BY <1>2, <2>5 DEF RegisterWrite, RegisterInv, InOrder
    <3>3. /\ Stored(mem', h) = b
          /\ \A k \in Handles \ {h} : IsInMemory(k) => Stored(mem', k) = Stored(mem, k)
      BY <2>2, <3>1, <3>2, WithRegisterStores
    <3>4. ASSUME NEW k \in sound'
          PROVE  GoodValue(k, Stored(mem', k))
      <4>1. CASE k = h
        BY <3>1, <3>3, <4>1, AcceptedIsGood
      <4>2. CASE k # h
        BY <2>2, <3>1, <3>3, <4>2
      <4>. QED BY <4>1, <4>2
    <3>. QED BY <2>1, <2>5, <3>4 DEF RegisterWrite
  <2>6. ASSUME NEW broken, RegisterSanitise(broken)
        PROVE  ConstraintsHold'
    <3>1. ASSUME NEW done \in SUBSET Handles, initialised,
                 \A k \in done : SanitiseCode(k, broken) = "success",
                 mem' = WithDefaults(mem, {k \in done : Insane(k)}), sound' = sound \cup done,
                 UNCHANGED <<table, bigendian>>
          PROVE  ConstraintsHold'
      <4>1. ASSUME NEW h \in sound'
            PROVE  GoodValue(h, Stored(mem', h))
        <5>1. h \in Handles
          BY <2>2, <3>1
        <5>2. Stored(mem', h) = IF h \in done /\ Insane(h) THEN Entry(h).default
                                ELSE Stored(mem, h)
          BY <1>2, <3>1, <5>1, SanitiseStores
        <5>3. CASE h \in done
          BY <1>2, <3>1, <5>1, <5>2, <5>3, SanitisedIsGood, HoldsNow
        <5>4. CASE h \notin done
          BY <2>2, <3>1, <5>2, <5>4
        <5>. QED BY <5>3, <5>4
      <4>. QED BY <2>1, <3>1, <4>1
    <3>. QED BY <1>2, <2>3, <2>6, <3>1, SanitiseDoes
  <2>7. CASE BlockWrites
    <3>1. UNCHANGED <<table, bigendian, sound>>
      BY <1>2, <2>7, BlockDoes
    <3>2. \A h \in sound : GoodValue(h, Stored(mem', h))
      BY <1>2, <2>7, BlocksKeepGood DEF ConstraintsHold
    <3>. QED BY <2>1, <3>1, <3>2
  <2>8. CASE RegisterInitFails
    <3>1. UNCHANGED <<table, mem, bigendian, sound>>
      BY <1>2, <2>8, FailsDoes
    <3>. QED BY <2>1, <2>2, <3>1
  <2>9. ASSUME NEW broken, RegisterInitLoads(broken)
        PROVE  ConstraintsHold'
    <3>1. /\ sound' \subseteq Handles /\ UNCHANGED <<table, bigendian>>
          /\ \A h \in sound' : /\ EntryVerdict(h, broken) = "success" /\ NeedToLoadDefault(h)
                               /\ Stored(mem', h) = Entry(h).default
      BY <1>2, <2>9, LoadsDoes
    <3>2. ASSUME NEW h \in sound'
          PROVE  GoodValue(h, Stored(mem', h))
      <4>1. DefaultIsSet(h, broken, TRUE)
        BY <3>1 DEF EntryVerdict
      <4>2. Converts(Entry(h).type, Entry(h).default) /\ Accepts(h, Entry(h).default, TRUE)
        BY <4>1 DEF DefaultIsSet
      <4>. QED BY <2>2, <3>1, <4>2, DefaultIsGood
    <3>. QED BY <2>1, <3>1, <3>2
  <2>10. ASSUME NEW state, MakeBigEndian(state)
         PROVE  ConstraintsHold'
    <3>1. UNCHANGED <<table, mem>> /\ bigendian' = state
          /\ sound' = IF state = bigendian THEN sound ELSE {}
      BY <2>10 DEF MakeBigEndian
    <3>2. CASE state = bigendian
      BY <2>1, <2>2, <3>1, <3>2
    <3>3. CASE state # bigendian
      BY <3>1, <3>3 DEF ConstraintsHold
    <3>. QED BY <3>2, <3>3
  <2>11. CASE UNCHANGED vars
    BY <2>1, <2>2, <2>11 DEF vars
  <2>. QED
    BY <1>2, <2>3, <2>4, <2>5, <2>6, <2>7, <2>8, <2>9, <2>10, <2>11, StepKinds DEF RegisterInit
<1>. QED BY <1>1, <1>2, InvAlways, PTL DEF Spec

(***************************************************************************)
(* The spans of areas.                                                     *)
(***************************************************************************)

\* The handle the search for the entries of the next area starts at.
AfterArea(an, h) ==
  LET others == {k \in Handles : k > h /\ ~IsPartOf(an, Entry(k).address)}
  IN  IF h \in Handles /\ IsPartOf(an, Entry(h).address)
      THEN IF others = {} THEN Len(table.entry) ELSE Least(others)
      ELSE h

Starts(f, n) == f = [an \in 0 .. n |-> IF an = 0 THEN 0 ELSE AfterArea(an - 1, f[an - 1])]

\* The function that SpanStart defines by recursion exists.
LEMMA StartsExists ==
  ASSUME table \in Tables, NEW n \in Nat
  PROVE  \E f : Starts(f, n)
<1>. SUFFICES ASSUME ~\E f : Starts(f, n)
              PROVE  FALSE
  OBVIOUS
<1>. DEFINE S == {k \in Nat : ~\E f : Starts(f, k)}
<1>1. PICK k \in S : \A y \in S : k <= y
  <2>1. S \in SUBSET Nat /\ S # {}
    OBVIOUS
  <2>. HIDE DEF S
  <2>. QED BY <2>1, LeastIsLeast
<1>2. CASE k = 0
  <2>. DEFINE f == [an \in 0 .. 0 |-> 0]
  <2>1. Starts(f, 0)
    BY DEF Starts
  <2>. QED BY <1>1, <1>2, <2>1
<1>3. CASE k # 0
  <2>1. k \in Nat \ {0} /\ k - 1 \in Nat /\ k - 1 \notin S
    BY <1>1, <1>3
  <2>2. PICK f : Starts(f, k - 1)
    BY <2>1
  <2>. DEFINE g == [an \in 0 .. k |-> IF an = k THEN AfterArea(k - 1, f[k - 1]) ELSE f[an]]
  <2>3. \A an \in 0 .. k : g[an] = IF an = 0 THEN 0 ELSE AfterArea(an - 1, g[an - 1])
    <3>1. ASSUME NEW an \in 0 .. k
          PROVE  g[an] = IF an = 0 THEN 0 ELSE AfterArea(an - 1, g[an - 1])
      <4>1. CASE an = k
        <5>1. k - 1 \in 0 .. k /\ k - 1 # k
          BY <2>1
        <5>2. g[k - 1] = f[k - 1]
          BY <5>1
        <5>. QED BY <2>1, <4>1, <5>2
      <4>2. CASE an # k
        <5>1. an \in 0 .. k - 1
          BY <2>1, <4>2
        <5>2. f[an] = IF an = 0 THEN 0 ELSE AfterArea(an - 1, f[an - 1])
          BY <2>2, <5>1 DEF Starts
        <5>3. an # 0 => an - 1 \in 0 .. k /\ an - 1 # k
          BY <5>1
        <5>. QED BY <4>2, <5>2, <5>3
      <4>. QED BY <4>1, <4>2
    <3>. QED BY <3>1
  <2>4. g = [an \in 0 .. k |-> IF an = 0 THEN 0 ELSE AfterArea(an - 1, g[an - 1])]
    <3>1. g = [an \in 0 .. k |-> g[an]]
      OBVIOUS
    <3>. HIDE DEF g
    <3>. QED BY <2>3, <3>1
  <2>. HIDE DEF g
  <2>5. Starts(g, k)
    BY <2>4 DEF Starts
  <2>. QED BY <1>1, <2>5
<1>. QED BY <1>2, <1>3

LEMMA SpanStartIs ==
  ASSUME table \in Tables
  PROVE  /\ SpanStart[0] = 0
         /\ \A an \in Areas : SpanStart[an + 1] = AfterArea(an, SpanStart[an])
<1>. DEFINE N == Len(table.area)
<1>1. N \in Nat
  BY TableShape
<1>2. SpanStart = CHOOSE f : Starts(f, N)
  BY Zenon DEF SpanStart, Starts, AfterArea
<1>3. Starts(SpanStart, N)
  BY <1>1, <1>2, StartsExists
<1>4. \A an \in 0 .. N : SpanStart[an] = IF an = 0 THEN 0 ELSE AfterArea(an - 1, SpanStart[an - 1])
  <2>. DEFINE f == SpanStart
  <2>1. f = [an \in 0 .. N |-> IF an = 0 THEN 0 ELSE AfterArea(an - 1, f[an - 1])]
    BY <1>3 DEF Starts
  <2>. HIDE DEF f
  <2>2. \A an \in 0 .. N : f[an] = IF an = 0 THEN 0 ELSE AfterArea(an - 1, f[an - 1])
    BY <2>1
  <2>. QED BY <2>2 DEF f
<1>5. 0 \in 0 .. N
  BY <1>1
<1>6. ASSUME NEW an \in Areas
      PROVE  SpanStart[an + 1] = AfterArea(an, SpanStart[an])
  <2>1. an \in Nat /\ an + 1 \in 0 .. N /\ an + 1 # 0 /\ an + 1 - 1 = an
    BY <1>1, TableShape DEF Areas
  <2>. QED BY <1>4, <2>1
<1>. QED BY <1>4, <1>5, <1>6

\* The search never goes backwards, and never past the end.
LEMMA AfterAreaType ==
  ASSUME table \in Tables, NEW an, NEW h \in 0 .. Len(table.entry)
  PROVE  AfterArea(an, h) \in 0 .. Len(table.entry) /\ h <= AfterArea(an, h)
<1>. DEFINE others == {k \in Handles : k > h /\ ~IsPartOf(an, Entry(k).address)}
<1>1. Len(table.entry) \in Nat /\ h \in Nat
  BY TableShape
<1>2. others # {} => Least(others) \in others
  <2>1. others \in SUBSET Nat
    BY TableShape
  <2>. HIDE DEF others
  <2>. QED BY <2>1, LeastIsLeast
<1>3. others # {} => Least(others) \in 0 .. Len(table.entry) /\ h <= Least(others)
  BY <1>1, <1>2 DEF Handles
<1>. HIDE DEF others
<1>4. \/ AfterArea(an, h) \in {h, Len(table.entry)}
      \/ others # {} /\ AfterArea(an, h) = Least(others)
  BY DEF AfterArea, others
<1>. QED BY <1>1, <1>3, <1>4

LEMMA SpanStartType ==
  ASSUME table \in Tables, NEW n \in 0 .. Len(table.area)
  PROVE  SpanStart[n] \in 0 .. Len(table.entry)
<1>. DEFINE S == {k \in 0 .. Len(table.area) : SpanStart[k] \notin 0 .. Len(table.entry)}
<1>. SUFFICES ASSUME S # {}
              PROVE  FALSE
  OBVIOUS
<1>1. PICK k \in S : \A y \in S : k <= y
  <2>1. S \in SUBSET Nat
    BY TableShape
  <2>. HIDE DEF S
  <2>. QED BY <2>1, LeastIsLeast
<1>2. k \in 0 .. Len(table.area) /\ SpanStart[k] \notin 0 .. Len(table.entry)
  OBVIOUS
<1>3. Len(table.area) \in Nat /\ Len(table.entry) \in Nat
  BY TableShape
<1>4. k # 0
  BY <1>2, <1>3, SpanStartIs
<1>5. k - 1 \in 0 .. Len(table.area) /\ ~(k <= k - 1) /\ k - 1 \in Areas /\ k - 1 + 1 = k
  BY <1>2, <1>3, <1>4 DEF Areas
<1>6. SpanStart[k - 1] \in 0 .. Len(table.entry)
  BY <1>1, <1>5
<1>7. SpanStart[k] = AfterArea(k - 1, SpanStart[k - 1])
  BY <1>5, SpanStartIs
<1>. QED BY <1>2, <1>6, <1>7, AfterAreaType

SpanType ==
  [Areas -> [first : Handles \cup {0}, last : Handles \cup {0}, count : 0 .. Len(table.entry)]]

LEMMA SpansType ==
  ASSUME table \in Tables
  PROVE  Spans \in SpanType
<1>1. ASSUME NEW an \in Areas
      PROVE  LET first == SpanStart[an]
                 next  == SpanStart[an + 1]
             IN  (IF next > first THEN [first |-> first, last |-> next - 1, count |-> next - first]
                  ELSE [first |-> 0, last |-> 0, count |-> 0])
                   \in [first : Handles \cup {0}, last : Handles \cup {0},
                        count : 0 .. Len(table.entry)]
  <2>. DEFINE first == SpanStart[an]
              next  == SpanStart[an + 1]
              N     == Len(table.entry)
  <2>1. an \in 0 .. Len(table.area) /\ an + 1 \in 0 .. Len(table.area) /\ N \in Nat
    BY TableShape DEF Areas
  <2>2. first \in 0 .. N /\ next \in 0 .. N
    BY <2>1, SpanStartType
  <2>3. Handles = 0 .. N - 1
    BY DEF Handles
  <2>. HIDE DEF first, next, N
  <2>4. next > first => first \in Handles /\ next - 1 \in Handles /\ next - first \in 0 .. N
    BY <2>1, <2>2, <2>3
  <2>5. 0 \in 0 .. N
    BY <2>1
  <2>6. (IF next > first THEN [first |-> first, last |-> next - 1, count |-> next - first]
         ELSE [first |-> 0, last |-> 0, count |-> 0])
          \in [first : Handles \cup {0}, last : Handles \cup {0}, count : 0 .. N]
    BY <2>4, <2>5
  <2>. QED BY <2>6 DEF first, next, N
<1>. QED BY <1>1 DEF Spans, SpanType

SpanInv == span \in SpanType /\ (initialised => span = Spans)

LEMMA SameSpans ==
  ASSUME UNCHANGED table
  PROVE  Spans' = Spans /\ SpanType' = SpanType
BY DEF Spans, SpanStart, SpanType, Areas, Handles, IsPartOf, Area, Entry

LEMMA SpanInvNext ==
  ASSUME RegisterInv, SpanInv, [Next]_vars
  PROVE  SpanInv'
<1>1. ASSUME UNCHANGED <<table, span>>, initialised' = initialised \/ initialised' = FALSE
      PROVE  SpanInv'
  BY <1>1, SameSpans DEF SpanInv
<1>2. CASE Quiet \/ RawWrite \/ RegisterWrite
  BY <1>1, <1>2 DEF Quiet, RawWrite, RegisterWrite
<1>3. ASSUME NEW broken, RegisterSanitise(broken)
      PROVE  SpanInv'
  BY <1>1, <1>3, SanitiseDoes DEF Quiet
<1>4. CASE BlockWrites
  <2>1. UNCHANGED <<table, span, initialised>>
    BY <1>4, BlockDoes
  <2>. QED BY <1>1, <2>1
<1>5. CASE RegisterInitFails
  BY <1>1, <1>5, FailsDoes
<1>6. ASSUME NEW broken, RegisterInitLoads(broken)
      PROVE  SpanInv'
  <2>1. /\ UNCHANGED table
        /\ \/ span' = Spans
           \/ initialised' = FALSE /\ UNCHANGED span
    BY <1>6, LoadsDoes
  <2>2. Spans' = Spans /\ SpanType' = SpanType
    BY <2>1, SameSpans
  <2>3. Spans \in SpanType
    BY SpansType DEF RegisterInv
  <2>. QED BY <1>1, <2>1, <2>2, <2>3 DEF SpanInv
<1>7. ASSUME NEW state, MakeBigEndian(state)
      PROVE  SpanInv'
  BY <1>1, <1>7 DEF MakeBigEndian
<1>8. CASE UNCHANGED vars
  BY <1>1, <1>8 DEF vars
<1>. QED BY <1>2, <1>3, <1>4, <1>5, <1>6, <1>7, <1>8, StepKinds DEF RegisterInit

LEMMA SpanInvInit ==
  ASSUME Init
  PROVE  SpanInv
<1>1. table \in Tables /\ initialised = FALSE
      /\ span = [an \in Areas |-> [first |-> 0, last |-> 0, count |-> 0]]
  BY DEF Init
<1>2. 0 \in 0 .. Len(table.entry)
  BY <1>1, TableShape
<1>. QED BY <1>1, <1>2 DEF SpanInv, SpanType

LEMMA SpanInvAlways == Spec => []SpanInv
<1>1. Init => SpanInv
  BY SpanInvInit
<1>2. RegisterInv /\ SpanInv /\ [Next]_vars => SpanInv'
  BY SpanInvNext
<1>. QED BY <1>1, <1>2, InvAlways, PTL DEF Spec

\* The variables of a table keep their types: memory stays made of atoms, and
\* areas refer to entries the table has.
THEOREM TypeCorrect == Spec => []TypeOK
<1>1. RegisterInv /\ SpanInv => TypeOK
  BY DEF RegisterInv, SpanInv, TypeOK, Memory, SpanType
<1>. QED BY <1>1, InvAlways, SpanInvAlways, PTL

(***************************************************************************)
(* Visiting the registers of a range.                                      *)
(***************************************************************************)

\* The registers of a table that is accepted are in memory, in order.
InPlace == BadAreas = {} /\ BadEntries = {} /\ \A h \in Handles : IsInMemory(h)

LEMMA AreaOfIs ==
  ASSUME table \in Tables, InPlace, NEW h \in Handles
  PROVE  /\ AreaOf(h) \in Areas /\ AreaOf(h) \in Nat
         /\ \A an \in Areas : IsPartOf(an, Entry(h).address) <=> AreaOf(h) = an
<1>1. AreaOf(h) \in Areas /\ IsPartOf(AreaOf(h), Entry(h).address)
  BY FoundArea DEF InPlace, IsInMemory, AreaOf
<1>2. Entry(h).address \in Nat
  BY TableShape
<1>3. \A an \in Areas : IsPartOf(an, Entry(h).address) => AreaOf(h) = an
  BY <1>2, OnlyArea DEF InPlace, AreaOf
<1>. QED BY <1>1, <1>3, TableShape

\* Later entries lie in later areas, or in the same.
LEMMA AreasFollow ==
  ASSUME table \in Tables, InPlace, NEW h \in Handles, NEW k \in Handles, h <= k
  PROVE  AreaOf(h) <= AreaOf(k)
<1>. DEFINE i == AreaOf(h)
            j == AreaOf(k)
<1>1. /\ i \in Areas /\ IsPartOf(i, Entry(h).address)
      /\ j \in Areas /\ IsPartOf(j, Entry(k).address)
  BY AreaOfIs
<1>. HIDE DEF i, j
<1>2. /\ i \in Nat /\ Area(i).base \in Nat /\ Area(i).size \in Nat
      /\ j \in Nat /\ Area(j).base \in Nat /\ Area(j).size \in Nat
      /\ h \in Nat /\ k \in Nat /\ Entry(h).address \in Nat /\ Entry(k).address \in Nat
      /\ Size(h) \in {1, 2, 4}
  BY <1>1, TableShape
<1>3. Entry(h).address <= Entry(k).address
  <2>1. CASE h = k
    BY <1>2, <2>1
  <2>2. CASE h < k
    BY <1>2, <2>2, EntriesSorted DEF InPlace, End
  <2>. QED BY <1>2, <2>1, <2>2
<1>4. j < i => Area(j).base + Area(j).size <= Area(i).base
  BY <1>1, AreasSorted DEF InPlace
<1>5. ~(j < i)
  BY <1>1, <1>2, <1>3, <1>4 DEF IsPartOf
<1>. QED BY <1>2, <1>5 DEF i, j

\* The search for the entries of an area starts behind those of earlier areas:
\* from one area to the next, ...
LEMMA NextStartSplits ==
  ASSUME table \in Tables, InPlace, NEW an \in Areas, NEW s \in 0 .. Len(table.entry),
         \A h \in Handles : h < s <=> AreaOf(h) < an
  PROVE  \A h \in Handles : h < AfterArea(an, s) <=> AreaOf(h) < an + 1
<1>. DEFINE others == {k \in Handles : k > s /\ ~IsPartOf(an, Entry(k).address)}
            N == Len(table.entry)
<1>1. an \in Nat /\ N \in Nat /\ s \in Nat /\ Handles = 0 .. N - 1
  BY TableShape DEF Handles
<1>2. \A h \in Handles : AreaOf(h) \in Nat /\ (IsPartOf(an, Entry(h).address) <=> AreaOf(h) = an)
  BY AreaOfIs
<1>3. others # {} => Least(others) \in others /\ \A k \in others : Least(others) <= k
  <2>1. others \in SUBSET Nat
    BY TableShape
  <2>. HIDE DEF others
  <2>. QED BY <2>1, LeastIsLeast
<1>4. \A k : k \in others <=> k \in Handles /\ k > s /\ AreaOf(k) # an
  BY <1>2
<1>. HIDE DEF others, N
<1>5. CASE s \in Handles /\ AreaOf(s) = an
  <2>1. AfterArea(an, s) = IF others = {} THEN N ELSE Least(others)
    BY <1>2, <1>5 DEF AfterArea, others, N
  <2>2. CASE others = {}
    BY <1>1, <1>2, <1>4, <1>5, <2>1, <2>2
  <2>3. CASE others # {}
    <3>. DEFINE L == Least(others)
    <3>1. /\ L \in Handles /\ L > s /\ AreaOf(L) # an
          /\ \A k \in Handles : k > s /\ AreaOf(k) # an => L <= k
      BY <1>3, <1>4, <2>3
    <3>. HIDE DEF L
    <3>2. AreaOf(L) > an
      BY <1>1, <1>2, <3>1
    <3>3. ASSUME NEW h \in Handles, L <= h
          PROVE  ~(AreaOf(h) < an + 1)
      <4>1. AreaOf(L) <= AreaOf(h)
        BY <3>1, <3>3, AreasFollow
      <4>. QED BY <1>1, <1>2, <3>1, <3>2, <4>1
    <3>4. ASSUME NEW h \in Handles, h < L
          PROVE  AreaOf(h) < an + 1
      BY <1>1, <1>2, <1>5, <3>1, <3>4
    <3>. QED BY <1>1, <2>1, <2>3, <3>1, <3>3, <3>4 DEF L
  <2>. QED BY <2>2, <2>3
<1>6. CASE ~(s \in Handles /\ AreaOf(s) = an)
  <2>1. AfterArea(an, s) = s
    BY <1>2, <1>6 DEF AfterArea
  <2>2. ASSUME NEW h \in Handles, ~(h < s)
        PROVE  AreaOf(h) # an
    <3>1. s \in Handles
      BY <1>1, <2>2
    <3>2. AreaOf(s) <= AreaOf(h) /\ ~(AreaOf(s) < an)
      <4>1. s <= h /\ ~(s < s)
        BY <1>1, <2>2
      <4>. QED BY <3>1, <4>1, AreasFollow
    <3>. QED BY <1>1, <1>2, <1>6, <3>1, <3>2
  <2>. QED BY <1>1, <1>2, <2>1, <2>2
<1>. QED BY <1>5, <1>6

\* ... and so for all.
LEMMA StartSplits ==
  ASSUME table \in Tables, InPlace, NEW n \in 0 .. Len(table.area)
  PROVE  \A h \in Handles : h < SpanStart[n] <=> AreaOf(h) < n
<1>. DEFINE Splits(k) == \A h \in Handles : h < SpanStart[k] <=> AreaOf(h) < k
            S == {k \in 0 .. Len(table.area) : ~Splits(k)}
<1>. SUFFICES ASSUME S # {}
              PROVE  FALSE
  OBVIOUS
<1>1. PICK k \in S : \A y \in S : k <= y
  <2>1. S \in SUBSET Nat
    BY TableShape
  <2>. HIDE DEF S
  <2>. QED BY <2>1, LeastIsLeast
<1>2. k \in 0 .. Len(table.area) /\ ~Splits(k)
  OBVIOUS
<1>3. Len(table.area) \in Nat
  BY TableShape
<1>4. k # 0
  <2>1. \A h \in Handles : h \in Nat /\ AreaOf(h) \in Nat
    BY TableShape, AreaOfIs
  <2>2. Splits(0)
    BY <2>1, SpanStartIs
  <2>. HIDE DEF Splits
  <2>. QED BY <1>2, <2>2
<1>5. k - 1 \in 0 .. Len(table.area) /\ ~(k <= k - 1) /\ k - 1 \in Areas /\ k - 1 + 1 = k
  BY <1>2, <1>3, <1>4 DEF Areas
<1>6. Splits(k - 1)
  <2>1. k - 1 \notin S
    BY <1>1, <1>5
  <2>. HIDE DEF Splits
  <2>. QED BY <1>5, <2>1
<1>7. SpanStart[k] = AfterArea(k - 1, SpanStart[k - 1])
  BY <1>5, SpanStartIs
<1>8. SpanStart[k - 1] \in 0 .. Len(table.entry)
  BY <1>5, SpanStartType
<1>9. \A h \in Handles : h < AfterArea(k - 1, SpanStart[k - 1]) <=> AreaOf(h) < k - 1 + 1
  BY <1>5, <1>6, <1>8, NextStartSplits
<1>. QED BY <1>2, <1>5, <1>7, <1>9

\* The search for the register at an address finds it.
LEMMA FoundReg ==
  ASSUME RegisterInv, SpanInv, initialised, LastAddressFree,
         NEW addr \in Address, NEW r \in Handles, r \in InRange(addr, 1)
  PROVE  /\ Mapped(addr) /\ FindArea(addr) \in Areas
         /\ FindReg(span[FindArea(addr)].first, span[FindArea(addr)].last, addr) = {r}
<1>. DEFINE an    == FindArea(addr)
            first == SpanStart[an]
            next  == SpanStart[an + 1]
<1>1. table \in Tables /\ InPlace /\ \A h \in Handles : IsInMemory(h)
  BY DEF RegisterInv, InOrder, InPlace
<1>2. \A h \in Handles : /\ h \in Nat /\ Entry(h).address \in Nat /\ Size(h) \in {1, 2, 4}
                         /\ End(h) = Entry(h).address + Size(h) - 1
  BY <1>1, TableShape DEF End
<1>3. addr \in Nat /\ Entry(r).address <= addr /\ addr <= End(r)
  BY <1>2 DEF InRange, Address
<1>4. Mapped(addr) /\ an = AreaOf(r) /\ an \in Areas
  <2>1. addr \in Entry(r).address .. End(r)
    BY <1>2, <1>3
  <2>. QED BY <1>1, <2>1, PlacedAtoms DEF InPlace
<1>5. /\ first \in Nat /\ next \in Nat /\ ~(r < first) /\ r < next
  <2>1. an \in Nat /\ Len(table.area) \in Nat /\ Len(table.entry) \in Nat
        /\ an \in 0 .. Len(table.area) /\ an + 1 \in 0 .. Len(table.area)
    BY <1>1, <1>4, TableShape DEF Areas
  <2>2. first \in 0 .. Len(table.entry) /\ next \in 0 .. Len(table.entry)
    BY <1>1, <2>1, SpanStartType
  <2>3. (r < first <=> AreaOf(r) < an) /\ (r < next <=> AreaOf(r) < an + 1)
    BY <1>1, <2>1, StartSplits
  <2>. QED BY <1>4, <2>1, <2>2, <2>3
<1>6. span[an].first = first /\ span[an].last = next - 1
  <2>1. next > first
    BY <1>2, <1>5
  <2>2. span = Spans
    BY DEF SpanInv
  <2>3. span[an] = [first |-> first, last |-> next - 1, count |-> next - first]
    BY <1>4, <2>1, <2>2 DEF Spans
  <2>. QED BY <2>3
<1>7. Plus(addr, 1) = addr + 1
  <2>1. Hole(addr, 1) = {}
    BY <1>3, <1>4 DEF Hole
  <2>. QED BY <2>1, RangesDoNotWrap
<1>8. FindReg(first, next - 1, addr) = {r}
  <2>. HIDE DEF an, first, next
  <2>1. r \in FindReg(first, next - 1, addr)
    BY <1>2, <1>3, <1>5, <1>7 DEF FindReg, RangeTouches
  <2>2. ASSUME NEW h \in FindReg(first, next - 1, addr)
        PROVE  h = r
    <3>1. h \in Handles /\ Entry(h).address <= addr /\ addr <= End(h)
      BY <1>2, <1>3, <1>7, <2>2 DEF FindReg, RangeTouches
    <3>2. (h < r => End(h) < Entry(r).address) /\ (r < h => End(r) < Entry(h).address)
      BY <1>1, <3>1, EntriesSorted DEF InPlace
    <3>. QED BY <1>2, <1>3, <3>1, <3>2
  <2>. QED BY <2>1, <2>2
<1>. QED BY <1>4, <1>6, <1>8

\* An iteration that starts at a register visits the registers that have an atom
\* in the range: register_foreach_in(), by the spans of register_init().
THEOREM VisitsRange ==
  ASSUME LastAddressFree
  PROVE  Spec => []ForeachVisitsRange
<1>1. ASSUME RegisterInv, SpanInv, initialised, NEW addr \in Address,
             NEW off \in 1 .. AddressCount, InRange(addr, 1) # {}, addr + off <= AddressCount
      PROVE  ForeachIn(addr, off) = InRange(addr, off)
  <2>1. PICK r \in Handles : r \in InRange(addr, 1)
    BY <1>1 DEF InRange
  <2>. DEFINE found == FindReg(span[FindArea(addr)].first, span[FindArea(addr)].last, addr)
              end   == addr + off - 1
  <2>2. Mapped(addr) /\ found = {r}
    BY <1>1, <2>1, FoundReg
  <2>3. \A h \in Handles : /\ h \in Nat /\ Entry(h).address \in Nat /\ Size(h) \in {1, 2, 4}
                           /\ End(h) = Entry(h).address + Size(h) - 1
    BY <1>1, TableShape DEF RegisterInv, End
  <2>4. Least({r}) = r
    <3>1. {r} \in SUBSET Nat /\ {r} # {}
      BY <2>3
    <3>. QED BY <3>1, LeastIsLeast
  <2>5. addr \in Nat /\ off \in Nat \ {0} /\ AddressCount \in Nat \ {0} /\ end \in Nat
    BY <1>1, BoundsAssumption DEF Address
  <2>6. (addr + off + AddressCount - 1) % AddressCount = end
    <3>1. end \in 0 .. AddressCount - 1 /\ addr + off + AddressCount - 1 = end + AddressCount
      BY <1>1, <2>5
    <3>. HIDE DEF end
    <3>2. (end + AddressCount) % AddressCount = end
      BY <2>5, <3>1
    <3>. QED BY <3>1, <3>2
  <2>7. ForeachIn(addr, off)
          = {h \in Handles : h >= r /\ \A k \in r .. h : Entry(k).address <= end}
    <3>. HIDE DEF end
    <3>1. off # 0 /\ Handles # {} /\ found # {}
      BY <2>1, <2>2, <2>5
    <3>2. ForeachIn(addr, off)
            = {h \in Handles : h >= Least(found) /\ \A k \in Least(found) .. h :
                 Entry(k).address <= (addr + off + AddressCount - 1) % AddressCount}
      BY <1>1, <2>2, <3>1 DEF ForeachIn
    <3>. HIDE DEF found
    <3>. QED BY <2>2, <2>4, <2>6, <3>2
  <2>8. Entry(r).address <= addr /\ addr <= End(r)
    BY <2>1, <2>3, <2>5 DEF InRange
  <2>9. \A i, j \in Handles : i < j => End(i) < Entry(j).address
    BY <1>1, EntriesSorted DEF RegisterInv, InOrder
  <2>10. ASSUME NEW h \in Handles
         PROVE  h \in ForeachIn(addr, off) <=> h \in InRange(addr, off)
    <3>1. h \in InRange(addr, off) <=> Entry(h).address <= end /\ addr <= End(h)
      BY <2>3, <2>5 DEF InRange
    <3>. HIDE DEF end, found
    <3>2. CASE h < r
      <4>1. End(h) < Entry(r).address
        BY <2>1, <2>9, <3>2
      <4>2. ~(addr <= End(h)) /\ ~(h >= r)
        BY <2>1, <2>3, <2>5, <2>8, <3>2, <4>1
      <4>. QED BY <2>7, <3>1, <4>2
    <3>3. CASE h >= r
      <4>1. addr <= End(h)
        <5>1. h = r \/ r < h
          BY <2>1, <2>3, <3>3
        <5>2. r < h => End(r) < Entry(h).address
          BY <2>1, <2>9
        <5>. QED BY <2>1, <2>3, <2>5, <2>8, <5>1, <5>2
      <4>2. ASSUME NEW k \in r .. h
            PROVE  Entry(k).address <= Entry(h).address
        <5>1. k \in Handles /\ (k = h \/ k < h)
          <6>1. Handles = 0 .. Len(table.entry) - 1 /\ Len(table.entry) \in Nat
            BY <1>1, TableShape DEF Handles, RegisterInv
          <6>. QED BY <2>1, <6>1, <4>2
        <5>2. k < h => End(k) < Entry(h).address
          BY <2>9, <5>1
        <5>. QED BY <2>3, <5>1, <5>2
      <4>3. h \in r .. h /\ \A k \in r .. h : k \in Handles
        <5>1. Handles = 0 .. Len(table.entry) - 1 /\ Len(table.entry) \in Nat
          BY <1>1, TableShape DEF Handles, RegisterInv
        <5>. QED BY <2>1, <3>3, <5>1
      <4>4. (\A k \in r .. h : Entry(k).address <= end) <=> Entry(h).address <= end
        BY <2>3, <2>5, <4>2, <4>3
      <4>. QED BY <2>7, <3>1, <3>3, <4>1, <4>4
    <3>. QED BY <2>1, <2>3, <3>2, <3>3
  <2>. QED BY <2>10 DEF ForeachIn, InRange
<1>2. RegisterInv /\ SpanInv => ForeachVisitsRange
  BY <1>1 DEF ForeachVisitsRange
<1>. QED BY <1>2, InvAlways, SpanInvAlways, PTL
================================================================================
