----------------------- MODULE VersionedPersistenceProofs -----------------------
(***************************************************************************)
(* Proofs about versioned persistence, for all sets of specifications and  *)
(* sections of every length.                                               *)
(*                                                                         *)
(* A call is a set of outcomes.  Of each part of a call there is a lemma   *)
(* that says what it does to the parts of a world (...Does), and, where    *)
(* something must be possible, one that says there is an outcome without   *)
(* a failing access (...May).  From those follows what calls keep          *)
(* (...Keeps): the bits are true of the medium (Truthful).                 *)
(***************************************************************************)
EXTENDS VersionedPersistence, SequenceTheorems, TLAPS

\* Worlds by their shape.  What a checksum is of has no set.
StateBits == {"META_CACHE_ACTIVE", "META_CACHE_FROM_STORAGE", "META_CONSISTENT",
              "PAYLOAD_CONSISTENT", "PAYLOAD_COMPATIBLE", "LENGTH_COMPATIBLE",
              "VERSION_COMPATIBLE"}
Lengths   == 0 .. MaxLength

IsHeader(h) ==
  h = [hsum |-> h.hsum, version |-> h.version, length |-> h.length, psum |-> h.psum]
IsMedium(m) ==
  m = [hsum |-> m.hsum, version |-> m.version, length |-> m.length, psum |-> m.psum, data |-> m.data]
IsWorld(w) ==
  w = [med |-> w.med, block |-> w.block, flags |-> w.flags, spec |-> w.spec, rc |-> w.rc]

ProperHeader(h) == IsHeader(h) /\ h.version \in Nat /\ h.length \in Lengths
ProperMedium(m) == IsMedium(m) /\ m.version \in Nat /\ m.length \in Lengths /\ m.data \in Data
Proper(w) ==
  /\ IsWorld(w) /\ ProperMedium(w.med) /\ ProperHeader(w.block)
  /\ w.flags \subseteq StateBits /\ w.spec \in Specs

USE SpecAssumption

(***************************************************************************)
(* Blocks of octets.                                                       *)
(***************************************************************************)

LEMMA BlockType ==
  ASSUME NEW cells \in Blocks
  PROVE  cells \in Seq(Cell) /\ Len(cells) \in Lengths /\ cells \in [1 .. Len(cells) -> Cell]
<1>1. PICK n \in 0 .. MaxLength : cells \in [1 .. n -> Cell]
  BY DEF Blocks
<1>2. n \in Nat
  OBVIOUS
<1>3. cells \in Seq(Cell) /\ Len(cells) = n
  BY <1>1, <1>2
<1>. QED BY <1>1, <1>3 DEF Lengths

LEMMA DataType ==
  ASSUME NEW data \in Data
  PROVE  data \in Seq(Cell) /\ Len(data) = MaxLength
BY DEF Data

LEMMA PrefixType ==
  ASSUME NEW cells \in Blocks, NEW n \in 0 .. Len(cells)
  PROVE  SubSeq(cells, 1, n) \in Blocks
<1>1. /\ cells \in Seq(Cell) /\ Len(cells) \in Nat /\ Len(cells) <= MaxLength
      /\ cells \in [1 .. Len(cells) -> Cell] /\ n \in Nat /\ n <= Len(cells)
  BY BlockType DEF Lengths
<1>2. \A i \in 1 .. n : cells[i] \in Cell
  BY <1>1
<1>3. SubSeq(cells, 1, n) = [i \in 1 .. n |-> cells[i]]
  BY <1>1
<1>4. SubSeq(cells, 1, n) \in [1 .. n -> Cell]
  BY <1>2, <1>3
<1>5. n \in 0 .. MaxLength
  BY <1>1
<1>. QED BY <1>4, <1>5 DEF Blocks

LEMMA RepeatType ==
  ASSUME NEW cell \in Cell, NEW n \in 0 .. MaxLength
  PROVE  [i \in 1 .. n |-> cell] \in Blocks
BY DEF Blocks

LEMMA OverlayType ==
  ASSUME NEW data \in Data, NEW off \in 0 .. MaxLength, NEW cells \in Blocks
  PROVE  Overlay(data, off, cells) \in Data
<1>1. Len(data) = MaxLength /\ data \in [1 .. MaxLength -> Cell]
  BY DataType DEF Data
<1>2. Len(cells) \in Nat /\ cells \in [1 .. Len(cells) -> Cell]
  BY BlockType DEF Lengths
<1>3. ASSUME NEW i \in 1 .. MaxLength, i \in off + 1 .. off + Len(cells)
      PROVE  cells[i - off] \in Cell
  <2>1. i - off \in 1 .. Len(cells)
    BY <1>2, <1>3
  <2>. QED BY <1>2, <2>1
<1>. QED BY <1>1, <1>3 DEF Overlay, Data

(***************************************************************************)
(* The parts of a call, by what they do to the parts of a world.           *)
(***************************************************************************)

LEMMA HeaderFields ==
  ASSUME NEW h, IsHeader(h), NEW x
  PROVE  /\ [h EXCEPT !.hsum = x] = [hsum |-> x, version |-> h.version, length |-> h.length, psum |-> h.psum]
         /\ [h EXCEPT !.psum = x] = [hsum |-> h.hsum, version |-> h.version, length |-> h.length, psum |-> x]
         /\ [h EXCEPT !.version = x] = [hsum |-> h.hsum, version |-> x, length |-> h.length, psum |-> h.psum]
         /\ [h EXCEPT !.length = x] = [hsum |-> h.hsum, version |-> h.version, length |-> x, psum |-> h.psum]
BY DEF IsHeader

LEMMA MediumFields ==
  ASSUME NEW m, IsMedium(m), NEW x
  PROVE  /\ [m EXCEPT !.hsum = x] = [hsum |-> x, version |-> m.version, length |-> m.length, psum |-> m.psum, data |-> m.data]
         /\ [m EXCEPT !.version = x] = [hsum |-> m.hsum, version |-> x, length |-> m.length, psum |-> m.psum, data |-> m.data]
         /\ [m EXCEPT !.length = x] = [hsum |-> m.hsum, version |-> m.version, length |-> x, psum |-> m.psum, data |-> m.data]
         /\ [m EXCEPT !.psum = x] = [hsum |-> m.hsum, version |-> m.version, length |-> m.length, psum |-> x, data |-> m.data]
         /\ [m EXCEPT !.data = x] = [hsum |-> m.hsum, version |-> m.version, length |-> m.length, psum |-> m.psum, data |-> x]
BY DEF IsMedium

LEMMA WorldFields ==
  ASSUME NEW w, IsWorld(w), NEW x
  PROVE  /\ [w EXCEPT !.med = x] = [med |-> x, block |-> w.block, flags |-> w.flags, spec |-> w.spec, rc |-> w.rc]
         /\ [w EXCEPT !.block = x] = [med |-> w.med, block |-> x, flags |-> w.flags, spec |-> w.spec, rc |-> w.rc]
         /\ [w EXCEPT !.flags = x] = [med |-> w.med, block |-> w.block, flags |-> x, spec |-> w.spec, rc |-> w.rc]
         /\ [w EXCEPT !.rc = x] = [med |-> w.med, block |-> w.block, flags |-> w.flags, spec |-> w.spec, rc |-> x]
BY DEF IsWorld

LEMMA FailsDoes ==
  ASSUME NEW w, IsWorld(w), NEW code
  PROVE  Fails(w, code) = [med |-> w.med, block |-> w.block, flags |-> w.flags, spec |-> w.spec, rc |-> code]
BY WorldFields DEF Fails

\* Bits that LoadMetaFromSpec() leaves alone.
CacheBits == {"META_CACHE_ACTIVE", "META_CACHE_FROM_STORAGE"}

LEMMA LoadMetaFromSpecDoes ==
  ASSUME NEW w, Proper(w)
  PROVE  LET c == LoadMetaFromSpec(w)
         IN  /\ Proper(c) /\ c.med = w.med /\ c.spec = w.spec /\ c.rc = w.rc
             /\ c.block.version = w.spec.version /\ c.block.length = w.spec.length
             /\ c.flags \ CacheBits = w.flags \ CacheBits /\ "META_CACHE_ACTIVE" \in c.flags
<1>. DEFINE b == [w.block EXCEPT !.version = w.spec.version]
            d == [b EXCEPT !.length = w.spec.length]
            v == [w EXCEPT !.block = b]
            x == [v EXCEPT !.block = d]
            f == w.flags \cup {"META_CACHE_ACTIVE"}
            g == f \ {"META_CACHE_FROM_STORAGE"}
<1>1. b = [hsum |-> w.block.hsum, version |-> w.spec.version, length |-> w.block.length, psum |-> w.block.psum]
  BY HeaderFields DEF Proper, ProperHeader
<1>2. d = [hsum |-> w.block.hsum, version |-> w.spec.version, length |-> w.spec.length, psum |-> w.block.psum]
  <2>. HIDE DEF b
  <2>1. IsHeader(b)
    BY <1>1 DEF IsHeader
  <2>2. \A l : [b EXCEPT !.length = l]
                 = [hsum |-> b.hsum, version |-> b.version, length |-> l, psum |-> b.psum]
    BY <2>1, HeaderFields
  <2>. QED BY <1>1, <2>2
<1>3. x = [med |-> w.med, block |-> d, flags |-> w.flags, spec |-> w.spec, rc |-> w.rc]
  <2>. HIDE DEF b, d
  <2>1. v = [med |-> w.med, block |-> b, flags |-> w.flags, spec |-> w.spec, rc |-> w.rc]
    BY WorldFields DEF Proper
  <2>2. IsWorld(v)
    BY <2>1 DEF IsWorld
  <2>. HIDE DEF v
  <2>3. x = [med |-> v.med, block |-> d, flags |-> v.flags, spec |-> v.spec, rc |-> v.rc]
    BY <2>2, WorldFields
  <2>. QED BY <2>1, <2>3
<1>4. LoadMetaFromSpec(w) = ClearBits(SetBits(x, {"META_CACHE_ACTIVE"}), {"META_CACHE_FROM_STORAGE"})
  <2>1. v.block = b
    <3>. HIDE DEF b
    <3>. QED BY WorldFields DEF Proper
  <2>. QED BY <2>1 DEF LoadMetaFromSpec
<1>. HIDE DEF b, d, v, x
<1>5. LoadMetaFromSpec(w) = [med |-> w.med, block |-> d, flags |-> g, spec |-> w.spec, rc |-> w.rc]
  BY <1>3, <1>4 DEF SetBits, ClearBits
<1>6. w.spec.version \in Nat /\ w.spec.length \in Lengths
  BY DEF Proper, Lengths
<1>7. g \subseteq StateBits /\ g \ CacheBits = w.flags \ CacheBits /\ "META_CACHE_ACTIVE" \in g
  BY DEF Proper, StateBits, CacheBits
<1>. HIDE DEF g
<1>. QED BY <1>2, <1>5, <1>6, <1>7 DEF Proper, ProperHeader, IsHeader, IsWorld

LEMMA WithCacheDoes ==
  ASSUME NEW w, Proper(w)
  PROVE  LET c == WithCache(w)
         IN  /\ Proper(c) /\ c.med = w.med /\ c.spec = w.spec /\ c.rc = w.rc
             /\ "META_CACHE_ACTIVE" \in w.flags => c = w
             /\ "META_CACHE_ACTIVE" \notin w.flags =>
                  c.block.version = w.spec.version /\ c.block.length = w.spec.length
             /\ c.flags \ CacheBits = w.flags \ CacheBits /\ "META_CACHE_ACTIVE" \in c.flags
<1>1. CASE "META_CACHE_ACTIVE" \in w.flags
  BY <1>1 DEF WithCache
<1>2. CASE "META_CACHE_ACTIVE" \notin w.flags
  BY <1>2, LoadMetaFromSpecDoes DEF WithCache
<1>. QED BY <1>1, <1>2

SameHeader(a, b) ==
  a.hsum = b.hsum /\ a.version = b.version /\ a.length = b.length /\ a.psum = b.psum

LEMMA PutPayloadDoes ==
  ASSUME NEW w, Proper(w), NEW off \in Lengths, NEW cells \in Blocks,
         NEW u \in PutPayload(w, off, cells)
  PROVE  /\ Proper(u) /\ u.block = w.block /\ u.flags = w.flags /\ u.spec = w.spec
         /\ SameHeader(u.med, w.med)
         /\ \/ u.rc = w.rc /\ u.med.data = Overlay(w.med.data, off, cells)
            \/ u.rc = "EIO"
<1>. DEFINE Put(data) == [w EXCEPT !.med = [w.med EXCEPT !.data = data]]
<1>1. ASSUME NEW data \in Data
      PROVE  /\ Put(data) = [med |-> [w.med EXCEPT !.data = data], block |-> w.block, flags |-> w.flags,
                             spec |-> w.spec, rc |-> w.rc]
             /\ Proper(Put(data)) /\ SameHeader(Put(data).med, w.med) /\ Put(data).med.data = data
  <2>. DEFINE m == [w.med EXCEPT !.data = data]
  <2>1. m = [hsum |-> w.med.hsum, version |-> w.med.version, length |-> w.med.length,
             psum |-> w.med.psum, data |-> data]
    BY MediumFields DEF Proper, ProperMedium
  <2>2. ProperMedium(m) /\ SameHeader(m, w.med) /\ m.data = data
    <3>. HIDE DEF m
    <3>. QED BY <2>1 DEF Proper, ProperMedium, IsMedium, SameHeader
  <2>. HIDE DEF m
  <2>3. [w EXCEPT !.med = m] = [med |-> m, block |-> w.block, flags |-> w.flags, spec |-> w.spec, rc |-> w.rc]
    BY WorldFields DEF Proper
  <2>4. Put(data) = [w EXCEPT !.med = m]
    BY DEF m
  <2>. HIDE DEF Put
  <2>5. Proper(Put(data)) /\ SameHeader(Put(data).med, w.med) /\ Put(data).med.data = data
    BY <2>2, <2>3, <2>4 DEF Proper, IsWorld
  <2>. QED BY <2>3, <2>4, <2>5 DEF m
<1>2. w.med.data \in Data
  BY DEF Proper, ProperMedium
<1>3. CASE u = Put(Overlay(w.med.data, off, cells))
  <2>1. Overlay(w.med.data, off, cells) \in Data
    BY <1>2, OverlayType DEF Lengths
  <2>. HIDE DEF Put
  <2>. QED BY <1>1, <1>3, <2>1
<1>4. ASSUME NEW n \in 0 .. Len(cells),
             u = [Put(Overlay(w.med.data, off, SubSeq(cells, 1, n))) EXCEPT !.rc = "EIO"]
      PROVE  /\ Proper(u) /\ u.block = w.block /\ u.flags = w.flags /\ u.spec = w.spec
             /\ SameHeader(u.med, w.med) /\ u.rc = "EIO"
  <2>. DEFINE data == Overlay(w.med.data, off, SubSeq(cells, 1, n))
  <2>1. data \in Data
    BY <1>2, OverlayType, PrefixType DEF Lengths
  <2>. HIDE DEF data, Put
  <2>2. /\ Put(data).block = w.block /\ Put(data).flags = w.flags /\ Put(data).spec = w.spec
        /\ Proper(Put(data)) /\ SameHeader(Put(data).med, w.med) /\ IsWorld(Put(data))
    BY <1>1, <2>1 DEF Proper
  <2>3. u = [med |-> Put(data).med, block |-> Put(data).block, flags |-> Put(data).flags,
             spec |-> Put(data).spec, rc |-> "EIO"]
    BY <1>4, <2>2, WorldFields DEF data
  <2>. QED BY <2>2, <2>3 DEF Proper, IsWorld
<1>5. u = Put(Overlay(w.med.data, off, cells)) \/
      \E n \in 0 .. Len(cells) : u = [Put(Overlay(w.med.data, off, SubSeq(cells, 1, n))) EXCEPT !.rc = "EIO"]
  BY DEF PutPayload
<1>. HIDE DEF Put
<1>. QED BY <1>1, <1>3, <1>4, <1>5

\* A checksum is that of one piece of data only.
LEMMA SumsTellApart ==
  /\ \A a, b : Sum(a) = Sum(b) => a = b
  /\ \A a : Sum(a) # TornSum /\ Sum(a).kind = "correct"
<1>1. \A a : Sum(a).of = a /\ Sum(a).kind = "correct" /\ TornSum.kind = "torn"
  BY DEF Sum, TornSum
<1>2. \A a, b : Sum(a) = Sum(b) => a = b
  BY <1>1
<1>3. \A a : Sum(a) # TornSum
  <2>. SUFFICES ASSUME NEW a, Sum(a) = TornSum PROVE FALSE
    OBVIOUS
  <2>1. "correct" = "torn"
    BY <1>1
  <2>. QED BY <2>1
<1>. QED BY <1>1, <1>2, <1>3

LEMMA SameSums ==
  ASSUME NEW a, NEW b, HeaderSum(a) = HeaderSum(b)
  PROVE  a.version = b.version /\ a.length = b.length /\ a.psum = b.psum
<1>1. <<a.version, a.length, a.psum>> = <<b.version, b.length, b.psum>>
  BY SumsTellApart DEF HeaderSum
<1>. QED BY <1>1

\* Of the headers a call can leave that is cut short, the ones that look intact are
\* the one of before and the one it was to write.
LEMMA TornDoes ==
  ASSUME NEW m, ProperMedium(m), NEW new, ProperHeader(new), NEW t \in TornHeaders(m, new)
  PROVE  /\ ProperMedium(t) /\ t.data = m.data
         /\ (HeaderIntact(new) /\ HeaderIntact(t)) => SameHeader(t, m) \/ SameHeader(t, new)
<1>. DEFINE Lit(a, b, c, d) == [hsum |-> a, version |-> b, length |-> c, psum |-> d, data |-> m.data]
            One(a)         == [m EXCEPT !.hsum = a]
            Two(a, b)      == [m EXCEPT !.hsum = a, !.version = b]
            Three(a, b, c) == [m EXCEPT !.hsum = a, !.version = b, !.length = c]
            Four(a, b, c, d) == [m EXCEPT !.hsum = a, !.version = b, !.length = c, !.psum = d]
<1>1. ASSUME NEW a, NEW b, NEW c, NEW d
      PROVE  /\ One(a) = Lit(a, m.version, m.length, m.psum)
             /\ Two(a, b) = Lit(a, b, m.length, m.psum)
             /\ Three(a, b, c) = Lit(a, b, c, m.psum)
             /\ Four(a, b, c, d) = Lit(a, b, c, d)
  <2>0. ASSUME NEW v, IsMedium(v), NEW x
        PROVE
          /\ [v EXCEPT !.version = x] = [hsum |-> v.hsum, version |-> x, length |-> v.length, psum |-> v.psum, data |-> v.data]
          /\ [v EXCEPT !.length = x] = [hsum |-> v.hsum, version |-> v.version, length |-> x, psum |-> v.psum, data |-> v.data]
          /\ [v EXCEPT !.psum = x] = [hsum |-> v.hsum, version |-> v.version, length |-> v.length, psum |-> x, data |-> v.data]
    BY <2>0 DEF IsMedium
  <2>. DEFINE k == [m EXCEPT !.hsum = a]
              l == [k EXCEPT !.version = b]
              n == [l EXCEPT !.length = c]
              o == [n EXCEPT !.psum = d]
  <2>1. k = Lit(a, m.version, m.length, m.psum)
    BY MediumFields DEF ProperMedium
  <2>. HIDE DEF k
  <2>2. IsMedium(k) /\ k.hsum = a /\ k.length = m.length /\ k.psum = m.psum /\ k.data = m.data
    BY <2>1 DEF IsMedium
  <2>3. l = Lit(a, b, m.length, m.psum)
    <3>1. l = [hsum |-> k.hsum, version |-> b, length |-> k.length, psum |-> k.psum, data |-> k.data]
      BY <2>0, <2>2
    <3>. QED BY <2>2, <3>1
  <2>. HIDE DEF l
  <2>4. IsMedium(l) /\ l.hsum = a /\ l.version = b /\ l.psum = m.psum /\ l.data = m.data
    BY <2>3 DEF IsMedium
  <2>5. n = Lit(a, b, c, m.psum)
    <3>1. n = [hsum |-> l.hsum, version |-> l.version, length |-> c, psum |-> l.psum, data |-> l.data]
      BY <2>0, <2>4
    <3>. QED BY <2>4, <3>1
  <2>. HIDE DEF n
  <2>6. IsMedium(n) /\ n.hsum = a /\ n.version = b /\ n.length = c /\ n.data = m.data
    BY <2>5 DEF IsMedium
  <2>7. o = Lit(a, b, c, d)
    <3>1. o = [hsum |-> n.hsum, version |-> n.version, length |-> n.length, psum |-> d, data |-> n.data]
      BY <2>0, <2>6
    <3>. QED BY <2>6, <3>1
  <2>. HIDE DEF o, Lit
  <2>. QED BY <2>1, <2>3, <2>5, <2>7 DEF k, l, n, o
<1>2. PICK a, b, c, d :
        /\ t = Lit(a, b, c, d)
        /\ \/ t = m
           \/ a = HalfSum(m.hsum, new.hsum) /\ b = m.version /\ c = m.length /\ d = m.psum
           \/ a = new.hsum
        /\ b \in {m.version, new.version} /\ c \in {m.length, new.length}
  <2>0. m = Lit(m.hsum, m.version, m.length, m.psum)
    BY DEF ProperMedium, IsMedium
  <2>a. \/ t = m
        \/ t = One(HalfSum(m.hsum, new.hsum))
        \/ t = One(new.hsum)
        \/ t = Two(new.hsum, new.version)
        \/ t = Three(new.hsum, new.version, new.length)
        \/ t = Four(new.hsum, new.version, new.length, HalfSum(m.psum, new.psum))
        \/ t = Four(new.hsum, new.version, new.length, new.psum)
    BY Zenon DEF TornHeaders
  <2>. HIDE DEF Lit, One, Two, Three, Four
  <2>1. \/ t = m
        \/ t = Lit(HalfSum(m.hsum, new.hsum), m.version, m.length, m.psum)
        \/ t = Lit(new.hsum, m.version, m.length, m.psum)
        \/ t = Lit(new.hsum, new.version, m.length, m.psum)
        \/ t = Lit(new.hsum, new.version, new.length, m.psum)
        \/ t = Lit(new.hsum, new.version, new.length, HalfSum(m.psum, new.psum))
        \/ t = Lit(new.hsum, new.version, new.length, new.psum)
    BY <1>1, <2>a
  <2>. QED BY <2>0, <2>1
<1>3. t.hsum = a /\ t.version = b /\ t.length = c /\ t.psum = d /\ t.data = m.data /\ IsMedium(t)
  BY <1>2 DEF IsMedium
<1>4. ProperMedium(t)
  BY <1>2, <1>3 DEF ProperMedium, ProperHeader
<1>5. ASSUME HeaderIntact(new), HeaderIntact(t)
      PROVE  SameHeader(t, m) \/ SameHeader(t, new)
  <2>1. CASE t = m
    BY <2>1 DEF SameHeader
  <2>2. CASE a = HalfSum(m.hsum, new.hsum) /\ b = m.version /\ c = m.length /\ d = m.psum
    <3>1. a # TornSum
      BY <1>3, <1>5, SumsTellApart DEF HeaderIntact, HeaderSum
    <3>2. a = m.hsum
      BY <2>2, <3>1 DEF HalfSum
    <3>. QED BY <1>3, <2>2, <3>2 DEF SameHeader
  <2>3. CASE a = new.hsum
    <3>1. HeaderSum(t) = HeaderSum(new)
      BY <1>3, <1>5, <2>3 DEF HeaderIntact
    <3>. QED BY <1>3, <2>3, <3>1, SameSums DEF SameHeader
  <2>. QED BY <1>2, <2>1, <2>2, <2>3
<1>. QED BY <1>3, <1>4, <1>5

LEMMA Rebuilt ==
  ASSUME NEW w, Proper(w), NEW m, ProperMedium(m), NEW b, ProperHeader(b),
         NEW f, f \subseteq StateBits, NEW c, NEW u,
         u = [med |-> m, block |-> b, flags |-> f, spec |-> w.spec, rc |-> c]
  PROVE  Proper(u) /\ u.med = m /\ u.block = b /\ u.flags = f /\ u.spec = w.spec /\ u.rc = c
BY DEF Proper, IsWorld

LEMMA Parts ==
  ASSUME NEW w, Proper(w)
  PROVE  ProperMedium(w.med) /\ ProperHeader(w.block) /\ w.flags \subseteq StateBits /\ IsWorld(w)
BY DEF Proper

LEMMA FailureIsProper ==
  ASSUME NEW w, Proper(w), NEW code
  PROVE  LET u == Fails(w, code)
         IN  /\ Proper(u) /\ u.med = w.med /\ u.block = w.block /\ u.flags = w.flags
             /\ u.spec = w.spec /\ u.rc = code
BY Parts, FailsDoes, Rebuilt

LEMMA StoreHeaderDoes ==
  ASSUME NEW w, Proper(w), NEW u \in StoreHeader(w)
  PROVE  /\ Proper(u) /\ u.block = w.block /\ u.flags = w.flags /\ u.spec = w.spec
         /\ u.med.data = w.med.data
         /\ \/ u.rc = w.rc /\ SameHeader(u.med, w.block)
            \/ /\ u.rc = "EIO"
               /\ (HeaderIntact(w.block) /\ HeaderIntact(u.med)) =>
                    SameHeader(u.med, w.med) \/ SameHeader(u.med, w.block)
<1>. DEFINE written == [data |-> w.med.data, hsum |-> w.block.hsum, version |-> w.block.version,
                        length |-> w.block.length, psum |-> w.block.psum]
            done == [w EXCEPT !.med = written]
            cut(m) == [w EXCEPT !.med = m, !.rc = "EIO"]
<1>1. ProperMedium(written) /\ SameHeader(written, w.block) /\ written.data = w.med.data
  BY DEF Proper, ProperMedium, ProperHeader, IsMedium, SameHeader
<1>2. CASE u = done
  <2>. HIDE DEF written
  <2>1. u = [med |-> written, block |-> w.block, flags |-> w.flags, spec |-> w.spec, rc |-> w.rc]
    BY <1>2, Parts, WorldFields
  <2>. QED BY <1>1, <2>1, Parts, Rebuilt
<1>3. ASSUME NEW m \in TornHeaders(w.med, w.block), u = cut(m)
      PROVE  /\ Proper(u) /\ u.block = w.block /\ u.flags = w.flags /\ u.spec = w.spec
             /\ u.med = m /\ u.rc = "EIO" /\ m.data = w.med.data
             /\ (HeaderIntact(w.block) /\ HeaderIntact(m)) =>
                    SameHeader(m, w.med) \/ SameHeader(m, w.block)
  <2>. DEFINE v == [w EXCEPT !.med = m]
  <2>1. /\ ProperMedium(m) /\ m.data = w.med.data
        /\ (HeaderIntact(w.block) /\ HeaderIntact(m)) =>
                    SameHeader(m, w.med) \/ SameHeader(m, w.block)
    BY Parts, TornDoes
  <2>2. v = [med |-> m, block |-> w.block, flags |-> w.flags, spec |-> w.spec, rc |-> w.rc]
    BY Parts, WorldFields
  <2>3. u = [v EXCEPT !.rc = "EIO"]
    BY <1>3
  <2>. HIDE DEF v, cut
  <2>4. Proper(v) /\ v.med = m /\ v.block = w.block /\ v.flags = w.flags /\ v.spec = w.spec
    BY <2>1, <2>2, Parts, Rebuilt
  <2>5. u = [med |-> v.med, block |-> v.block, flags |-> v.flags, spec |-> v.spec, rc |-> "EIO"]
    BY <2>3, <2>4, Parts, WorldFields
  <2>6. u = [med |-> m, block |-> w.block, flags |-> w.flags, spec |-> w.spec, rc |-> "EIO"]
    BY <2>4, <2>5
  <2>. QED BY <2>1, <2>6, Parts, Rebuilt
<1>4. u = done \/ \E m \in TornHeaders(w.med, w.block) : u = cut(m)
  BY DEF StoreHeader
<1>. HIDE DEF done, cut, written
<1>5. CASE u = done
  BY <1>1, <1>2, <1>5
<1>6. CASE \E m \in TornHeaders(w.med, w.block) : u = cut(m)
  BY <1>3, <1>6
<1>. QED BY <1>4, <1>5, <1>6

LEMMA StoreHeaderMay ==
  ASSUME NEW w, Proper(w)
  PROVE  \E u \in StoreHeader(w) : u.rc = w.rc
<1>. DEFINE written == [data |-> w.med.data, hsum |-> w.block.hsum, version |-> w.block.version,
                        length |-> w.block.length, psum |-> w.block.psum]
            done == [w EXCEPT !.med = written]
<1>1. done \in StoreHeader(w)
  BY DEF StoreHeader
<1>. HIDE DEF written
<1>2. done = [med |-> written, block |-> w.block, flags |-> w.flags, spec |-> w.spec, rc |-> w.rc]
  BY Parts, WorldFields
<1>. HIDE DEF done
<1>3. done.rc = w.rc
  BY <1>2
<1>. QED BY <1>1, <1>3

LEMMA PutPayloadMay ==
  ASSUME NEW w, Proper(w), NEW off, NEW cells
  PROVE  \E u \in PutPayload(w, off, cells) : u.rc = w.rc
<1>. DEFINE m == [w.med EXCEPT !.data = Overlay(w.med.data, off, cells)]
            done == [w EXCEPT !.med = m]
<1>1. done \in PutPayload(w, off, cells)
  BY DEF PutPayload
<1>. HIDE DEF m
<1>2. done = [med |-> m, block |-> w.block, flags |-> w.flags, spec |-> w.spec, rc |-> w.rc]
  BY Parts, WorldFields
<1>. HIDE DEF done
<1>3. done.rc = w.rc
  BY <1>2
<1>. QED BY <1>1, <1>3

LEMMA HeaderOfDoes ==
  ASSUME NEW m, ProperMedium(m)
  PROVE  LET h == HeaderOf(m)
         IN  /\ ProperHeader(h) /\ SameHeader(h, m) /\ HeaderSum(h) = HeaderSum(m)
             /\ HeaderIntact(h) <=> HeaderIntact(m)
BY DEF HeaderOf, ProperMedium, ProperHeader, IsHeader, SameHeader, HeaderIntact, HeaderSum

LEMMA ReadMetaDoes ==
  ASSUME NEW w, Proper(w), NEW u \in ReadMeta(w)
  PROVE  /\ Proper(u) /\ u.med = w.med /\ u.spec = w.spec
         /\ \/ u.rc = "EIO"
            \/ /\ HeaderIntact(w.med) /\ u.rc = w.rc
               /\ SameHeader(u.block, w.med) /\ u.flags = w.flags \cup MetaMask
            \/ ~HeaderIntact(w.med) /\ u.rc = "EBADFD" /\ u.flags = w.flags \ MetaMask
<1>. DEFINE h == HeaderOf(w.med)
            r == [w EXCEPT !.block = h]
<1>1. ProperHeader(h) /\ SameHeader(h, w.med) /\ (HeaderIntact(h) <=> HeaderIntact(w.med))
  BY Parts, HeaderOfDoes
<1>2. u = Fails(w, "EIO") \/ u = IF HeaderIntact(h) THEN SetBits(r, MetaMask) ELSE Fails(ClearBits(r, MetaMask), "EBADFD")
  BY DEF ReadMeta
<1>. HIDE DEF h
<1>3. r = [med |-> w.med, block |-> h, flags |-> w.flags, spec |-> w.spec, rc |-> w.rc]
  BY Parts, WorldFields
<1>. HIDE DEF r
<1>4. Proper(r) /\ r.med = w.med /\ r.block = h /\ r.flags = w.flags /\ r.spec = w.spec /\ r.rc = w.rc
  BY <1>1, <1>3, Parts, Rebuilt
<1>5. MetaMask \subseteq StateBits
  BY DEF MetaMask, StateBits
<1>6. SetBits(r, MetaMask) = [med |-> w.med, block |-> h, flags |-> w.flags \cup MetaMask, spec |-> w.spec, rc |-> w.rc]
  <2>1. SetBits(r, MetaMask) = [med |-> r.med, block |-> r.block, flags |-> r.flags \cup MetaMask, spec |-> r.spec, rc |-> r.rc]
    BY <1>4, Parts, WorldFields DEF SetBits
  <2>. QED BY <1>4, <2>1
<1>7. ClearBits(r, MetaMask) = [med |-> w.med, block |-> h, flags |-> w.flags \ MetaMask, spec |-> w.spec, rc |-> w.rc]
  <2>1. ClearBits(r, MetaMask) = [med |-> r.med, block |-> r.block, flags |-> r.flags \ MetaMask, spec |-> r.spec, rc |-> r.rc]
    BY <1>4, Parts, WorldFields DEF ClearBits
  <2>. QED BY <1>4, <2>1
<1>8. w.flags \cup MetaMask \subseteq StateBits /\ w.flags \ MetaMask \subseteq StateBits
  BY <1>5, Parts
<1>9. CASE u = Fails(w, "EIO")
  BY <1>9, FailureIsProper
<1>10. CASE HeaderIntact(h) /\ u = SetBits(r, MetaMask)
  <2>1. Proper(u) /\ u.med = w.med /\ u.block = h /\ u.flags = w.flags \cup MetaMask /\ u.spec = w.spec /\ u.rc = w.rc
    BY <1>1, <1>6, <1>8, <1>10, Parts, Rebuilt
  <2>. QED BY <1>1, <1>10, <2>1
<1>11. CASE ~HeaderIntact(h) /\ u = Fails(ClearBits(r, MetaMask), "EBADFD")
  <2>. DEFINE v == ClearBits(r, MetaMask)
  <2>1. Proper(v) /\ v.med = w.med /\ v.flags = w.flags \ MetaMask /\ v.spec = w.spec
    BY <1>1, <1>7, <1>8, Parts, Rebuilt
  <2>. HIDE DEF v
  <2>2. u = Fails(v, "EBADFD")
    BY <1>11 DEF v
  <2>. QED BY <1>1, <1>11, <2>1, <2>2, FailureIsProper
<1>. QED BY <1>2, <1>9, <1>10, <1>11

LEMMA ReadMetaMay ==
  ASSUME NEW w, Proper(w), HeaderIntact(w.med)
  PROVE  \E u \in ReadMeta(w) : u.rc = w.rc
<1>. DEFINE h == HeaderOf(w.med)
            r == [w EXCEPT !.block = h]
            u == SetBits(r, MetaMask)
<1>1. u \in ReadMeta(w)
  <2>1. HeaderIntact(h)
    BY Parts, HeaderOfDoes
  <2>. HIDE DEF u
  <2>. QED BY <2>1 DEF ReadMeta, u
<1>. HIDE DEF h
<1>2. r = [med |-> w.med, block |-> h, flags |-> w.flags, spec |-> w.spec, rc |-> w.rc]
  BY Parts, WorldFields
<1>. HIDE DEF r
<1>3. IsWorld(r)
  BY <1>2 DEF IsWorld
<1>4. u = [med |-> r.med, block |-> r.block, flags |-> r.flags \cup MetaMask, spec |-> r.spec, rc |-> r.rc]
  BY <1>3, WorldFields DEF SetBits
<1>. HIDE DEF u
<1>. QED BY <1>1, <1>2, <1>4

LEMMA VerifyPayloadDoes ==
  ASSUME NEW w, Proper(w), NEW n, NEW u \in VerifyPayload(w, n)
  PROVE  /\ Proper(u) /\ u.med = w.med /\ u.block = w.block /\ u.flags = w.flags /\ u.spec = w.spec
         /\ \/ u.rc = "EIO"
            \/ u.rc = w.rc /\ w.block.psum = Sum(Payload(w.med, n))
            \/ u.rc = "EBADMSG" /\ w.block.psum # Sum(Payload(w.med, n))
<1>1. \/ u = Fails(w, "EIO")
      \/ u = w /\ w.block.psum = Sum(Payload(w.med, n))
      \/ u = Fails(w, "EBADMSG") /\ w.block.psum # Sum(Payload(w.med, n))
  BY DEF VerifyPayload
<1>. QED BY <1>1, FailureIsProper

LEMMA ChecksummedDoes ==
  ASSUME NEW h, ProperHeader(h), NEW data
  PROVE  LET b == Checksummed(h, data)
         IN  /\ ProperHeader(b) /\ b.version = h.version /\ b.length = h.length
             /\ b.psum = Sum(SubSeq(data, 1, h.length)) /\ HeaderIntact(b)
<1>. DEFINE new == [h EXCEPT !.psum = Sum(SubSeq(data, 1, h.length))]
            b == [new EXCEPT !.hsum = HeaderSum(new)]
<1>0. Checksummed(h, data) = b
  BY DEF Checksummed
<1>1. new = [hsum |-> h.hsum, version |-> h.version, length |-> h.length,
             psum |-> Sum(SubSeq(data, 1, h.length))]
  BY HeaderFields DEF ProperHeader
<1>. HIDE DEF new
<1>2. /\ IsHeader(new) /\ new.version = h.version /\ new.length = h.length
      /\ new.psum = Sum(SubSeq(data, 1, h.length))
  BY <1>1 DEF IsHeader
<1>3. b = [hsum |-> HeaderSum(new), version |-> new.version, length |-> new.length, psum |-> new.psum]
  BY <1>2, HeaderFields
<1>. HIDE DEF b
<1>4. b.hsum = HeaderSum(new) /\ b.version = new.version /\ b.length = new.length /\ b.psum = new.psum /\ IsHeader(b)
  BY <1>3 DEF IsHeader
<1>5. HeaderIntact(b)
  BY <1>4 DEF HeaderIntact, HeaderSum
<1>. QED BY <1>0, <1>2, <1>4, <1>5 DEF ProperHeader

LEMMA UpdateChecksumsDoes ==
  ASSUME NEW w, Proper(w), NEW u \in UpdateChecksums(w)
  PROVE  /\ Proper(u) /\ u.med = w.med /\ u.flags = w.flags /\ u.spec = w.spec
         /\ \/ u.rc = "EIO"
            \/ u.rc = w.rc /\ u.block = Checksummed(w.block, w.med.data)
<1>. DEFINE b == Checksummed(w.block, w.med.data)
            v == [w EXCEPT !.block = b]
<1>1. u = Fails(w, "EIO") \/ u = v
  BY DEF UpdateChecksums
<1>2. ProperHeader(b)
  BY ChecksummedDoes DEF Proper
<1>. HIDE DEF b
<1>3. v = [med |-> w.med, block |-> b, flags |-> w.flags, spec |-> w.spec, rc |-> w.rc]
  BY Parts, WorldFields
<1>. HIDE DEF v
<1>4. Proper(v) /\ v.med = w.med /\ v.block = b /\ v.flags = w.flags /\ v.spec = w.spec /\ v.rc = w.rc
  BY <1>2, <1>3, Parts, Rebuilt
<1>. QED BY <1>1, <1>4, FailureIsProper DEF b

LEMMA UpdateChecksumsMay ==
  ASSUME NEW w, Proper(w)
  PROVE  \E u \in UpdateChecksums(w) : u.rc = w.rc
<1>. DEFINE b == Checksummed(w.block, w.med.data)
            v == [w EXCEPT !.block = b]
<1>1. v \in UpdateChecksums(w)
  BY DEF UpdateChecksums
<1>. HIDE DEF b
<1>2. v = [med |-> w.med, block |-> b, flags |-> w.flags, spec |-> w.spec, rc |-> w.rc]
  BY Parts, WorldFields
<1>. HIDE DEF v
<1>. QED BY <1>1, <1>2

(***************************************************************************)
(* vp_update_meta(), and what vp_store() and vp_memset() do with it.       *)
(***************************************************************************)

LEMMA UpdateMetaDoes ==
  ASSUME NEW w, Proper(w), w.rc = "success", "META_CACHE_ACTIVE" \in w.flags,
         NEW u \in UpdateMeta(w)
  PROVE  LET new == Checksummed(w.block, w.med.data)
         IN  /\ Proper(u) /\ u.flags = w.flags /\ u.spec = w.spec /\ u.med.data = w.med.data
             /\ \/ u.rc = "success" /\ u.block = new /\ SameHeader(u.med, new)
                \/ /\ u.rc = "EIO"
                   /\ HeaderIntact(u.med) => SameHeader(u.med, w.med) \/ SameHeader(u.med, new)
<1>. DEFINE new == Checksummed(w.block, w.med.data)
<1>1. WithCache(w) = w
  BY DEF WithCache
<1>2. PICK v \in UpdateChecksums(w) : IF v.rc = "success" THEN u \in StoreHeader(v) ELSE u = v
  BY <1>1 DEF UpdateMeta, Maybe
<1>3. /\ Proper(v) /\ v.med = w.med /\ v.flags = w.flags /\ v.spec = w.spec
      /\ v.rc = "EIO" \/ (v.rc = "success" /\ v.block = new)
  BY UpdateChecksumsDoes
<1>4. HeaderIntact(new)
  BY ChecksummedDoes, Parts
<1>. HIDE DEF new
<1>5. CASE v.rc = "EIO"
  BY <1>2, <1>3, <1>5 DEF SameHeader
<1>6. CASE v.rc = "success" /\ v.block = new
  <2>1. u \in StoreHeader(v)
    BY <1>2, <1>6
  <2>2. /\ Proper(u) /\ u.block = new /\ u.flags = v.flags /\ u.spec = v.spec
        /\ u.med.data = v.med.data
        /\ \/ u.rc = v.rc /\ SameHeader(u.med, new)
           \/ /\ u.rc = "EIO"
              /\ (HeaderIntact(new) /\ HeaderIntact(u.med)) =>
                    SameHeader(u.med, v.med) \/ SameHeader(u.med, new)
    BY <1>3, <1>6, <2>1, StoreHeaderDoes
  <2>. QED BY <1>3, <1>4, <1>6, <2>2 DEF new
<1>. QED BY <1>3, <1>5, <1>6 DEF new

LEMMA UpdateMetaMay ==
  ASSUME NEW w, Proper(w), w.rc = "success", "META_CACHE_ACTIVE" \in w.flags
  PROVE  \E u \in UpdateMeta(w) : u.rc = "success"
<1>1. WithCache(w) = w
  BY DEF WithCache
<1>2. PICK v \in UpdateChecksums(w) : v.rc = "success"
  BY UpdateChecksumsMay
<1>3. PICK u \in StoreHeader(v) : u.rc = "success"
  BY <1>2, UpdateChecksumsDoes, StoreHeaderMay
<1>4. u \in UpdateMeta(w)
  BY <1>1, <1>2, <1>3 DEF UpdateMeta, Maybe
<1>. QED BY <1>3, <1>4

\* What a call does that writes into the payload, and the header it leaves.
Rewrite(c, off, cells) == Maybe(PutPayload(c, off, cells), UpdateMeta)
NewHeader(c, off, cells) == Checksummed(c.block, Overlay(c.med.data, off, cells))

\* Something that is cut short leaves the header of before; or the data and the header
\* it was to leave; or one that does not look intact.
LEMMA RewriteDoes ==
  ASSUME NEW c, Proper(c), c.rc = "success", "META_CACHE_ACTIVE" \in c.flags,
         NEW off \in Lengths, NEW cells \in Blocks, NEW u \in Rewrite(c, off, cells)
  PROVE  LET new == NewHeader(c, off, cells)
             data == Overlay(c.med.data, off, cells)
         IN  /\ Proper(u) /\ u.flags = c.flags /\ u.spec = c.spec
             /\ \/ /\ u.rc = "success" /\ u.block = new /\ SameHeader(u.med, new) /\ u.med.data = data
                \/ /\ u.rc = "EIO"
                   /\ HeaderIntact(u.med) =>
                        \/ SameHeader(u.med, c.med)
                        \/ SameHeader(u.med, new) /\ u.med.data = data
<1>. DEFINE data == Overlay(c.med.data, off, cells)
            new  == Checksummed(c.block, data)
<1>1. PICK v \in PutPayload(c, off, cells) : IF v.rc = "success" THEN u \in UpdateMeta(v) ELSE u = v
  BY DEF Rewrite, Maybe
<1>. HIDE DEF data
<1>2. /\ Proper(v) /\ v.block = c.block /\ v.flags = c.flags /\ v.spec = c.spec
      /\ SameHeader(v.med, c.med)
      /\ (v.rc = "success" /\ v.med.data = data) \/ v.rc = "EIO"
  BY PutPayloadDoes DEF data
<1>3. CASE v.rc = "EIO"
  <2>1. u = v
    BY <1>1, <1>3
  <2>. QED BY <1>2, <1>3, <2>1
<1>4. CASE v.rc = "success" /\ v.med.data = data
  <2>1. u \in UpdateMeta(v)
    BY <1>1, <1>4
  <2>2. /\ Proper(u) /\ u.flags = v.flags /\ u.spec = v.spec /\ u.med.data = data
        /\ \/ u.rc = "success" /\ u.block = new /\ SameHeader(u.med, new)
           \/ /\ u.rc = "EIO"
              /\ HeaderIntact(u.med) => SameHeader(u.med, v.med) \/ SameHeader(u.med, new)
    BY <1>2, <1>4, <2>1, UpdateMetaDoes
  <2>3. SameHeader(u.med, v.med) => SameHeader(u.med, c.med)
    BY <1>2 DEF SameHeader
  <2>. HIDE DEF new
  <2>. QED BY <1>2, <2>2, <2>3 DEF NewHeader, data, new
<1>. QED BY <1>2, <1>3, <1>4

LEMMA RewriteMay ==
  ASSUME NEW c, Proper(c), c.rc = "success", "META_CACHE_ACTIVE" \in c.flags,
         NEW off \in Lengths, NEW cells \in Blocks
  PROVE  \E u \in Rewrite(c, off, cells) : u.rc = "success"
<1>1. PICK v \in PutPayload(c, off, cells) : v.rc = "success"
  BY PutPayloadMay
<1>2. PICK u \in UpdateMeta(v) : u.rc = "success"
  BY <1>1, PutPayloadDoes, UpdateMetaMay
<1>3. u \in Rewrite(c, off, cells)
  BY <1>1, <1>2 DEF Rewrite, Maybe
<1>. QED BY <1>2, <1>3

\* What was rewritten completely is intact.
LEMMA NewIsIntact ==
  ASSUME NEW c, Proper(c), NEW off, NEW cells, NEW m,
         SameHeader(m, NewHeader(c, off, cells)), m.data = Overlay(c.med.data, off, cells)
  PROVE  Intact(m) /\ m.version = c.block.version /\ m.length = c.block.length
<1>. DEFINE new == NewHeader(c, off, cells)
<1>1. /\ new.version = c.block.version /\ new.length = c.block.length /\ HeaderIntact(new)
      /\ new.psum = Sum(SubSeq(m.data, 1, c.block.length))
  BY ChecksummedDoes, Parts DEF NewHeader
<1>. HIDE DEF new
<1>2. HeaderIntact(m)
  BY <1>1 DEF new, SameHeader, HeaderIntact, HeaderSum
<1>3. m.psum = new.psum /\ m.version = new.version /\ m.length = new.length
  BY DEF SameHeader, new
<1>4. HeaderIntact(HeaderOf(m))
  BY <1>2 DEF HeaderIntact, HeaderSum, HeaderOf
<1>. QED BY <1>1, <1>2, <1>3, <1>4 DEF Intact, Payload

\* What calls that write into the payload may do.
LEMMA StoreDoes ==
  ASSUME NEW w, NEW off, NEW cells
  PROVE  LET c == WithCache(w)
         IN  \/ Store(w, off, cells) = {Fails(c, "EINVAL")}
             \/ Store(w, off, cells) = {Fails(c, "EFAULT")}
             \/ Store(w, off, cells) = Rewrite(c, off, cells)
BY DEF Store, Rewrite

LEMMA MemsetDoes ==
  ASSUME NEW w, NEW cell, NEW off, NEW n
  PROVE  LET c == WithCache(w)
         IN  \/ Memset(w, cell, off, n) = {Fails(c, "EINVAL")}
             \/ Memset(w, cell, off, n) = Rewrite(c, off, [i \in 1 .. n |-> cell])
BY DEF Memset, Rewrite

\* A call that writes into the payload returns early, or rewrites the section.
Writing(outcomes, w, off, cells) ==
  LET c == WithCache(w)
  IN  \/ outcomes = {Fails(c, "EINVAL")}
      \/ outcomes = {Fails(c, "EFAULT")}
      \/ outcomes = Rewrite(c, off, cells)

LEMMA WritingSettles ==
  ASSUME NEW outcomes, NEW w, Proper(w), w.rc = "success", NEW off \in Lengths, NEW cells \in Blocks,
         Writing(outcomes, w, off, cells), NEW u \in outcomes, u.rc = "success"
  PROVE  Intact(u.med) /\ u.med.data = Overlay(w.med.data, off, cells)
<1>. DEFINE c == WithCache(w)
<1>1. Proper(c) /\ c.med = w.med /\ c.rc = "success" /\ "META_CACHE_ACTIVE" \in c.flags
  BY WithCacheDoes
<1>2. outcomes \in {{Fails(c, "EINVAL")}, {Fails(c, "EFAULT")}, Rewrite(c, off, cells)}
  BY DEF Writing
<1>. HIDE DEF c
<1>3. Fails(c, "EINVAL").rc = "EINVAL" /\ Fails(c, "EFAULT").rc = "EFAULT"
  BY <1>1, FailureIsProper
<1>4. u \in Rewrite(c, off, cells)
  BY <1>2, <1>3
<1>5. SameHeader(u.med, NewHeader(c, off, cells)) /\ u.med.data = Overlay(c.med.data, off, cells)
  BY <1>1, <1>4, RewriteDoes
<1>. QED BY <1>1, <1>5, NewIsIntact

LEMMA SameSection ==
  ASSUME NEW a, NEW b, SameHeader(a, b), a.data = b.data \/ (Intact(a) /\ Intact(b))
  PROVE  Section(a) = Section(b)
<1>1. a.version = b.version /\ a.length = b.length /\ a.psum = b.psum
  BY DEF SameHeader
<1>2. Payload(a, a.length) = Payload(b, b.length)
  <2>1. CASE a.data = b.data
    BY <1>1, <2>1 DEF Payload
  <2>2. CASE Intact(a) /\ Intact(b)
    <3>1. Sum(Payload(a, a.length)) = Sum(Payload(b, b.length))
      BY <1>1, <2>2 DEF Intact
    <3>. QED BY <3>1, SumsTellApart
  <2>. QED BY <2>1, <2>2
<1>. QED BY <1>1, <1>2 DEF Section

LEMMA WritingIsNoticed ==
  ASSUME NEW outcomes, NEW w, Proper(w), w.rc = "success", w.med = med, Intact(med),
         NEW off \in Lengths, NEW cells \in Blocks, Writing(outcomes, w, off, cells)
  PROVE  NoMixture(outcomes)
<1>. SUFFICES ASSUME NEW u \in outcomes, u.rc # "success", Intact(u.med)
              PROVE  \/ Section(u.med) = Section(med)
                     \/ \E v \in outcomes : v.rc = "success" /\ Section(v.med) = Section(u.med)
  BY Zenon DEF NoMixture, Mixed, Completed
<1>. DEFINE c == WithCache(w)
<1>1. Proper(c) /\ c.med = med /\ c.rc = "success" /\ "META_CACHE_ACTIVE" \in c.flags
  BY WithCacheDoes
<1>2. outcomes \in {{Fails(c, "EINVAL")}, {Fails(c, "EFAULT")}, Rewrite(c, off, cells)}
  BY DEF Writing
<1>. HIDE DEF c
<1>3. CASE u = Fails(c, "EINVAL") \/ u = Fails(c, "EFAULT")
  BY <1>1, <1>3, FailureIsProper
<1>4. CASE outcomes = Rewrite(c, off, cells)
  <2>. DEFINE new  == NewHeader(c, off, cells)
              data == Overlay(c.med.data, off, cells)
  <2>1. HeaderIntact(u.med) => SameHeader(u.med, c.med) \/ (SameHeader(u.med, new) /\ u.med.data = data)
    BY <1>1, <1>4, RewriteDoes
  <2>2. HeaderIntact(u.med)
    BY DEF Intact, HeaderIntact, HeaderSum, HeaderOf
  <2>3. PICK v \in Rewrite(c, off, cells) : v.rc = "success"
    BY <1>1, RewriteMay
  <2>4. SameHeader(v.med, new) /\ v.med.data = data
    BY <1>1, <2>3, RewriteDoes
  <2>. HIDE DEF new, data
  <2>5. CASE SameHeader(u.med, c.med)
    BY <1>1, <2>5, SameSection
  <2>6. CASE SameHeader(u.med, new) /\ u.med.data = data
    <3>1. SameHeader(v.med, u.med) /\ v.med.data = u.med.data
      BY <2>4, <2>6 DEF SameHeader
    <3>2. Section(v.med) = Section(u.med)
      BY <3>1, SameSection
    <3>. QED BY <1>4, <2>3, <3>2
  <2>. QED BY <2>1, <2>2, <2>5, <2>6
<1>. QED BY <1>2, <1>3, <1>4

(***************************************************************************)
(* vp_invalidate() and vp_format()                                         *)
(***************************************************************************)

\* The checksum vp_invalidate() leaves matches no data.
Spoilt(sum) == sum.kind = "inverted"

LEMMA PayloadInvalidatedDoes ==
  ASSUME NEW w, Proper(w), NEW x, w.block.psum = Sum(x)
  PROVE  LET v == PayloadInvalidated(w)
         IN  /\ Proper(v) /\ v.med = w.med /\ v.spec = w.spec /\ v.rc = w.rc
             /\ v.flags = w.flags \ {"PAYLOAD_CONSISTENT"}
             /\ v.block.version = w.block.version /\ v.block.length = w.block.length
             /\ Spoilt(v.block.psum) /\ HeaderIntact(v.block)
<1>. DEFINE new == [w.block EXCEPT !.psum = Inverted(w.block.psum)]
            b == [new EXCEPT !.hsum = HeaderSum(new)]
            k == [w EXCEPT !.block = b]
            v == PayloadInvalidated(w)
<1>1. Spoilt(Inverted(w.block.psum))
  BY DEF Spoilt, Inverted, Sum
<1>2. new = [hsum |-> w.block.hsum, version |-> w.block.version, length |-> w.block.length,
             psum |-> Inverted(w.block.psum)]
  BY HeaderFields DEF Proper, ProperHeader
<1>3. v = ClearBits(k, {"PAYLOAD_CONSISTENT"})
  BY DEF PayloadInvalidated
<1>. HIDE DEF new, v
<1>4. /\ IsHeader(new) /\ new.version = w.block.version /\ new.length = w.block.length
      /\ Spoilt(new.psum)
  BY <1>1, <1>2 DEF IsHeader
<1>5. b = [hsum |-> HeaderSum(new), version |-> new.version, length |-> new.length, psum |-> new.psum]
  BY <1>4, HeaderFields
<1>. HIDE DEF b
<1>6. b.hsum = HeaderSum(new) /\ b.version = new.version /\ b.length = new.length /\ b.psum = new.psum /\ IsHeader(b)
  BY <1>5 DEF IsHeader
<1>7. ProperHeader(b) /\ HeaderIntact(b) /\ Spoilt(b.psum)
  BY <1>4, <1>6 DEF Proper, ProperHeader, HeaderIntact, HeaderSum
<1>8. k = [med |-> w.med, block |-> b, flags |-> w.flags, spec |-> w.spec, rc |-> w.rc]
  BY Parts, WorldFields
<1>. HIDE DEF k
<1>9. Proper(k) /\ k.med = w.med /\ k.block = b /\ k.flags = w.flags /\ k.spec = w.spec /\ k.rc = w.rc
  BY <1>7, <1>8, Parts, Rebuilt
<1>10. v = [med |-> k.med, block |-> k.block, flags |-> k.flags \ {"PAYLOAD_CONSISTENT"}, spec |-> k.spec, rc |-> k.rc]
  BY <1>3, <1>9, Parts, WorldFields DEF ClearBits
<1>11. Proper(v) /\ v.med = k.med /\ v.block = k.block /\ v.flags = k.flags \ {"PAYLOAD_CONSISTENT"}
       /\ v.spec = k.spec /\ v.rc = k.rc
  <2>1. k.flags \ {"PAYLOAD_CONSISTENT"} \subseteq StateBits
    BY <1>9, Parts
  <2>. QED BY <1>9, <1>10, <2>1, Parts, Rebuilt
<1>. QED BY <1>4, <1>6, <1>7, <1>9, <1>11 DEF v

LEMMA MetaInvalidatedDoes ==
  ASSUME NEW w, Proper(w)
  PROVE  LET v == MetaInvalidated(w)
         IN  /\ Proper(v) /\ v.med = w.med /\ v.spec = w.spec /\ v.rc = w.rc
             /\ v.flags = w.flags \ {"META_CONSISTENT"}
             /\ v.block.version = w.block.version /\ v.block.length = w.block.length
             /\ v.block.psum = w.block.psum
<1>. DEFINE b == [w.block EXCEPT !.hsum = Inverted(w.block.hsum)]
            k == [w EXCEPT !.block = b]
            v == MetaInvalidated(w)
<1>1. v = ClearBits(k, {"META_CONSISTENT"})
  BY DEF MetaInvalidated
<1>2. b = [hsum |-> Inverted(w.block.hsum), version |-> w.block.version, length |-> w.block.length,
           psum |-> w.block.psum]
  BY HeaderFields DEF Proper, ProperHeader
<1>. HIDE DEF b, v
<1>3. ProperHeader(b) /\ b.version = w.block.version /\ b.length = w.block.length /\ b.psum = w.block.psum
  BY <1>2 DEF Proper, ProperHeader, IsHeader
<1>4. k = [med |-> w.med, block |-> b, flags |-> w.flags, spec |-> w.spec, rc |-> w.rc]
  BY Parts, WorldFields
<1>. HIDE DEF k
<1>5. Proper(k) /\ k.med = w.med /\ k.block = b /\ k.flags = w.flags /\ k.spec = w.spec /\ k.rc = w.rc
  BY <1>3, <1>4, Parts, Rebuilt
<1>6. v = [med |-> k.med, block |-> k.block, flags |-> k.flags \ {"META_CONSISTENT"}, spec |-> k.spec, rc |-> k.rc]
  BY <1>1, <1>5, Parts, WorldFields DEF ClearBits
<1>7. Proper(v) /\ v.med = k.med /\ v.block = k.block /\ v.flags = k.flags \ {"META_CONSISTENT"}
      /\ v.spec = k.spec /\ v.rc = k.rc
  <2>1. k.flags \ {"META_CONSISTENT"} \subseteq StateBits
    BY <1>5, Parts
  <2>. QED BY <1>5, <1>6, <2>1, Parts, Rebuilt
<1>. QED BY <1>3, <1>5, <1>7 DEF v

LEMMA InvalidateDoes ==
  ASSUME NEW w, Proper(w), w.rc = "success", NEW parts, parts # {}, NEW u \in Invalidate(w, parts)
  PROVE  LET c == WithCache(w)
         IN  /\ Proper(u) /\ u.spec = w.spec /\ u.med.data = w.med.data
             /\ \/ /\ u.rc = "EIO"
                   /\ ("META" \notin parts /\ "PAYLOAD" \in parts /\ HeaderIntact(u.med)) =>
                        SameHeader(u.med, w.med) \/ Spoilt(u.med.psum)
                \/ /\ u.rc = "success" /\ SameHeader(u.med, u.block)
                   /\ u.block.version = c.block.version /\ u.block.length = c.block.length
                   /\ u.flags \subseteq c.flags /\ "META_CACHE_ACTIVE" \in u.flags
                   /\ IF "META" \in parts THEN "META_CONSISTENT" \notin u.flags
                      ELSE HeaderIntact(u.block)
                   /\ IF "PAYLOAD" \in parts
                      THEN "PAYLOAD_CONSISTENT" \notin u.flags /\ Spoilt(u.block.psum)
                      ELSE u.block.psum = Sum(Payload(u.med, u.block.length))
<1>. DEFINE c == WithCache(w)
            Pay(v) == IF "PAYLOAD" \in parts THEN PayloadInvalidated(v) ELSE v
            Meta(v) == IF "META" \in parts THEN MetaInvalidated(v) ELSE v
<1>1. PICK v \in UpdateChecksums(c) : IF v.rc = "success" THEN u \in StoreHeader(Meta(Pay(v))) ELSE u = v
  BY DEF Invalidate, Maybe
<1>2. Proper(c) /\ c.med = w.med /\ c.spec = w.spec /\ c.rc = "success" /\ "META_CACHE_ACTIVE" \in c.flags
  BY WithCacheDoes
<1>. HIDE DEF c
<1>3. /\ Proper(v) /\ v.med = w.med /\ v.flags = c.flags /\ v.spec = w.spec
      /\ v.rc = "EIO" \/ (v.rc = "success" /\ v.block = Checksummed(c.block, w.med.data))
  BY <1>2, UpdateChecksumsDoes
<1>4. CASE v.rc = "EIO"
  BY <1>1, <1>3, <1>4 DEF SameHeader
<1>5. CASE v.rc = "success" /\ v.block = Checksummed(c.block, w.med.data)
  <2>. DEFINE p == Pay(v)
              q == Meta(p)
  <2>1. /\ v.block.version = c.block.version /\ v.block.length = c.block.length
        /\ v.block.psum = Sum(SubSeq(w.med.data, 1, c.block.length)) /\ HeaderIntact(v.block)
    BY <1>2, <1>5, Parts, ChecksummedDoes
  <2>2. /\ Proper(p) /\ p.med = w.med /\ p.spec = w.spec /\ p.rc = "success"
        /\ p.block.version = c.block.version /\ p.block.length = c.block.length
        /\ HeaderIntact(p.block)
        /\ IF "PAYLOAD" \in parts
           THEN p.flags = c.flags \ {"PAYLOAD_CONSISTENT"} /\ Spoilt(p.block.psum)
           ELSE p.flags = c.flags /\ p.block.psum = Sum(SubSeq(w.med.data, 1, c.block.length))
    BY <1>3, <1>5, <2>1, PayloadInvalidatedDoes
  <2>. HIDE DEF Pay, p
  <2>3. /\ Proper(q) /\ q.med = w.med /\ q.spec = w.spec /\ q.rc = "success"
        /\ q.block.version = c.block.version /\ q.block.length = c.block.length
        /\ q.block.psum = p.block.psum
        /\ IF "META" \in parts THEN q.flags = p.flags \ {"META_CONSISTENT"}
           ELSE q.flags = p.flags /\ HeaderIntact(q.block)
    BY <2>2, MetaInvalidatedDoes
  <2>4. u \in StoreHeader(q)
    BY <1>1, <1>5 DEF p
  <2>. HIDE DEF Meta, q
  <2>5. /\ Proper(u) /\ u.block = q.block /\ u.flags = q.flags /\ u.spec = q.spec
        /\ u.med.data = q.med.data
        /\ \/ u.rc = q.rc /\ SameHeader(u.med, q.block)
           \/ /\ u.rc = "EIO"
              /\ (HeaderIntact(q.block) /\ HeaderIntact(u.med)) =>
                    SameHeader(u.med, q.med) \/ SameHeader(u.med, q.block)
    BY <2>3, <2>4, StoreHeaderDoes
  <2>6. SameHeader(u.med, q.block) => u.med.psum = q.block.psum
    BY DEF SameHeader
  <2>7. Payload(u.med, u.block.length) = SubSeq(w.med.data, 1, c.block.length)
    BY <2>3, <2>5 DEF Payload
  <2>8. "META_CACHE_ACTIVE" \in u.flags /\ u.flags \subseteq c.flags
    BY <1>2, <2>2, <2>3, <2>5
  <2>. QED BY <2>2, <2>3, <2>5, <2>6, <2>7, <2>8 DEF c
<1>. QED BY <1>3, <1>4, <1>5

LEMMA InvalidateMay ==
  ASSUME NEW w, Proper(w), w.rc = "success"
  PROVE  \E u \in Invalidate(w, {"PAYLOAD"}) : u.rc = "success"
<1>. DEFINE c == WithCache(w)
<1>1. Proper(c) /\ c.rc = "success"
  BY WithCacheDoes
<1>. HIDE DEF c
<1>2. PICK v \in UpdateChecksums(c) : v.rc = "success"
  BY <1>1, UpdateChecksumsMay
<1>3. Proper(v) /\ v.block = Checksummed(c.block, c.med.data)
  BY <1>1, <1>2, UpdateChecksumsDoes
<1>4. v.block.psum = Sum(SubSeq(c.med.data, 1, c.block.length))
  BY <1>1, <1>3, Parts, ChecksummedDoes
<1>5. Proper(PayloadInvalidated(v)) /\ PayloadInvalidated(v).rc = "success"
  BY <1>2, <1>3, <1>4, PayloadInvalidatedDoes
<1>6. PICK u \in StoreHeader(PayloadInvalidated(v)) : u.rc = "success"
  BY <1>5, StoreHeaderMay
<1>7. u \in Invalidate(w, {"PAYLOAD"})
  BY <1>2, <1>6 DEF Invalidate, Maybe, c
<1>. QED BY <1>6, <1>7

LEMMA FormatDoes ==
  ASSUME NEW w, Proper(w), w.rc = "success", NEW u \in Format(w)
  PROVE  /\ Proper(u) /\ u.spec = w.spec /\ u.med.data = w.med.data
         /\ \/ /\ u.rc = "EIO"
               /\ HeaderIntact(u.med) => SameHeader(u.med, w.med) \/ Spoilt(u.med.psum)
            \/ /\ u.rc = "success" /\ SameHeader(u.block, u.med) /\ Spoilt(u.med.psum)
               /\ u.block.version = w.spec.version /\ u.block.length = w.spec.length
               /\ {"META_CONSISTENT", "META_CACHE_ACTIVE"} \subseteq u.flags
               /\ "PAYLOAD_CONSISTENT" \notin u.flags
<1>. DEFINE l == LoadMetaFromSpec(w)
<1>1. PICK v \in Invalidate(l, {"PAYLOAD"}) : IF v.rc = "success" THEN u \in ReadMeta(v) ELSE u = v
  BY DEF Format, Maybe
<1>2. /\ Proper(l) /\ l.med = w.med /\ l.spec = w.spec /\ l.rc = "success"
      /\ l.block.version = w.spec.version /\ l.block.length = w.spec.length
      /\ "META_CACHE_ACTIVE" \in l.flags
  BY LoadMetaFromSpecDoes
<1>. HIDE DEF l
<1>3. WithCache(l) = l
  BY <1>2 DEF WithCache
<1>4. /\ Proper(v) /\ v.spec = w.spec /\ v.med.data = w.med.data
      /\ \/ /\ v.rc = "EIO"
            /\ HeaderIntact(v.med) => SameHeader(v.med, w.med) \/ Spoilt(v.med.psum)
         \/ /\ v.rc = "success" /\ SameHeader(v.med, v.block)
            /\ v.block.version = w.spec.version /\ v.block.length = w.spec.length
            /\ HeaderIntact(v.block)
            /\ "PAYLOAD_CONSISTENT" \notin v.flags /\ Spoilt(v.block.psum)
  BY <1>2, <1>3, InvalidateDoes
<1>5. CASE v.rc = "EIO"
  BY <1>1, <1>4, <1>5
<1>6. CASE v.rc = "success" /\ u \in ReadMeta(v)
  <2>1. HeaderIntact(v.med) /\ Spoilt(v.med.psum) /\ v.med.version = w.spec.version /\ v.med.length = w.spec.length
    BY <1>4, <1>6 DEF SameHeader, HeaderIntact, HeaderSum
  <2>2. /\ Proper(u) /\ u.med = v.med /\ u.spec = v.spec
        /\ \/ u.rc = "EIO"
           \/ u.rc = v.rc /\ SameHeader(u.block, v.med) /\ u.flags = v.flags \cup MetaMask
    BY <1>4, <1>6, <2>1, ReadMetaDoes
  <2>3. SameHeader(u.block, v.med) => u.block.version = v.med.version /\ u.block.length = v.med.length
    BY DEF SameHeader
  <2>. QED BY <1>4, <1>6, <2>1, <2>2, <2>3 DEF MetaMask
<1>. QED BY <1>1, <1>4, <1>5, <1>6

LEMMA FormatMay ==
  ASSUME NEW w, Proper(w), w.rc = "success"
  PROVE  \E u \in Format(w) : u.rc = "success"
<1>. DEFINE l == LoadMetaFromSpec(w)
<1>1. Proper(l) /\ l.rc = "success" /\ "META_CACHE_ACTIVE" \in l.flags
  BY LoadMetaFromSpecDoes
<1>. HIDE DEF l
<1>2. PICK v \in Invalidate(l, {"PAYLOAD"}) : v.rc = "success"
  BY <1>1, InvalidateMay
<1>3. Proper(v) /\ SameHeader(v.med, v.block) /\ HeaderIntact(v.block)
  BY <1>1, <1>2, InvalidateDoes
<1>4. HeaderIntact(v.med)
  BY <1>3 DEF SameHeader, HeaderIntact, HeaderSum
<1>5. PICK u \in ReadMeta(v) : u.rc = "success"
  BY <1>2, <1>3, <1>4, ReadMetaMay
<1>6. u \in Format(w)
  BY <1>2, <1>5 DEF Format, Maybe, l
<1>. QED BY <1>5, <1>6

(***************************************************************************)
(* vp_load(), vp_save() and vp_fetch()                                     *)
(***************************************************************************)

LEMMA SetBitsDoes ==
  ASSUME NEW w, Proper(w), NEW bits, bits \subseteq StateBits, NEW u, u = SetBits(w, bits)
  PROVE  /\ Proper(u) /\ u.med = w.med /\ u.block = w.block /\ u.spec = w.spec
         /\ u.rc = w.rc /\ u.flags = w.flags \cup bits
<1>1. u = [med |-> w.med, block |-> w.block, flags |-> w.flags \cup bits, spec |-> w.spec, rc |-> w.rc]
  BY Parts, WorldFields DEF SetBits
<1>2. w.flags \cup bits \subseteq StateBits
  BY Parts
<1>. QED BY <1>1, <1>2, Parts, Rebuilt

\* vp_load() starts without bits.
WithBits(w, bits) == [w EXCEPT !.flags = bits]

LEMMA WithBitsDoes ==
  ASSUME NEW w, Proper(w), NEW bits, bits \subseteq StateBits, NEW u, u = WithBits(w, bits)
  PROVE  /\ Proper(u) /\ u.med = w.med /\ u.block = w.block /\ u.spec = w.spec
         /\ u.rc = w.rc /\ u.flags = bits
<1>1. u = [med |-> w.med, block |-> w.block, flags |-> bits, spec |-> w.spec, rc |-> w.rc]
  BY Parts, WorldFields DEF WithBits
<1>. QED BY <1>1, Parts, Rebuilt

LEMMA IntactParts ==
  ASSUME NEW m
  PROVE  Intact(m) <=> HeaderIntact(m) /\ m.psum = Sum(Payload(m, m.length))
BY DEF Intact, HeaderIntact, HeaderSum, HeaderOf

LEMMA CompatibleBits ==
  ASSUME NEW h, NEW s
  PROVE  /\ Compatible(h, s) \subseteq StateBits /\ "PAYLOAD_CONSISTENT" \notin Compatible(h, s)
         /\ "PAYLOAD_COMPATIBLE" \in Compatible(h, s) <=> h.version = s.version /\ h.length = s.length
BY DEF Compatible, StateBits

LEMMA LoadDoes ==
  ASSUME NEW w, Proper(w), w.rc = "success", NEW u \in Load(w)
  PROVE  /\ Proper(u) /\ u.med = w.med /\ u.spec = w.spec
         /\ \/ u.rc = "EIO"
            \/ u.rc = "EBADFD" /\ ~HeaderIntact(w.med) /\ u.flags = {}
            \/ /\ u.rc = "EBADMSG" /\ ~Intact(w.med)
               /\ SameHeader(u.block, w.med) /\ u.flags = MetaMask \cup Compatible(u.block, w.spec)
            \/ /\ u.rc = "success" /\ Intact(w.med) /\ SameHeader(u.block, w.med)
               /\ u.flags = MetaMask \cup Compatible(u.block, w.spec) \cup {"PAYLOAD_CONSISTENT"}
<1>. DEFINE z == [w EXCEPT !.flags = {}]
            Cmp(r) == SetBits(r, Compatible(r.block, r.spec))
<1>1. PICK v : /\ v \in Maybe(ReadMeta(z), LAMBDA r : VerifyPayload(Cmp(r), r.block.length))
               /\ IF v.rc = "success" THEN u = SetBits(v, {"PAYLOAD_CONSISTENT"}) ELSE u = v
  BY DEF Load, Maybe
<1>2. PICK r \in ReadMeta(z) : IF r.rc = "success" THEN v \in VerifyPayload(Cmp(r), r.block.length) ELSE v = r
  BY <1>1 DEF Maybe
<1>3. Proper(z) /\ z.med = w.med /\ z.spec = w.spec /\ z.rc = "success" /\ z.flags = {}
  <2>1. {} \subseteq StateBits /\ z = WithBits(w, {})
    BY DEF WithBits
  <2>. HIDE DEF z
  <2>. QED BY <2>1, WithBitsDoes
<1>. HIDE DEF z
<1>4. /\ Proper(r) /\ r.med = w.med /\ r.spec = w.spec
      /\ \/ r.rc = "EIO"
         \/ /\ HeaderIntact(w.med) /\ r.rc = "success"
            /\ SameHeader(r.block, w.med) /\ r.flags = MetaMask
         \/ ~HeaderIntact(w.med) /\ r.rc = "EBADFD" /\ r.flags = {}
  <2>1. /\ Proper(r) /\ r.med = z.med /\ r.spec = z.spec
        /\ \/ r.rc = "EIO"
           \/ /\ HeaderIntact(z.med) /\ r.rc = z.rc
              /\ SameHeader(r.block, z.med) /\ r.flags = z.flags \cup MetaMask
           \/ ~HeaderIntact(z.med) /\ r.rc = "EBADFD" /\ r.flags = z.flags \ MetaMask
    BY <1>3, ReadMetaDoes
  <2>2. {} \cup MetaMask = MetaMask /\ {} \ MetaMask = {}
    OBVIOUS
  <2>. QED BY <1>3, <2>1, <2>2
<1>5. CASE r.rc # "success"
  BY <1>1, <1>2, <1>4, <1>5
<1>6. CASE r.rc = "success"
  <2>. DEFINE c == Cmp(r)
              n == r.block.length
  <2>1. HeaderIntact(w.med) /\ SameHeader(r.block, w.med) /\ r.flags = MetaMask
    BY <1>4, <1>6
  <2>2. /\ Proper(c) /\ c.med = w.med /\ c.block = r.block /\ c.spec = w.spec /\ c.rc = "success"
        /\ c.flags = MetaMask \cup Compatible(r.block, w.spec)
    <3>1. Compatible(r.block, r.spec) \subseteq StateBits /\ c = SetBits(r, Compatible(r.block, r.spec))
      BY CompatibleBits
    <3>. HIDE DEF c
    <3>2. /\ Proper(c) /\ c.med = r.med /\ c.block = r.block /\ c.spec = r.spec
          /\ c.rc = r.rc /\ c.flags = r.flags \cup Compatible(r.block, r.spec)
      BY <1>4, <3>1, SetBitsDoes
    <3>. QED BY <1>4, <1>6, <2>1, <3>2
  <2>3. v \in VerifyPayload(c, n)
    BY <1>2, <1>6
  <2>. HIDE DEF Cmp, c, n
  <2>4. /\ Proper(v) /\ v.med = c.med /\ v.block = c.block /\ v.flags = c.flags /\ v.spec = c.spec
        /\ \/ v.rc = "EIO"
           \/ v.rc = c.rc /\ c.block.psum = Sum(Payload(c.med, n))
           \/ v.rc = "EBADMSG" /\ c.block.psum # Sum(Payload(c.med, n))
    BY <2>2, <2>3, VerifyPayloadDoes
  <2>5. r.block.psum = w.med.psum /\ n = w.med.length
    BY <2>1 DEF SameHeader, n
  <2>6. Intact(w.med) <=> c.block.psum = Sum(Payload(c.med, n))
    BY <2>1, <2>2, <2>5, IntactParts
  <2>7. CASE v.rc = "success"
    <3>1. u = SetBits(v, {"PAYLOAD_CONSISTENT"})
      BY <1>1, <2>7
    <3>2. {"PAYLOAD_CONSISTENT"} \subseteq StateBits
      BY DEF StateBits
    <3>3. /\ Proper(u) /\ u.med = v.med /\ u.block = v.block /\ u.spec = v.spec
          /\ u.rc = v.rc /\ u.flags = v.flags \cup {"PAYLOAD_CONSISTENT"}
      BY <2>2, <2>4, <3>1, <3>2, SetBitsDoes
    <3>. QED BY <2>1, <2>2, <2>4, <2>6, <2>7, <3>3
  <2>8. CASE v.rc # "success"
    <3>1. u = v
      BY <1>1, <2>8
    <3>. QED BY <2>1, <2>2, <2>4, <2>6, <2>8, <3>1
  <2>. QED BY <2>7, <2>8
<1>. QED BY <1>5, <1>6

LEMMA LoadMay ==
  ASSUME NEW w, Proper(w), w.rc = "success", Intact(w.med)
  PROVE  \E u \in Load(w) : u.rc = "success"
<1>. DEFINE z == [w EXCEPT !.flags = {}]
            Cmp(r) == SetBits(r, Compatible(r.block, r.spec))
            Compare(r) == VerifyPayload(Cmp(r), r.block.length)
<1>1. Proper(z) /\ z.med = w.med /\ z.spec = w.spec /\ z.rc = "success" /\ z.flags = {}
  <2>1. {} \subseteq StateBits /\ z = WithBits(w, {})
    BY DEF WithBits
  <2>. HIDE DEF z
  <2>. QED BY <2>1, WithBitsDoes
<1>2. HeaderIntact(w.med) /\ w.med.psum = Sum(Payload(w.med, w.med.length))
  BY IntactParts
<1>. HIDE DEF z
<1>3. PICK r \in ReadMeta(z) : r.rc = "success"
  BY <1>1, <1>2, ReadMetaMay
<1>4. Proper(r) /\ r.med = w.med /\ SameHeader(r.block, w.med)
  BY <1>1, <1>2, <1>3, ReadMetaDoes
<1>. DEFINE c == Cmp(r)
            n == r.block.length
<1>5. Proper(c) /\ c.med = w.med /\ c.block = r.block /\ c.rc = "success"
  <2>1. Compatible(r.block, r.spec) \subseteq StateBits /\ c = SetBits(r, Compatible(r.block, r.spec))
    BY CompatibleBits
  <2>. HIDE DEF c
  <2>. QED BY <1>3, <1>4, <2>1, SetBitsDoes
<1>6. c \in VerifyPayload(c, n)
  <2>. HIDE DEF c
  <2>1. c.block.psum = Sum(Payload(c.med, n))
    BY <1>2, <1>4, <1>5 DEF SameHeader
  <2>. QED BY <2>1 DEF VerifyPayload
<1>. DEFINE u == SetBits(c, {"PAYLOAD_CONSISTENT"})
<1>7. u.rc = "success"
  <2>. HIDE DEF c
  <2>1. {"PAYLOAD_CONSISTENT"} \subseteq StateBits
    BY DEF StateBits
  <2>. QED BY <1>5, <2>1, SetBitsDoes
<1>8. c \in Maybe(ReadMeta(z), Compare)
  BY <1>3, <1>6 DEF Maybe
<1>9. u \in Load(w)
  <2>. HIDE DEF c, u
  <2>1. \E x \in Maybe(ReadMeta(z), Compare) : x.rc = "success" /\ u = SetBits(x, {"PAYLOAD_CONSISTENT"})
    BY <1>5, <1>8 DEF u
  <2>. QED BY <2>1 DEF Load, Maybe, z
<1>. QED BY <1>7, <1>9

LEMMA SaveSteps ==
  ASSUME NEW w, NEW cells
  PROVE  /\ \A u \in Save(w, cells) :
              \E f \in Format(w) : \E s :
                /\ IF f.rc = "success" THEN s \in Store(f, 0, cells) ELSE s = f
                /\ IF s.rc = "success" THEN u \in Load(s) ELSE u = s
         /\ \A f \in Format(w) : f.rc = "success" =>
              \A s \in Store(f, 0, cells) : s.rc = "success" =>
                \A u \in Load(s) : u \in Save(w, cells)
BY DEF Save, Maybe

LEMMA StoreFormatted ==
  ASSUME NEW f, {"META_CONSISTENT", "META_CACHE_ACTIVE"} \subseteq f.flags, NEW cells \in Blocks
  PROVE  Store(f, 0, cells) = IF Len(cells) > f.block.length THEN {Fails(f, "EFAULT")}
                              ELSE Rewrite(f, 0, cells)
<1>1. WithCache(f) = f
  BY DEF WithCache
<1>2. 0 + Len(cells) = Len(cells)
  BY BlockType DEF Lengths
<1>. QED BY <1>1, <1>2 DEF Store, Rewrite

\* A whole payload, as vp_save() stores it.
LEMMA OverlayFront ==
  ASSUME NEW data \in Data, NEW cells \in Blocks
  PROVE  SubSeq(Overlay(data, 0, cells), 1, Len(cells)) = cells
<1>. DEFINE n == Len(cells)
            o == Overlay(data, 0, cells)
<1>1. n \in Nat /\ n <= MaxLength /\ cells \in [1 .. n -> Cell] /\ Len(data) = MaxLength
  BY BlockType, DataType DEF Lengths
<1>2. \A i \in 1 .. n : o[i] = cells[i]
  BY <1>1 DEF Overlay
<1>3. SubSeq(o, 1, n) = [i \in 1 .. n |-> o[i]]
  <2>1. o \in Data
    <3>1. 0 \in 0 .. MaxLength
      BY SpecAssumption
    <3>. QED BY <3>1, OverlayType
  <2>. HIDE DEF o, n
  <2>2. o \in Seq(Cell) /\ Len(o) = MaxLength
    BY <2>1, DataType
  <2>. QED BY <1>1, <2>2
<1>. HIDE DEF n, o
<1>4. SubSeq(o, 1, n) = [i \in 1 .. n |-> cells[i]]
  BY <1>2, <1>3
<1>. QED BY <1>1, <1>4 DEF n, o

LEMMA SaveDoes ==
  ASSUME NEW w, Proper(w), w.rc = "success", NEW cells \in Blocks, NEW u \in Save(w, cells)
  PROVE  /\ Proper(u) /\ u.spec = w.spec
         /\ \/ /\ u.rc = "EFAULT" /\ Len(cells) > w.spec.length /\ Spoilt(u.med.psum)
               /\ u.block.version = w.spec.version /\ u.block.length = w.spec.length
               /\ "PAYLOAD_CONSISTENT" \notin u.flags /\ "META_CACHE_ACTIVE" \in u.flags
            \/ /\ u.rc = "EIO"
               /\ Intact(u.med) =>
                    \/ SameHeader(u.med, w.med) /\ u.med.data = w.med.data
                    \/ \E v \in Save(w, cells) : v.rc = "success" /\ Section(v.med) = Section(u.med)
            \/ /\ u.rc = "success" /\ Intact(u.med) /\ SameHeader(u.block, u.med)
               /\ u.med.data = Overlay(w.med.data, 0, cells)
               /\ u.block.version = w.spec.version /\ u.block.length = w.spec.length
               /\ u.flags = MetaMask \cup Compatible(u.block, u.spec) \cup {"PAYLOAD_CONSISTENT"}
<1>0. PICK f \in Format(w) :
        \E s : /\ IF f.rc = "success" THEN s \in Store(f, 0, cells) ELSE s = f
               /\ IF s.rc = "success" THEN u \in Load(s) ELSE u = s
  BY SaveSteps
<1>1. PICK s :
        /\ IF f.rc = "success" THEN s \in Store(f, 0, cells) ELSE s = f
        /\ IF s.rc = "success" THEN u \in Load(s) ELSE u = s
  BY <1>0
<1>2. /\ Proper(f) /\ f.spec = w.spec /\ f.med.data = w.med.data
      /\ \/ /\ f.rc = "EIO"
            /\ HeaderIntact(f.med) => SameHeader(f.med, w.med) \/ Spoilt(f.med.psum)
         \/ /\ f.rc = "success" /\ SameHeader(f.block, f.med) /\ Spoilt(f.med.psum)
            /\ f.block.version = w.spec.version /\ f.block.length = w.spec.length
            /\ {"META_CONSISTENT", "META_CACHE_ACTIVE"} \subseteq f.flags
            /\ "PAYLOAD_CONSISTENT" \notin f.flags
  BY FormatDoes
<1>3. \A m : Intact(m) => HeaderIntact(m) /\ ~Spoilt(m.psum)
  <2>1. ASSUME NEW m, Intact(m) PROVE HeaderIntact(m) /\ ~Spoilt(m.psum)
    <3>1. HeaderIntact(m) /\ m.psum = Sum(Payload(m, m.length))
      BY <2>1, IntactParts
    <3>2. m.psum.kind = "correct"
      BY <3>1, SumsTellApart
    <3>. QED BY <3>1, <3>2 DEF Spoilt
  <2>. QED BY <2>1
<1>4. CASE f.rc # "success"
  <2>1. u = f
    BY <1>1, <1>4
  <2>. QED BY <1>2, <1>3, <1>4, <2>1
<1>5. CASE f.rc = "success"
  <2>1. /\ SameHeader(f.block, f.med) /\ Spoilt(f.med.psum)
        /\ f.block.version = w.spec.version /\ f.block.length = w.spec.length
        /\ {"META_CONSISTENT", "META_CACHE_ACTIVE"} \subseteq f.flags
        /\ "PAYLOAD_CONSISTENT" \notin f.flags /\ s \in Store(f, 0, cells)
    BY <1>1, <1>2, <1>5
  <2>2. CASE Len(cells) > f.block.length
    <3>1. s = Fails(f, "EFAULT")
      BY <2>1, <2>2, StoreFormatted
    <3>2. Proper(s) /\ s.med = f.med /\ s.block = f.block /\ s.flags = f.flags /\ s.spec = f.spec /\ s.rc = "EFAULT"
      BY <1>2, <3>1, FailureIsProper
    <3>3. u = s
      BY <1>1, <3>2
    <3>. QED BY <1>2, <2>1, <2>2, <3>2, <3>3
  <2>3. CASE ~(Len(cells) > f.block.length)
    <3>. DEFINE new  == NewHeader(f, 0, cells)
                data == Overlay(w.med.data, 0, cells)
    <3>0. Store(f, 0, cells) = Rewrite(f, 0, cells) /\ 0 \in Lengths /\ "META_CACHE_ACTIVE" \in f.flags
      BY <2>1, <2>3, StoreFormatted DEF Lengths
    <3>1. /\ Proper(s) /\ s.flags = f.flags /\ s.spec = w.spec
          /\ \/ s.rc = "success" /\ s.block = new /\ SameHeader(s.med, new) /\ s.med.data = data
             \/ /\ s.rc = "EIO"
                /\ HeaderIntact(s.med) =>
                        \/ SameHeader(s.med, f.med)
                        \/ SameHeader(s.med, new) /\ s.med.data = data
      BY <1>2, <1>5, <2>1, <3>0, RewriteDoes
    \* There is a successful save of the section that is then there.
    <3>2. ASSUME NEW x \in Rewrite(f, 0, cells), x.rc = "success"
          PROVE  /\ Proper(x) /\ Intact(x.med) /\ SameHeader(x.med, new) /\ x.med.data = data
                 /\ x.med.version = w.spec.version /\ x.med.length = w.spec.length
                 /\ \E v \in Save(w, cells) : v.rc = "success" /\ v.med = x.med
      <4>1. Proper(x) /\ SameHeader(x.med, new) /\ x.med.data = Overlay(f.med.data, 0, cells)
        BY <1>2, <1>5, <3>0, <3>2, RewriteDoes
      <4>2. Intact(x.med) /\ x.med.version = f.block.version /\ x.med.length = f.block.length
        BY <1>2, <4>1, NewIsIntact
      <4>3. PICK v \in Load(x) : v.rc = "success"
        BY <3>2, <4>1, <4>2, LoadMay
      <4>4. v.med = x.med
        BY <3>2, <4>1, LoadDoes
      <4>5. v \in Save(w, cells)
        BY <1>5, <3>0, <3>2, SaveSteps
      <4>. QED BY <1>2, <2>1, <4>1, <4>2, <4>3, <4>4, <4>5
    <3>. HIDE DEF new, data
    <3>3. CASE s.rc = "success"
      <4>1. u \in Load(s) /\ s \in Rewrite(f, 0, cells)
        BY <1>1, <1>5, <3>0, <3>3
      <4>2. /\ Intact(s.med) /\ s.med.data = data
            /\ s.med.version = w.spec.version /\ s.med.length = w.spec.length
            /\ \E v \in Save(w, cells) : v.rc = "success" /\ v.med = s.med
        BY <3>2, <3>3, <4>1
      <4>3. HeaderIntact(s.med)
        BY <1>3, <4>2
      <4>4. /\ Proper(u) /\ u.med = s.med /\ u.spec = s.spec
            /\ \/ u.rc = "EIO"
               \/ /\ u.rc = "success" /\ SameHeader(u.block, s.med)
                  /\ u.flags = MetaMask \cup Compatible(u.block, s.spec) \cup {"PAYLOAD_CONSISTENT"}
        BY <3>1, <3>3, <4>1, <4>2, <4>3, LoadDoes
      <4>5. SameHeader(u.block, s.med) => u.block.version = s.med.version /\ u.block.length = s.med.length
        BY DEF SameHeader
      <4>. QED BY <3>1, <4>2, <4>4, <4>5 DEF data
    <3>4. CASE s.rc = "EIO"
      <4>1. u = s
        BY <1>1, <3>4
      <4>2. ASSUME Intact(s.med)
            PROVE  \E v \in Save(w, cells) : v.rc = "success" /\ Section(v.med) = Section(s.med)
        <5>1. HeaderIntact(s.med) /\ ~Spoilt(s.med.psum)
          BY <1>3, <4>2
        <5>2. ~SameHeader(s.med, f.med)
          BY <2>1, <5>1 DEF SameHeader
        <5>3. SameHeader(s.med, new) /\ s.med.data = data
          BY <3>1, <3>4, <5>1, <5>2
        <5>4. PICK x \in Rewrite(f, 0, cells) : x.rc = "success"
          BY <1>2, <1>5, <3>0, RewriteMay
        <5>5. SameHeader(x.med, new) /\ x.med.data = data
              /\ \E v \in Save(w, cells) : v.rc = "success" /\ v.med = x.med
          BY <3>2, <5>4
        <5>6. SameHeader(x.med, s.med) /\ x.med.data = s.med.data
          BY <5>3, <5>5 DEF SameHeader
        <5>7. Section(x.med) = Section(s.med)
          BY <5>6, SameSection
        <5>. QED BY <5>5, <5>7
      <4>. QED BY <3>1, <3>4, <4>1, <4>2
    <3>. QED BY <3>1, <3>3, <3>4
  <2>. QED BY <2>2, <2>3
<1>. QED BY <1>4, <1>5

LEMMA SaveMay ==
  ASSUME NEW w, Proper(w), w.rc = "success", NEW cells \in Blocks, Len(cells) = w.spec.length
  PROVE  \E u \in Save(w, cells) : u.rc = "success"
<1>1. PICK f \in Format(w) : f.rc = "success"
  BY FormatMay
<1>2. /\ Proper(f) /\ f.block.length = w.spec.length
      /\ {"META_CONSISTENT", "META_CACHE_ACTIVE"} \subseteq f.flags
  BY <1>1, FormatDoes
<1>3. ~(Len(cells) > f.block.length) /\ 0 \in Lengths
  BY <1>2, BlockType DEF Lengths
<1>4. Store(f, 0, cells) = Rewrite(f, 0, cells)
  BY <1>2, <1>3, StoreFormatted
<1>5. PICK s \in Rewrite(f, 0, cells) : s.rc = "success"
  BY <1>1, <1>2, <1>3, RewriteMay
<1>6. Proper(s) /\ SameHeader(s.med, NewHeader(f, 0, cells)) /\ s.med.data = Overlay(f.med.data, 0, cells)
  BY <1>1, <1>2, <1>3, <1>5, RewriteDoes
<1>7. Intact(s.med)
  BY <1>2, <1>6, NewIsIntact
<1>8. PICK u \in Load(s) : u.rc = "success"
  BY <1>5, <1>6, <1>7, LoadMay
<1>. QED BY <1>1, <1>4, <1>5, <1>8, SaveSteps

LEMMA FetchDoes ==
  ASSUME NEW w, Proper(w), w.rc = "success", NEW off, NEW n, NEW u \in Fetch(w, off, n)
  PROVE  /\ Proper(u) /\ u.med = w.med /\ u.spec = w.spec
         /\ \/ u.rc = "EIO"
            \/ "META_CACHE_ACTIVE" \in w.flags /\ u.block = w.block /\ u.flags = w.flags
            \/ /\ "META_CACHE_ACTIVE" \notin w.flags /\ HeaderIntact(w.med)
               /\ SameHeader(u.block, w.med) /\ u.flags = w.flags \cup MetaMask
            \/ "META_CACHE_ACTIVE" \notin w.flags /\ u.flags = w.flags \ MetaMask
<1>1. PICK r \in (IF "META_CACHE_ACTIVE" \in w.flags THEN {w} ELSE ReadMeta(w)) :
        \/ u = r
        \/ r.rc = "success" /\ \E code \in {"EINVAL", "EFAULT", "EIO"} : u = Fails(r, code)
  BY DEF Fetch, Maybe
<1>2. CASE "META_CACHE_ACTIVE" \in w.flags
  BY <1>1, <1>2, FailureIsProper
<1>3. CASE "META_CACHE_ACTIVE" \notin w.flags
  <2>0. r \in ReadMeta(w)
    BY <1>1, <1>3
  <2>1. /\ Proper(r) /\ r.med = w.med /\ r.spec = w.spec
        /\ \/ r.rc = "EIO"
           \/ /\ HeaderIntact(w.med) /\ r.rc = w.rc
              /\ SameHeader(r.block, w.med) /\ r.flags = w.flags \cup MetaMask
           \/ ~HeaderIntact(w.med) /\ r.rc = "EBADFD" /\ r.flags = w.flags \ MetaMask
    BY <2>0, ReadMetaDoes
  <2>2. CASE r.rc = "EIO"
    <3>1. u = r
      BY <1>1, <2>2
    <3>. QED BY <2>1, <2>2, <3>1
  <2>3. CASE r.rc # "EIO"
    <3>1. u = r \/ (Proper(u) /\ u.med = r.med /\ u.spec = r.spec /\ u.block = r.block /\ u.flags = r.flags)
      BY <1>1, <2>1, FailureIsProper
    <3>. QED BY <1>3, <2>1, <2>3, <3>1
  <2>. QED BY <2>2, <2>3
<1>. QED BY <1>2, <1>3

(***************************************************************************)
(* The states of a program.                                                *)
(***************************************************************************)

Shape ==
  /\ ProperMedium(med)
  /\ block = [version |-> block.version, length |-> block.length]
  /\ block.version \in Nat /\ block.length \in Lengths
  /\ flags \subseteq StateBits /\ spec \in Specs /\ clean \in BOOLEAN

LEMMA WorldIsProper ==
  ASSUME Shape
  PROVE  /\ Proper(World) /\ World.med = med /\ World.flags = flags /\ World.spec = spec
         /\ World.rc = "success"
         /\ World.block.version = block.version /\ World.block.length = block.length
<1>1. ProperHeader(BlockOf(block.version, block.length))
      /\ BlockOf(block.version, block.length).version = block.version
      /\ BlockOf(block.version, block.length).length = block.length
  BY DEF Shape, BlockOf, ProperHeader, IsHeader
<1>2. World = [med |-> med, block |-> BlockOf(block.version, block.length), flags |-> flags,
               spec |-> spec, rc |-> "success"]
  BY DEF World
<1>. HIDE DEF World, BlockOf
<1>3. /\ World.med = med /\ World.flags = flags /\ World.spec = spec /\ World.rc = "success"
      /\ World.block = BlockOf(block.version, block.length) /\ IsWorld(World)
  BY <1>2 DEF IsWorld
<1>. QED BY <1>1, <1>3 DEF Shape, Proper

\* What the bits of a world say of its medium and of its block.
Truthful(w) ==
  /\ "PAYLOAD_CONSISTENT" \in w.flags =>
       /\ "META_CACHE_ACTIVE" \in w.flags
       /\ w.med.version = w.block.version /\ w.med.length = w.block.length
       /\ w.med.psum = Sum(Payload(w.med, w.med.length))
  /\ ("META_CACHE_ACTIVE" \in w.flags /\ "META_CONSISTENT" \in w.flags /\ "PAYLOAD_CONSISTENT" \in w.flags)
       => HeaderIntact(w.med)
  /\ "PAYLOAD_COMPATIBLE" \in w.flags =>
       /\ "META_CACHE_ACTIVE" \in w.flags
       /\ w.block.version = w.spec.version /\ w.block.length = w.spec.length

\* A call that did not meet a failing access keeps that.
Keeps(w, u) == Proper(u) /\ u.spec = w.spec /\ (Truthful(w) /\ u.rc # "EIO" => Truthful(u))

LEMMA CacheKeeps ==
  ASSUME NEW w, Proper(w), Truthful(w)
  PROVE  Truthful(WithCache(w))
<1>. DEFINE c == WithCache(w)
<1>1. CASE "META_CACHE_ACTIVE" \in w.flags
  <2>1. c = w
    BY <1>1, WithCacheDoes
  <2>. QED BY <2>1
<1>2. CASE "META_CACHE_ACTIVE" \notin w.flags
  <2>1. c.flags \ CacheBits = w.flags \ CacheBits
    BY WithCacheDoes
  <2>2. "PAYLOAD_CONSISTENT" \notin w.flags /\ "PAYLOAD_COMPATIBLE" \notin w.flags
    BY <1>2 DEF Truthful
  <2>. HIDE DEF c
  <2>3. "PAYLOAD_CONSISTENT" \notin c.flags /\ "PAYLOAD_COMPATIBLE" \notin c.flags
    BY <2>1, <2>2 DEF CacheBits
  <2>. QED BY <2>3 DEF Truthful, c
<1>. QED BY <1>1, <1>2

LEMMA WritingKeeps ==
  ASSUME NEW outcomes, NEW w, Proper(w), w.rc = "success", NEW off \in Lengths, NEW cells \in Blocks,
         Writing(outcomes, w, off, cells), NEW u \in outcomes
  PROVE  Keeps(w, u)
<1>. DEFINE c == WithCache(w)
<1>1. Proper(c) /\ c.med = w.med /\ c.spec = w.spec /\ c.rc = "success" /\ "META_CACHE_ACTIVE" \in c.flags
  BY WithCacheDoes
<1>2. outcomes \in {{Fails(c, "EINVAL")}, {Fails(c, "EFAULT")}, Rewrite(c, off, cells)}
  BY DEF Writing
<1>3. Truthful(w) => Truthful(c)
  BY CacheKeeps
<1>. HIDE DEF c
<1>4. CASE u = Fails(c, "EINVAL") \/ u = Fails(c, "EFAULT")
  <2>1. Proper(u) /\ u.med = c.med /\ u.block = c.block /\ u.flags = c.flags /\ u.spec = c.spec
    BY <1>1, <1>4, FailureIsProper
  <2>2. Truthful(c) => Truthful(u)
    BY <2>1 DEF Truthful
  <2>. QED BY <1>1, <1>3, <2>1, <2>2 DEF Keeps
<1>5. CASE u \in Rewrite(c, off, cells)
  <2>1. /\ Proper(u) /\ u.flags = c.flags /\ u.spec = c.spec
        /\ \/ /\ u.rc = "success" /\ u.block = NewHeader(c, off, cells)
              /\ SameHeader(u.med, NewHeader(c, off, cells))
              /\ u.med.data = Overlay(c.med.data, off, cells)
           \/ u.rc = "EIO"
    BY <1>1, <1>5, RewriteDoes
  <2>2. ASSUME u.rc = "success", Truthful(c)
        PROVE  Truthful(u)
    <3>1. Intact(u.med) /\ u.med.version = c.block.version /\ u.med.length = c.block.length
      BY <1>1, <2>1, <2>2, NewIsIntact
    <3>2. HeaderIntact(u.med) /\ u.med.psum = Sum(Payload(u.med, u.med.length))
      BY <3>1, IntactParts
    <3>3. u.block.version = u.med.version /\ u.block.length = u.med.length
      BY <2>1, <2>2 DEF SameHeader
    <3>. QED BY <1>1, <2>1, <2>2, <3>1, <3>2, <3>3 DEF Truthful
  <2>. QED BY <1>1, <1>3, <2>1, <2>2 DEF Keeps
<1>. QED BY <1>2, <1>4, <1>5

LEMMA InvalidateKeeps ==
  ASSUME NEW w, Proper(w), w.rc = "success", NEW parts, NEW u \in Invalidate(w, parts)
  PROVE  Keeps(w, u)
<1>. DEFINE c == WithCache(w)
<1>1. Proper(c) /\ c.med = w.med /\ c.spec = w.spec /\ c.rc = "success" /\ "META_CACHE_ACTIVE" \in c.flags
  BY WithCacheDoes
<1>2. Truthful(w) => Truthful(c)
  BY CacheKeeps
<1>3. CASE parts = {}
  <2>1. u = c
    BY <1>3 DEF Invalidate
  <2>. QED BY <1>1, <1>2, <2>1 DEF Keeps
<1>4. CASE parts # {}
  <2>1. /\ Proper(u) /\ u.spec = w.spec
        /\ \/ u.rc = "EIO"
           \/ /\ u.rc = "success" /\ SameHeader(u.med, u.block)
              /\ u.block.version = c.block.version /\ u.block.length = c.block.length
              /\ u.flags \subseteq c.flags /\ "META_CACHE_ACTIVE" \in u.flags
              /\ IF "META" \in parts THEN "META_CONSISTENT" \notin u.flags
                 ELSE HeaderIntact(u.block)
              /\ IF "PAYLOAD" \in parts THEN "PAYLOAD_CONSISTENT" \notin u.flags
                 ELSE u.block.psum = Sum(Payload(u.med, u.block.length))
    BY <1>4, InvalidateDoes
  <2>. HIDE DEF c
  <2>2. ASSUME u.rc # "EIO", Truthful(c)
        PROVE  Truthful(u)
    <3>1. /\ u.med.version = u.block.version /\ u.med.length = u.block.length
          /\ u.med.psum = u.block.psum /\ u.med.hsum = u.block.hsum
      BY <2>1, <2>2 DEF SameHeader
    <3>2. HeaderIntact(u.block) => HeaderIntact(u.med)
      BY <3>1 DEF HeaderIntact, HeaderSum
    <3>3. "PAYLOAD_CONSISTENT" \in u.flags => u.med.psum = Sum(Payload(u.med, u.med.length))
      BY <2>1, <2>2, <3>1
    <3>4. "PAYLOAD_COMPATIBLE" \in u.flags => u.block.version = u.spec.version /\ u.block.length = u.spec.length
      BY <1>1, <2>1, <2>2 DEF Truthful
    <3>. QED BY <2>1, <2>2, <3>1, <3>2, <3>3, <3>4 DEF Truthful
  <2>. QED BY <1>2, <2>1, <2>2 DEF Keeps
<1>. QED BY <1>3, <1>4

LEMMA FormatKeeps ==
  ASSUME NEW w, Proper(w), w.rc = "success", NEW u \in Format(w)
  PROVE  Keeps(w, u)
<1>1. /\ Proper(u) /\ u.spec = w.spec
      /\ \/ u.rc = "EIO"
         \/ /\ u.block.version = w.spec.version /\ u.block.length = w.spec.length
            /\ "META_CACHE_ACTIVE" \in u.flags /\ "PAYLOAD_CONSISTENT" \notin u.flags
  BY FormatDoes
<1>. QED BY <1>1 DEF Keeps, Truthful

\* A successful load is true whatever was before, and a failing one knows little.
LEMMA LoadKeeps ==
  ASSUME NEW w, Proper(w), w.rc = "success", NEW u \in Load(w)
  PROVE  Proper(u) /\ u.spec = w.spec /\ (u.rc # "EIO" => Truthful(u))
<1>1. /\ Proper(u) /\ u.med = w.med /\ u.spec = w.spec
      /\ \/ u.rc = "EIO"
         \/ u.rc = "EBADFD" /\ u.flags = {}
         \/ /\ u.rc = "EBADMSG"
            /\ SameHeader(u.block, w.med) /\ u.flags = MetaMask \cup Compatible(u.block, w.spec)
         \/ /\ u.rc = "success" /\ Intact(w.med) /\ SameHeader(u.block, w.med)
            /\ u.flags = MetaMask \cup Compatible(u.block, w.spec) \cup {"PAYLOAD_CONSISTENT"}
  BY LoadDoes
<1>2. CASE u.rc = "EBADFD" /\ u.flags = {}
  BY <1>1, <1>2 DEF Truthful
<1>3. CASE u.rc = "EBADMSG" /\ SameHeader(u.block, w.med) /\ u.flags = MetaMask \cup Compatible(u.block, w.spec)
  <2>1. "PAYLOAD_CONSISTENT" \notin u.flags /\ "META_CACHE_ACTIVE" \in u.flags
    BY <1>3, CompatibleBits DEF MetaMask
  <2>2. "PAYLOAD_COMPATIBLE" \in u.flags => u.block.version = w.spec.version /\ u.block.length = w.spec.length
    BY <1>3, CompatibleBits DEF MetaMask
  <2>. QED BY <1>1, <2>1, <2>2 DEF Truthful
<1>4. CASE /\ u.rc = "success" /\ Intact(w.med) /\ SameHeader(u.block, w.med)
           /\ u.flags = MetaMask \cup Compatible(u.block, w.spec) \cup {"PAYLOAD_CONSISTENT"}
  <2>1. HeaderIntact(u.med) /\ u.med.psum = Sum(Payload(u.med, u.med.length))
    BY <1>1, <1>4, IntactParts
  <2>2. u.med.version = u.block.version /\ u.med.length = u.block.length
    BY <1>1, <1>4 DEF SameHeader
  <2>3. "META_CACHE_ACTIVE" \in u.flags
    BY <1>4 DEF MetaMask
  <2>4. "PAYLOAD_COMPATIBLE" \in u.flags => u.block.version = w.spec.version /\ u.block.length = w.spec.length
    BY <1>4, CompatibleBits DEF MetaMask
  <2>. QED BY <1>1, <2>1, <2>2, <2>3, <2>4 DEF Truthful
<1>. QED BY <1>1, <1>2, <1>3, <1>4

LEMMA SaveKeeps ==
  ASSUME NEW w, Proper(w), w.rc = "success", NEW cells \in Blocks, NEW u \in Save(w, cells)
  PROVE  Keeps(w, u)
<1>1. /\ Proper(u) /\ u.spec = w.spec
      /\ \/ /\ u.rc = "EFAULT"
            /\ u.block.version = w.spec.version /\ u.block.length = w.spec.length
            /\ "PAYLOAD_CONSISTENT" \notin u.flags /\ "META_CACHE_ACTIVE" \in u.flags
         \/ u.rc = "EIO"
         \/ /\ u.rc = "success" /\ Intact(u.med) /\ SameHeader(u.block, u.med)
            /\ u.block.version = w.spec.version /\ u.block.length = w.spec.length
            /\ u.flags = MetaMask \cup Compatible(u.block, u.spec) \cup {"PAYLOAD_CONSISTENT"}
  BY SaveDoes
<1>2. CASE /\ u.rc = "EFAULT"
           /\ u.block.version = w.spec.version /\ u.block.length = w.spec.length
           /\ "PAYLOAD_CONSISTENT" \notin u.flags /\ "META_CACHE_ACTIVE" \in u.flags
  BY <1>1, <1>2 DEF Keeps, Truthful
<1>3. CASE /\ u.rc = "success" /\ Intact(u.med) /\ SameHeader(u.block, u.med)
           /\ u.block.version = w.spec.version /\ u.block.length = w.spec.length
           /\ u.flags = MetaMask \cup Compatible(u.block, u.spec) \cup {"PAYLOAD_CONSISTENT"}
  <2>1. HeaderIntact(u.med) /\ u.med.psum = Sum(Payload(u.med, u.med.length))
    BY <1>3, IntactParts
  <2>2. u.med.version = u.block.version /\ u.med.length = u.block.length
    BY <1>3 DEF SameHeader
  <2>3. "META_CACHE_ACTIVE" \in u.flags
    BY <1>3 DEF MetaMask
  <2>. QED BY <1>1, <1>3, <2>1, <2>2, <2>3 DEF Truthful, Keeps
<1>. QED BY <1>1, <1>2, <1>3 DEF Keeps

LEMMA FetchKeeps ==
  ASSUME NEW w, Proper(w), w.rc = "success", NEW off, NEW n, NEW u \in Fetch(w, off, n)
  PROVE  Keeps(w, u)
<1>1. /\ Proper(u) /\ u.med = w.med /\ u.spec = w.spec
      /\ \/ u.rc = "EIO"
         \/ "META_CACHE_ACTIVE" \in w.flags /\ u.block = w.block /\ u.flags = w.flags
         \/ "META_CACHE_ACTIVE" \notin w.flags /\ u.flags \subseteq w.flags \cup MetaMask
  BY FetchDoes
<1>2. CASE "META_CACHE_ACTIVE" \in w.flags /\ u.block = w.block /\ u.flags = w.flags
  BY <1>1, <1>2 DEF Keeps, Truthful
<1>3. CASE "META_CACHE_ACTIVE" \notin w.flags /\ u.flags \subseteq w.flags \cup MetaMask
  <2>1. ASSUME Truthful(w)
        PROVE  "PAYLOAD_CONSISTENT" \notin u.flags /\ "PAYLOAD_COMPATIBLE" \notin u.flags
    BY <1>3, <2>1 DEF Truthful, MetaMask
  <2>. QED BY <1>1, <2>1 DEF Keeps, Truthful
<1>. QED BY <1>1, <1>2, <1>3 DEF Keeps

(***************************************************************************)
(* The inductive invariant.                                                *)
(***************************************************************************)

TrueState == Truthful([med |-> med, block |-> block, flags |-> flags, spec |-> spec])

IInv == Shape /\ (clean => TrueState)

LEMMA WorldIsTrue ==
  ASSUME Shape
  PROVE  TrueState <=> Truthful(World)
<1>. DEFINE x == [med |-> med, block |-> block, flags |-> flags, spec |-> spec]
<1>1. x.med = med /\ x.block = block /\ x.flags = flags /\ x.spec = spec
  OBVIOUS
<1>. HIDE DEF x
<1>. QED BY <1>1, WorldIsProper DEF TrueState, Truthful, x

LEMMA Initially == Init => IInv
<1>. SUFFICES ASSUME Init PROVE IInv
  OBVIOUS
<1>1. BlankData \in Data
  BY SpecAssumption DEF BlankData, Data
<1>2. ProperMedium(BlankMedium) /\ ProperMedium(ZeroedMedium)
  BY <1>1 DEF ProperMedium, IsMedium, BlankMedium, ZeroedMedium, Lengths
<1>3. ProperMedium(med) /\ flags = {} /\ spec \in Specs /\ clean = TRUE /\ block = EmptyBlock
  BY <1>2 DEF Init
<1>4. Shape
  BY <1>3 DEF Shape, EmptyBlock, Lengths
<1>5. TrueState
  BY <1>3 DEF TrueState, Truthful
<1>. QED BY <1>4, <1>5 DEF IInv

LEMMA ReturnKeeps ==
  ASSUME Shape, NEW w, Proper(w), w.spec = spec, Returns(w), clean' \in BOOLEAN
  PROVE  Shape' /\ (Truthful(w) => TrueState')
<1>1. /\ med' = w.med /\ flags' = w.flags /\ spec' = w.spec
      /\ block' = [version |-> w.block.version, length |-> w.block.length]
  BY DEF Returns
<1>2. block'.version = w.block.version /\ block'.length = w.block.length
      /\ block' = [version |-> block'.version, length |-> block'.length]
  BY <1>1
<1>3. Shape'
  BY <1>1, <1>2 DEF Shape, Proper, ProperHeader
<1>4. TrueState' <=> Truthful(w)
  <2>. DEFINE x == [med |-> med', block |-> block', flags |-> flags', spec |-> spec']
  <2>1. x.med = w.med /\ x.block.version = w.block.version /\ x.block.length = w.block.length
        /\ x.flags = w.flags /\ x.spec = w.spec
    BY <1>1, <1>2
  <2>2. TrueState' <=> Truthful(x)
    BY DEF TrueState
  <2>. HIDE DEF x
  <2>. QED BY <2>1, <2>2 DEF Truthful
<1>. QED BY <1>3, <1>4

\* The instance in RAM is gone, which leaves nothing that could be false.
LEMMA PowerLostKeeps ==
  ASSUME NEW m, ProperMedium(m), PowerLost(m)
  PROVE  IInv'
<1>1. ProperMedium(med') /\ flags' = {} /\ spec' \in Specs /\ clean' = TRUE /\ block' = EmptyBlock
  BY DEF PowerLost
<1>2. Shape'
  BY <1>1 DEF Shape, EmptyBlock, Lengths
<1>3. TrueState'
  BY <1>1 DEF TrueState, Truthful
<1>. QED BY <1>2, <1>3 DEF IInv

LEMMA OutcomeKeeps ==
  ASSUME IInv, NEW w, Keeps(World, w),
         \/ Returns(w) /\ clean' = (clean /\ w.rc # "EIO")
         \/ w.rc = "EIO" /\ PowerLost(w.med)
  PROVE  IInv'
<1>0. Shape /\ Proper(w) /\ w.spec = spec /\ (clean => Truthful(World))
  BY WorldIsProper, WorldIsTrue DEF IInv, Keeps
<1>1. CASE Returns(w) /\ clean' = (clean /\ w.rc # "EIO")
  <2>1. clean' \in BOOLEAN /\ (clean' => clean /\ w.rc # "EIO")
    BY <1>1
  <2>2. Shape' /\ (Truthful(w) => TrueState')
    BY <1>0, <1>1, <2>1, ReturnKeeps
  <2>. QED BY <1>0, <2>1, <2>2 DEF IInv, Keeps
<1>2. CASE PowerLost(w.med)
  BY <1>0, <1>2, Parts, PowerLostKeeps
<1>. QED BY <1>1, <1>2

LEMMA CallOf ==
  ASSUME NEW outcomes, Call(outcomes)
  PROVE  \E w \in outcomes :
           \/ Returns(w) /\ clean' = (clean /\ w.rc # "EIO")
           \/ w.rc = "EIO" /\ PowerLost(w.med)
BY DEF Call

LEMMA Preserved == IInv /\ [Next]_vars => IInv'
<1>. SUFFICES ASSUME IInv, [Next]_vars PROVE IInv'
  OBVIOUS
<1>0. Shape /\ Proper(World) /\ World.rc = "success" /\ World.spec = spec
  BY WorldIsProper DEF IInv
<1>1. CASE DoLoad
  <2>1. PICK w \in Load(World) :
          \/ Returns(w) /\ clean' = (w.rc = "success" \/ (clean /\ w.rc # "EIO"))
          \/ w.rc = "EIO" /\ PowerLost(w.med)
    BY <1>1 DEF DoLoad
  <2>2. Proper(w) /\ w.spec = spec /\ (w.rc # "EIO" => Truthful(w))
    BY <1>0, LoadKeeps
  <2>3. CASE Returns(w) /\ clean' = (w.rc = "success" \/ (clean /\ w.rc # "EIO"))
    <3>1. clean' \in BOOLEAN /\ (clean' => w.rc # "EIO")
      BY <2>3
    <3>2. Shape' /\ (Truthful(w) => TrueState')
      BY <1>0, <2>2, <2>3, <3>1, ReturnKeeps
    <3>. QED BY <2>2, <3>1, <3>2 DEF IInv
  <2>4. CASE PowerLost(w.med)
    BY <2>2, <2>4, Parts, PowerLostKeeps
  <2>. QED BY <2>1, <2>3, <2>4
<1>2. CASE DoSave
  <2>1. PICK cells \in Blocks : Call(Save(World, cells))
    BY <1>2 DEF DoSave
  <2>2. PICK w \in Save(World, cells) :
           \/ Returns(w) /\ clean' = (clean /\ w.rc # "EIO")
           \/ w.rc = "EIO" /\ PowerLost(w.med)
    BY <2>1, CallOf
  <2>. QED BY <1>0, <2>2, SaveKeeps, OutcomeKeeps
<1>3. CASE DoStore
  <2>1. PICK off \in 0 .. MaxLength, cells \in Blocks : Call(Store(World, off, cells))
    BY <1>3 DEF DoStore
  <2>2. PICK w \in Store(World, off, cells) :
           \/ Returns(w) /\ clean' = (clean /\ w.rc # "EIO")
           \/ w.rc = "EIO" /\ PowerLost(w.med)
    BY <2>1, CallOf
  <2>3. Writing(Store(World, off, cells), World, off, cells) /\ off \in Lengths
    BY StoreDoes DEF Writing, Lengths
  <2>4. Keeps(World, w)
    BY <1>0, <2>3, WritingKeeps
  <2>. QED BY <2>2, <2>4, OutcomeKeeps
<1>4. CASE DoMemset
  <2>1. PICK cell \in Cell, off \in 0 .. MaxLength, n \in 0 .. MaxLength : Call(Memset(World, cell, off, n))
    BY <1>4 DEF DoMemset
  <2>2. PICK w \in Memset(World, cell, off, n) :
           \/ Returns(w) /\ clean' = (clean /\ w.rc # "EIO")
           \/ w.rc = "EIO" /\ PowerLost(w.med)
    BY <2>1, CallOf
  <2>. DEFINE cells == [i \in 1 .. n |-> cell]
  <2>3. Writing(Memset(World, cell, off, n), World, off, cells) /\ off \in Lengths
    BY MemsetDoes DEF Writing, Lengths
  <2>4. cells \in Blocks
    BY RepeatType
  <2>. HIDE DEF cells
  <2>5. Keeps(World, w)
    BY <1>0, <2>3, <2>4, WritingKeeps
  <2>. QED BY <2>2, <2>5, OutcomeKeeps
<1>5. CASE DoFormat
  <2>1. PICK w \in Format(World) :
           \/ Returns(w) /\ clean' = (clean /\ w.rc # "EIO")
           \/ w.rc = "EIO" /\ PowerLost(w.med)
    BY <1>5, CallOf DEF DoFormat
  <2>. QED BY <1>0, <2>1, FormatKeeps, OutcomeKeeps
<1>6. CASE DoInvalidate
  <2>1. PICK parts \in SUBSET {"META", "PAYLOAD"} : Call(Invalidate(World, parts))
    BY <1>6 DEF DoInvalidate
  <2>2. PICK w \in Invalidate(World, parts) :
           \/ Returns(w) /\ clean' = (clean /\ w.rc # "EIO")
           \/ w.rc = "EIO" /\ PowerLost(w.med)
    BY <2>1, CallOf
  <2>. QED BY <1>0, <2>2, InvalidateKeeps, OutcomeKeeps
<1>7. CASE DoFetch
  <2>1. PICK off \in 0 .. MaxLength, n \in 0 .. MaxLength : Call(Fetch(World, off, n))
    BY <1>7 DEF DoFetch
  <2>2. PICK w \in Fetch(World, off, n) :
           \/ Returns(w) /\ clean' = (clean /\ w.rc # "EIO")
           \/ w.rc = "EIO" /\ PowerLost(w.med)
    BY <2>1, CallOf
  <2>. QED BY <1>0, <2>2, FetchKeeps, OutcomeKeeps
<1>8. CASE Restart
  <2>1. ProperMedium(med) /\ PowerLost(med)
    BY <1>0, <1>8 DEF Shape, Restart
  <2>. QED BY <2>1, PowerLostKeeps
<1>9. CASE UNCHANGED vars
  BY <1>9 DEF vars, IInv, Shape, TrueState
<1>. QED BY <1>1, <1>2, <1>3, <1>4, <1>5, <1>6, <1>7, <1>8, <1>9 DEF Next

(***************************************************************************)
(* What follows.                                                           *)
(***************************************************************************)

\* An instance and its medium always have their shape: the header's length never
\* exceeds the section, whatever vp_read_meta() finds after a write that was cut short.
THEOREM TypeCorrect == Spec => []TypeOK
<1>1. IInv => TypeOK
  BY DEF IInv, Shape, TypeOK, ProperMedium, StateBits, Lengths
<1>. QED BY <1>1, Initially, Preserved, PTL DEF Spec

\* The bits of vp->state tell the truth about the medium through every sequence of
\* calls in which no access failed: what vp_fetch() would return is verified.
THEOREM BitsAreTrue == Spec => []StateIsTrue
<1>1. IInv => StateIsTrue
  <2>. SUFFICES ASSUME IInv, clean
                PROVE  /\ Fetchable(flags) => Intact(med) /\ med.version = block.version /\ med.length = block.length
                       /\ Usable => med.version = spec.version /\ med.length = spec.length
    BY DEF StateIsTrue
  <2>1. TrueState
    BY DEF IInv
  <2>2. /\ "PAYLOAD_CONSISTENT" \in flags =>
             /\ "META_CACHE_ACTIVE" \in flags
             /\ med.version = block.version /\ med.length = block.length
             /\ med.psum = Sum(Payload(med, med.length))
        /\ ("META_CACHE_ACTIVE" \in flags /\ "META_CONSISTENT" \in flags /\ "PAYLOAD_CONSISTENT" \in flags)
             => HeaderIntact(med)
        /\ "PAYLOAD_COMPATIBLE" \in flags => block.version = spec.version /\ block.length = spec.length
    BY <2>1 DEF TrueState, Truthful
  <2>3. Fetchable(flags) => Intact(med)
    BY <2>2, IntactParts DEF Fetchable
  <2>. QED BY <2>2, <2>3 DEF Fetchable, Usable
<1>. QED BY <1>1, Initially, Preserved, PTL DEF Spec

\* vp_store() and vp_memset() that return success leave an intact section that holds
\* the data and kept the rest.
THEOREM WritesSettle == Spec => []StoresSettle
<1>1. IInv => StoresSettle
  <2>. SUFFICES ASSUME IInv PROVE StoresSettle
    OBVIOUS
  <2>0. Proper(World) /\ World.rc = "success" /\ World.med = med
    BY WorldIsProper DEF IInv
  <2>1. ASSUME NEW off \in 0 .. MaxLength, NEW cells \in Blocks
        PROVE  Settled(Store(World, off, cells), off, cells)
    <3>1. Writing(Store(World, off, cells), World, off, cells) /\ off \in Lengths
      BY StoreDoes DEF Writing, Lengths
    <3>. QED BY <2>0, <3>1, WritingSettles DEF Settled
  <2>2. ASSUME NEW cell \in Cell, NEW off \in 0 .. MaxLength, NEW n \in 0 .. MaxLength
        PROVE  Settled(Memset(World, cell, off, n), off, [i \in 1 .. n |-> cell])
    <3>. DEFINE cells == [i \in 1 .. n |-> cell]
    <3>1. Writing(Memset(World, cell, off, n), World, off, cells) /\ off \in Lengths
      BY MemsetDoes DEF Writing, Lengths
    <3>2. cells \in Blocks
      BY RepeatType
    <3>. HIDE DEF cells
    <3>3. Settled(Memset(World, cell, off, n), off, cells)
      BY <2>0, <3>1, <3>2, WritingSettles DEF Settled
    <3>. QED BY <3>3 DEF cells
  <2>. QED BY <2>1, <2>2 DEF StoresSettle
<1>. QED BY <1>1, Initially, Preserved, PTL DEF Spec

\* vp_save(), vp_store() and vp_memset() that are cut short leave a section that is not
\* intact, or that of before, or the complete one.
THEOREM MixturesAreNoticed == Spec => []FaultIsNoticed
<1>1. IInv => FaultIsNoticed
  <2>. SUFFICES ASSUME IInv, Intact(med)
                PROVE  /\ \A cells \in Blocks : NoMixture(Save(World, cells))
                       /\ \A off \in 0 .. MaxLength, cells \in Blocks : NoMixture(Store(World, off, cells))
                       /\ \A cell \in Cell, off, n \in 0 .. MaxLength : NoMixture(Memset(World, cell, off, n))
    BY DEF FaultIsNoticed
  <2>0. Proper(World) /\ World.rc = "success" /\ World.med = med
    BY WorldIsProper DEF IInv
  <2>1. ASSUME NEW cells \in Blocks
        PROVE  NoMixture(Save(World, cells))
    <3>. SUFFICES ASSUME NEW u \in Save(World, cells), u.rc # "success", Intact(u.med)
                  PROVE  \/ Section(u.med) = Section(med)
                         \/ \E v \in Save(World, cells) : v.rc = "success" /\ Section(v.med) = Section(u.med)
      BY Zenon DEF NoMixture, Mixed, Completed
    <3>1. ~Spoilt(u.med.psum)
      <4>1. u.med.psum = Sum(Payload(u.med, u.med.length))
        BY IntactParts
      <4>2. u.med.psum.kind = "correct"
        BY <4>1, SumsTellApart
      <4>. QED BY <4>2 DEF Spoilt
    <3>2. \/ SameHeader(u.med, med) /\ u.med.data = med.data
          \/ \E v \in Save(World, cells) : v.rc = "success" /\ Section(v.med) = Section(u.med)
      BY <2>0, <3>1, SaveDoes
    <3>. QED BY <3>2, SameSection
  <2>2. ASSUME NEW off \in 0 .. MaxLength, NEW cells \in Blocks
        PROVE  NoMixture(Store(World, off, cells))
    <3>1. Writing(Store(World, off, cells), World, off, cells) /\ off \in Lengths
      BY StoreDoes DEF Writing, Lengths
    <3>. QED BY <2>0, <3>1, WritingIsNoticed
  <2>3. ASSUME NEW cell \in Cell, NEW off \in 0 .. MaxLength, NEW n \in 0 .. MaxLength
        PROVE  NoMixture(Memset(World, cell, off, n))
    <3>. DEFINE cells == [i \in 1 .. n |-> cell]
    <3>1. Writing(Memset(World, cell, off, n), World, off, cells) /\ off \in Lengths
      BY MemsetDoes DEF Writing, Lengths
    <3>2. cells \in Blocks
      BY RepeatType
    <3>. HIDE DEF cells
    <3>. QED BY <2>0, <3>1, <3>2, WritingIsNoticed
  <2>. QED BY <2>1, <2>2, <2>3
<1>. QED BY <1>1, Initially, Preserved, PTL DEF Spec

\* vp_save() of a whole payload succeeds unless an access fails, and leaves an instance
\* that is usable and a section that holds the data, whatever went wrong before.
THEOREM SavesAreUsable == Spec => []SaveIsUsable
<1>1. IInv => SaveIsUsable
  <2>. SUFFICES ASSUME IInv, NEW cells \in Blocks, Len(cells) = spec.length
                PROVE  /\ \E w \in Save(World, cells) : w.rc = "success"
                       /\ \A w \in Save(World, cells) : w.rc = "success" =>
                            /\ {"META_CONSISTENT", "PAYLOAD_COMPATIBLE", "PAYLOAD_CONSISTENT"} \subseteq w.flags
                            /\ Intact(w.med)
                            /\ Payload(w.med, spec.length) = cells
    BY DEF SaveIsUsable
  <2>0. Proper(World) /\ World.rc = "success" /\ World.med = med /\ World.spec = spec /\ med.data \in Data
    BY WorldIsProper DEF IInv, Shape, ProperMedium
  <2>1. \E w \in Save(World, cells) : w.rc = "success"
    BY <2>0, SaveMay
  <2>2. ASSUME NEW w \in Save(World, cells), w.rc = "success"
        PROVE  /\ {"META_CONSISTENT", "PAYLOAD_COMPATIBLE", "PAYLOAD_CONSISTENT"} \subseteq w.flags
               /\ Intact(w.med)
               /\ Payload(w.med, spec.length) = cells
    <3>1. /\ Intact(w.med) /\ w.med.data = Overlay(med.data, 0, cells) /\ w.spec = spec
          /\ w.block.version = spec.version /\ w.block.length = spec.length
          /\ w.flags = MetaMask \cup Compatible(w.block, w.spec) \cup {"PAYLOAD_CONSISTENT"}
      BY <2>0, <2>2, SaveDoes
    <3>2. "PAYLOAD_COMPATIBLE" \in Compatible(w.block, w.spec)
      BY <3>1, CompatibleBits
    <3>3. Payload(w.med, spec.length) = cells
      BY <2>0, <3>1, OverlayFront DEF Payload
    <3>. QED BY <3>1, <3>2, <3>3 DEF MetaMask
  <2>. QED BY <2>1, <2>2
<1>. QED BY <1>1, Initially, Preserved, PTL DEF Spec
================================================================================
