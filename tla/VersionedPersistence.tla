-------------------------- MODULE VersionedPersistence --------------------------
(***************************************************************************)
(* A section of versioned persistent memory, src/vp/core.c and             *)
(* src/vp/internal.c: a header in front of a payload, each with a          *)
(* checksum, and an instance in RAM that keeps a copy of the header and    *)
(* the bits of vp->state.                                                  *)
(*                                                                         *)
(* Every access to the medium may fail, a write at any octet, and power    *)
(* may be lost at any of them.  A call is translated into the set of its   *)
(* outcomes: one in which no access fails, and one for each way in which   *)
(* it ends early.  vp->result and the checksums in vp->metablock are used  *)
(* in no call but the one that read or calculated them: they are not kept  *)
(* from one call to the next.                                              *)
(***************************************************************************)
EXTENDS Naturals, Sequences

CONSTANTS
  Specs,      \* the specifications of the program's versions: version, length
  MaxLength,  \* octets of payload in the section
  Cell,       \* values of an octet of the payload
  Blank       \* the value of an octet that was never written

ASSUME SpecAssumption ==
  /\ MaxLength \in Nat
  /\ Specs # {} /\ Specs \subseteq [version : Nat, length : 0 .. MaxLength]
  /\ Blank \in Cell

VARIABLES
  med,    \* the medium: the fields of the header, and the payload
  block,  \* vp->metablock: its version and length
  flags,  \* vp->state
  spec,   \* vp->spec
  clean   \* history: no access failed since the last successful vp_load()

vars == <<med, block, flags, spec, clean>>

(***************************************************************************)
(* Checksums tell data apart: a checksum is the data it was calculated     *)
(* of.  One that was inverted, or written in part, matches no data.        *)
(***************************************************************************)

Sum(data) == [kind |-> "correct", of |-> data]
TornSum   == [kind |-> "torn", of |-> <<>>]

\* A defect the checks must notice: the checksum stays as it is.
NotInverted(sum) == sum
Inverted(sum)    == [sum EXCEPT !.kind = "inverted"]

HeaderSum(h)    == Sum(<<h.version, h.length, h.psum>>)
Payload(m, n)   == SubSeq(m.data, 1, n)
HeaderOf(m)     == [hsum |-> m.hsum, version |-> m.version, length |-> m.length, psum |-> m.psum]
HeaderIntact(h) == h.hsum = HeaderSum(h)
Intact(m)       == HeaderIntact(m) /\ m.psum = Sum(Payload(m, m.length))

(***************************************************************************)
(* A world is all a call works on, with the code it returned so far.       *)
(***************************************************************************)

BlockOf(version, length) ==
  [hsum |-> TornSum, version |-> version, length |-> length, psum |-> TornSum]

World == [med |-> med, block |-> BlockOf(block.version, block.length), flags |-> flags, spec |-> spec, rc |-> "success"]

Fails(w, code) == [w EXCEPT !.rc = code]
SetBits(w, bits)   == [w EXCEPT !.flags = @ \cup bits]
ClearBits(w, bits) == [w EXCEPT !.flags = @ \ bits]

\* The macro maybe(): go on with F unless the outcome was an error.
Maybe(outcomes, F(_)) == UNION {IF w.rc = "success" THEN F(w) ELSE {w} : w \in outcomes}

\* Headers of which the first octets are those of new: fields of two octets, of
\* which a half written checksum is neither the old one nor the new one.
HalfSum(old, new) == IF old = new THEN new ELSE TornSum
TornHeaders(m, new) ==
  {m,
   [m EXCEPT !.hsum = HalfSum(m.hsum, new.hsum)],
   [m EXCEPT !.hsum = new.hsum],
   [m EXCEPT !.hsum = new.hsum, !.version = new.version],
   [m EXCEPT !.hsum = new.hsum, !.version = new.version, !.length = new.length],
   [m EXCEPT !.hsum = new.hsum, !.version = new.version, !.length = new.length,
             !.psum = HalfSum(m.psum, new.psum)],
   [m EXCEPT !.hsum = new.hsum, !.version = new.version, !.length = new.length,
             !.psum = new.psum]}

\* A defect the checks must notice: the block is written one cell too far.
OverlayShifted(data, off, cells) ==
  [i \in (1 .. Len(data)) \cup (off + 2 .. off + 1 + Len(cells)) |->
     IF i \in off + 2 .. off + 1 + Len(cells) THEN cells[i - off - 1] ELSE data[i]]

Overlay(data, off, cells) ==
  [i \in 1 .. Len(data) |-> IF i \in off + 1 .. off + Len(cells) THEN cells[i - off] ELSE data[i]]

\* sink_seek() and sink_put_chunk() into the payload.
PutPayload(w, off, cells) ==
  {[w EXCEPT !.med.data = Overlay(@, off, cells)]} \cup
  {[w EXCEPT !.med.data = Overlay(@, off, SubSeq(cells, 1, n)), !.rc = "EIO"] : n \in 0 .. Len(cells)}

\* vp_store_header()
StoreHeader(w) ==
  {[w EXCEPT !.med = [data |-> w.med.data, hsum |-> w.block.hsum, version |-> w.block.version,
                      length |-> w.block.length, psum |-> w.block.psum]]} \cup
  {[w EXCEPT !.med = m, !.rc = "EIO"] : m \in TornHeaders(w.med, w.block)}

\* load_meta_from_spec()
LoadMetaFromSpec(w) ==
  ClearBits(SetBits([w EXCEPT !.block.version = w.spec.version, !.block.length = w.spec.length],
                    {"META_CACHE_ACTIVE"}),
            {"META_CACHE_FROM_STORAGE"})

WithCache(w) == IF "META_CACHE_ACTIVE" \in w.flags THEN w ELSE LoadMetaFromSpec(w)

\* vp_read_meta()
MetaMask == {"META_CACHE_FROM_STORAGE", "META_CACHE_ACTIVE", "META_CONSISTENT"}
ReadMeta(w) ==
  LET h == HeaderOf(w.med)
      r == [w EXCEPT !.block = h]
  IN  {Fails(w, "EIO"),
       IF HeaderIntact(h) THEN SetBits(r, MetaMask) ELSE Fails(ClearBits(r, MetaMask), "EBADFD")}

\* vp_verify_payload()
VerifyPayload(w, n) ==
  {Fails(w, "EIO"),
   IF w.block.psum = Sum(Payload(w.med, n)) THEN w ELSE Fails(w, "EBADMSG")}

\* A defect the checks must notice: the header's checksum is calculated first.
ChecksummedHeaderFirst(h, data) ==
  [h EXCEPT !.psum = Sum(SubSeq(data, 1, h.length)), !.hsum = HeaderSum(h)]

\* "Order is important here: First payload checksum, then header."
Checksummed(h, data) ==
  LET new == [h EXCEPT !.psum = Sum(SubSeq(data, 1, h.length))]
  IN  [new EXCEPT !.hsum = HeaderSum(new)]

\* vp_update_checksums() and vp_update_meta()
UpdateChecksums(w) == {Fails(w, "EIO"), [w EXCEPT !.block = Checksummed(@, w.med.data)]}
UpdateMeta(w) == Maybe(UpdateChecksums(WithCache(w)), StoreHeader)

(***************************************************************************)
(* The calls.                                                              *)
(***************************************************************************)

Memset(w, cell, off, n) ==
  LET c == WithCache(w)
  IN  IF n + off > c.block.length THEN {Fails(c, "EINVAL")}
      ELSE Maybe(PutPayload(c, off, [i \in 1 .. n |-> cell]), UpdateMeta)

\* A defect the checks must notice: the state still tells of a consistent payload.
PayloadInvalidatedInBlock(w) ==
  LET new == [w.block EXCEPT !.psum = Inverted(@)]
  IN  [w EXCEPT !.block = [new EXCEPT !.hsum = HeaderSum(new)]]

PayloadInvalidated(w) ==
  LET new == [w.block EXCEPT !.psum = Inverted(@)]
  IN  ClearBits([w EXCEPT !.block = [new EXCEPT !.hsum = HeaderSum(new)]], {"PAYLOAD_CONSISTENT"})

MetaInvalidated(w) ==
  ClearBits([w EXCEPT !.block.hsum = Inverted(@)], {"META_CONSISTENT"})

Invalidate(w, parts) ==
  LET invalidated(u) ==
        LET p == IF "PAYLOAD" \in parts THEN PayloadInvalidated(u) ELSE u
        IN  StoreHeader(IF "META" \in parts THEN MetaInvalidated(p) ELSE p)
  IN  IF parts = {} THEN {WithCache(w)}
      ELSE Maybe(UpdateChecksums(WithCache(w)), invalidated)

Format(w) == Maybe(Invalidate(LoadMetaFromSpec(w), {"PAYLOAD"}), ReadMeta)

Store(w, off, cells) ==
  LET c == WithCache(w)
  IN  IF "META_CONSISTENT" \notin c.flags THEN {Fails(c, "EINVAL")}
      ELSE IF off + Len(cells) > c.block.length THEN {Fails(c, "EFAULT")}
      ELSE Maybe(PutPayload(c, off, cells), UpdateMeta)

\* A defect the checks must notice: the version's bit is read before it is set.
CompatibleTooEarly(h, s) ==
  (IF h.version = s.version THEN {"VERSION_COMPATIBLE"} ELSE {}) \cup
  (IF h.length = s.length THEN {"LENGTH_COMPATIBLE"} ELSE {})

Compatible(h, s) ==
  (IF h.version = s.version THEN {"VERSION_COMPATIBLE"} ELSE {}) \cup
  (IF h.length = s.length THEN {"LENGTH_COMPATIBLE"} ELSE {}) \cup
  (IF h.version = s.version /\ h.length = s.length THEN {"PAYLOAD_COMPATIBLE"} ELSE {})

Load(w) ==
  LET compare(r) == VerifyPayload(SetBits(r, Compatible(r.block, r.spec)), r.block.length)
      consistent(r) == {SetBits(r, {"PAYLOAD_CONSISTENT"})}
  IN  Maybe(Maybe(ReadMeta([w EXCEPT !.flags = {}]), compare), consistent)

Save(w, cells) ==
  LET store(u) == Store(u, 0, cells)
  IN  Maybe(Maybe(Format(w), store), Load)

\* vp_fetch(); the octets it reads are those of the medium.
Fetchable(bits) == {"META_CONSISTENT", "PAYLOAD_CONSISTENT"} \subseteq bits
Fetch(w, off, n) ==
  LET fetch(r) == IF ~Fetchable(r.flags) THEN {Fails(r, "EINVAL")}
                  ELSE IF off + n > r.block.length THEN {Fails(r, "EFAULT")}
                  ELSE IF n = 0 THEN {Fails(r, "EINVAL")}
                  ELSE {r, Fails(r, "EIO")}
  IN  Maybe(IF "META_CACHE_ACTIVE" \in w.flags THEN {w} ELSE ReadMeta(w), fetch)

(***************************************************************************)
(* The program calls, loses power, and comes back, perhaps with another    *)
(* version of itself.                                                      *)
(***************************************************************************)

EmptyBlock == [version |-> 0, length |-> 0]
Data       == [1 .. MaxLength -> Cell]
Blocks     == UNION {[1 .. n -> Cell] : n \in 0 .. MaxLength}
BlankData  == [i \in 1 .. MaxLength |-> Blank]

\* A medium that was never written, and one of zeroes: the checksum of zeroes is
\* zero, which makes it a section of no octets.
BlankMedium  ==
  [hsum |-> TornSum, version |-> 0, length |-> 0, psum |-> TornSum, data |-> BlankData]
ZeroedMedium ==
  [hsum |-> Sum(<<0, 0, Sum(<<>>)>>), version |-> 0, length |-> 0, psum |-> Sum(<<>>), data |-> BlankData]

Init ==
  /\ med \in {BlankMedium, ZeroedMedium}
  /\ block = EmptyBlock
  /\ flags = {}
  /\ spec \in Specs
  /\ clean = TRUE

Returns(w) ==
  /\ med' = w.med /\ flags' = w.flags
  /\ block' = [version |-> w.block.version, length |-> w.block.length]
  /\ UNCHANGED spec

\* Power is lost in a call where an access would fail.
PowerLost(m) ==
  /\ med' = m
  /\ block' = EmptyBlock
  /\ flags' = {}
  /\ spec' \in Specs
  /\ clean' = TRUE

Call(outcomes) ==
  \E w \in outcomes :
    \/ Returns(w) /\ clean' = (clean /\ w.rc # "EIO")
    \/ w.rc = "EIO" /\ PowerLost(w.med)

DoLoad ==
  \E w \in Load(World) :
    \/ Returns(w) /\ clean' = (w.rc = "success" \/ (clean /\ w.rc # "EIO"))
    \/ w.rc = "EIO" /\ PowerLost(w.med)

DoSave == \E cells \in Blocks : Call(Save(World, cells))
DoStore == \E off \in 0 .. MaxLength, cells \in Blocks : Call(Store(World, off, cells))
DoMemset == \E cell \in Cell, off, n \in 0 .. MaxLength : Call(Memset(World, cell, off, n))
DoFormat == Call(Format(World))
DoInvalidate == \E parts \in SUBSET {"META", "PAYLOAD"} : Call(Invalidate(World, parts))
DoFetch == \E off, n \in 0 .. MaxLength : Call(Fetch(World, off, n))
Restart == PowerLost(med)

Next == DoLoad \/ DoSave \/ DoStore \/ DoMemset \/ DoFormat \/ DoInvalidate \/ DoFetch \/ Restart

Spec == Init /\ [][Next]_vars

(***************************************************************************)
(* Properties                                                              *)
(***************************************************************************)

Usable == {"META_CONSISTENT", "PAYLOAD_COMPATIBLE", "PAYLOAD_CONSISTENT"} \subseteq flags

TypeOK ==
  /\ med.data \in Data
  /\ med.length \in 0 .. MaxLength /\ block.length \in 0 .. MaxLength
  /\ med.version \in Nat /\ block.version \in Nat
  /\ flags \subseteq {"META_CACHE_ACTIVE", "META_CACHE_FROM_STORAGE", "META_CONSISTENT",
                      "PAYLOAD_CONSISTENT", "PAYLOAD_COMPATIBLE", "LENGTH_COMPATIBLE",
                      "VERSION_COMPATIBLE"}
  /\ spec \in Specs
  /\ clean \in BOOLEAN

\* As long as no access fails, vp->state tells the truth about the medium through
\* any sequence of calls: what vp_fetch() returns is verified, and a section
\* that is usable is the one of this version of the program.
StateIsTrue ==
  clean =>
    /\ Fetchable(flags) => Intact(med) /\ med.version = block.version /\ med.length = block.length
    /\ Usable => med.version = spec.version /\ med.length = spec.length

\* A call that is cut short, by an error or a loss of power, on an intact section
\* leaves one that is not intact, or the section of before, or the one the call
\* was to leave: no mixture of versions, lengths or data goes unnoticed.
Section(m) == [version |-> m.version, length |-> m.length, payload |-> Payload(m, m.length)]
Mixed(w, complete) ==
  w.rc # "success" /\ Intact(w.med) /\ Section(w.med) \notin {Section(med)} \cup complete
Completed(outcomes) == {Section(w.med) : w \in {w \in outcomes : w.rc = "success"}}
NoMixture(outcomes) == ~\E w \in outcomes : Mixed(w, Completed(outcomes))

FaultIsNoticed ==
  Intact(med) =>
    /\ \A cells \in Blocks : NoMixture(Save(World, cells))
    /\ \A off \in 0 .. MaxLength, cells \in Blocks : NoMixture(Store(World, off, cells))
    /\ \A cell \in Cell, off, n \in 0 .. MaxLength : NoMixture(Memset(World, cell, off, n))

\* Whatever the medium holds and whatever went wrong before, a save of a whole
\* payload that returns success leaves an instance that is usable and a section
\* that holds the data; and one without failing accesses succeeds.
SaveIsUsable ==
  \A cells \in Blocks : Len(cells) = spec.length =>
    /\ \E w \in Save(World, cells) : w.rc = "success"
    /\ \A w \in Save(World, cells) : w.rc = "success" =>
         /\ {"META_CONSISTENT", "PAYLOAD_COMPATIBLE", "PAYLOAD_CONSISTENT"} \subseteq w.flags
         /\ Intact(w.med)
         /\ Payload(w.med, spec.length) = cells

\* Stores and memsets that return success leave an intact section that holds the
\* data and kept the rest.
Settled(outcomes, off, cells) ==
  \A w \in outcomes : w.rc = "success" =>
    Intact(w.med) /\ w.med.data = Overlay(med.data, off, cells)

StoresSettle ==
  /\ \A off \in 0 .. MaxLength, cells \in Blocks : Settled(Store(World, off, cells), off, cells)
  /\ \A cell \in Cell, off, n \in 0 .. MaxLength :
       Settled(Memset(World, cell, off, n), off, [i \in 1 .. n |-> cell])

\* "In fetches, header and payload must have been verified": what vp_fetch()
\* reads is part of an intact section.
FetchesAreVerified == Fetchable(flags) => Intact(med)
================================================================================
