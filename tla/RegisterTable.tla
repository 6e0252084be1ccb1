----------------------------- MODULE RegisterTable -----------------------------
(***************************************************************************)
(* The register table of src/registers/core.c: registers of several types  *)
(* laid over areas of atoms.  The user reaches the same atoms through      *)
(* registers, which validate what they store, through blocks, which        *)
(* validate every register they touch, and through functions that do not   *)
(* validate at all.                                                        *)
(*                                                                         *)
(* An atom is a bit here, so that a value is the bits of its atoms; the    *)
(* order of the octets inside of an atom is left out.  Addresses are       *)
(* counted modulo AddressCount.  The set-up of a table does not change     *)
(* once it is chosen.                                                      *)
(***************************************************************************)
EXTENDS Integers, Sequences, FiniteSets

CONSTANTS
  Tables,         \* the set-ups: [area |-> <<...>>, entry |-> <<...>>]
  AddressCount,   \* number of register addresses
  MaxBlock,       \* length of the longest block the user transfers
  NotNormal,      \* the bits of floats that are neither zero nor normal
  Callback(_, _)  \* the user's validator: entry and number to BOOLEAN

ASSUME BoundsAssumption == AddressCount \in Nat \ {0} /\ MaxBlock \in 0 .. AddressCount

VARIABLES
  table,        \* t->area and t->entry
  mem,          \* what the areas hold, by register address
  counted,      \* t->areas and t->entries are known
  initialised,  \* REG_TF_INITIALISED
  bigendian,    \* REG_TF_BIG_ENDIAN
  span,         \* area[].entry: handles of first and last, and count
  touched,      \* handles of the entries with REG_EF_TOUCHED
  sound,        \* history: handles whose atoms only validated writes changed
  last          \* history: the last call and the code it returned

vars == <<table, mem, counted, initialised, bigendian, span, touched, sound, last>>

Address == 0 .. AddressCount - 1
Atom    == {0, 1}
Type    == {"u16", "u32", "u64", "s16", "s32", "s64", "f32", "f64"}
Bits(n) == [1 .. n -> Atom]

\* rds_size[]
SizeOf(type) == CASE type \in {"u16", "s16"}        -> 1
                  [] type \in {"u32", "s32", "f32"} -> 2
                  [] type \in {"u64", "s64", "f64"} -> 4

\* What there is of areas and of entries: areas end where the addresses do.
AreaType ==
  {a \in [base : Nat, size : Nat, read : BOOLEAN, write : BOOLEAN, readable : BOOLEAN,
          writeable : BOOLEAN, skip : BOOLEAN, memory : BOOLEAN] :
     a.base + a.size <= AddressCount}

EntryType ==
  {e \in [address : Nat, type : Type, default : UNION {Bits(n) : n \in {1, 2, 4}},
          check : {"trivial", "fail", "min", "max", "range", "callback"},
          min : Int, max : Int] :
     Len(e.default) = SizeOf(e.type)}

ASSUME TableAssumption ==
  \A t \in Tables : t.area \in Seq(AreaType) /\ t.entry \in Seq(EntryType)

Plus(a, n) == (a + n) % AddressCount
Lesser(a, b) == IF a < b THEN a ELSE b
Least(S) == CHOOSE x \in S : \A y \in S : x <= y

Area(an)  == table.area[an + 1]
Entry(h)  == table.entry[h + 1]
Areas     == 0 .. Len(table.area) - 1
Handles   == 0 .. Len(table.entry) - 1
Size(h)   == SizeOf(Entry(h).type)
End(h)    == Entry(h).address + Size(h) - 1

IsPartOf(an, addr) == Area(an).base <= addr /\ addr < Area(an).base + Area(an).size
FindArea(addr) == Least({an \in Areas : IsPartOf(an, addr)})
Mapped(addr) == \E an \in Areas : IsPartOf(an, addr)
AreaOf(h) == FindArea(Entry(h).address)

RangeTouchesArea(an, addr, n) ==
  ~(Area(an).base + Area(an).size <= addr) /\ ~(Plus(addr, n) <= Area(an).base)

\* A defect the checks must notice: a range is taken to be one atom shorter than
\* it is.
RangeTouchesLess(h, addr, n) == ~(End(h) < addr) /\ ~(Plus(addr, n) <= Entry(h).address + 1)

RangeTouches(h, addr, n) == ~(End(h) < addr) /\ ~(Plus(addr, n) <= Entry(h).address)

CanWrite(an)    == Area(an).write
IsWriteable(an) == CanWrite(an) /\ Area(an).writeable
IsReadable(an)  == Area(an).read /\ Area(an).readable

(***************************************************************************)
(* Values: bits, the least significant first, as rds_serdes[] makes them.  *)
(***************************************************************************)

Swapped(bits) == [i \in 1 .. Len(bits) |-> bits[Len(bits) + 1 - i]]
Raw(bits) == IF bigendian THEN Swapped(bits) ELSE bits

Converts(type, bits) == type \in {"f32", "f64"} => bits \notin NotNormal

Number(type, bits) ==
  LET n == Len(bits)
      upto[i \in 0 .. n] == IF i = 0 THEN 0 ELSE upto[i - 1] + bits[i] * 2 ^ (i - 1)
  IN  IF type \in {"s16", "s32", "s64"} /\ bits[n] = 1 THEN upto[n] - 2 ^ n ELSE upto[n]

Stored(m, h) == Raw([i \in 1 .. Size(h) |-> m[Entry(h).address + i - 1]])

\* rv_validate() of a value of the right type; the default of a register that
\* refuses all writes is accepted while the table is initialised.
Accepts(h, bits, duringInit) ==
  LET e == Entry(h)
      v == Number(e.type, bits)
  IN  CASE e.check = "trivial"  -> TRUE
        [] e.check = "fail"     -> duringInit
        [] e.check = "min"      -> v >= e.min
        [] e.check = "max"      -> v <= e.max
        [] e.check = "range"    -> v >= e.min /\ v <= e.max
        [] e.check = "callback" -> Callback(e, v)

\* The memory m with the bits of register h replaced.
WithRegister(m, h, bits) ==
  [a \in Address |-> IF Entry(h).address <= a /\ a <= End(h)
                     THEN Raw(bits)[a - Entry(h).address + 1] ELSE m[a]]

\* The memory m with the default values of the registers in H.
WithDefaults(m, H) ==
  [a \in Address |-> IF \E h \in H : Entry(h).address <= a /\ a <= End(h)
                     THEN LET h == CHOOSE h \in H : Entry(h).address <= a /\ a <= End(h)
                          IN  Raw(Entry(h).default)[a - Entry(h).address + 1]
                     ELSE m[a]]

\* The memory m with a block written from an address on.
WithBlock(m, addr, buf) ==
  [a \in Address |-> IF addr <= a /\ a < addr + Len(buf) THEN buf[a - addr + 1] ELSE m[a]]

InRange(addr, n) == {h \in Handles : Entry(h).address < addr + n /\ addr <= End(h)}

\* Only the calls the properties are about are told apart.
Observed == {"init", "block_write", "sanitise"}
Returns(op, code) ==
  last' = IF op \in Observed THEN [op |-> op, code |-> code] ELSE [op |-> "other", code |-> "any"]

\* Areas that are not in system memory are reached through callbacks of the user;
\* one that fails has done nothing.
Custom == {an \in Areas : ~Area(an).memory}

Init ==
  /\ table \in Tables
  /\ mem = [a \in Address |-> 0]
  /\ counted = FALSE
  /\ initialised = FALSE
  /\ bigendian = FALSE
  /\ span = [an \in Areas |-> [first |-> 0, last |-> 0, count |-> 0]]
  /\ touched = {}
  /\ sound = {}
  /\ last = [op |-> "none", code |-> "success"]

(***************************************************************************)
(* register_init()                                                         *)
(***************************************************************************)

\* The lists must be sorted by address and must not overlap; the first pair of
\* neighbours that is neither is reported.
Disorder(first, second, size, order, overlap) ==
  IF second < first THEN order ELSE IF second < first + size THEN overlap ELSE "success"

AreaOrder(an) == Disorder(Area(an - 1).base, Area(an).base, Area(an - 1).size,
                          "area_invalid_order", "area_address_overlap")
EntryOrder(h) == Disorder(Entry(h - 1).address, Entry(h).address, Size(h - 1),
                          "entry_invalid_order", "entry_address_overlap")

BadAreas   == {an \in Areas \ {0} : AreaOrder(an) # "success"}
BadEntries == {h \in Handles \ {0} : EntryOrder(h) # "success"}

\* A defect the checks must notice: only the first atom has to be in memory.
FitsIntoAtStart(h) == Mapped(Entry(h).address)

IsInMemory(h) ==
  /\ Mapped(Entry(h).address)
  /\ End(h) < Area(AreaOf(h)).base + Area(AreaOf(h)).size

NeedToLoadDefault(h) == CanWrite(AreaOf(h)) /\ ~Area(AreaOf(h)).skip

DefaultIsSet(h, broken, duringInit) ==
  /\ Accepts(h, Entry(h).default, duringInit)
  /\ CanWrite(AreaOf(h))
  /\ Converts(Entry(h).type, Entry(h).default)
  /\ AreaOf(h) \notin broken

\* What stops the loop over the entries at h.
EntryVerdict(h, broken) ==
  IF ~IsInMemory(h) THEN "entry_in_memory_hole"
  ELSE IF NeedToLoadDefault(h) /\ ~DefaultIsSet(h, broken, TRUE) THEN "entry_invalid_default"
  ELSE "success"

\* The handle the search for the entries of area an starts at.
SpanStart ==
  LET start[an \in 0 .. Len(table.area)] ==
        IF an = 0 THEN 0
        ELSE LET h == start[an - 1]
                 others == {k \in Handles : k > h /\ ~IsPartOf(an - 1, Entry(k).address)}
             IN  IF h \in Handles /\ IsPartOf(an - 1, Entry(h).address)
                 THEN IF others = {} THEN Len(table.entry) ELSE Least(others)
                 ELSE h
  IN  start

\* A defect the checks must notice: the last handle is the one after.
SpansOffByOne ==
  [an \in Areas |->
     LET first == SpanStart[an]
         next  == SpanStart[an + 1]
     IN  IF next > first THEN [first |-> first, last |-> next, count |-> next - first]
         ELSE [first |-> 0, last |-> 0, count |-> 0]]

Spans ==
  [an \in Areas |->
     LET first == SpanStart[an]
         next  == SpanStart[an + 1]
     IN  IF next > first THEN [first |-> first, last |-> next - 1, count |-> next - first]
         ELSE [first |-> 0, last |-> 0, count |-> 0]]

InitReturns(code) ==
  /\ counted' = TRUE
  /\ initialised' = (code = "success")
  /\ Returns("init", code)

RegisterInitFails ==
  /\ \/ Areas = {} /\ InitReturns("no_areas")
     \/ BadAreas # {} /\ InitReturns(AreaOrder(Least(BadAreas)))
     \/ Areas # {} /\ BadAreas = {} /\ BadEntries # {} /\ InitReturns(EntryOrder(Least(BadEntries)))
  /\ UNCHANGED <<table, mem, bigendian, span, touched, sound>>

\* The lists are in order: memory is cleared, and the entries are loaded up to
\* the first one that cannot be.
RegisterInitLoads(broken) ==
  LET bad == {h \in Handles : EntryVerdict(h, broken) # "success"}
      loaded == {h \in Handles : (\A k \in bad : h < k) /\ NeedToLoadDefault(h)}
      cleared == [a \in Address |-> IF \E an \in Areas \ Custom : IsPartOf(an, a) THEN 0
                                    ELSE mem[a]]
  IN  /\ Areas # {} /\ BadAreas = {} /\ BadEntries = {}
      /\ mem' = WithDefaults(cleared, loaded)
      /\ sound' = loaded
      /\ \/ /\ bad = {}
            /\ span' = Spans
            /\ InitReturns("success")
         \/ /\ bad # {}
            /\ InitReturns(EntryVerdict(Least(bad), broken))
            /\ UNCHANGED span
      /\ UNCHANGED <<table, bigendian, touched>>

RegisterInit == RegisterInitFails \/ \E broken \in SUBSET Custom : RegisterInitLoads(broken)

(***************************************************************************)
(* Access by register.  A call that writes nothing returns one of the      *)
(* codes that follow from its arguments and from the state.                *)
(***************************************************************************)

Unchanged(op, code) ==
  /\ Returns(op, code)
  /\ UNCHANGED <<table, mem, counted, initialised, bigendian, span, touched, sound>>

\* register_setx() of a value [type, bits].  The handle one past the last entry
\* passes its bounds check, and fails as the type of the end marker matches none.
SetCode(h, v, withValidator, broken) ==
  IF ~initialised THEN "uninitialised"
  ELSE IF h > Len(table.entry) THEN "noentry"
  ELSE IF h = Len(table.entry) THEN "range"
  ELSE IF withValidator /\ ~(Entry(h).type = v.type /\ Accepts(h, v.bits, FALSE)) THEN "range"
  ELSE IF ~CanWrite(AreaOf(h)) THEN "readonly"
  ELSE IF ~Converts(v.type, v.bits) THEN "invalid"
  ELSE IF AreaOf(h) \in broken THEN "io_error"
  ELSE "success"

SetX(op, h, v, withValidator, broken) ==
  LET code == SetCode(h, v, withValidator, broken)
  IN  \/ /\ code # "success"
         /\ Unchanged(op, code)
      \/ /\ code = "success"
         /\ mem' = WithRegister(mem, h, v.bits)
         /\ sound' = IF withValidator THEN sound \cup {h} ELSE sound \ {h}
         /\ Returns(op, code)
         /\ UNCHANGED <<table, counted, initialised, bigendian, span, touched>>

Set(h, v, broken) == SetX("set", h, v, TRUE, broken)

\* Without a validator the type must match: the serialiser asserts it.
SetUnsafe(h, v, broken) ==
  /\ initialised => h \in Handles /\ v.type = Entry(h).type
  /\ SetX("set_unsafe", h, v, FALSE, broken)

GetCode(h, broken) ==
  IF ~initialised THEN "uninitialised"
  ELSE IF h \notin Handles THEN "noentry"
  ELSE IF AreaOf(h) \in broken THEN "io_error"
  ELSE IF ~Converts(Entry(h).type, Stored(mem, h)) THEN "invalid"
  ELSE "success"

WithBits(old, new, set) ==
  [i \in 1 .. Len(old) |-> IF new[i] = 1 THEN IF set THEN 1 ELSE 0 ELSE old[i]]

\* register_bit_set() and register_bit_clear(): read, modify, write.
BitChange(op, h, v, set, broken) ==
  LET code == GetCode(h, broken)
  IN  \/ code # "success" /\ Unchanged(op, code)
      \/ /\ code = "success"
         /\ v.type # Entry(h).type \/ v.type \notin {"u16", "u32", "u64"}
         /\ Unchanged(op, "invalid")
      \/ /\ code = "success"
         /\ v.type = Entry(h).type /\ v.type \in {"u16", "u32", "u64"}
         /\ SetX(op, h, [v EXCEPT !.bits = WithBits(Stored(mem, h), v.bits, set)], TRUE, broken)

BitSet(h, v, broken)   == BitChange("bit_set", h, v, TRUE, broken)
BitClear(h, v, broken) == BitChange("bit_clear", h, v, FALSE, broken)

\* reg_entry_sane() and reg_entry_load_default() for one entry.
SanitiseCode(h, broken) ==
  LET got  == GetCode(h, broken)
      sane == got = "success" /\ Accepts(h, Stored(mem, h), FALSE)
  IN  IF sane THEN "success"
      ELSE IF got \in {"success", "invalid"}
           THEN SetCode(h, [type |-> Entry(h).type, bits |-> Entry(h).default], TRUE, broken)
           ELSE got

\* A defect the checks must notice: every register is repaired.
InsaneAlways(h) == TRUE

Insane(h) == ~Converts(Entry(h).type, Stored(mem, h)) \/ ~Accepts(h, Stored(mem, h), FALSE)

RegisterSanitise(broken) ==
  LET failing == {h \in Handles : SanitiseCode(h, broken) # "success"}
      done    == {h \in Handles : \A k \in failing : h < k}
  IN  \/ ~initialised /\ Unchanged("sanitise", "uninitialised")
      \/ /\ initialised
         /\ mem' = WithDefaults(mem, {h \in done : Insane(h)})
         /\ touched' = touched \ done
         /\ sound' = sound \cup done
         /\ Returns("sanitise", IF failing = {} THEN "success"
                                ELSE SanitiseCode(Least(failing), broken))
         /\ UNCHANGED <<table, counted, initialised, bigendian, span>>

(***************************************************************************)
(* Access by block.                                                        *)
(***************************************************************************)

Hole(addr, n) == {a \in addr .. addr + n - 1 : ~Mapped(a)}

\* A defect the checks must notice: that the callback exists is enough.
WriteableIfCan(addr, n) == \A an \in Areas : RangeTouchesArea(an, addr, n) => CanWrite(an)

\* ra_writeable(); the areas of an initialised table are sorted.
Writeable(addr, n) == \A an \in Areas : RangeTouchesArea(an, addr, n) => IsWriteable(an)

\* A defect the checks must notice: the last atom of an entry is never taken
\* from the block.
MergedWithoutTail(h, addr, buf) ==
  [i \in 1 .. Size(h) |->
     IF i < Size(h) /\ Entry(h).address + i - 1 \in addr .. addr + Len(buf) - 1
     THEN buf[Entry(h).address + i - addr] ELSE mem[Entry(h).address + i - 1]]

\* The atoms ra_malformed_write() deserialises for an entry: those in memory
\* with rlen atoms of the block, from bs on, put over them at rs.
Merged(h, addr, buf) ==
  LET e    == Entry(h)
      n    == Len(buf)
      bs   == IF addr > e.address THEN 0 ELSE e.address - addr
      rs   == IF addr > e.address THEN addr - e.address ELSE 0
      len1 == IF addr > e.address THEN Size(h) - (rs - 1) ELSE Size(h)
      rlen == IF End(h) > addr + n - 1 THEN len1 - (bs + Size(h) - n) ELSE len1
  IN  [i \in 1 .. Size(h) |-> IF i - 1 \in rs .. rs + rlen - 1 THEN buf[bs + i - rs]
                              ELSE mem[e.address + i - 1]]

MalformedCode(h, addr, buf, unreadable) ==
  IF AreaOf(h) \in unreadable THEN "io_error"
  ELSE IF ~Converts(Entry(h).type, Raw(Merged(h, addr, buf))) THEN "invalid"
  ELSE IF ~Accepts(h, Raw(Merged(h, addr, buf)), FALSE) THEN "range"
  ELSE "success"

Malformed(addr, buf, unreadable) ==
  {h \in InRange(addr, Len(buf)) : MalformedCode(h, addr, buf, unreadable) # "success"}

\* register_block_write() up to the point where it starts to write.
BlockWriteCode(addr, buf, unreadable) ==
  IF ~initialised THEN "uninitialised"
  ELSE IF buf = <<>> THEN "success"
  ELSE IF ~Writeable(addr, Len(buf)) THEN "readonly"
  ELSE IF Hole(addr, Len(buf)) # {} THEN "noentry"
  ELSE LET bad == Malformed(addr, buf, unreadable)
       IN  IF bad = {} THEN "success" ELSE MalformedCode(Least(bad), addr, buf, unreadable)

\* register_block_write_unsafe(): area by area, up to one that fails.
Broken(addr, n, broken) == {a \in addr .. addr + n - 1 : FindArea(a) \in broken}
Pushed(addr, buf, broken) ==
  LET bad == Broken(addr, Len(buf), broken)
  IN  IF bad = {} THEN buf ELSE SubSeq(buf, 1, Least(bad) - addr)

TaintInRange(addr, n) == {h \in Handles : RangeTouches(h, addr, n)}

BlockWrite(addr, buf, unreadable, broken) ==
  LET code == BlockWriteCode(addr, buf, unreadable)
      complete == Broken(addr, Len(buf), broken) = {}
  IN  \/ /\ code # "success" \/ buf = <<>>
         /\ Unchanged("block_write", code)
      \/ /\ code = "success" /\ buf # <<>>
         /\ mem' = WithBlock(mem, addr, Pushed(addr, buf, broken))
         /\ touched' = IF complete THEN touched \cup TaintInRange(addr, Len(buf)) ELSE touched
         /\ Returns("block_write", IF complete THEN "success" ELSE "io_error")
         /\ UNCHANGED <<table, counted, initialised, bigendian, span, sound>>

\* Called directly, it must not touch holes or areas that have no write callback.
BlockWriteUnsafe(addr, buf, broken) ==
  /\ initialised /\ buf # <<>>
  /\ Hole(addr, Len(buf)) = {}
  /\ \A a \in addr .. addr + Len(buf) - 1 : CanWrite(FindArea(a))
  /\ mem' = WithBlock(mem, addr, Pushed(addr, buf, broken))
  /\ sound' = sound \ InRange(addr, Len(buf))
  /\ Returns("block_write_unsafe",
             IF Broken(addr, Len(buf), broken) = {} THEN "success" ELSE "io_error")
  /\ UNCHANGED <<table, counted, initialised, bigendian, span, touched>>

\* What register_block_read() leaves in a buffer that holds buf, without failures
\* of the callbacks: area by area.  An area that is not readable has zeroes
\* stored at its own offset from the part of the buffer that is due; the part
\* of them that lies behind the end of the buffer is left out.
BlockReadResult(addr, buf) ==
  LET n == Len(buf)
      start(a)  == IF a = addr \/ Area(FindArea(a)).base < addr THEN addr ELSE Area(FindArea(a)).base
      offset(a) == start(a) - Area(FindArea(a)).base
      blank == {a + offset(a) : a \in {a \in addr .. addr + n - 1 : ~IsReadable(FindArea(a))}}
  IN  [i \in 1 .. n |->
         LET a == addr + i - 1
         IN  IF IsReadable(FindArea(a)) THEN mem[a]
             ELSE IF a \in blank THEN 0 ELSE buf[i]]

NoHex == 2

\* register_set_from_hexstr(): each chunk of the string spells an atom, or none
\* at all; chunks are written until one cannot be.
HexCode(addr, chunk, broken) ==
  IF ~counted \/ ~Mapped(addr) THEN "noentry"
  ELSE IF ~CanWrite(FindArea(addr)) THEN "readonly"
  ELSE IF chunk \notin Atom THEN "invalid"
  ELSE IF FindArea(addr) \in broken THEN "io_error"
  ELSE "success"

SetFromHexstr(start, str, broken) ==
  LET stops == {i \in 1 .. Len(str) : HexCode(start + i - 1, str[i], broken) # "success"}
      n == IF stops = {} THEN Len(str) ELSE Least(stops) - 1
  IN  /\ mem' = WithBlock(mem, start, SubSeq(str, 1, n))
      /\ sound' = sound \ InRange(start, n)
      /\ Returns("set_from_hexstr",
                 IF stops = {} THEN "success" ELSE HexCode(start + n, str[n + 1], broken))
      /\ UNCHANGED <<table, counted, initialised, bigendian, span, touched>>

\* register_mcopy() between two areas, one of which is in system memory.
MCopy(dst, src, broken) ==
  LET n == Lesser(Area(dst).size, Area(src).size)
      copied == [i \in 1 .. n |-> mem[Area(src).base + i - 1]]
  IN  \/ /\ {dst, src} \subseteq Custom
         /\ Unchanged("mcopy", "invalid")
      \/ /\ {dst, src} \intersect broken # {}
         /\ Unchanged("mcopy", "io_error")
      \/ /\ ~({dst, src} \subseteq Custom) /\ {dst, src} \intersect broken = {}
         /\ mem' = WithBlock(mem, Area(dst).base, copied)
         /\ sound' = sound \ InRange(Area(dst).base, n)
         /\ Returns("mcopy", "success")
         /\ UNCHANGED <<table, counted, initialised, bigendian, span, touched>>

(***************************************************************************)
(* The rest of the interface.                                              *)
(***************************************************************************)

MakeBigEndian(state) ==
  /\ bigendian' = state
  /\ sound' = IF state = bigendian THEN sound ELSE {}
  /\ Returns("make_bigendian", "success")
  /\ UNCHANGED <<table, mem, counted, initialised, span, touched>>

Touch(h) ==
  /\ touched' = touched \cup {h}
  /\ Returns("touch", "success")
  /\ UNCHANGED <<table, mem, counted, initialised, bigendian, span, sound>>

Untouch(h) ==
  /\ touched' = touched \ {h}
  /\ Returns("untouch", "success")
  /\ UNCHANGED <<table, mem, counted, initialised, bigendian, span, sound>>

\* The application, or a device, changes an atom behind the table's back.
Poke(a, x) ==
  /\ Mapped(a)
  /\ mem' = [mem EXCEPT ![a] = x]
  /\ sound' = sound \ InRange(a, 1)
  /\ Returns("poke", "success")
  /\ UNCHANGED <<table, counted, initialised, bigendian, span, touched>>

\* A defect the checks must notice: the last register of an area is forgotten.
FindRegButLast(first, last0, addr) ==
  {h \in first .. last0 - 1 : h \in Handles /\ RangeTouches(h, addr, 1)}

\* find_reg(): the handles from first to last whose entries cover addr.
FindReg(first, last0, addr) ==
  {h \in first .. last0 : h \in Handles /\ RangeTouches(h, addr, 1)}

\* The handles register_foreach_in() calls a function for that never stops it.
ForeachIn(addr, off) ==
  LET found == IF Mapped(addr)
               THEN FindReg(span[FindArea(addr)].first, span[FindArea(addr)].last, addr)
               ELSE FindReg(0, Len(table.entry) - 1, addr)
      end == (addr + off + AddressCount - 1) % AddressCount
  IN  IF ~initialised \/ off = 0 \/ Handles = {} \/ found = {} THEN {}
      ELSE {h \in Handles : h >= Least(found) /\
                            \A k \in Least(found) .. h : Entry(k).address <= end}

AnyHandle == 0 .. Len(table.entry) + 1

\* The values to store by a handle: those of its type, and one of another type.
ValuesFor(h) ==
  (IF h \in Handles THEN {[type |-> Entry(h).type, bits |-> b] : b \in Bits(Size(h))} ELSE {})
  \cup (LET type == CHOOSE type \in Type : h \in Handles => type # Entry(h).type
        IN  {[type |-> type, bits |-> [i \in 1 .. SizeOf(type) |-> 0]]})

Blocks == UNION {Bits(n) : n \in 0 .. MaxBlock}

ByRegister ==
  \E broken \in SUBSET Custom :
    \/ \E h \in AnyHandle : \E v \in ValuesFor(h) :
         \/ Set(h, v, broken)
         \/ SetUnsafe(h, v, broken)
         \/ BitSet(h, v, broken)
         \/ BitClear(h, v, broken)
    \/ RegisterSanitise(broken)

ByBlock ==
  \E broken \in SUBSET Custom :
    \/ \E addr \in Address, buf \in Blocks :
         \/ \E unreadable \in {{}, Custom} : BlockWrite(addr, buf, unreadable, broken)
         \/ BlockWriteUnsafe(addr, buf, broken)
    \* Memory is modelled by address: areas that overlap would share it.
    \/ BadAreas = {} /\ \E dst, src \in Areas : MCopy(dst, src, broken)

ByString ==
  /\ BadAreas = {}
  /\ \E broken \in SUBSET Custom, addr \in Address, n \in 1 .. MaxBlock :
       \E str \in [1 .. n -> {1, NoHex}] : SetFromHexstr(addr, str, broken)

Next ==
  \/ RegisterInit
  \/ ByRegister
  \/ ByBlock
  \/ ByString
  \/ \E state \in BOOLEAN : MakeBigEndian(state)
  \/ \E h \in Handles : Touch(h) \/ Untouch(h)
  \/ \E a \in Address, x \in Atom : Poke(a, x)

Spec == Init /\ [][Next]_vars

(***************************************************************************)
(* Properties                                                              *)
(***************************************************************************)

TypeOK ==
  /\ table \in Tables
  /\ mem \in [Address -> Atom]
  /\ counted \in BOOLEAN /\ initialised \in BOOLEAN /\ bigendian \in BOOLEAN
  /\ span \in [Areas -> [first : Handles \cup {0}, last : Handles \cup {0},
                         count : 0 .. Len(table.entry)]]
  /\ touched \subseteq Handles
  /\ sound \subseteq Handles

Holds(h) ==
  /\ Converts(Entry(h).type, Stored(mem, h))
  /\ IF Entry(h).check = "fail" THEN Stored(mem, h) = Entry(h).default
     ELSE Accepts(h, Stored(mem, h), FALSE)

\* What initialisation, sanitising and validated writes, by register and by
\* block, leave in the memory of a register converts to a value the register
\* accepts; a register that refuses writes keeps its default.  This includes
\* blocks that touch parts of registers, and blocks cut short by a failing area.
ConstraintsHold == \A h \in sound : Holds(h)

\* What a table must be like for register_init() to accept it.
WellFormed ==
  /\ Areas # {}
  /\ \A i, j \in Areas : i < j => Area(i).base + Area(i).size <= Area(j).base
  /\ \A i, j \in Handles : i < j => End(i) < Entry(j).address
  /\ \A h \in Handles : \E an \in Areas :
       /\ \A a \in Entry(h).address .. End(h) : IsPartOf(an, a)
       /\ (CanWrite(an) /\ ~Area(an).skip) =>
            /\ Converts(Entry(h).type, Entry(h).default)
            /\ Accepts(h, Entry(h).default, TRUE)

\* register_init() accepts exactly the tables that are well-formed, whatever
\* was done with the table before; unless an area it depends on fails.
InitIffWellFormed ==
  last.op = "init" =>
    /\ initialised => WellFormed
    /\ (WellFormed /\ last.code # "entry_invalid_default") => initialised
    /\ (WellFormed /\ Custom = {}) => initialised

\* Block writes do not change memory of areas that are not writeable from the
\* outside, wherever the block starts and ends.
ReadOnlyKept ==
  [][last'.op = "block_write" =>
       \A a \in Address : (Mapped(a) /\ ~IsWriteable(FindArea(a))) => mem'[a] = mem[a]]_vars

\* The registers a successful block write has changed are marked as touched.
ChangedIsTouched ==
  [][(last'.op = "block_write" /\ last'.code = "success") =>
       \A h \in Handles : Stored(mem', h) # Stored(mem, h) => h \in touched']_vars

\* register_sanitise() repairs without harm: a register that holds an acceptable
\* value keeps it, be it that a repair fails on the way.
SanitiseKeepsGood ==
  [][last'.op = "sanitise" =>
       \A h \in Handles : Holds(h) => Stored(mem', h) = Stored(mem, h)]_vars

\* register_foreach_in(), started anywhere in a register, visits exactly the
\* registers with an atom in the range, across areas and holes.
ForeachVisitsRange ==
  initialised =>
    \A addr \in Address, off \in 1 .. AddressCount :
      (InRange(addr, 1) # {} /\ addr + off <= AddressCount) =>
        ForeachIn(addr, off) = InRange(addr, off)

\* "Memory that can't be read reads back zeroes"
UnreadableReadsZero ==
  initialised =>
    \A addr \in Address, n \in 1 .. MaxBlock :
      Hole(addr, n) = {} =>
        \A i \in 1 .. n : ~IsReadable(FindArea(addr + i - 1)) =>
          BlockReadResult(addr, [k \in 1 .. n |-> 1])[i] = 0
================================================================================
