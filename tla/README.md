# Verification of ufw

ufw is a library of building blocks for firmware: data structures, persistent
storage, a register table, a register protocol and the framing it is carried
in. This directory holds TLA+ models of its parts, the TLC configurations that
check them on small instances, and proofs, checked by TLAPS, of what holds for
every instance.

All paths are relative to the repository.

## Inventory

| Component | Code | State it keeps | Operations | What makes it correct |
|---|---|---|---|---|
| Ring buffer | `include/ufw/ring-buffer.h`, `src/octet-ring.c` | memory, head, tail, override switch | init, put, get, clear, size, override | it is a bounded FIFO queue whatever the alignment of the indices |
| Ring iterators | `include/ufw/ring-buffer-iter.h`, `src/ring-buffer-iter.c` | steps, index, direction | make, advance, done, inspect | in bounds and true to the ring they were made from, while the ring is used |
| Persistent storage | `src/persistent-storage.c` | the medium: checksum and data | store (part), fetch (part), validate, reset | a fault in any access is noticed; nothing outside of the section is written |
| Versioned persistence | `src/vp/*.c` | the medium (header and payload), a cached header and state flags in memory | format, invalidate, load, store, save, fetch | only verified data is served, across versions, faults and crashes |
| Register table | `src/registers/core.c` | table set-up, area memories, flags, touch marks | init, set, get, bit set/clear, block read/write, sanitise, hexstr, mcopy, foreach | memory only holds values that satisfy the constraints of the registers |
| Register utilities | `src/registers/utilities.c` | none | printing | formatting only |
| Endpoints | `src/endpoints/*.c` | sources and sinks with a retry policy | get/put chunk and octet, source-to-sink transfer, instrumentation | no octet is lost, duplicated or reordered by partial transfers and retries |
| Continuable sink | `src/endpoints/continuable-sink.c` | buffer, overflow data, error | put octet/chunk, error query | an overflow is remembered, the rest of the frame is consumed |
| Byte buffer | `src/byte-buffer.c` | memory, offset, used | add, consume, fill, rewind, ... | offset <= used <= size; octets come out in order |
| Length prefix | `src/length-prefix.c` | none besides its endpoints | send, receive a frame | the receiver gets the frames that were sent, or an error |
| Varint | `src/variable-length-integer.c` | none | encode, decode | decode inverts encode; malformed input is refused |
| SLIP | `src/rfc1055.c` | decoder state | encode, decode | frames come out as they went in; the decoder resynchronises after noise |
| Register protocol | `src/register-protocol.c` | sequence number, allocator, endpoints | request, response, receive, process | every valid request is answered once, with its sequence number; no block leaks |
| Allocators | `src/allocator.c`, `include/ufw/allocator.h` | user's | alloc, free | what was allocated is freed once, by whom it belongs to |
| s-expressions | `src/sx.c` | parse position | parse, destroy | parsing terminates, frees what it built on errors |
| CRC-16-ARC | `src/crc-16-arc.c` | none | calculation | feeding a block in chunks makes no difference |
| Convolution low-pass | `include/ufw/convolution-low-pass.h` | samples, ring position | init, update | numeric filter |
| Binary format | `include/ufw/binary-format.h` | none | swap, read and write words of 16 to 64 bits in each octet order | a word comes back as it was stored, and writes nothing besides its octets |
| Bit operations | `include/ufw/bit-operations.h` | none | pure macros | |
| Hexdump, compat, test library | `src/hexdump.c`, `src/compat/*`, `src/test/*` | | output, libc replacements, TAP | |
| Zephyr glue, build system | `src/z/*`, `cmake/`, `tools/` | | drivers, shell, configuration | |

How they interact: the register protocol reads frames through length prefix or
SLIP from a source endpoint into a byte buffer it gets from an allocator,
applies the request to memory through callbacks (a register table with
`register_block_read()`/`register_block_write()` among others), and answers to a
sink endpoint. Versioned persistence and persistent storage both sit on block
read/write callbacks of the user that may fail. There are no threads in the
library: what makes it hard is failure in the middle of an operation, power
loss, retries, resource limits, and long sequences of calls.

PROJECT.json says of each component whether it is modelled, in part, or not and
why, and lists the hazards of the code with the properties that are about them.


## Modules

| Module | What it is | Models |
|---|---|---|
| `BoundedFifo` | abstract specification: a bounded queue with an override switch | what `ring-buffer.h` promises |
| `OctetRing` | the ring with its two indices; refines `BoundedFifo` | `ring-buffer.h`, `octet-ring.c` |
| `RingIterator` | extends `OctetRing` by an iterator that is used while the ring changes | `ring-buffer-iter.[ch]` |
| `OctetTape` | abstract specification: a log of octets with a mark | what `byte-buffer.h` promises |
| `ByteBuffer` | the operations on a buffer, as operators | `byte-buffer.c` |
| `ByteBufferUser` | a user that calls them in any order; refines `OctetTape` | |
| `ContainerProofs` | proofs about `OctetRing`, `RingIterator`, `ByteBufferUser` and `Numbers`: their invariants and refinements | |
| `BinaryFormat`, `Varint` | numbers in memory, as operators | `binary-format.h`, `variable-length-integer.c` |
| `Numbers` | memory that numbers are stored in and fetched from | |
| `PersistentStorage` | one section of a medium behind callbacks that fail | `persistent-storage.c` |
| `PersistentStorageProofs` | proofs about `PersistentStorage` | |
| `RegisterTable` | registers over areas of atoms, by register and by block | `registers/core.c` |
| `RegisterTableProofs` | proofs about `RegisterTable`: all of its properties | |
| `VersionedPersistence` | a section with a header, shared by versions of a program | `vp/*.c` |
| `VersionedPersistenceProofs` | proofs about `VersionedPersistence`: all of its invariants | |
| `Endpoints` | transfers between two drivers | `endpoints/core.c` |
| `EndpointsProofs` | proofs about `Endpoints`, all of its invariants, and about `EndpointDrivers` | |
| `EndpointDrivers` | the drivers that are made of memory, called by `source_read()` and `sink_write()`; uses `ByteBuffer` | `endpoints/buffer.c`, `endpoints/instrumentable.c`, `endpoints/core.c` |
| `Slip` | encoder, line, decoder | `rfc1055.c` |
| `FormatProofs` | proofs about `Slip`, `LengthPrefix` and `SExpression`: all of their invariants but `WrittenIsRead` | |
| `LengthPrefix` | sender, channel, receiver, both of which fail; uses `Varint`, `BinaryFormat` and `ByteBuffer` | `length-prefix.c` |
| `Crc16Arc` | the checksum, as a function | `crc-16-arc.c` |
| `RegpFrame` | frames of the register protocol, as operators; uses `Crc16Arc` | `register-protocol.c`: encoding and parsing |
| `RegisterProtocol` | requesting party, line, responding party, allocator | `register-protocol.c`, `continuable-sink.c`, `allocator.c` |
| `RegisterProtocolProofs` | proofs about `RegisterProtocol` | |
| `SExpression` | parser, lists, heap | `sx.c` |
| `Recursion` | lemmas about numbers, their digits, and recursive functions that other proofs use | |
| `MC...` | instances for TLC where a .cfg alone cannot give the constants | |

`MCContainers`, `MCFormats` and `MCEndpoints` put units that run apart from each
other side by side: a variable (`unit`, `format`, `level`) that is chosen at the beginning and
never changed says which one a behaviour is of.

Every module has at its properties a comment that says what the code must do.
Definitions with the words "A defect the checks must notice" are not used by
the specifications: they are what a property's mutant puts in place of the
definition behind them.

### How state and actions correspond to the code

**OctetRing.** The variables are the members of the generated structure. One
action per generated function; the early return of `put` is its own disjunct.
`tail = DataSize` encodes the empty ring, as in the code.

**RingIterator.** `iter` is `rb_iter`. `Construct` copies positions out of the
ring; `Advance` is `rb_iter_advance()` under the guard of the user's loop;
`UseRing` is any call of the ring in between. `snap` and `spare` are history.

**ByteBuffer.** A buffer is a record of the members of `ByteBuffer`; each
function of byte-buffer.c is an operator from a buffer and arguments to the
return code, the buffer afterwards and what was copied out, so that the other
models can call it. `ByteBufferUser` calls all of them on one buffer and keeps a
position that `byte_buffer_setpos()` may bring back at any later time. Its
refinement mapping is the octets up to `used` for the log, and `offset` for the
mark; `call` shows the abstract specification what was returned.

**Numbers.** `BinaryFormat` reads and writes words octet by octet, with the
integer they are converted in and its spare octets, on machines of either
order; `Varint` encodes and decodes seven bits at a time. An octet of a word has
`Bits` values, and one of a varint has `DataValues` for its digit, with and without
the mark that more follow. `Numbers` stores a word behind an octet of other data,
or a varint in a sink or behind what a buffer holds already, and fetches it with the
function that belongs to it: `stored` and `fetched` are history.

**PersistentStorage.** A call is split at its accesses to the medium, the only
places where it can fail or lose power: `StorePart` (the range check), then
`WriteData`, `Calculate` (once per chunk), `WriteSum`; `Validate` is
`Calculate`, `FetchSum`, `Compare`; `Reset` walks over the checksum and the
data. `IOError` and `Crash` may happen at any access and leave any prefix of the
block written. `offset + n` is calculated modulo `Word`, the size of `size_t`.
`doubt`, `base` and `target` are history: what the data should be.

**RegisterTable.** An atom is one bit, a value the bits of its atoms. A table's
set-up is chosen once (`table`); `mem` is all areas by address; `span` is
`area[].entry`; `touched` is `REG_EF_TOUCHED`. An action is one call with
everything it does, and an argument `broken`: the areas with callbacks that fail
in this call. `Poke` is the application that writes to the memory of an area
behind the table's back. `Merged` is the arithmetic of `ra_malformed_write()`,
as it is in the code. `sound` is history: the registers whose atoms only
validated writes changed.

**VersionedPersistence.** A call is an operator from a world (medium, cached
header, state bits, specification) to the set of worlds it may leave: one for
every access that fails, and for every octet after which a write is cut short.
`PowerLost` may follow each outcome that is cut short: what is in memory is lost,
and the program may be of another version after it. Checksums are taken to
tell data apart; a checksum that was half written is a value of its own.

**Endpoints.** A step is one answer of a driver. Answers that make
`source_read_multi()` or `sink_write_multi()` ask again change nothing and are
no steps. `Errors` is the retry machinery with and without custom policies. The
transfers by character call the drivers directly, as `sts_cbc()` does: they do
not retry.

**EndpointDrivers.** A driver is an operator from the state of its buffer to
what it returns, what it moved and the buffer afterwards; `Read` and `Write` are
`source_read()` and `sink_write()`, which call a driver for chunks once, and one
for octets until it transfers nothing (`ReadOctets`, `WriteOctets`). The source
and the sink of a behaviour share one buffer, so that what is written is read
later; a source may also be a list of buffers. In between the owner rewinds the
buffer, sets the size of chunks, and tells either end to fail. `Endpoints`
assumes of drivers what `DriversKeepContract` shows of these: a driver that
returns an error or zero has moved nothing, and what is returned was moved.

**Slip.** `StartFrame` puts the encoding of a frame on the line, and
`EncoderFails` cuts it short; the line delivers, loses, changes and makes up
octets. `Receive` is `rfc1055_decode()` for one
octet. The decoder's context is kept between calls, as t-rfc1055.c does; its
caller empties the sink whenever it returns. The decoder's source may fail at any
time, between frames and inside of them: `SourceFails` is any error but EILSEQ,
which leaves the decoder's state alone, and `SourceFailsIllegally` is EILSEQ, which
`rfc1055_decode()` takes for an octet out of place (rfc1055.c:219; the comment at
:130 calls it unlikely, but not impossible). `aligned`, `sound`, `begun` and `got`
are history.

**LengthPrefix.** A call of the sender is the list of chunks it puts one after
the other (`pending`); a call of the receiver reads the prefix and then the
payload. Between any two of these the other party runs, and each may fail,
which leaves the octets that were transferred in the channel or out of it.
`Reconnect` is the only remedy for a call that failed inside of a frame. All six
kinds of prefix are there. `due`, `match` and `sync` are history.

**RegpFrame and RegisterProtocol.** `RegpFrame` is what `encode_header()`,
`req2resp()` and the senders put into a frame octet by octet, and `parse_frame()`
with the order of its tests. `RegisterProtocol` has one action per call of the
loop that the comment in `regp_recv()` describes: `Receive`, `Process`, `Free`,
and `ReceiveFails` for the transport. Frames are whole here, and arrive by a
line that loses, changes, splits and joins them if it is serial. The continuable
sink is what it keeps of a frame (`Kept`, `KeptByFallback`); the allocator is
`pool`, shared with others. The memory is what `regp_process()` gets from its
callbacks (`Outcomes`), any of the return codes of a register table. `reply`,
`access` and parts of `mf` are history.

**SExpression.** Nodes are trees that know how many blocks `sx_destroy()` frees with
them, and the heap is how many blocks are allocated. The parser has one operator
per function, each of which returns the position, the node and the blocks it
allocated; `ParseList` is a function of the position, since `sx_parse_list()` calls
itself. A user parses texts, makes nodes, and takes lists apart and joins them.

## Runs

| Run | Module, configuration | Shows |
|---|---|---|
| `containers` | `MCContainers.cfg` | the ring implements the queue (`ImplementsFifo`); iterators stay in bounds and yield what was in the ring when they were made, until a store reuses one of their slots; a byte buffer is a log with a mark (`ImplementsTape`) whose marks stay in order (`BufferFits`); words and varints are fetched as they were stored (`NumbersTravel`) |
| `storage` | `MCPersistentStorage.cfg` | checksums cover the data, a store that was cut short is noticed or complete, no write outside of the section, every call returns |
| `registers` | `MCRegisterTable.cfg` | which tables are accepted; constraints hold; read-only areas are kept; changes are marked; sanitising does no harm; iterations find the right registers |
| `registers_wide` | `MCRegisterTable_wide.cfg` | finding: a block inside of a 64 bit register is not validated |
| `registers_writeonly` | `MCRegisterTable_writeonly.cfg` | finding: zeroes for unreadable memory go to the wrong place |
| `versioned` | `MCVersionedPersistence.cfg` | the state bits tell the truth, a fault is noticed, a saved section is usable, stores keep it so |
| `versioned_fetch` | `MCVersionedPersistence_fetch.cfg` | finding: fetches after a store that failed |
| `endpoints` | `MCEndpoints.cfg` | order, exactness and bounded loss of transfers (`InOrder`, `SuccessIsExact`, `SourceFailureLosesNothing`, `LossIsBounded`); the library's drivers report all they move, in order, and end only when nothing is left (`DriversKeepContract`) |
| `endpoints_again` | `Endpoints_again.cfg` | finding: `sts_n()` loses an octet and returns success |
| `formats` | `MCFormats.cfg` | SLIP frames arrive, and one whole frame realigns the decoder; frames with a length in front arrive in order, whole and unchanged, whichever end fails at which octet (`FramesArrive`); parsing and list operations free what nobody holds (`HeapIsHeld`); an expression is read as it was written (`WrittenIsRead`) |
| `regp` | `MCRegisterProtocol.cfg` | the memory is accessed only as a request asked (`OnlyWhatWasAsked`); a reply is readable and answers its request (`RepliesAnswer`), once (`OneReplyPerRequest`); every block returns to the allocator (`BlocksReturn`) |
| `regp_leak` | `MCRegisterProtocol_leak.cfg` | finding: a transport that fails inside of a frame costs a block |

No run turns deadlock checking off: in every model some call is possible in
every state.

### Bounds, and why they are enough

- **Rings:** three slots give every relation of head and tail on both sides of
  the wrap-around, with an iterator in each direction at every position. Two
  items tell order and duplicates apart. The proofs need no bounds.
- **Byte buffers:** three octets of two values: marks at the front, at the end
  and in between, and each order of them; chunks and counts of up to one more
  than the buffer's size. The proof needs no bounds.
- **Numbers:** words of two to eight octets, those with spare octets included,
  at both orders of the machine, with octets of two values: what could be
  mistaken are the places of octets and the sign, which is the upper half of
  the values. Varints of two bits an octet, for integers of three and of five
  bits, stand for those of 32 and 64 bits, and reach the longest encodings of the
  signed and the unsigned ones, whose last octet has room for more, as theirs has.
- **Persistent storage:** a section of three octets of data in chunks of two has
  a full and a clipped chunk; one address lies on each side. The checksum of
  three binary octets is the block itself, so that it tells all blocks apart.
  The lengths and offsets are all that fit.
- **Register table:** registers of one, two and four atoms with each kind of
  constraint, areas in memory, behind callbacks, read-only, skipped, with and
  without registers, a hole. Blocks of two atoms cover a register of two, or the
  end of one and the start of another. A block has at least to be shorter than a
  register for `Merged` to have all its cases; the 64 bit register with three
  atoms to cut off is `registers_wide`. The address space is one larger than the
  areas, since ranges that end at its top wrap around (see the known limits).
  Nine further tables have one mistake each that `register_init()` must refuse.
  `NotNormal` marks bits of floats that do not convert.
- **Versioned persistence:** two versions, the second with another length, two
  octets of payload: writes are cut short before, between and after them.
- **Endpoints:** four octets through a buffer of two, transfers of up to three:
  two rounds, the second partly filled, and octets left for another call.
  `MaxGarbage` bounds the octets made up by `sts_cbc()` in loops that a driver
  that returns zero would keep going forever.
- **Endpoint drivers:** a pipe of two octets of two values, calls for one or two
  octets, chunks of none to two, failures at each octet and for each number of
  accesses; lists of up to three buffers that are full, half read or empty. One
  end is told to fail at a time, and `MaxAccesses` bounds the accesses counted
  when a call begins: the failing ones are within it, and `ResetStats` starts
  over.
- **SLIP:** frames of up to two octets over five: both special octets, the two
  that stand for them, and plain data; every pair occurs. The sink holds one
  frame: noise overflows it. Sources fail at every octet and on an idle line,
  in every state of the decoder.
- **Length prefix:** octets of four values, so that a payload of four octets is
  one too many for a prefix of one octet and the greatest lengths occur;
  payloads that fill the receiver's memory and that overflow it; chunk lists
  with empty chunks; buffers used up to their middle. `MaxFrames` and `MaxWire`
  bound what is on the way when another frame begins: two frames are enough for
  one to be mistaken for the other.
- **Register protocol:** the octets of frames are real ones, checksums included.
  Two frames may be sent, of which damage to the first uses up one: two frames
  are what it takes to join, and a frame that arrives sound behind a damaged one
  shows that nothing of that remains. `Changes` flips a low bit pattern and
  wraps around; every octet of every frame is changed and lost once. One block,
  because with more of them the party that responds never notices. Requests end
  in each of the responses it can send.
- **s-expressions:** every text of up to five of seven characters that stand for
  the character classes; every expression up to three deep of five atoms, in
  three spacings (`MCWritten`). A user makes one integer and one symbol (`Numerals`,
  `Names`), since of nodes only the blocks matter. `MaxBlocks` bounds what a user
  adds to the heap; four blocks are two pairs, or a list that is appended to another.

### Fairness

`FairSpec` of `PersistentStorage` has `WF_vars(Step)`: there are no threads in
the library, so that a call that was made goes on in its caller's thread until
it returns, fails or power is lost. No other specification needs fairness: their
properties are safety properties. That retries of endpoints end is no property
of the code: drivers may answer EAGAIN forever.

## Findings

1. `registers_wide`: the lengths `ra_malformed_write()` calculates
   (registers/core.c:787-797) are off by one when a block starts inside of a
   register, and wrong when it also ends inside: with a 64 bit register the
   block is not validated at all.
2. `registers_writeonly`: registers/core.c:1425 clears `buf + offset` where it
   means `buf`.
3. `versioned_fetch`: `vp_store()` and `vp_memset()` leave
   `VP_STATE_PAYLOAD_CONSISTENT` set when the write fails half way.
4. `endpoints_again`: `sts_n()` drops an octet when a sink answers EAGAIN and
   goes on behind it.
5. `regp_leak`: `regp_recv()` returns at register-protocol.c:842 before it
   stores the block of the continuable sink in the frame, so that nobody can
   free it.

## Known limits of the code, excluded from the properties

Each of these is excluded by the property or the configuration named with it.

Persistence, registers, endpoints and SLIP:

- The range checks of persistent storage, `(offset + n) > store->data.size`
  (persistent-storage.c:512 and :473), wrap around in `size_t`; lengths and
  offsets of the run do not, and the theorems assume `NoWrap`.
- A second partial store after one that failed makes torn data valid, as the
  checksum is calculated from the medium (`OneFaultIsNoticed`,
  `FaultIsNoticed`).
- `persistent_buffer()` accepts a buffer of size zero; the chunk loops then
  never end (`LayoutAssumption`).
- A block write that an area stops half way leaves changed registers that are
  not marked as touched (`ChangedIsTouched`).
- A range that ends at the very top of the address space wraps around and
  touches nothing (address space of the instances; `LastAddressFree`).
- An iteration that starts at an address without a register visits nothing
  (`ForeachVisitsRange`).
- `register_setx()` lets the handle behind the last one through its bounds check
  (registers/core.c:1124); the end marker's type makes it fail later
  (`register_set_unsafe()` is not called with it).
- `sts_drain()` reports a full sink as EPIPE (core.c:873). With
  UFW_WITH_RUNTIME_ASSERT any error of an endpoint ends the program
  (`assert(rc.size == n)`, core.c:385 and :561); the model is of the default
  build, which defines NDEBUG.
- Drivers that answer zero, EAGAIN or EINTR forever are asked forever.
- `run_instrumentable_chunk_source()` compares the place of a failure with the
  fill mark (instrumentable.c:160) where that of octets compares the mark of what
  was read; octets that are added to a buffer of a list that `read_from_chunks()`
  has passed are never read. `EndpointDrivers` does the one, and its owner does
  not do the other.
- A change of endianness after the initialisation changes all values
  (`ConstraintsHold` starts over).
- A source that fails between an ESC and the octet behind it makes the decoder
  take that octet for payload (`FrameArrives`, through `sound`). A source that
  fails with EILSEQ makes it skip the rest of the frame (`FrameArrives`, through
  `sound`) or, on an idle line without RFC1055_WITH_SOF, all of the next frame
  (`DecoderRealigns`, through `aligned`). Empty frames alone do not
  realign a decoder (`DecoderRealigns`), as t-rfc1055.c explains.
- `sts_n()` with a sink that refuses octets, full sinks included;
  `sts_atmost_cbc()` after an error; `sts_drain_aux()` with a sink whose retries
  give up with zero; transfers by character with drivers that return zero
  (`SuccessIsExact`, `LossIsBounded`).
- `VP_STATE_PAYLOAD_CONSISTENT` is set for sections of other lengths too, though
  versioned-persistence.h:245-246 reads as if it was not.

Byte buffers, numbers and length prefixes:

- `byte_buffer_setpos()` refuses positions whose mark is behind the last octet,
  which `byte_buffer_getpos()` returns for a buffer that was read completely
  (`GoTo` may fail); `byte_buffer_markread()` returns ENOMEM where its comment
  says ENODATA; `byte_buffer_fill_cb()` moves the process mark to where it
  begins (`Overwrite`).
- `varint_decode()` reads the memory of a buffer however much of it is used, and
  `varint_from_source()` looks at an octet before it looks at the return code
  (`Numbers` fetches where a number was stored).
- `flenp_chunks_to_sink()` with an empty chunk in front returns 0 behind the
  prefix; `flenp_buffer_to_sink()` sends as many octets as there is room, not as
  there are unread ones; `flenp_buffer_encode_n()` takes all of the buffer out of
  it; `flenp_buffer_from_source()` moves `offset` in place of `used`; a full sink
  in `flenp_decode_source_to_sink()` empties the source. `LengthPrefix` does all
  of this; `FramesArrive` is about the payloads as these calls put them, and says
  nothing once a call ended inside of a frame.

Register protocol:

- Responses to writes that carry a payload, and EIO, are sent but cannot be read
  by the requesting party (`Unreadable` in `RepliesAnswer`): `parse_header()`
  refuses the code 11 and `payload_plausible()` the payload
  (register-protocol.c:169 and :241; doc/regp.txt:290-295).
- `cs_add()` (continuable-sink.c:29) takes what the buffer holds for the room
  it has: a frame that is too large is cut off silently and answered with
  EPAYLOADSIZE, where regp_recv() has code for ERXOVERFLOW; the fallback buffer
  gets nothing, so that a busy party sends META EHEADERENC in place of EBUSY.
  With that mended, :865 would use a pointer that is not set yet.
- `check_payload()` (:219) tests the option of the header's checksum where it
  means the payload's; damage that clears this option passes, and is what
  `OnlyWhatWasAsked` excludes.
- A frame without octets is parsed without memory; the room for the answer to a
  read is calculated without its header (:981 and :989), so that a read may
  write behind the block: neither occurs in `RegisterProtocol`, of which the
  latter is `ReadAssumption`.
- `regp_empty_intersection()` (:1166) reads inverted and the ends of ranges
  (:455) wrap around; nothing calls them with such ranges. `regp_recv()` uses a
  fresh SLIP context for every frame (:840), so that the rest of a broken frame
  is another frame (`ReceiveFails`).

s-expressions (each as it is in `SExpression`):

- `()` inside of a list ends that list, since the closing parenthesis and the
  empty list are the same token (`MCTrees` has none); `)` alone is an empty
  list; a text of white space is a success without a node.
- Capital hexadecimal digits count as 0; the position of an unexpected end is 0;
  `looking_at()` reads one character behind a `#x` at the end of the text, which
  a C string allows; `sx_cxr()` and `sx_is_list()` read through NULL.


## Proofs

`ContainerProofs` proves, for every memory size and every set of items,

- `TypeCorrect`: `Spec => []TypeOK`, which is inductive as it stands;
- `RingImplementsFifo`: `Spec => ImplementsFifo`. The refinement maps the
  queue to `Content`, the items from tail on. The two lemmas about sequences
  that carry it are `DropOldest` (advancing the tail drops the first item) and
  `AppendNewest` (storing appends one), each by the cases of the wrap-around;
  then there is one lemma per operation;
- `InspectsInBounds` and `YieldsSnapshot`: `IterSpec => []InspectInBounds` and
  `[]IterYieldsSnapshot`. Of an iterator the invariant (`IterInv`) says where it is
  in its walk from the oldest to the newest item or back, and that the slots that
  are still before it hold what they held when it was made, unless the stores in
  between, which `spare` counts down, have reached them.

The module also proves `MarksStayInOrder`, `BufferSpec => []BufferFits`, for
memory of every size and octets of every number of values (`BufferAssumption`).
The marks are not inductive alone: `byte_buffer_setpos()` brings back a position
of another time, so that the invariant is `Fitting(buf) /\ saved \in Position`.
There is one lemma per operation, all of which rest on `Distances` (differences
of marks in order do not wrap around) and `PatchType` (copying keeps the memory's
size).

Last in this module is `BufferImplementsTape`, `BufferSpec =>
ImplementsTape`, under the same assumption and from the same invariant. The log
is `LogOf`, the octets up to the fill mark; `Segment` says what n octets behind a
position are, `Front` and `Chunk` what copying leaves and puts. On these rest one
lemma per operation about the logs in front of it and behind it (`AddAppends`,
`RewindDrops`, `FillCbOverwrites`, ...), and one that makes it a step of the tape.
Positions of another time are why the tape's `GoTo` only promises the octets that
both positions have in common.

`PersistentStorageProofs` proves, for every layout of the section, every buffer
size and every checksum that satisfies `ChecksumAssumption` (a checksum that is
fed a block in chunks is that of the block, and fits its memory),

- `TypeCorrect`: `Spec => []TypeOK`, offsets that wrap around included;
- `ChecksumIsOfTheData`, `StoresSettle`, `WritesStayInSection`: from the
  assumption `NoWrap`, that no offset and length the user passes overflow
  together, without which they are false (see the known limits);
- `OneFaultNoticed`: additionally with a checksum that tells blocks apart
  (`Detecting`); without it no statement of this kind is true.

None of these is inductive. The invariant is `TypeOK /\ CallFits /\ SumFits /\
HistoryFits`: which call a pending access belongs to; that the checksum
calculated so far is that of the data up to the position; and what the medium
holds compared to the last settled data and to the data about to replace it. A
call cut short keeps it because a prefix of a block changes either the data or
the checksum, never both.

`RegisterTableProofs` proves, for all set-ups of tables made of areas and entries
(`TableAssumption`), every size of the address space and every validator of the
user, every property of the `registers` run:

- `TypeCorrect`, `AcceptsWellFormed` (`InitIffWellFormed`) and
  `SanitiseDoesNoHarm` (`SanitiseKeepsGood`) without further conditions;
- `ReadOnlyAreasKept` (`ReadOnlyKept`), `ChangesAreTouched` (`ChangedIsTouched`)
  and `VisitsRange` (`ForeachVisitsRange`) for set-ups that leave the last
  address free (`LastAddressFree`): behind a range that ends there, the code's
  address arithmetic wraps around (registers/core.c:506 and :671);
- `RegistersHoldConstraints` (`ConstraintsHold`) for set-ups whose registers of
  four atoms accept every value (`WideAcceptAll`): for others it is false, as
  `registers_wide` shows. That the arithmetic of `ra_malformed_write()` is right
  for registers of one and two atoms, wherever the block begins and ends, is the
  lemma `MergedIs`.

The invariant `RegisterInv` says that an initialised table is in order, and that
its registers, and those with validated contents, are in memory. `StepKinds`
sorts the steps by what they do to memory, so that each property looks at six
kinds of steps in place of a dozen calls. `SpanInv` adds that the spans of an
initialised table are those of `Spans`; `StartSplits` says of its recursive
function what it finds, namely which registers lie in earlier areas. Inductions
over lists and areas are by the smallest counterexample (`LeastIsLeast`), for
which the library has a theorem without an operator as parameter.

`VersionedPersistenceProofs` proves, for sections of every length and all sets of
specifications (`SpecAssumption`), with checksums that tell data apart as the
module defines them, every invariant of the module:

- `TypeCorrect`, `BitsAreTrue` (`StateIsTrue`), `WritesSettle` (`StoresSettle`),
  `MixturesAreNoticed` (`FaultIsNoticed`) and `SavesAreUsable` (`SaveIsUsable`).

`StateIsTrue` is not inductive: the bit of a consistent payload outlives the
header's, and the bit of a compatible one is about a block that calls replace.
The invariant is `Shape` and, as long as no access failed, `Truthful`: what each
bit says of the medium and of the block, and that without an active block none of
them is set. There is one lemma per part of a call on what it does to the parts of
a world, and two that carry the rest: `TornDoes`, that of the headers a write can
leave that is cut short only the old and the new one look intact, and
`RewriteDoes`, that payload and header are complete together or not at all.

`EndpointsProofs` proves, for sources and buffers of every size, all sets of
calls, retry policies and answers of drivers (`SizeAssumption`,
`OpsAssumption`; `ErrorsAssumption`: a driver that fails names an error),

- `TransfersKeepOrder`: `Spec => []InOrder`;
- `RefusalLosesLittle`: `Spec => []LossIsBounded`;
- `ErrorsLoseNothing`: `Spec => []SourceFailureLosesNothing`;
- `CountsAreExact`: `Spec => []SuccessIsExact`.

The octets of the source are numbered, so that order is about numbers. The
order in the sink is not inductive: what a call is about to put there matters.
The invariant says that a call holds the last octets that were taken, in order
(`Held`); that all in the sink was taken before those (`SunkFirst`); and that what
was taken since the call began is in the sink or held, until the sink refuses it
(`Accounted`). The lemma `Extended` carries the order: numbers that follow the
largest one of a sequence can be put behind it. For the last two theorems numbers
of octets are not enough, and a second invariant says which ones they are: of the
octets a call took, each is in the sink or held (`Complete`); if no driver answered
zero, there is nothing else behind what was in the sink before (`Exact`); and the
counters of each function agree with both, and so does what it returns (`Counts`).
The lemma `Delivering` carries it through every step that puts octets into the sink.

The same module proves `DriversReportAll`, `DriverSpec => DriversKeepContract`,
for pipes of every size, octets of every number of values and lists of any number
of buffers, with or without octets in them (`PipeAssumption`, and
`ListsAssumption`: the marks of the buffers of a list are in order, and size_t
does not wrap around in them). Transfers rest on it: what `Endpoints`
assumes of a driver is proved of these. The three operations of byte buffers are
lemmas about the octets that there are to read (`Consuming`, `Adding`,
`Rewinding`). On these rests one lemma per driver: what one call gives is what
there was to read first, and ENODATA means that nothing is left (`Gives`); what
one takes is the beginning of what it was asked to write (`Takes`). For a driver
for octets, which is called again until it transfers nothing, `HasRead` and
`HasWritten` say what the first k calls have done, which is where an error behind
the first octets must not take these from the answer. For lists, `Remainders` is
what is left from each buffer on; `EmptyOnes` lets the driver pass buffers that
have nothing to read, and `SameBehind` lets it change one without those behind it.
The invariant (`DriverInv`) adds that a list never has a sink, and that a failure
that was ordered is zero or EIO: an order to fail with ENODATA would break the
contract.

`RegisterProtocolProofs` proves `EveryBlockReturns`, `RegpSpec =>
[]BlocksReturn`, for allocators and blocks of every size (`BlockAssumption`),
every memory, and every set of requests and damages. `BlocksReturn` is inductive
with the types of what it counts and the shape of a received frame; the lemma
that carries it is `SendingKeepsBlock`: whatever is sent, or fails to be sent,
the frame keeps the block it came with until `regp_free()`.

The module also proves what the parties make of each other's frames:

- `EveryRequestIsAnswered`: `RegpSpec => []OneReplyPerRequest`;
- `RepliesFitRequests`: `RegpSpec => []RepliesAnswer`.

They hold for memories and blocks of every size, every set of requests, and
whatever happens to frames, if requests fit their fields (`AskAssumption`: what
the types of the arguments of `regp_req_*()` allow), no read is answered behind
the end of a block (`ReadAssumption`, see the limits above: the proofs do not cite
it, but behind the block the model is not the code), registers end below the
addresses that are too large for the model (`MemoryAssumption`, `Huge`: 2^24
stands for everything above it), a block holds a header (`BlockAssumption`: less is
a configuration the code does not serve either), and a session starts with a
number of sixteen bits (`LineAssumption`). Most of the proof is about octets:
`Number32` of `U32` is the number; `ParseHeader` of what `EncodeHeader` wrote is
the header that was meant, whatever the options and checksums; `CheckPayload`
agrees to the payload that was sent. The invariant `AnswersInv` says of each frame
on the line that, if it is sound, its octets are those of the one request it comes
from (`TrueTo`), and of a frame that was received that, if it is sound and was
accepted, its header is what this request said (`Meant`). Nothing has to be
assumed about checksums: sound frames pass them, and about others the two properties
say nothing.

`FormatProofs` proves, for frames and sinks of every length and all sets of octets
(`PlainAssumption`: the two octets that stand for others behind ESC are octets, and
ESC and EOF are special; `SizeAssumption`: a frame fits into the sink), with and
without RFC1055_WITH_SOF, every invariant of `Slip`:

- `FramesFit`: `Spec => []TypeOK`, in which `WorstCase` bounds what is sent;
- `DecoderIsHomeAgain`: `Spec => []DecoderRealigns`;
- `SoundFramesArrive`: `Spec => []FrameArrives`.

The properties are about the time between frames; the invariant `SlipInv` says
what is true inside of one. `Body` is the encoding of the first n octets of a
payload, by recursion; `BodyType` and `EncodeShape` show that no octet of it is a
delimiter. Hence a decoder that is inside of a frame stays there until the frame
ends (`Knows`, `Finds`), whatever octets become of those in it that are no
delimiters, and also if its source fails with EILSEQ: then it searches for the end
of this frame. On an idle line that search would go on to the end of the next one,
which is why `SourceFailsIllegally` ends `aligned` there. A source that fails in any
other way, and not behind an ESC, leaves `Follows` as it is. While nothing happens
to a frame, `Follows` says that the sink holds its first n octets and that the line
is behind what stands for these, or one octet further if that was an ESC. `Finds` needs the second octet of a frame: a decoder
that was in the middle of noise takes the first delimiter for the end of that.

It also proves, of frames with a length in front,

- `FramesAlwaysArrive`: `LenpSpec => []FramesArrive`, for all kinds of prefix.

Octets, the marks of buffers and the lengths of chunks are numbers
(`ValuesAssumption`, `InputAssumption`); a size_t counts beyond the ten octets of
the longest varint, and the lengths an ssize_t can have are less than where
uint64_t wraps around, and their varints are not longer than the ten octets
(`PrefixAssumption`). `PrefixTravels` is the lemma about numbers: what the sender
wrote in front is read as the length that was meant, whether it is a varint or a
word of one, two, four or eight octets. The invariant `LenpInv` relates the line to
the history: it carries the frames of those payloads that were sent and not yet
returned (`Carries`), the first of which the receiver may have read in part
(`Reads`), and the last of which the sender may still owe in part (`Owes`). A
party whose call failed in the middle of a frame is out of step; of that state only
`Reconnect` leads back, and the invariant says nothing else about it. TLC cannot
evaluate `LenpInv`, which quantifies over all sequences of frames; `FramesArrive`
is what the run checks.

The last part of `FormatProofs` is about s-expressions,

- `HeapIsAlwaysHeld`: `SxSpec => []HeapIsHeld`,

for texts of every length and depth (`TextsAssumption`: they are sequences of
characters), any integers and symbols, and any bound of the heap. The invariant
`SxInv` adds to the property that what the user holds are nodes (`AreNodes`): they
are in a set with all that is behind their pairs (`WellMade`), and each pair has the
blocks of both ends and two of its own. `TotalAppend`, `TotalReplaced`, `TotalWithout`
and `TotalKeep` say what becomes of the sum of blocks when nodes are added, replaced
and taken away. Of the parser, `ListGoesOn` says that a call of `sx_parse_list()`
depends only on calls further on in the text, and ends further on or in an error;
thus the recursive function exists, and by induction from the end of the text
backwards what was allocated is what the returned node has (`Accounted`), which
`sx_parse()` destroys if it is broken (`ParsedIs`). Of `sx_append()`, `RestsRunOut`
says that each pair has fewer blocks than the one before, so that the end of the list
is found, and `LinkedIs` that exactly the blocks of this end are missing in the
joined list.

`NumbersAlwaysTravel` in `ContainerProofs` states `NumberSpec => []NumbersTravel`, for
octets of every even number of values (`BitsAssumption`: the sign of a number is in
the upper half of its last octet) and integers of every width whose varints are no
longer than VARINT_*_MAX_OCTETS (`VarintAssumption`). Whatever function stores a
word, memory is then as `Laid` says, and what any function fetches is `WordIn` it
(`SetIs`, `RefIs`), with its sign extended; these lemmas are about the swaps of
octets, and about where a word of three octets lies in an integer of four. That it is
the stored number if and only if bf_inrange_*() accepts this (`UnsignedFits`,
`SignedFits`) is arithmetic: a number is the sum of what its digits stand for
(`SumsUp`), w digits stand for less than `Power(w)` (`BelowPower`), and the octets above
a word add nothing if and only if they are all the sign's (`FilledWith`). Octets of a
varint are digits with marks (`OctetsAre`); a reader takes octets that begin with
those of a number for this number, whatever is behind them (`NumberIsFound`).

`Recursion` holds what these proofs know about recursion: induction over numbers
for a set (`Induction`), from `LeastNumber`, and that a function defined by
recursion over 0 .. N exists (`Iteration`). The library's theorems for this have
an operator as parameter, which the provers cannot instantiate. On these rest the
lemmas about the digits of numbers, their sums and the powers of a base, since the
provers know nothing of exponents; `Power` is a recursive function for this reason.

Only model-checked: `CallsReturn` (liveness under fairness is out of the prover's
reach); `OnlyWhatWasAsked` (it rests on checksums that tell damaged frames from
sound ones, which is true of an instance and not in general); `WrittenIsRead` (it
is about what a recursive definition computes for every tree that a writer put down
by recursion of his own, which is induction over data).

## Not modelled

PROJECT.json has the reason for each component: register utilities, hexdump and
the test library only print; bit operations and the compiler and meta headers
are single expressions; the convolution low-pass is numeric; the libc
replacements, the Zephyr glue and the build system are not the library's own
logic. Of endpoints, the drivers for file descriptors (`posix.c` hands
them to the operating system) and for sources and sinks of nothing
(`trivial.c`), which have no state, are not modelled.

In the modelled parts there are: no getbuffer extension of endpoints (nothing
in the library implements it); no iteration callbacks that stop or fail; no
checksums that collide (they are taken to tell data apart, in the proofs as an
assumption; `RegpFrame` calculates them); no machines with bytes of sixteen
bits; no contents of log and diagnostic output; no seeking of endpoints.

## Plan

In order of importance.

1. A writer of s-expressions as a relation between nodes and texts, so that
   `WrittenIsRead` can be proved of every tree.
2. The getbuffer extension of endpoints, once an endpoint of the library has it.
