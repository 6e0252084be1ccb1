---------------------------- MODULE RegisterProtocol ----------------------------
(***************************************************************************)
(* The register protocol, src/register-protocol.c: one party asks for      *)
(* blocks of the memory of another one, which runs the loop that the       *)
(* comment in regp_recv() describes: receive, process, free.  Frames to it *)
(* pass a serial line that may damage them, or a reliable connection; both *)
(* may fail.  Blocks for frames come from an allocator that the responding *)
(* party shares with others.                                               *)
(*                                                                         *)
(* Frames are whole here: Slip and LengthPrefix are about their octets.    *)
(* The line delivers no frames without octets, for which regp_recv() calls *)
(* parse_frame() without a block; and nobody asks for reads for which      *)
(* regp_process() writes behind the block (ReadAssumption).                *)
(***************************************************************************)
EXTENDS RegpFrame, FiniteSets

CONSTANTS
  Asks,         \* what the requesting party asks for
  Room,         \* octets of a block behind its RPFrame
  Blocks,       \* blocks of the allocator
  MemSize,      \* the addresses 0 .. MemSize - 1 are mapped to registers
  ReadOnly,     \* registers that are not writeable
  BadValues,    \* octets that no register accepts
  Changes,      \* what the line adds to an octet it changes
  FirstNumber,  \* the sequence number of the session's first request
  MaxFrames     \* bound of the frames that are sent, each damage counting as one

\* What a field of 32 bits can say: addresses, block sizes, and the room that is
\* reported to a party that asked for too much.
Word32 == {n \in Nat : n \div 65536 < 65536}

ASSUME BlockAssumption == Room \in Word32 /\ Room >= HeaderSize /\ Blocks \in Nat

ASSUME AskAssumption ==
  /\ Asks \subseteq [kind : {"read", "write"}, w16 : BOOLEAN, address : Word32, n : Word32,
                     data : Seq(Byte), sequence : Nat]
  /\ \A ask \in Asks : Len(ask.data) \in Word32

\* regp_process() compares the data of a read with all of a block, but puts them behind
\* the request's header: a read is one that it refuses, or one that has room there.
ASSUME ReadAssumption ==
  \A ask \in Asks :
    LET octets == IF ask.w16 THEN 2 * ask.n ELSE ask.n
        header == HeaderMin + 2
    IN  ask.kind = "read" => octets > Room \/ header + octets <= Room

ASSUME MemoryAssumption == MemSize \in Nat /\ MemSize < Huge

ASSUME LineAssumption == Changes \subseteq Int /\ FirstNumber \in Nat /\ FirstNumber < 65536

VARIABLES
  serial,    \* p->ep.type is RP_EP_SERIAL, of both parties
  w16,       \* the responding party's memory has registers of sixteen bits
  sequence,  \* p->session.sequence of the requesting party
  budget,    \* how many frames may still be sent or damaged
  line,      \* frames on their way: the octets, the requests they come from, and
             \* whether nothing happened to them
  memory,    \* contents of the registers
  stage,     \* what the responding party does next
  mf,        \* its RPMaybeFrame, with the history of the frame that is in it
  pool,      \* blocks that are free
  others,    \* blocks that other users of the allocator have
  leaked,    \* history: blocks of calls whose transport failed behind the first octet
  reply,     \* the frame that was sent back, with the history it belongs to
  access     \* history: the access to the memory for this frame

regpVars == <<serial, w16, sequence, budget, line, memory, stage, mf, pool, others, leaked,
              reply, access>>

\* Octets of a register, and what the ones from address on contain.
Width == IF w16 THEN 2 ELSE 1

Contents(cells, address, n) ==
  LET octets[i \in 0 .. n] == IF i = 0 THEN <<>> ELSE octets[i - 1] \o cells[address + i - 1]
  IN  octets[n]

NoFrame  == [id |-> "none"]
NoReply  == [octets |-> <<>>]
NoAccess == [kind |-> "none"]

RegpInit ==
  /\ serial \in BOOLEAN /\ w16 \in BOOLEAN
  /\ sequence = FirstNumber /\ budget = MaxFrames
  /\ line = <<>>
  /\ memory = [i \in 0 .. MemSize - 1 |-> IF w16 THEN <<(i + 1) % 256, (i + 17) % 256>> ELSE <<(i + 1) % 256>>]
  /\ stage = "idle" /\ mf = NoFrame
  /\ pool = Blocks /\ others = 0 /\ leaked = 0
  /\ reply = NoReply
  /\ access = NoAccess

responder == <<memory, stage, mf, pool, leaked, reply, access>>

(***************************************************************************)
(* The requesting party.                                                   *)
(***************************************************************************)

Puts(octets, asks) ==
  /\ budget > 0
  /\ budget' = budget - 1
  /\ line' = Append(line, [octets |-> octets, asks |-> asks, sound |-> TRUE])

\* regp_req_*(): the sequence number moves on also if the frame is not sent.
Request(ask) ==
  LET address == U32(ask.address)
  IN  /\ \/ Puts(IF ask.kind = "read"
                 THEN ReadRequest(serial, ask.w16, sequence, address, ask.n)
                 ELSE WriteRequest(serial, ask.w16, sequence, address, ask.data),
                 {[ask EXCEPT !.sequence = sequence]})
         \/ budget > 0 /\ budget' = budget - 1 /\ UNCHANGED line
      /\ sequence' = (sequence + 1) % 65536
      /\ UNCHANGED <<serial, w16, others, responder>>

\* Frames that are no requests: what is sent by a party that responds, too, or could
\* not read a reply.
Strays ==
  LET h(type) == [type |-> type, sequence |-> 0, address |-> U32(0)]
  IN  {MetaMessage(serial, EHEADERENC),
       Acknowledge(serial, w16, h("READ_REQUEST"), <<1, 2>>),
       ErrorWithNumber(serial, h("WRITE_REQUEST"), "EUNMAPPED", U32(0))}

Stray(octets) ==
  /\ Puts(octets, {})
  /\ UNCHANGED <<serial, w16, sequence, others, responder>>

ResetSession ==
  /\ sequence' = 0
  /\ UNCHANGED <<serial, w16, budget, line, others, responder>>

(***************************************************************************)
(* The line: something happens to the frame in front.                      *)
(***************************************************************************)

Damaged(octets) == [Head(line) EXCEPT !.octets = octets, !.sound = FALSE]

Happens(frames) ==
  /\ serial /\ line # <<>> /\ Head(line).sound
  /\ budget > 0 /\ budget' = budget - 1
  /\ line' = frames \o Tail(line)
  /\ UNCHANGED <<serial, w16, sequence, others, responder>>

Lose == Happens(<<>>)

ChangeOctet(i, d) ==
  LET octets == Head(line).octets
  IN  line # <<>> /\ i \in DOMAIN octets /\ Happens(<<Damaged([octets EXCEPT ![i] = (@ + d) % 256])>>)

LoseOctet(i) ==
  LET octets == Head(line).octets
  IN  line # <<>> /\ i \in DOMAIN octets
      /\ Happens(<<Damaged(SubSeq(octets, 1, i - 1) \o SubSeq(octets, i + 1, Len(octets)))>>)

\* A delimiter is made up, or lost.
Split(i) ==
  LET octets == Head(line).octets
  IN  line # <<>> /\ i \in 1 .. Len(octets) - 1
      /\ Happens(<<Damaged(SubSeq(octets, 1, i)), Damaged(SubSeq(octets, i + 1, Len(octets)))>>)

Joined == [octets |-> line[1].octets \o line[2].octets,
           asks |-> line[1].asks \cup line[2].asks, sound |-> FALSE]

Join ==
  /\ Len(line) > 1 /\ line[2].sound /\ serial /\ line[1].sound
  /\ line' = <<Joined>> \o Tail(Tail(line))
  /\ UNCHANGED <<serial, w16, sequence, budget, others, responder>>

(***************************************************************************)
(* The allocator.                                                          *)
(***************************************************************************)

\* Blocks of other users come and go.
OthersTake ==
  /\ pool > 0
  /\ pool' = pool - 1 /\ others' = others + 1
  /\ UNCHANGED <<serial, w16, sequence, budget, line, memory, stage, mf, leaked, reply, access>>

OthersFree ==
  /\ others > 0
  /\ pool' = pool + 1 /\ others' = others - 1
  /\ UNCHANGED <<serial, w16, sequence, budget, line, memory, stage, mf, leaked, reply, access>>

(***************************************************************************)
(* The responding party.                                                   *)
(***************************************************************************)

\* What is sent back, or lost because the sink failed; nothing if it is empty.
Sends(octets, of) ==
  \/ reply' = [octets |-> octets, of |-> of, cells |-> memory]
     /\ mf' = [of EXCEPT !.replies = @ + 1]
  \/ mf' = [of EXCEPT !.sunk = TRUE] /\ UNCHANGED reply

SendsNothing(of) == mf' = of /\ UNCHANGED reply

\* What the continuable sink keeps of a frame.  cs_add() takes what the block holds
\* for the room it has, so that one that is full never is an error; and the fallback
\* buffer, which holds nothing, gets nothing.
Kept(octets) == SubSeq(octets, 1, IF Len(octets) > Room THEN Room ELSE Len(octets))
KeptByFallback(octets) == <<>>

RejectsHeader(id, of) ==
  IF id = "EBADMSG" THEN Sends(MetaMessage(serial, EHEADERENC), of)
  ELSE Sends(MetaMessage(serial, EHEADERCRC), of)

\* What regp_recv() returns for a frame, with or without a block for it.
Returned(frame, block, parsed) ==
  [id |-> IF block THEN parsed.id ELSE "EBUSY", block |-> block,
   header |-> parsed.header, payload |-> parsed.payload,
   asks |-> frame.asks, sound |-> frame.sound, replies |-> 0, sunk |-> FALSE]

Hears(frame, block, parsed) ==
  IF parsed.id \in {"EBADMSG", "EILSEQ"} THEN RejectsHeader(parsed.id, Returned(frame, block, parsed))
  ELSE SendsNothing(Returned(frame, block, parsed))

\* regp_recv() of a frame that arrives whole.
Receive ==
  /\ stage = "idle" /\ line # <<>>
  /\ line' = Tail(line)
  /\ stage' = "received"
  /\ pool' = IF pool = 0 THEN pool ELSE pool - 1
  /\ LET frame == Head(line)
     IN  Hears(frame, pool # 0,
               ParseFrame(IF pool = 0 THEN KeptByFallback(frame.octets) ELSE Kept(frame.octets)))
  /\ UNCHANGED <<serial, w16, sequence, budget, memory, others, leaked, access>>

\* The source fails, or the framing is broken, behind the octet i.  The rest of the
\* frame is another one, unless the connection is given up.
ReceiveFails(i) ==
  /\ stage = "idle" /\ line # <<>> /\ i < Len(Head(line).octets)
  /\ LET octets == Head(line).octets
     IN  line' = IF serial THEN <<Damaged(SubSeq(octets, i + 1, Len(octets)))>> \o Tail(line)
                 ELSE <<>>
  /\ IF i > 0 /\ pool > 0 THEN pool' = pool - 1 /\ leaked' = leaked + 1
     ELSE UNCHANGED <<pool, leaked>>
  /\ UNCHANGED <<serial, w16, sequence, budget, memory, stage, mf, others, reply, access>>

\* regaccess2blockaccess()
BlockAccessCode(code) ==
  CASE code = "SUCCESS"                      -> "ACK"
    [] code \in {"UNINITIALISED", "NOENTRY"} -> "EUNMAPPED"
    [] code = "RANGE"                        -> "ERANGE"
    [] code = "INVALID"                      -> "EINVALID"
    [] code = "READONLY"                     -> "EACCESS"
    [] OTHER                                 -> "EIO"

FirstOf(set) == CHOOSE i \in set : \A j \in set : i <= j

\* How an access of the memory ends: the code of the register table, and the address.
Outcomes(write, address, n, payload) ==
  LET range    == address .. address + n - 1
      unmapped == range \ DOMAIN memory
      locked   == IF write THEN range \cap ReadOnly ELSE {}
      bad      == IF write THEN {address + (i - 1) \div Width : i \in {j \in DOMAIN payload :
                                                                   payload[j] \in BadValues}}
                  ELSE {}
  IN  IF unmapped # {} THEN {<<"NOENTRY", FirstOf(unmapped)>>}
      ELSE IF locked # {} THEN {<<"READONLY", FirstOf(locked)>>}
      ELSE IF bad # {} THEN {<<code, FirstOf(bad)>> : code \in {"RANGE", "INVALID"}}
      ELSE {<<"SUCCESS", address>>, <<"IO_ERROR", address>>}

Written(address, n, payload) ==
  [i \in DOMAIN memory |->
     IF i \in address .. address + n - 1
     THEN SubSeq(payload, (i - address) * Width + 1, (i - address + 1) * Width)
     ELSE memory[i]]

\* A defect the checks must notice: the answer to a read comes without its block.
AnswerWithoutBlock(h, n, code, at) == ErrorResponse(serial, h, code)

\* The response for the code of a block access: the end of regp_process().
Answer(h, n, code, at) ==
  CASE code = "ACK" ->
         Acknowledge(serial, w16, h,
                     IF h.type = "READ_REQUEST" THEN Contents(memory, at, n) ELSE <<>>)
    [] code \in {"EUNMAPPED", "EACCESS", "ERANGE", "EINVALID"} ->
         ErrorWithNumber(serial, h, code, U32(at))
    [] code = "ETXOVERFLOW" -> ErrorWithNumber(serial, h, code, U32(Room))
    [] OTHER -> ErrorResponse(serial, h, code)

\* A request that is in order is forwarded to the memory.
Serve(h, payload) ==
  LET n     == h.blocksize
      at    == Number32(h.address)
      write == h.type = "WRITE_REQUEST"
  IN  IF ~write /\ n > Room \div Width
      THEN Sends(Answer(h, n, "ETXOVERFLOW", at), mf) /\ UNCHANGED <<memory, access>>
      ELSE \E end \in Outcomes(write, at, n, payload) :
             /\ memory' = IF write /\ end[1] = "SUCCESS" THEN Written(at, n, payload) ELSE memory
             /\ access' = [kind |-> IF write THEN "write" ELSE "read", address |-> at, n |-> n,
                           data |-> IF write THEN payload ELSE <<>>,
                           of |-> mf.asks, sound |-> mf.sound,
                           checked |-> HasHeaderCrc(h.options)]
             /\ Sends(Answer(h, n, BlockAccessCode(end[1]), end[2]), mf)

MemtypeValid(h) == Has16Bit(h.options) = w16

IsRequest(h) == h.type \in RequestTypes

\* A defect the checks must notice: responses are told what is wrong with them, too.
AnswersAll(h) == TRUE

\* Whether regp_process() answers what is wrong with a frame.
AnswersErrorsOf(h) == IsRequest(h)

\* regp_process()
Process ==
  /\ stage = "received"
  /\ stage' = "processed"
  /\ LET h == mf.header
     IN  \/ /\ mf.id = "ok" /\ IsRequest(h) /\ MemtypeValid(h)
            /\ Serve(h, mf.payload)
         \/ /\ mf.id = "ok" /\ IsRequest(h) /\ ~MemtypeValid(h)
            /\ Sends(ErrorResponse(serial, h, "EWORDSIZE"), mf)
            /\ UNCHANGED <<memory, access>>
         \/ /\ mf.id \in {"EPROTO", "EFAULT"} /\ AnswersErrorsOf(h)
            /\ Sends(ErrorResponse(serial, h,
                       IF mf.id = "EPROTO" THEN "EPAYLOADCRC" ELSE "EPAYLOADSIZE"), mf)
            /\ UNCHANGED <<memory, access>>
         \/ /\ mf.id \in {"EBADMSG", "EILSEQ", "EBUSY"}
               \/ (mf.id = "ok" /\ ~IsRequest(h))
               \/ (mf.id \in {"EPROTO", "EFAULT"} /\ ~AnswersErrorsOf(h))
            /\ SendsNothing(mf)
            /\ UNCHANGED <<memory, access>>
  /\ UNCHANGED <<serial, w16, sequence, budget, line, pool, others, leaked>>

\* A defect the checks must notice: only frames without an error are freed.
FreedIfGood(pooled, f) == IF f.id = "ok" THEN pooled + 1 ELSE pooled

\* regp_free(): of NULL it is nothing.
Freed(pooled, f) == IF f.block THEN pooled + 1 ELSE pooled

Free ==
  /\ stage = "processed"
  /\ stage' = "idle"
  /\ pool' = Freed(pool, mf)
  /\ mf' = NoFrame /\ reply' = NoReply /\ access' = NoAccess
  /\ UNCHANGED <<serial, w16, sequence, budget, line, memory, others, leaked>>

RegpNext ==
  \/ \E ask \in Asks : Request(ask)
  \/ \E octets \in Strays : Stray(octets)
  \/ ResetSession
  \/ Lose \/ Join
  \/ \E i \in 1 .. HeaderSize + Room : LoseOctet(i) \/ Split(i)
  \/ \E i \in 1 .. HeaderSize + Room, d \in Changes : ChangeOctet(i, d)
  \/ OthersTake \/ OthersFree
  \/ Receive
  \/ \E i \in {0, 1, HeaderMin, Room} : ReceiveFails(i)
  \/ Process
  \/ Free

RegpSpec == RegpInit /\ [][RegpNext]_regpVars

(***************************************************************************)
(* Properties                                                              *)
(***************************************************************************)

\* The memory is accessed for requests only, at the addresses, in the length and with
\* the data that were asked for, however the line damages, splits and joins frames:
\* the checksums and the plausibility of the payload's size see to that, unless the
\* damage is to the very option that announces the header's checksum.
OnlyWhatWasAsked ==
  access.kind # "none" =>
    \/ \E ask \in access.of :
         /\ access.kind = ask.kind /\ access.data = ask.data
         /\ access.address = ask.address /\ access.n = ask.n
    \/ ~access.sound /\ ~access.checked

\* Write responses with a payload, and EIO, are beyond parse_header() and
\* payload_plausible() of the party that gets them.
Unreadable(octets) ==
  \/ octets[1] \div 16 = ResponseCode["EIO"]
  \/ TypesOf(octets) = {"WRITE_RESPONSE"} /\ SizeWith(octets[1] % 16) < Len(octets)

\* Whether a reply, as the requesting party's regp_recv() sees it, is one to this request.
AnswerTo(ask, seen) ==
  /\ seen.header.type = (IF ask.kind = "read" THEN "READ_RESPONSE" ELSE "WRITE_RESPONSE")
  /\ seen.header.sequence = ask.sequence
  /\ seen.header.address = U32(ask.address)
  /\ ask.kind = "read" /\ seen.header.meta = ResponseCode["ACK"] =>
       seen.payload = Contents(reply.cells, ask.address, ask.n)

Answers(asks, seen) ==
  /\ seen.id = "ok"
  /\ seen.header.type # "META" => \A ask \in asks : AnswerTo(ask, seen)

\* What is sent back to a request that arrived undamaged can be read by the party that
\* asked, and answers this request and no other: type, sequence number and address are
\* its own, and an acknowledged read carries the registers' contents at the time of
\* the access.  (Meta messages say nothing of the request.)
RepliesAnswer ==
  reply # NoReply /\ reply.of.sound /\ ~Unreadable(reply.octets) =>
    Answers(reply.of.asks, ParseFrame(reply.octets))

\* Each request that arrives undamaged is answered with one frame when the loop is done
\* with it, be it an error or META, unless the sink failed; a sound response or meta
\* message is not answered, whatever is wrong with its payload, unless there was no block
\* for it or its header is refused.
OneReplyPerRequest ==
  stage = "processed" /\ mf.sound =>
    mf.replies + (IF mf.sunk THEN 1 ELSE 0)
      = (IF mf.asks # {} \/ mf.id \in {"EBUSY", "EBADMSG", "EILSEQ"} THEN 1 ELSE 0)

\* Between two frames every block is back in the allocator or in use by somebody else,
\* in whatever order they come and go and whatever became of the frames, except for
\* the blocks regp_recv() lost when the transport failed.
BlocksReturn ==
  /\ stage = "idle" => pool + others + leaked = Blocks
  /\ stage # "idle" => pool + others + leaked = Blocks - (IF mf.block THEN 1 ELSE 0)

\* regp_recv(): "You have to use regp_free() when the returned data is not needed
\* anymore to avoid memory leaks."  The loop does.
NoLeak == stage = "idle" => pool + others = Blocks
================================================================================
