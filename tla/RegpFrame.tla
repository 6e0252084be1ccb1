------------------------------- MODULE RegpFrame -------------------------------
(***************************************************************************)
(* The frames of the register protocol: how src/register-protocol.c makes  *)
(* them and what it reads from them.  A frame is a sequence of octets; its *)
(* header has words of sixteen bits in big endian order.                   *)
(***************************************************************************)
EXTENDS Crc16Arc

TypeCode == [READ_REQUEST |-> 0, READ_RESPONSE |-> 1, WRITE_REQUEST |-> 2,
             WRITE_RESPONSE |-> 3, META |-> 15]

Types == DOMAIN TypeCode

ResponseCode == [ACK |-> 0, EWORDSIZE |-> 1, EPAYLOADCRC |-> 2, EPAYLOADSIZE |-> 3,
                 ERXOVERFLOW |-> 4, ETXOVERFLOW |-> 5, EBUSY |-> 6, EUNMAPPED |-> 7,
                 EACCESS |-> 8, ERANGE |-> 9, EINVALID |-> 10, EIO |-> 11]

EHEADERENC == 1
EHEADERCRC == 2

U16(n) == <<n \div 256, n % 256>>
U32(n) == U16(n \div 65536) \o U16(n % 65536)

\* Numbers of 32 bits that are larger than all that matter are Huge.
Huge == 16777216

Number16(octets) == octets[1] * 256 + octets[2]
Number32(octets) ==
  IF octets[1] # 0 THEN Huge ELSE octets[2] * 65536 + octets[3] * 256 + octets[4]

HeaderMin  == 12  \* RP_HEADER_MIN_SIZE
HeaderSize == 16  \* RP_HEADER_SIZE

RequestTypes  == {"READ_REQUEST", "WRITE_REQUEST"}
ResponseTypes == {"READ_RESPONSE", "WRITE_RESPONSE"}

\* The options of make_motv(): WORD_SIZE_16, and checksums on serial lines.
Options(serial, w16, type, n) ==
  (IF w16 THEN 1 ELSE 0)
  + (IF serial THEN 2 ELSE 0)
  + (IF serial /\ n > 0 /\ type # "READ_REQUEST" THEN 4 ELSE 0)

Has16Bit(options)     == options % 2 = 1
HasHeaderCrc(options) == (options \div 2) % 2 = 1
HasPayloadCrc(options) == (options \div 4) % 2 = 1

\* The checksum of the header covers the payload's when there is one.
HeaderCrc(body, with, plcrc) == IF with THEN CrcFrom(Crc(body), plcrc) ELSE Crc(body)

EncodeHeader(serial, w16, type, meta, sequence, address, n, plcrc) ==
  LET options == Options(serial, w16, type, n)
      body    == <<meta * 16 + options, TypeCode[type] * 16>> \o U16(sequence) \o address \o U32(n)
      with    == HasPayloadCrc(options)
  IN  body
      \o (IF HasHeaderCrc(options) THEN U16(HeaderCrc(body, with, U16(plcrc))) ELSE <<>>)
      \o (IF with THEN U16(plcrc) ELSE <<>>)

\* regp_req_read8(), regp_req_read16()
ReadRequest(serial, w16, sequence, address, n) ==
  EncodeHeader(serial, w16, "READ_REQUEST", 0, sequence, address, n, 0)

\* regp_req_write8(), regp_req_write16(): the block size counts atoms of memory.
WriteRequest(serial, w16, sequence, address, data) ==
  LET n == IF w16 THEN Len(data) \div 2 ELSE Len(data)
  IN  EncodeHeader(serial, w16, "WRITE_REQUEST", 0, sequence, address, n, Crc(data)) \o data

(***************************************************************************)
(* Receiving.                                                              *)
(***************************************************************************)

LegalMeta(type, meta) ==
  CASE type \in RequestTypes  -> meta = 0
    [] type \in ResponseTypes -> meta <= ResponseCode["EINVALID"]
    [] type = "META"          -> meta \in {EHEADERENC, EHEADERCRC}

NoHeader == [type |-> "INVALID", options |-> 0, meta |-> 0, sequence |-> 0,
             address |-> <<0, 0, 0, 0>>, blocksize |-> 0, plcrc |-> 0]

BadHeader(rc) == [rc |-> rc, size |-> 0, header |-> NoHeader]

\* Octets of a header with these options.
SizeWith(options) ==
  HeaderMin + (IF HasHeaderCrc(options) THEN 2 ELSE 0) + (IF HasPayloadCrc(options) THEN 2 ELSE 0)

TypesOf(raw) == {t \in Types : TypeCode[t] = raw[2] \div 16}

PayloadCrcIn(raw, options) ==
  LET size == SizeWith(options)
  IN  IF HasPayloadCrc(options) THEN SubSeq(raw, size - 1, size) ELSE U16(0)

CrcMatches(raw, options) ==
  HasHeaderCrc(options) =>
    SubSeq(raw, HeaderMin + 1, HeaderMin + 2)
      = U16(HeaderCrc(SubSeq(raw, 1, HeaderMin), HasPayloadCrc(options), PayloadCrcIn(raw, options)))

WellFormed(raw) ==
  /\ Len(raw) >= HeaderMin
  /\ raw[2] % 16 = 0             \* RP_IMPLEMENTATION_VERSION
  /\ raw[1] % 16 < 8
  /\ \E type \in TypesOf(raw) : LegalMeta(type, raw[1] \div 16)
  /\ Len(raw) >= SizeWith(raw[1] % 16)

HeaderIn(raw, options) ==
  [type |-> CHOOSE type \in TypesOf(raw) : TRUE, options |-> options, meta |-> raw[1] \div 16,
   sequence |-> Number16(SubSeq(raw, 3, 4)), address |-> SubSeq(raw, 5, 8),
   blocksize |-> Number32(SubSeq(raw, 9, 12)), plcrc |-> Number16(PayloadCrcIn(raw, options))]

\* parse_header(): the return code, how many octets the header has, and its fields.
ParseHeader(raw) ==
  IF ~WellFormed(raw) THEN BadHeader("EBADMSG")
  ELSE [rc     |-> IF CrcMatches(raw, raw[1] % 16) THEN "ok" ELSE "EILSEQ",
        size   |-> SizeWith(raw[1] % 16),
        header |-> HeaderIn(raw, raw[1] % 16)]

PayloadPlausible(h, payload) ==
  LET actual == IF Has16Bit(h.options) THEN Len(payload) \div 2 ELSE Len(payload)
  IN  IF h.type \in {"READ_RESPONSE", "WRITE_REQUEST"} THEN h.blocksize = actual ELSE actual = 0

\* A defect the checks must notice: the payload's checksum is not looked at.
AcceptPayload(h, payload) == TRUE

\* check_payload() does nothing for a header without checksum.  A checksum over more
\* octets than there are is over what the block held before; it never matches.
CheckPayload(h, payload) ==
  LET n == IF Has16Bit(h.options) THEN 2 * h.blocksize ELSE h.blocksize
  IN  HasHeaderCrc(h.options) /\ payload # <<>> =>
        n <= Len(payload) /\ Crc(SubSeq(payload, 1, n)) = h.plcrc

Judged(h, payload) ==
  [id |-> IF ~PayloadPlausible(h, payload) THEN "EFAULT"
          ELSE IF ~CheckPayload(h, payload) THEN "EPROTO"
          ELSE "ok",
   header |-> h, payload |-> payload]

Behind(raw, p) ==
  IF p.rc # "ok" THEN [id |-> p.rc, header |-> p.header, payload |-> <<>>]
  ELSE Judged(p.header, SubSeq(raw, p.size + 1, Len(raw)))

\* parse_frame(): the error regp_recv() reports, the header and the payload.
ParseFrame(raw) == Behind(raw, ParseHeader(raw))

(***************************************************************************)
(* Responding.                                                             *)
(***************************************************************************)

\* req2resp()
ResponseTo(type) ==
  CASE type = "READ_REQUEST"  -> "READ_RESPONSE"
    [] type = "WRITE_REQUEST" -> "WRITE_RESPONSE"
    [] OTHER                  -> "META"

\* send_resp_0(), send_resp_32(): octet semantics.
ErrorResponse(serial, h, code) ==
  EncodeHeader(serial, FALSE, ResponseTo(h.type), ResponseCode[code], h.sequence, h.address, 0, 0)

ErrorWithNumber(serial, h, code, octets) ==
  EncodeHeader(serial, FALSE, ResponseTo(h.type), ResponseCode[code], h.sequence, h.address,
               Len(octets), Crc(octets))
  \o octets

\* regp_resp_ack()
Acknowledge(serial, w16, h, payload) ==
  LET n == IF w16 THEN Len(payload) \div 2 ELSE Len(payload)
  IN  EncodeHeader(serial, w16, ResponseTo(h.type), ResponseCode["ACK"], h.sequence, h.address,
                   n, Crc(payload))
      \o payload

\* regp_resp_meta()
MetaMessage(serial, meta) == EncodeHeader(serial, FALSE, "META", meta, 0, U32(0), 0, 0)
================================================================================
