---------------------------------- MODULE Slip ----------------------------------
(***************************************************************************)
(* SLIP framing, src/rfc1055.c: an encoder sends frames, one octet after   *)
(* the other, over a line that may lose, change and make up octets, to a   *)
(* decoder whose source and sink may fail.  The caller of the decoder      *)
(* calls it again whenever it returns.                                     *)
(***************************************************************************)
EXTENDS Naturals, Sequences

CONSTANTS
  Plain,      \* octets that are neither delimiter nor escape character
  MaxFrame,   \* octets in the longest frame
  SinkSize    \* octets the decoder's sink has room for

ASSUME SizeAssumption == MaxFrame \in Nat /\ SinkSize \in Nat /\ MaxFrame <= SinkSize
ASSUME PlainAssumption ==
  {"ESC_EOF", "ESC_ESC"} \subseteq Plain /\ {"EOF", "ESC"} \intersect Plain = {}

VARIABLES
  withsof,  \* RFC1055_WITH_SOF
  state,    \* ctx->state of the decoder
  escaped,  \* the decoder waits for the octet after an ESC
  sink,     \* what the decoder has stored since its caller emptied the sink
  frame,    \* the payload of the frame on the line
  todo,     \* the octets of it that are still to come
  aligned,  \* history: the delimiters on the line tell the decoder where frames end
  sound,    \* history: nothing happened to this frame
  begun,    \* history: the frame began while aligned
  got       \* history: what the decoder made of the frame

vars == <<withsof, state, escaped, sink, frame, todo, aligned, sound, begun, got>>

Octet  == {"EOF", "ESC"} \cup Plain
Frames == UNION {[1 .. n -> Octet] : n \in 0 .. MaxFrame}

(***************************************************************************)
(* The encoder.                                                            *)
(***************************************************************************)

\* A defect the checks must notice: the escape character is not replaced.
EncodeDelimiterOnly(octet) == IF octet = "EOF" THEN <<"ESC", "ESC_EOF">> ELSE <<octet>>

\* rfc1055_encode_octet()
EncodeOctet(octet) ==
  CASE octet = "ESC" -> <<"ESC", "ESC_ESC">>
    [] octet = "EOF" -> <<"ESC", "ESC_EOF">>
    [] OTHER         -> <<octet>>

Opening == IF withsof THEN <<"EOF">> ELSE <<>>

\* rfc1055_encode() of a source that ends after the payload
Encode(payload) ==
  LET body[n \in 0 .. Len(payload)] ==
        IF n = 0 THEN <<>> ELSE body[n - 1] \o EncodeOctet(payload[n])
  IN  Opening \o body[Len(payload)] \o <<"EOF">>

\* A defect the checks must notice: the delimiter in front is forgotten.
WorstCaseOfEnd(n) == 2 * n + 1

\* RFC1055_WORST_CASE()
WorstCase(n) == IF withsof THEN 2 * n + 2 ELSE 2 * n + 1

(***************************************************************************)
(* The decoder: what rfc1055_decode() does with an octet.                  *)
(***************************************************************************)

Home == IF withsof THEN "SEARCH_FOR_START" ELSE "NORMAL"

Init ==
  /\ withsof \in BOOLEAN
  /\ state = Home
  /\ escaped = FALSE
  /\ sink = <<>>
  /\ frame = <<>> /\ todo = <<>>
  /\ aligned = TRUE /\ sound = FALSE /\ begun = FALSE
  /\ got = "nothing"

\* rfc1055_decode() returns, and its caller empties the sink.
ReturnsFrame ==
  /\ sink' = <<>>
  /\ got' = IF got = "nothing" /\ sink = frame THEN "frame" ELSE "other"

ReturnsError ==
  /\ sink' = <<>>
  /\ got' = "other"

Continues == UNCHANGED <<sink, got>>

\* sink_put_octet() into a sink that may be full, or fail.
Stores(octet) ==
  \/ /\ Len(sink) < SinkSize
     /\ sink' = Append(sink, octet)
     /\ UNCHANGED got
  \/ /\ Len(sink) = SinkSize
     /\ ReturnsError

SearchForStart(octet) ==
  /\ state = "SEARCH_FOR_START"
  /\ \/ octet = "EOF" /\ state' = "NORMAL" /\ Continues
     \/ octet # "EOF" /\ state' = "SEARCH_FOR_END" /\ ReturnsError
  /\ UNCHANGED escaped

SearchForEnd(octet) ==
  /\ state = "SEARCH_FOR_END"
  /\ state' = IF octet = "EOF" THEN Home ELSE state
  /\ Continues
  /\ UNCHANGED escaped

\* The first octet rfc1055_decode_octet() gets.
First(octet) ==
  /\ state = "NORMAL" /\ ~escaped
  /\ \/ octet = "ESC" /\ escaped' = TRUE /\ Continues /\ UNCHANGED state
     \/ octet = "EOF" /\ state' = Home /\ ReturnsFrame /\ UNCHANGED escaped
     \/ octet \in Plain /\ Stores(octet) /\ UNCHANGED <<state, escaped>>

\* A defect the checks must notice: a delimiter after ESC is not seen as one.
AfterIllegalAlwaysEnd(octet) == "SEARCH_FOR_END"

\* Where to go on after an ESC that was followed by the wrong octet.
AfterIllegal(octet) == IF octet = "EOF" THEN Home ELSE "SEARCH_FOR_END"

\* A defect the checks must notice: *data is left as it is, and holds a delimiter
\* that a frame had as an octet of its payload.
StaleOctet == "EOF"

\* What *data is preset to, in case that the source itself fails with -EILSEQ.
NoOctet == "0"

Second(octet) ==
  /\ state = "NORMAL" /\ escaped
  /\ escaped' = FALSE
  /\ \/ octet = "ESC_EOF" /\ Stores("EOF") /\ UNCHANGED state
     \/ octet = "ESC_ESC" /\ Stores("ESC") /\ UNCHANGED state
     \/ octet \notin {"ESC_EOF", "ESC_ESC"} /\ state' = AfterIllegal(octet) /\ ReturnsError

Receive(octet) ==
  SearchForStart(octet) \/ SearchForEnd(octet) \/ First(octet) \/ Second(octet)

(***************************************************************************)
(* The line.                                                               *)
(***************************************************************************)

StartFrame(payload) ==
  /\ todo = <<>>
  /\ frame' = payload
  /\ todo' = Encode(payload)
  /\ sound' = TRUE /\ begun' = aligned
  /\ got' = "nothing"
  /\ UNCHANGED <<withsof, state, escaped, sink, aligned>>

\* A frame that arrives whole aligns the decoder again, unless it is one that
\* consists of two delimiters: they look the same to either side.
Realigns == sound /\ ~(withsof /\ frame = <<>>)

Deliver ==
  /\ todo # <<>>
  /\ Receive(Head(todo))
  /\ todo' = Tail(todo)
  /\ aligned' = (aligned \/ (Len(todo) = 1 /\ Realigns))
  /\ UNCHANGED <<withsof, frame, sound, begun>>

IsDelimiter == Len(todo) = 1 \/ (withsof /\ Len(todo) = Len(Encode(frame)))

Lose ==
  /\ todo # <<>>
  /\ todo' = Tail(todo)
  /\ sound' = FALSE
  /\ aligned' = (aligned /\ ~IsDelimiter)
  /\ UNCHANGED <<withsof, state, escaped, sink, frame, begun, got>>

Change(octet) ==
  /\ todo # <<>> /\ octet # Head(todo)
  /\ Receive(octet)
  /\ todo' = Tail(todo)
  /\ sound' = FALSE
  /\ aligned' = (aligned /\ ~IsDelimiter /\ octet # "EOF")
  /\ UNCHANGED <<withsof, frame, begun>>

Noise(octet) ==
  /\ Receive(octet)
  /\ sound' = FALSE /\ aligned' = FALSE
  /\ UNCHANGED <<withsof, frame, todo, begun>>

\* The encoder's source or sink fails: the frame stays without an end.
EncoderFails ==
  /\ todo # <<>>
  /\ todo' = <<>>
  /\ sound' = FALSE /\ aligned' = FALSE
  /\ UNCHANGED <<withsof, state, escaped, sink, frame, begun, got>>

\* The decoder's source fails with any error but -EILSEQ, as it does when nothing
\* arrived yet, between frames and inside of them.  The caller keeps what is in the
\* sink, or not.  An ESC that was already read is lost.
SourceFails(keep) ==
  /\ escaped' = FALSE
  /\ sink' = IF keep THEN sink ELSE <<>>
  /\ sound' = (sound /\ ~escaped /\ (keep \/ sink = <<>>))
  /\ UNCHANGED <<withsof, state, frame, todo, aligned, begun, got>>

\* The decoder's source fails with -EILSEQ.  Inside of a frame that is taken for an
\* octet out of place: the rest of the frame is skipped, which leads to its end.  On
\* an idle line without RFC1055_WITH_SOF it is the next frame that is skipped.  The
\* caller cannot tell this error from the decoder's own, and empties the sink.
SourceFailsIllegally ==
  /\ escaped' = FALSE
  /\ sink' = <<>>
  /\ IF state = "NORMAL"
       THEN /\ state' = AfterIllegal(NoOctet)
            /\ sound' = (sound /\ todo = <<>>)
            /\ aligned' = (aligned /\ todo # <<>>)
       ELSE UNCHANGED <<state, sound, aligned>>
  /\ UNCHANGED <<withsof, frame, todo, begun, got>>

\* The decoder's sink fails for an octet it gets.
SinkFails ==
  /\ todo # <<>> /\ state = "NORMAL"
  /\ IF escaped THEN Head(todo) \in {"ESC_EOF", "ESC_ESC"} ELSE Head(todo) \in Plain
  /\ escaped' = FALSE
  /\ ReturnsError
  /\ todo' = Tail(todo)
  /\ sound' = FALSE
  /\ UNCHANGED <<withsof, state, frame, aligned, begun>>

Next ==
  \/ \E payload \in Frames : StartFrame(payload)
  \/ Deliver
  \/ Lose
  \/ \E octet \in Octet : Change(octet) \/ Noise(octet)
  \/ EncoderFails
  \/ \E keep \in BOOLEAN : SourceFails(keep)
  \/ SourceFailsIllegally
  \/ SinkFails

Spec == Init /\ [][Next]_vars

(***************************************************************************)
(* Properties                                                              *)
(***************************************************************************)

TypeOK ==
  /\ withsof \in BOOLEAN
  /\ state \in {"SEARCH_FOR_START", "SEARCH_FOR_END", "NORMAL"}
  /\ escaped \in BOOLEAN
  /\ sink \in Seq(Octet) /\ Len(sink) <= SinkSize
  /\ frame \in Seq(Octet) /\ Len(frame) <= MaxFrame
  /\ todo \in Seq(Octet) /\ Len(todo) <= WorstCase(Len(frame))
  /\ aligned \in BOOLEAN /\ sound \in BOOLEAN /\ begun \in BOOLEAN
  /\ got \in {"nothing", "frame", "other"}

\* Between frames the decoder is where it started, as long as only octets that
\* are no delimiters are lost or changed, whatever else the frames went through, an
\* -EILSEQ of the decoder's source inside of a frame included; and one frame that
\* arrives whole is enough to get there again after noise, or after such an error
\* on an idle line, which makes a decoder without RFC1055_WITH_SOF skip a frame.
DecoderRealigns == (todo = <<>> /\ aligned) => (state = Home /\ ~escaped)

\* A frame that begins while the decoder is aligned, and that nothing happens to,
\* is returned once and as it was sent, whatever octets it consists of.  A call that
\* is repeated because the source failed is nothing that happens to the frame, unless
\* the error was -EILSEQ inside of it, or an ESC had been read.
FrameArrives == (todo = <<>> /\ sound /\ begun) => got = "frame"
================================================================================
