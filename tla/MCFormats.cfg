\* SLIP frames of up to two octets hold every pair of special octets.  Octets of
\* the other framing have four values, so that four octets are too many for a
\* prefix of one octet; two frames are on their way at a time.  The heap is extended
\* while it holds at most MaxBlocks blocks.
CONSTANTS
  Plain = {"ESC_EOF", "ESC_ESC", "data"}
  MaxFrame = 2
  SinkSize = 2
  Values = 4
  SSizeMax = 7
  Payloads <- MCPayloads
  Chunkings <- MCChunkings
  Buffers <- MCBuffers
  Room = 3
  MaxFrames = 2
  MaxWire = 6
  Texts <- MCTexts
  Numerals = {2}
  Names <- MCNames
  Written <- MCWritten
  MaxBlocks = 4
SPECIFICATION MCSpec
INVARIANTS TypeOK DecoderRealigns FrameArrives FramesArrive HeapIsHeld WrittenIsRead
