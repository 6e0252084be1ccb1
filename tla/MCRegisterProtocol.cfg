\* Two frames, of which the first may be damaged in any octet; one block, so that any
\* other user of the allocator makes the responding party busy.
CONSTANTS
  Asks <- MCAsks
  Room = 20
  Blocks = 1
  MemSize = 3
  ReadOnly = {2}
  BadValues = {255}
  Changes = {1, 255}
  FirstNumber = 65535
  MaxFrames = 2
SPECIFICATION RegpSpec
INVARIANTS OnlyWhatWasAsked OneReplyPerRequest RepliesAnswer BlocksReturn
