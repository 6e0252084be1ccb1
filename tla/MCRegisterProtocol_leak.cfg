\* The transport fails behind the first octet of a frame.
CONSTANTS
  Asks <- MCAsks
  Room = 20
  Blocks = 1
  MemSize = 3
  ReadOnly = {2}
  BadValues = {255}
  Changes = {1, 255}
  FirstNumber = 65535
  MaxFrames = 2
SPECIFICATION RegpSpec
INVARIANT NoLeak
