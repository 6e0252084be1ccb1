\* Three octets of data behind three of checksum, read in chunks of two.
CONSTANTS
  Octet = {0, 1}
  MediumSize = 8
  Place = 1
  SumSize = 3
  DataSize = 3
  BufferSize = 2
  Word = 16
  Offset = {0, 1, 2, 3}
  Length = {0, 1, 2, 3}
  Initial = 0
  SumValue <- MCSumValue
  Process <- MCProcess
  Encode <- MCEncode
  Fill = {0, 1}
SPECIFICATION FairSpec
INVARIANTS TypeOK ChecksumCoversData SettledIsValid OneFaultIsNoticed
PROPERTIES SectionOnly CallsReturn
