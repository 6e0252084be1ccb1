\* Three slots, and an iterator in each direction at every position; a buffer of
\* three octets with two values each; words of up to eight octets with two values;
\* varints of two bits an octet, for integers of three and of five bits, so that the
\* longest encoding has room for more, as those of uint32_t and uint64_t have.
CONSTANTS
  DataSize = 3
  Zero = zero
  Item = {zero, a}
  BufferSize = 3
  Base = 2
  SizeWord = 16
  Bits = 2
  DataValues = 4
  Narrow = 8
  NarrowOctets = 2
  Wide = 32
  WideOctets = 3
  SizeMax = 64
SPECIFICATION MCSpec
INVARIANTS TypeOK InspectInBounds IterYieldsSnapshot BufferFits NumbersTravel
PROPERTIES ImplementsFifo ImplementsTape
