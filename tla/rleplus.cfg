SPECIFICATION Spec
CONSTANTS
  Word = 1024
  MaxVarint = 2
  Inputs <- MCInputs
  Buffers <- MCBuffers
INVARIANTS RoundTrip BoundedRead IncreasingUnlessOverflow LengthExact TakeInvertsExtend
CHECK_DEADLOCK FALSE
