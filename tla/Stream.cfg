\* Two frames in any segments, two messages of a thread, shutdown and close.
CONSTANTS
  CHEAP_PREPEND = 1
  INITIAL_SIZE = 2
  EXTRA_BUFFER_SIZE = 2
  MAX_BUFFER_THRESHOLD = 4
  ByteBase = 8
  Input <- MCInput
  Program <- MCProgram
  high_water_mark_ = 3
SPECIFICATION Spec
INVARIANTS BytesIntact NoneLostWhileOpen CallbacksTold
PROPERTIES ShutdownCompletes ImplementsStream
CHECK_DEADLOCK FALSE
