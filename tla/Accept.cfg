\* Four peers, a table of three descriptors, other threads that use it too.
CONSTANTS
  Limit = 3
  MaxArrivals = 4
SPECIFICATION AcceptorSpec
INVARIANTS DescriptorsOwned
PROPERTIES BacklogDrains
CHECK_DEADLOCK FALSE
