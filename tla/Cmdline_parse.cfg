\* The parser called twice, with a free wherever the caller likes.
SPECIFICATION Spec
CONSTANTS
  Argvs <- MCArgvs
  Stack <- MCStack
  IntHalf = 128
  LongHalf = 32768
  MaxCalls = 2
CHECK_DEADLOCK FALSE
INVARIANTS
  TypeOK
  ValuesAreThoseGiven
  NothingBadAccepted
  FailureIsDeserved
  HeapBalanced
