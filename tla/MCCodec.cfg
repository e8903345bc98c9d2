CONSTANTS
    WordSize = 2
    ByteVals <- MCByteVals
    MaxLen = 4
    HexChars <- MCHexChars
    MaxStrLen = 6
    Garbage = 1
SPECIFICATION Spec
INVARIANTS XorMatchesReference DecodeMatchesReference
CHECK_DEADLOCK FALSE
