SPECIFICATION Spec
CONSTANTS
    Base = 16
    Word = 2
    StakeWords = 5
\* A call ends with its decoding.
CHECK_DEADLOCK FALSE
INVARIANTS PackedIsReadable
