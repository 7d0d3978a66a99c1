SPECIFICATION LiveSpec
CONSTANTS
    RAM_DEPTH = 4
    MaxChars = 9
    MaxBytes = 3
INVARIANT TypeOK
INVARIANT ReadsInOrder
INVARIANT SentInOrder
INVARIANT NothingDropped
PROPERTY ReadEnds
