SPECIFICATION LiveSpec
CONSTANTS
    BlockSize = 3
    Words = {0, 1}
    ACTION_RETRIES = 2
INVARIANT TypeOK
INVARIANT ReadIntact
PROPERTY BusyEnds
