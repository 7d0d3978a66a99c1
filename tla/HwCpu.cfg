SPECIFICATION Spec
CONSTANTS
    RegBase <- MCRegBase
    MemBase <- MCMemBase
    Starts <- MCStarts
INVARIANT FetchesAtPC
INVARIANT NothingPending
INVARIANT AgreesWithEmulator
