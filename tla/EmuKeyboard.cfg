SPECIFICATION KeyboardLiveSpec
CONSTANTS
    MaxPresses = 3
    Keymods = {{}, {"shift", "ctrl"}}
INVARIANT KeyboardTypeOK
INVARIANT AnnouncedIsStored
INVARIANT LastKeyReaches
INVARIANT RepeatsBounded
CHECK_DEADLOCK FALSE
PROPERTY Heals
