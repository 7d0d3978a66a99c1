SPECIFICATION TerminalLiveSpec
CONSTANTS
    Uarts = {u1, u2, u3}
    FirstUart = u1
    MaxKeys = 2
CHECK_DEADLOCK FALSE
PROPERTY PasteIsTaken
