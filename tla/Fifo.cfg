SPECIFICATION Spec
CONSTANTS
    Size = 3
    Data = {1, 2}
    Junk = {9}
    Threads = {t1, t2, t3}
    NoThread = NoThread
INVARIANT IndInv
PROPERTY ImplementsQueue
