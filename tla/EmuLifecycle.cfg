SPECIFICATION LiveSpec
CHECK_DEADLOCK FALSE
INVARIANT TypeOK
INVARIANT NoLoopAfterTeardown
PROPERTY ShutdownCompletes
PROPERTY CtrlCStopsRun
