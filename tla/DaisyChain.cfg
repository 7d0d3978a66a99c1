SPECIFICATION LiveSpec
CONSTANT N = 3
INVARIANT TypeOK
INVARIANT GrantReachesRequester
INVARIANT OneDriver
INVARIANT BusReleased
INVARIANT ResumesExactly
PROPERTY Served
