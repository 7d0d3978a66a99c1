SPECIFICATION Spec
CONSTANTS
    Timers = {t0, t1}
    Addr = {1, 2}
    Handles = {h1, h2}
    Null = Null
    Main = Main
    Unset = Unset
    MaxRuns = 2
INVARIANT WritesAreSafe
