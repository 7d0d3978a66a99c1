SPECIFICATION Spec
CONSTANTS
    MaxWord = 3
    FREQ_DIV_SYS_TARGET = 2
INVARIANT TypeOK
INVARIANT CountersInRange
INVARIANT PeriodExact
