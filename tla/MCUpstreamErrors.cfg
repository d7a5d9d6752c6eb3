CONSTANTS
    Limits = {2, 4}
    MaxInt = 4
    MaxInt32 = 3
    ErrorBodyLimit = 1
    Lengths = {1, 2, 3, 4}
    f1 = f1
    f2 = f2
    f3 = f3
    any = any
    Files = {f1, f2, f3, any}
    LinkedIn = {any}
SYMMETRY NodeFiles
SPECIFICATION USpec
INVARIANTS MissingIffAbsent LimitIsExact FailureKeepsItsCode BuildIsOrderly BuildIsExact
\* An attempt ends when it is judged.
CHECK_DEADLOCK FALSE
