CONSTANTS
    Limits = {2}
    MaxInt = 9
    MaxInt32 = 9
    ErrorBodyLimit = 1
    Lengths = {1, 2, 3, 4}
    Files = {f1}
    LinkedIn = {}
SPECIFICATION USpec
INVARIANT OnlyAbsentIsPassedOver
\* An attempt ends when it is judged.
CHECK_DEADLOCK FALSE
