CONSTANTS
    Heights <- MCHeights
    Latest = Latest
    Malformed = Malformed
SPECIFICATION TSpec
INVARIANTS EveryPartIsAccountedFor FailureIsReported SourceIsTrue PinnedPartsAgree
\* A call ends with its answer.
CHECK_DEADLOCK FALSE
