CONSTANTS
    MaxInt = 15
    Texts <- SomeTexts
    Number <- Numbered
    MaxArguments = 2
    Timeout = 2
    Values <- SomeValues
SPECIFICATION PSpec
INVARIANTS CheckFits AcceptedAsGiven ReportIsEarned CheckIsPrompt ExitTellsTheTruth
    ToolsAreBacked RememberedKeepsItsMeaning FallbackAsksTheSame
PROPERTY EndsOrServes
\* A run ends.
CHECK_DEADLOCK FALSE
