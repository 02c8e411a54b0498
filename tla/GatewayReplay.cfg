SPECIFICATION Spec
CONSTANTS
    Kinds <- SlackOnly
    Texts <- SomeTexts
    Lines <- SomeLines
    Turns <- SomeTurns
    MaxTurns = 2
    Agent = TRUE
    MaxMsg = 2
    MaxAsk = 1
    MaxTries = 2
    MaxSent = 3
    MaxFaults = 0
CHECK_DEADLOCK FALSE
INVARIANT NoReplay
