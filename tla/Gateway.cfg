SPECIFICATION FairSpec
CONSTANTS
    Kinds <- AllKinds
    Texts <- SomeTexts
    Lines <- SomeLines
    Turns <- SomeTurns
    MaxTurns = 2
    Agent = TRUE
    MaxMsg = 2
    MaxAsk = 1
    MaxTries = 2
    MaxSent = 2
    MaxFaults = 2
CHECK_DEADLOCK FALSE
INVARIANTS TypeOK ResultsTrue EffectsAnnounced OrderKept AnswersOnce
PROPERTIES EverySettled EofEnds
