SPECIFICATION FairSpec
CONSTANTS
    Vectors = {3, 4}
    Commands <- SomeCommands
    DataSize = 10
    Tries = 3
    Noise <- AnyCharacter
    MaxCommands = 2
    MaxFaults = 1
CHECK_DEADLOCK FALSE
INVARIANTS
    TypeOK
    CommandIntact
PROPERTIES
    ReplyMatches
    AnsweredUnlessRefused
