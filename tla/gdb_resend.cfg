SPECIFICATION FairSpec
CONSTANTS
    Vectors = {3, 4}
    Commands <- SomeCommands
    DataSize = 10
    Tries = 10
    Noise <- AnyCharacter
    MaxCommands = 2
    MaxFaults = 1
CHECK_DEADLOCK FALSE
PROPERTIES
    ResentTaken
