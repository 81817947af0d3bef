CONSTANTS
    Callers = {c1, c2}
    Commands <- MCCommands
    Frames <- MCFrames
    CoverageEnd = 4
    Loop = TRUE
    MaxStreams = 2
    NoTime = NoTime
    NoCommand = NoCommand
    Starter = Starter
    Nobody = Nobody
SPECIFICATION FairSpec
INVARIANTS FramesAreShownOnce
PROPERTIES PlaysWhatWasAsked CommandsAreAnswered
