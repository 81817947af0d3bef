CONSTANTS
    Recordings = {recording}
    Lives = {live, live2}
    MaxMarks = 4
    MaxFollows = 2
    MaxLiveFrames = 2
    MaxQueue = 1
    Nothing = Nothing
SPECIFICATION FairSpec
INVARIANTS ResultIsOfTheView FrameIsOfTheFollowed
PROPERTIES OneStreamPerNumber LiveNeverGoesBack OutageIsHeard
