CONSTANTS
    rec = rec
    alt = alt
    pmu = pmu
    plain = plain
    Sources = {rec, alt, pmu, plain}
    Kind <- MCKind
    First = rec
    FollowLive = FALSE
    Late = TRUE
    MaxCommands = 3
    Playback = Playback
    Unknown = Unknown
    NoSource = NoSource
SPECIFICATION FairSpec
INVARIANTS OneSourceAtATime
PROPERTIES CommandsInOrder SwitchIsServed CommandsSettle
