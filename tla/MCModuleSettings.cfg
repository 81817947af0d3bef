CONSTANTS
    MaxSettings = 3
    Unfit <- UnfitSettings
    Deadline = 1
    MaxInstances = 3
    MaxWaiting = 1
SPECIFICATION FairSpec
INVARIANTS SettingsAreKept
PROPERTIES SettingsSettle
