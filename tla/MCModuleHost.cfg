CONSTANTS
    Topics = {"input", "command", "closed"}
    Kind <- MCKind
    Blocking = TRUE
    Keys <- MCKeys
    NoStream = NoStream
    MaxInstances = 2
    MaxDeliveries = 3
    MaxQueue = 2
SPECIFICATION FairSpec
INVARIANTS InstancesAreServed
PROPERTIES EveryInstanceGoes ImplementsContract
