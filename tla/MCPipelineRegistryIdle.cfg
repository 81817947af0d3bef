SPECIFICATION Spec
CONSTANTS
    Keys = {k1, k2}
    Clients = {c1, c2}
    Timers = {t1, t2}
    Locks = {l1, l2, l3}
    MaxRuns = 1
    IdleTicks = 1
    NoKey = NoKey
    NoLock = NoLock
    NoTask = NoTask
PROPERTY OutlivesItsLastSocket
