\* When every row has ended and the budgets are spent, nothing is left to do.
CHECK_DEADLOCK FALSE
SPECIFICATION PartsSpec
CONSTANTS
    Parts = {"faults", "detection"}
    a = a
    b = b
    c1 = c1
    c2 = c2
    k1 = k1
    k2 = k2
    Instances <- TwoInstances
    TargetSets <- BothBackends
    Clients <- TwoClients
    Keys <- TwoKeys
    MaxFaults = 2
    MaxCommands = 1
    MaxMishaps = 1
    Window = 3
    Reach = 1
    MaxPace = 3
    MaxChanges = 2
    MaxResets = 1
    MaxDeaths = 1
INVARIANTS OneFaultPerKey ClearedIsClean
PROPERTIES LabBecomesFree ConfirmedTwice ActsOnFreshProof FaultIsFound
CONSTRAINT ResetAlone
