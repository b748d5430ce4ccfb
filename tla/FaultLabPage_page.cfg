SPECIFICATION Spec
CONSTANTS
    MaxFaults = 1
    MaxIncidents = 1
    MaxCommands = 2
    MaxVisits = 2
    MaxMishaps = 1
    Authorized = TRUE
CONSTRAINT ClearsBeforeMishaps
INVARIANTS InjectWaits
PROPERTIES ListIsMonotone InjectReturns
CHECK_DEADLOCK FALSE
