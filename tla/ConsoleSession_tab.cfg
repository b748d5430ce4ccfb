SPECIFICATION Spec
CONSTANTS
    MaxMounts = 2
    MaxSessions = 2
    MaxMishaps = 1
    MaxVisits = 3
INVARIANTS OneStream
PROPERTIES SignOutIsFinal CheckSettles
CHECK_DEADLOCK FALSE
