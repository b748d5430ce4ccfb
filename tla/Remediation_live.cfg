SPECIFICATION FairSpec
CONSTANTS
  r1 = r1  r2 = r2  a = a  b = b  c = c
  Routes <- TwoRoutes
  Instances <- TwoInstances
  MaxIncidents = 2
  MaxMishaps = 1
  MaxRestarts = 0
  MaxResets = 0
PROPERTIES PreparedIsDecided 
CONSTRAINT InstanceFirst
