SPECIFICATION Spec
CONSTANTS
  r1 = r1  r2 = r2  a = a  b = b  c = c
  Routes <- TwoRoutes
  Instances <- ThreeInstances
  MaxIncidents = 2
  MaxMishaps = 0
  MaxRestarts = 0
  MaxResets = 0
INVARIANTS OneInstanceDrained
