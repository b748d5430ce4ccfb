SPECIFICATION FairSpec
CONSTANTS
  r1 = r1  r2 = r2  a = a  b = b  c = c
  Routes <- OneRoute
  Instances <- TwoInstances
  MaxIncidents = 1
  MaxMishaps = 1
  MaxRestarts = 0
  MaxResets = 1
PROPERTIES ResetFreesAutomation
