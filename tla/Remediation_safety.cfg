SPECIFICATION Spec
CONSTANTS
  r1 = r1  r2 = r2  a = a  b = b  c = c
  Routes <- TwoRoutes
  Instances <- TwoInstances
  MaxIncidents = 2
  MaxMishaps = 1
  MaxRestarts = 1
  MaxResets = 1
INVARIANTS QuarantineOwned MitigationHolds DesiredAgrees
PROPERTIES ActionsAreSerial ResolvedInService ResetLeavesBaseline
CONSTRAINT Bounded
SYMMETRY Symmetry
