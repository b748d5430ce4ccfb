SPECIFICATION FairSpec
CONSTANTS
  Rungs = 4
  Weight <- ShippedLadder
  ProbePasses = 3
  MaxRetries = 2
  BaselineWeight = 100
  StaticWeight = 100
INVARIANTS OneCurrentStage CanaryAfterVerification ExposureBounded TrafficFollowsLadder RetriesBounded
PROPERTIES RunSettles ResolvedOnReadback ClimbsLadder
