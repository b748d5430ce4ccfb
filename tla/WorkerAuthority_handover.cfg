SPECIFICATION FairSpec
CONSTANTS
    w1 = w1
    w2 = w2
    w3 = w3
    Workers <- ThreeWorkers
    NoWorker = NoWorker
    MaxMishaps = 2
INVARIANTS NewestGenerationActive OverlapNeedsTwoLosses
PROPERTIES CommandsInOrder AuthorityReturns
