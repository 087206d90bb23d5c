SPECIFICATION Spec
\* A process has no more than MaxBatches batches.
CHECK_DEADLOCK FALSE
CONSTANTS
    Clients = {"p", "q"}
    PoolSize = 2
    Batches <- MCBatches
    Modes = {"none", "subprocess"}
    MaxBatches = 2
    MaxFaults = 1
INVARIANTS
    FabricTypeOK
    AnswersOwn
    PathsAgree
PROPERTIES
    CacheKeepsVerdict
    BatchReturns
