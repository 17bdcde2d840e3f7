SPECIFICATION Spec
CONSTANTS
    Requests <- MCRequests
    Kind <- MCKind
    Actor <- MCActor
    Deployments <- MCDeployments
    Restarts <- MCRestarts
    PoolThreads = 2
    MaxStarts = 2
    MaxFaults = 1
    MaxSeconds = 1300000
    MinSecretBytes = 32
    KeyLength = 32
INVARIANTS AnswersTell PermitsBoundRequests OrphansAreCutOff TrailTruthful ProbeHonest
PROPERTIES ServesAsConfigured EveryRequestEnds DrainEnds
