SPECIFICATION FairSpec
CONSTANTS
    VMs <- MCVMs
    Datasets <- MCDatasets
    NoDataset = NoDataset
    Mixed = Mixed
    N = 2
    Jobs = {j1}
    Nonce_Values = 4
    Keys <- MCKeys
    Rx_Program_Count = 2
    MaskWidths = {2, 32}
    Nonces <- MCNonces
    Hardware_Threads = 4
    ClientStops = TRUE
    ClientResetsVMs = TRUE
    OverreadMatches = TRUE
    AffinityFails = TRUE
    SpawnFails = TRUE
    GenerationFails = TRUE
    MaxHashes = 1
    MaxGenerations = 1
    MaxCalls = 6
INVARIANTS
    ThrowCleansUp
    CrashCause
PROPERTIES
    CallsReturn
