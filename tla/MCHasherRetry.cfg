SPECIFICATION Spec
CONSTANTS
    VMs <- MCVMs
    Datasets <- MCDatasets
    NoDataset = NoDataset
    Mixed = Mixed
    N = 2
    Jobs = {j1}
    Nonce_Values = 8
    Keys <- MCKeys
    Rx_Program_Count = 2
    MaskWidths = {32}
    Nonces <- MCNonces
    Hardware_Threads = 4
    ClientStops = TRUE
    ClientResetsVMs = TRUE
    OverreadMatches = TRUE
    AffinityFails = FALSE
    SpawnFails = FALSE
    GenerationFails = TRUE
    MaxHashes = 2
    MaxGenerations = 2
    MaxCalls = 4
INVARIANTS
    ResetTakesEffect
