SPECIFICATION Spec
CONSTANTS
    VMs <- MCVMs
    Datasets <- MCDatasets
    NoDataset = NoDataset
    Mixed = Mixed
    N = 2
    Jobs = {j1}
    Nonce_Values = 8
    Keys <- MCPrefixKeys
    Rx_Program_Count = 2
    MaskWidths = {32}
    Nonces <- MCLastNonce
    Hardware_Threads = 4
    ClientStops = TRUE
    ClientResetsVMs = TRUE
    OverreadMatches = FALSE
    AffinityFails = FALSE
    SpawnFails = FALSE
    GenerationFails = FALSE
    MaxHashes = 3
    MaxGenerations = 2
    MaxCalls = 4
INVARIANTS
    ResetTakesEffect
