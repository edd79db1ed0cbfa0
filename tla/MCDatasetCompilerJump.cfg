SPECIFICATION MCSpec
CONSTANTS
    Page = 64
    Label_Align = 32
    Programs = 2
    Max_Size = 5
    Save_Registers <- MCSaveRegisters
    Setup <- MCSetup
    Load_Item <- MCLoadItem
    Fetch_Cache <- MCFetchCache
    Transpose <- MCTranspose
    Store_Items <- MCStoreItems
    Flush_Orders = {"data"}
    Vectors = {0, 4, 5, 7, 8, 12, 13, 15}
    Offsets <- MCOffsets
    Half_Width = 3
INVARIANTS
    JumpsToLabel
