SPECIFICATION MCSpec
CONSTANTS
    Rx_Program_Size = 5
    Instructions <- MCInstructions
    StaleOffset = 7
    MaxIterations = 2
    Item_Bits <- MCItemBits
    Line_Bits <- MCLineBits
    Bits <- MCBits
    Files <- MCFiles
    Items <- MCItems
    Pads <- MCPads
    Entropies <- MCEntropies
    Clobbered <- MCClobbered
    Iterations = 3
    Rx_Program_Count = 3
INVARIANTS
    RoundingExact
    LandsOnInstruction
    ConditionUndisturbed
    CodeFits
    AddressesInside
    CallPreserves
    LoopEnvironment
PROPERTIES
    FrameImplementsLoop
