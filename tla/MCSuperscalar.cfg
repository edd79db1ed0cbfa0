SPECIFICATION SuperscalarFairSpec
CONSTANTS
    Register_Count = 3
    Register_Needs_Displacement = 2
    Rx_Superscalar_Latency = 8
    Rx_Superscalar_Max_Program_Size = 10
    Max_Throwaway_Count = 2
    Src_Values = {9}
INVARIANTS
    SuperscalarTypeOK
PROPERTIES
    AvailabilityGrows
    GeneratorEnds
