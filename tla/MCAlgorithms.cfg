SPECIFICATION MCSpec
CONSTANTS
    ThreadCounts <- MCThreadCounts
    Dataset_Items <- MCDatasetItems
    Min_Items_Per_Job = 32768
    Register_Bits = 8
    Imm_Bits = 6
    Rx_Jump_Bits = 2
    Rx_Jump_Offset = 1
    Cond_Values = 3
    Register_Count = 4
    MaxLatency = 6
    Block_Size = 128
    Sizes <- MCSizes
    Key_Sizes <- MCKeySizes
    State_Size = 64
    Max_State = 5
    blocksPerSlice = 4
    Iterations = 3
    Digests = 32
    Pad_Lines = 3
    Program_Lines = 4
    Max_Hashes = 2
    Programs = 3
    Stack_Pointers <- MCStackPointers
    Jobs <- MCJobs
INVARIANTS
    JobsCoverDataset
    AtMostTwoJumps
    AddressRegisterIsFirstMax
    CompressesMessage
    LongHash
    PassOrder
    NoAliasing
    EarlyBytesRight
    HashOfOldPad
    ProgramOfTemplate
    ItemsInPlace
    StackBalanced
PROPERTIES
    DrawsInOrder
