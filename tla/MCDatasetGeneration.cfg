SPECIFICATION FairSpec
CONSTANTS
    thread_count = 3
    items_per_job = 2
    max_jobs = 5
    SpawnFails = TRUE
INVARIANTS
    EachItemOnce
    JoinedBeforeReturn
PROPERTIES
    GenerationEnds
