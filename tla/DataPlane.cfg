SPECIFICATION MCSpec
CONSTANTS
    Components = {"query", "sort", "fetch", "sketch", "repartition", "window"}
    x1 = x1
    x2 = x2
    Executors = {x1, x2}
    Keys <- MCKeys
    target_partitions = 2
    broadcast_join_threshold_bytes = 3
    hash_join_max_build_partition_bytes = 2
    min_probe_ratio = 2
    max_estimate_multiple = 2
    collect_left_threshold = 2
    Scenarios <- MCScenarios
    MaxBatch = 2
    MaxTaskFailures = 2
    MaxStageFailures = 2
    Width = 3
    Shuffles <- MCShuffles
    batch_size = 1
    memory_limit = 3
    Reads <- MCReads
    Addresses = {"x", "y"}
    retries = 1
    Columns <- MCColumns
    Sketches = {1, 2}
    KLL_K = 4
    MIN_LEVEL_WIDTH = 2
    PartitionCounts = {2, 3}
    Repartitions <- MCRepartitions
    CHANNEL_CAPACITY = 2
    Windows <- MCWindows
INVARIANTS
    AnswerCorrect
    
    
    ResourcesBounded
    DeliversOnce
    SketchExact
    RangesExact
    
CHECK_DEADLOCK FALSE
SYMMETRY Symmetry
