SPECIFICATION FairSpec
CONSTANTS
    Personas = {guide}
    Scenes = {hall}
    InitialPersona = guide
    InitialScene = hall
    Requests = {r1, r2}
    Rerolls = {d1}
    ConsolidationThreshold = 1
    ConsolidationMinAge = 1
    ConsolidationBatchCap = 0
    SessionIndexCap = 1
    IndexReliable = FALSE
    Sequential = FALSE
    MaxCrashes = 1
    MayDelete = TRUE
INVARIANTS
    
    FoldKeepsWords
PROPERTY
    LoopWorkEnds
CHECK_DEADLOCK FALSE
