SPECIFICATION Spec
CONSTANTS
    Personas = {guide}
    Scenes = {hall}
    InitialPersona = guide
    InitialScene = hall
    Requests = {r1}
    Rerolls = {d1}
    ConsolidationThreshold = 0
    ConsolidationMinAge = 0
    ConsolidationBatchCap = 0
    SessionIndexCap = 0
    IndexReliable = TRUE
    Sequential = TRUE
    MaxCrashes = 0
    MayDelete = FALSE
INVARIANT
    DisconnectKeepsJob
CHECK_DEADLOCK FALSE
