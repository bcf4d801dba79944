SPECIFICATION Spec
CONSTANTS
    Personas = {guide}
    Scenes = {hall}
    InitialPersona = guide
    InitialScene = hall
    Requests = {r1, r2}
    Rerolls = {d1}
    ConsolidationThreshold = 0
    ConsolidationMinAge = 0
    ConsolidationBatchCap = 0
    SessionIndexCap = 0
    IndexReliable = TRUE
    Sequential = FALSE
    MaxCrashes = 0
    MayDelete = FALSE
INVARIANT
    RerolledTurnStaysForgotten
CHECK_DEADLOCK FALSE
