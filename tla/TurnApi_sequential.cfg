SPECIFICATION Spec
CONSTANTS
    Personas = {guide, smith}
    Scenes = {hall}
    InitialPersona = guide
    InitialScene = hall
    Requests = {r1, r2, r3}
    Rerolls = {d1, d2}
    ConsolidationThreshold = 2
    ConsolidationMinAge = 0
    ConsolidationBatchCap = 1
    SessionIndexCap = 0
    IndexReliable = TRUE
    Sequential = TRUE
    MaxCrashes = 0
    MayDelete = FALSE
SYMMETRY Interchangeable
INVARIANTS
    PersonaFollowsHistory
    NoOrphanMemories
    IndexMirrorsStore
CHECK_DEADLOCK FALSE
