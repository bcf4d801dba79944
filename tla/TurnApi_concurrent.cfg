SPECIFICATION Spec
CONSTANTS
    Personas = {guide, smith}
    Scenes = {hall, mine}
    InitialPersona = guide
    InitialScene = hall
    Requests = {r1, r2}
    Rerolls = {d1}
    ConsolidationThreshold = 2
    ConsolidationMinAge = 0
    ConsolidationBatchCap = 0
    SessionIndexCap = 0
    IndexReliable = TRUE
    Sequential = FALSE
    MaxCrashes = 1
    MayDelete = TRUE
SYMMETRY Interchangeable
INVARIANTS
    TypeOK
    TurnsInOrder
    MemoryProvenance
    DrainedRerollLeavesNothing
PROPERTY
    PersonaMovesWithHistory
CHECK_DEADLOCK FALSE
