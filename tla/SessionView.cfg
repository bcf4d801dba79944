\* two sessions; turns, facts, panel calls and late jobs as MCBounds says
SPECIFICATION Spec
CONSTANTS
    Bounds <- MCBounds
INVARIANTS
    TypeOK
    TranscriptIsHistory
    PanelsMatch
PROPERTY BusyEnds
CHECK_DEADLOCK FALSE
