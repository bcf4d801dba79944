\* Turns with lasting memories and a copy: two turns and three commands, or one
\* turn and four commands, and one failure.
CONSTANTS
    Ids = {s1, s2}
    Original = s1
    Importances = {4}
    IndexFloor = 2
    IndexCap = 1
    MaxTurns = 2
    MaxCommands = 4
    MaxWork = 5
    MaxFailures = 1
SPECIFICATION Spec
INVARIANTS TypeOK ImportedOnce NothingOutlivesItsSource
PROPERTIES ImportIsComplete SafetyNet ReindexRecovers
CHECK_DEADLOCK FALSE
