\* one turn from every starting point, every answer of every model
SPECIFICATION Spec
INVARIANTS
    TypeOK
    UncheckedOnlyWhenHarmless
    AnswerTellsTruth
    CallsBounded
PROPERTY KeepsPromise
\* a turn that has been answered stops
CHECK_DEADLOCK FALSE
