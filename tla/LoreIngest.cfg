\* two overlapping ingestions, a document of up to two chunks and one of one
SPECIFICATION Spec
CONSTANTS
    d1 = d1
    d2 = d2
    c1 = c1
    c2 = c2
    c3 = c3
    Docs = {d1, d2}
    ChunksOf <- LongAndShort
    Visibilities = {player}
    Models = {m1, m2}
    Ingests = {i1, i2}
    Unlisted = Unlisted
    NoModel = NoModel
SYMMETRY Symmetry
INVARIANTS
    TypeOK
    OneModel
    UndisturbedIndexIsCurrent
