\* one ingestion at a time, a document whose visibility changes
SPECIFICATION Spec
CONSTANTS
    d1 = d1
    d2 = d2
    c1 = c1
    c2 = c2
    c3 = c3
    Docs = {d1}
    ChunksOf <- OneChunk
    Visibilities = {player, gm}
    Models = {m1}
    Ingests = {i1}
    Unlisted = Unlisted
    NoModel = NoModel
INVARIANT SkipIsIdentical
