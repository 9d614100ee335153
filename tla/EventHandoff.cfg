CONSTANTS
    Readers = {r1, r2}
    Subjects = {x1}
    Nothing = Nothing
    Refused = Refused
    Capacity = 1
    MaxRuns = 2
    MaxSeq <- SeqBounds
SPECIFICATION FairSpec
INVARIANTS TypeOK NothingDiscarded HandedOverInOrder
PROPERTIES HandedOver ReaderGetsOn
