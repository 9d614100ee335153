CONSTANTS
    Clients = {c1, c2}
    Nowhere = Nowhere
    MaxEvents = 2
    ChannelCap = 1
    MaxRuns = 2
    MaxSeq = 3
    MaxLosses = 1
SPECIFICATION FairSpec
INVARIANT TypeOK
PROPERTIES ImplementsLog ResyncOnlyWhenLost CatchesUp
