\* cancel() during a running operation, which Resume() refuses.
CONSTANTS
    Binder = Binder
    NoRequest = NoRequest
    NoCaller = NoCaller
    NoGid = NoGid
    g1 = g1
    g2 = g2
    Gids <- TwoGroups
    Platforms <- AllBuilds
    DbIds = {1, 2}
    MaxFaults = 1
SPECIFICATION Spec
PROPERTY CancelStopsOperation
