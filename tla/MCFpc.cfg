\* The FPC HAL on every build, two groups, two failing calls per behaviour.
CONSTANTS
    Binder = Binder
    NoRequest = NoRequest
    NoCaller = NoCaller
    NoGid = NoGid
    g1 = g1
    g2 = g2
    Gids <- TwoGroups
    Platforms <- AllBuilds
    DbIds = {1, 2}
    MaxFaults = 2
SPECIFICATION Spec
PROPERTY WorkerRefinement TerminalNotifiedOnce
