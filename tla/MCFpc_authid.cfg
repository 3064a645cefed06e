\* getAuthenticatorId's cached id against setActiveGroup, enrollments and the
\* TrustZone reinitialisation; one failing call per behaviour.
CONSTANTS
    Binder = Binder
    NoRequest = NoRequest
    NoCaller = NoCaller
    NoGid = NoGid
    g1 = g1
    g2 = g2
    Gids <- TwoGroups
    Platforms <- AllBuilds
    DbIds = {1, 2}
    MaxFaults = 1
SPECIFICATION Spec
INVARIANT CachedIdCurrent
