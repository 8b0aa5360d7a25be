CONSTANTS
    LeaseGrant = 12
    Margin = 4
    Poll = 1
    ReadyStale = 6
    LiveStale = 30
    PoolWait = 6
    MaxStart = 3
    MaxPass = 1
    StartGrace = 22
    MaxSkew = 0
    Injected = FALSE
    Faults = {"database"}
SPECIFICATION LifecycleSpec
INVARIANT NeverKilled
