CONSTANTS
    LeaseGrant = 12
    Margin = 4
    Poll = 1
    ReadyStale = 6
    LiveStale = 30
    PoolWait = 6
    MaxStart = 3
    MaxPass = 1
    StartGrace = 4
    MaxSkew = 1
    Injected = FALSE
    Faults = {"kernel", "database", "reply", "route", "kill"}
SPECIFICATION LifecycleLiveSpec
INVARIANTS LifecycleTypeOK HeartbeatInvariant ReadyMeansLease LostLeaseIsNoticed LeaseHeld LeaseInvariant
PROPERTY RecoversOnceWorked
