CONSTANTS
    Lease = 7
    Poll = 1
    MaxPass = 2
    MaxRoutes = 4
    MaxBad = 2
SPECIFICATION LiveSpec
INVARIANTS NoneFailsTwice SchedulingInvariant
PROPERTIES GoodRoutesComplete ImplementsFairQueue
