CONSTANTS
    Pod = {p1, p2, p3}
    Statements = 4
SPECIFICATION LiveSpec
INVARIANTS SubscriptionsBounded SchemaIsWhole StartupInvariant
PROPERTIES RestartsAddNone InjectedServesOnce EveryPodServes ImplementsProvision
