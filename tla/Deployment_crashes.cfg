SPECIFICATION FairSpec
CONSTANTS
    MaxVersion = 2
    MaxAttempt = 2
    MaxFaults = 2
    MaxCrashes = 2
    MaxTroubles = 3
    Down = Down
    NoPlan = NoPlan
    NoRoute = NoRoute
INVARIANTS
    UsersAreServed
    PlanIsSound
    LineageVerified
    SuccessIsInstalled
PROPERTIES
    ImplementsTransaction
    ReceiverSettles
\* Once every archive of the bound has been submitted the receiver stays idle.
CHECK_DEADLOCK FALSE
