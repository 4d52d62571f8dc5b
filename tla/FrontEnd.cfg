CONSTANTS
    None = None
    r1 = r1
    r2 = r2
    RequestId = {r1, r2}
    Window = {window}
    CallOf <- MCCallOf
    MaxSubscriptions = 1
    MaxMinted = 2
    MaxSequence = 2
    MaxRevision = 2
    MaxKills = 1
    All = All
    Malformed = Malformed
    home = home
    work = work
    Environment = {home, work}
    Everywhere = Everywhere
    Operations = {1, 2}
    Behaviours <- MCBehaviours
    MaxPollRetries = 2
    MaxSubscribed = 2
    MaxProgress = 2
SPECIFICATION MCSpec
INVARIANTS
    TakesEffectOnce
    OnlyInterruptedStayBusy
    SubscriptionsLive
    RestartAfterItsStop
    ResultsBelongToSelection
PROPERTIES
    TrackedNeverRegresses
    TrackingEnds
\* A behaviour ends when the user has given his commands.
CHECK_DEADLOCK FALSE
