SPECIFICATION Spec
CONSTANTS
    e1 = e1
    h1 = h1
    h2 = h2
    s1 = s1
    s2 = s2
    Events = {e1}
    Handled = {e1}
    Handlers = {h1, h2}
    Sweepers = {s1, s2}
    NoEvent = NoEvent
    MaxAttempts = 2
    BaseBackoff = 1
    MaxBackoff = 1
    BatchSize = 1
    StaleClaimAfter = 3
    RepoStaleAfter = 3
    WebhookTimeout = 2
    ReplayLimit = 3
    AgeCap = 4
    MaxDeliveries = 2
    MaxFaults = 1
SYMMETRY WorkerSymmetry
INVARIANTS
    TypeOK
    SucceededWasApplied
    ClaimsAreCounted
    LiveHolderOwnsClaim
PROPERTIES
    SettledIsFinal
    SweepersKeepBudget
    ImplementsInbox
