SPECIFICATION LiveSpec
CONSTANTS
    e1 = e1
    e2 = e2
    h1 = h1
    s1 = s1
    Events = {e1, e2}
    Handled = {e1}
    Handlers = {h1}
    Sweepers = {s1}
    NoEvent = NoEvent
    MaxAttempts = 2
    BaseBackoff = 1
    MaxBackoff = 1
    BatchSize = 1
    StaleClaimAfter = 3
    RepoStaleAfter = 3
    WebhookTimeout = 2
    ReplayLimit = 9
    AgeCap = 4
    MaxDeliveries = 1
    MaxFaults = 1
PROPERTIES
    ReceivedIsResolved
