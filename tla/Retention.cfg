SPECIFICATION LiveSpec
CONSTANTS
    Events = {e1}
    NoEvent = NoEvent
    MaxAttempts = 2
    BaseBackoff = 1
    MaxBackoff = 1
    StaleClaimAfter = 2
    SweepInterval = 1
    SweepBatch = 1
    SweepLimit = 1
    WebhookTimeout = 1
    SettledAfter = 4
    UnsettledAfter = 20
    PurgeBatch = 1
    AgeCap = 22
    MaxDeliveries = 2
    MaxFaults = 2
INVARIANTS
    SettledFromFullPayload
PROPERTIES
    PurgeWaitsForBudget
    MinimisedForGood
    EveryPayloadIsMinimised
