SPECIFICATION Spec
CONSTANTS
    m1 = m1
    m2 = m2
    l1 = l1
    i1 = i1
    i2 = i2
    i3 = i3
    None = None
    Subs = {m1, m2, l1}
    JobIds = {i1, i2, i3}
    IdOf <- UniqueIdOf
    KindOf <- MCKindOf
    HasCallback <- MCHasCallback
    UuidIds = {i2, i3}
    MaxRetries = 1
    Incidents = {"redis_error", "postgres_error", "expiry", "empty_message", "crash", "stop"}
    MaxIncidents = 2
INVARIANTS
    CallbackAgreesWithRecord
    OneOutcomeTold
    QueuedAwaitsWorker
    LossBounded
PROPERTIES
    FailedDeliveryOnlyWhenExhausted
    LifecycleSpec
