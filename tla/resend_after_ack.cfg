SPECIFICATION Spec
CONSTANTS
    m1 = m1
    m2 = m2
    l1 = l1
    i1 = i1
    i2 = i2
    i3 = i3
    None = None
    Subs = {m1, l1}
    JobIds = {i1, i3}
    IdOf <- UniqueIdOf
    KindOf <- MCKindOf
    HasCallback <- AllCallback
    UuidIds = {i3}
    MaxRetries = 1
    Incidents = {"redis_error"}
    MaxIncidents = 1
INVARIANTS
    NoSendAfterAck
