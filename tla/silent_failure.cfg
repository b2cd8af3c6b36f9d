SPECIFICATION Spec
CONSTANTS
    m1 = m1
    m2 = m2
    l1 = l1
    i1 = i1
    i2 = i2
    i3 = i3
    None = None
    Subs = {m1, m2}
    JobIds = {i1, i2}
    IdOf <- UniqueIdOf
    KindOf <- MCKindOf
    HasCallback <- MCHasCallback
    UuidIds = {}
    MaxRetries = 1
    Incidents = {"empty_message"}
    MaxIncidents = 1
INVARIANTS
    OutcomeRecorded
