SPECIFICATION FairSpec
CONSTANTS
    f1 = f1
    f2 = f2
    q1 = q1
    q2 = q2
    Files = {f1, f2}
    Requests = {q1, q2}
    TTL = 3
    Interval = 2
    Incidents = {"io_error", "read_error", "crash"}
    MaxIncidents = 2
INVARIANTS
    TypeOK
    AvailableUntilExpiry
PROPERTIES
    OpenFailsOnlyAfterExpiry
    LeaseSpec
    SavedIsRemoved
