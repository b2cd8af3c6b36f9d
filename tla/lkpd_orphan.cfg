SPECIFICATION FairSpec
CONSTANTS
    f1 = f1
    f2 = f2
    q1 = q1
    q2 = q2
    Files = {f1, f2}
    Requests = {q1}
    TTL = 3
    Interval = 2
    Incidents = {"crash"}
    MaxIncidents = 1
PROPERTIES
    PdfIsRemoved
