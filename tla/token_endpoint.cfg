SPECIFICATION EndpointSpec
CONSTANTS
    a1 = a1
    a2 = a2
    c1 = c1
    Unknown = Unknown
    Ips = {a1, a2}
    Clients = {c1, Unknown}
    IpLimit = 2
    ClientLimit = 3
    Window = 2
    MaxTime = 3
SYMMETRY InterchangeableIps
INVARIANTS
    TypeOK
    WindowRespected
    RefusedOnlyWhenFull
    ComparisonsSpaced
