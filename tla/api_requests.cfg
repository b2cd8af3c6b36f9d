SPECIFICATION FairSpec
CONSTANTS
    q1 = q1
    r1 = r1
    r2 = r2
    t1 = t1
    Requests = {q1}
    Revokers = {r1, r2}
    Tokens = {t1}
    AllowedScopes <- MCScopes
    DefaultScopes <- MCScopes
    ScopeForms <- MCScopeForms
    PerSec = 2
    TokenTtl = 2
    MintTtls = {1}
    TtlArgs = {0, 1}
    ClockSkew = 1
    Drift = 1
    LastIssue = 0
    MaxTime = 7
    None = None
    RequiredScopes <- MCRequiredScopes
    Defaults <- MCDefaults
    ActivityRange <- MCActivityRange
    MaxBytes = 2
    Absent = Absent
    Forms <- MCForms
INVARIANTS
    TypeOK
    OneConnection
    FullLife
    QueuedIsParsable
PROPERTIES
    RevokedIsRefused
    DocumentedIsQueued
    Answered
CHECK_DEADLOCK FALSE
