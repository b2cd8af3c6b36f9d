----------------------------- MODULE TokenAccess -----------------------------
(***************************************************************************)
(* Access tokens: issued by the token endpoint, verified by the require_jwt *)
(* dependency of every protected route (src/src/auth/jwt.py), revoked by an *)
(* entry in Redis (src/src/auth/revocation.py).                             *)
(*                                                                          *)
(* Time is counted in ticks, PerSec to the second.  Redis counts the TTL of *)
(* an entry in true time; the API reads a clock that is up to Drift ticks   *)
(* ahead of it, by another amount each time.  Every await on Redis and on   *)
(* the lock around the shared connection is a point where callers           *)
(* interleave; everything between two awaits is one step.                   *)
(***************************************************************************)
EXTENDS Integers, FiniteSets

CONSTANTS
    Requests,        \* slots for requests to protected routes
    Revokers,        \* slots for calls of revoke_token
    Tokens,          \* tokens that may come to exist
    AllowedScopes,   \* settings.oauth_allowed_scopes
    DefaultScopes,   \* settings.oauth_default_scopes
    ScopeForms,      \* what the scope field of a token request may name
    PerSec,          \* ticks per second
    TokenTtl,        \* settings.oauth_token_ttl_seconds
    MintTtls,        \* what the command line tool is told with --ttl
    TtlArgs,         \* what revoke_token gets as ttl_seconds, 0 for None
    ClockSkew,       \* settings.jwt_clock_skew_seconds
    Drift,           \* how far two readings of the API's clock may disagree
    LastIssue,       \* bound: no token is issued later
    MaxTime,         \* bound on the time
    None             \* no token, no entry, nobody

\* get_settings refuses default scopes that are not allowed (config.py:189).
ASSUME ScopesAssumption ==
    /\ DefaultScopes \subseteq AllowedScopes
    /\ DefaultScopes # {}

ASSUME CallersAssumption ==
    /\ Requests \cap Revokers = {}
    /\ None \notin Requests \cup Revokers \cup Tokens

ASSUME TimeAssumption ==
    /\ PerSec \in Nat \ {0}
    /\ TokenTtl \in Int
    /\ TtlArgs \cup MintTtls \subseteq Int
    /\ ClockSkew \in Nat
    /\ Drift \in Nat
    /\ LastIssue \in Nat
    /\ MaxTime \in Nat

AtLeastOne(n) == IF n < 1 THEN 1 ELSE n

\* Ticks of a token's life, of the leeway and of an entry in the denylist.
Life == PerSec * AtLeastOne(TokenTtl)
Leeway == PerSec * ClockSkew

\* Mutant: an entry as short as the leeway.
EntryLifeSkew(arg) == PerSec * AtLeastOne(IF arg = 0 THEN ClockSkew ELSE arg)

\* max(1, ttl_seconds or oauth_token_ttl_seconds).
EntryLife(arg) == PerSec * AtLeastOne(IF arg = 0 THEN TokenTtl ELSE arg)

\* The leeway makes up for the clock and for the fractions of a second that
\* iat and exp lose.
LeewayEnough == Leeway >= Drift + PerSec - 1

VARIABLES
    now,       \* true time
    token,     \* the claims of each token that was issued, and when and for
               \* how long it was
    entry,     \* Redis: auth:denylist:jti:<jti>, with the ttl_seconds its
               \* caller asked for and the time it was set
    pc,        \* where each caller stands
    about,     \* the token a caller is about
    need,      \* the scopes a request's route requires
    began,     \* when a request's token was decoded
    vetted,    \* admitted requests whose token the denylist was asked about
    cached,    \* is _redis set?
    lock,      \* the caller that holds _lock
    opened,    \* Redis clients opened and not closed
    turnedAway \* history: tokens that decoding has refused

access == <<about, need, began, vetted>>
connection == <<cached, lock, opened>>
tokenVars == <<now, token, entry, pc, access, connection, turnedAway>>

Callers == Requests \cup Revokers
Scopes == AllowedScopes \cup UNION ScopeForms
Claims == [at : 0 .. LastIssue, life : Int, iat : Int, exp : Int,
           jti : BOOLEAN, scope : SUBSET Scopes]

AccessInit ==
    /\ now = 0
    /\ token = [t \in Tokens |-> None]
    /\ entry = [t \in Tokens |-> None]
    /\ pc = [c \in Callers |-> "idle"]
    /\ about = [c \in Callers |-> None]
    /\ need = [c \in Requests |-> {}]
    /\ began = [c \in Requests |-> 0]
    /\ vetted = {}
    /\ cached = FALSE /\ lock = None /\ opened = 0
    /\ turnedAway = {}

TimePasses ==
    /\ now < MaxTime
    /\ now' = now + 1
    /\ UNCHANGED <<token, entry, pc, access, connection, turnedAway>>

-----------------------------------------------------------------------------
(***************************************************************************)
(* Issuing.                                                                 *)
(***************************************************************************)
Readings == now .. now + Drift

\* int(timestamp): the fraction of the second is dropped.
Truncated(time) == time - (time % PerSec)

\* No scope field, or a blank one, stands for the default scopes; any other
\* must be allowed, or there is no token.
ScopeGranted(named) == IF named = {} THEN DefaultScopes ELSE named

NewToken(t, life, hasJti, scope) ==
    /\ token[t] = None
    /\ now <= LastIssue
    /\ \E reading \in Readings :
        token' = [token EXCEPT ![t] =
                    [at |-> now, life |-> life, iat |-> Truncated(reading),
                     exp |-> Truncated(reading + life),
                     jti |-> hasJti, scope |-> scope]]
    /\ UNCHANGED <<now, entry, pc, access, connection, turnedAway>>

Issue(t) ==
    \E named \in ScopeForms :
        /\ ScopeGranted(named) \subseteq AllowedScopes
        /\ NewToken(t, Life, TRUE, ScopeGranted(named))

\* The command line tool signs a token without a jti, for the scope and the
\* life it is told.
Mint(t) ==
    \E named \in ScopeForms, ttl \in MintTtls : NewToken(t, PerSec * ttl, FALSE, named)

-----------------------------------------------------------------------------
(***************************************************************************)
(* The connection to the denylist, shared by all callers.                   *)
(***************************************************************************)
GoTo(c, step) == pc' = [pc EXCEPT ![c] = step]

\* _get_redis: the cached client, or else into the lock.
EnterDenylist(c) == GoTo(c, IF cached THEN "ask" ELSE "wait")

\* A caller ends: its slot is free again.
Leave(c) ==
    /\ GoTo(c, "idle")
    /\ about' = [about EXCEPT ![c] = None]
    /\ IF c \in Requests
       THEN /\ need' = [need EXCEPT ![c] = {}]
            /\ began' = [began EXCEPT ![c] = 0]
       ELSE UNCHANGED <<need, began>>
    /\ vetted' = vetted \ {c}

\* Mutant: the cached client is not looked at again under the lock.
TakeLockBlindly(c) ==
    /\ pc[c] = "wait" /\ lock = None
    /\ GoTo(c, "ping") /\ lock' = c /\ opened' = opened + 1
    /\ UNCHANGED <<now, token, entry, access, cached, turnedAway>>

\* Inside the lock: use what another caller has cached meanwhile, or open a
\* client and ping.
TakeLock(c) ==
    /\ pc[c] = "wait" /\ lock = None
    /\ \/ cached /\ GoTo(c, "ask") /\ UNCHANGED <<lock, opened>>
       \/ ~cached /\ GoTo(c, "ping") /\ lock' = c /\ opened' = opened + 1
    /\ UNCHANGED <<now, token, entry, access, cached, turnedAway>>

PingAnswered(c) ==
    /\ pc[c] = "ping"
    /\ GoTo(c, "ask")
    /\ cached' = TRUE /\ lock' = None
    /\ UNCHANGED <<now, token, entry, access, opened, turnedAway>>

\* Mutants: the lock is kept; the client is not closed.
PingFailedLocked == opened' = opened - 1 /\ UNCHANGED <<cached, lock>>
PingFailedOpen == lock' = None /\ UNCHANGED <<cached, opened>>

\* The client is closed and the lock left: there is no denylist to ask.
PingFailed == opened' = opened - 1 /\ lock' = None /\ UNCHANGED cached

-----------------------------------------------------------------------------
(***************************************************************************)
(* require_jwt.                                                             *)
(***************************************************************************)
\* Mutants: the leeway shortens a token's life; it is left out.
OverEarly(t, reading) == token[t].exp <= reading + Leeway
OverNoLeeway(t, reading) == token[t].exp <= reading

Over(t, reading) == token[t].exp <= reading - Leeway

Immature(t, reading) == token[t].iat > reading + Leeway

\* Admitted, or 403 for a scope the token lacks.
Admit(c, asked) ==
    IF need[c] \subseteq token[about[c]].scope
    THEN /\ GoTo(c, "admitted")
         /\ vetted' = IF asked THEN vetted \cup {c} ELSE vetted
         /\ UNCHANGED <<about, need, began>>
    ELSE Leave(c)

\* A request with a genuine token; any other one is answered 401 at once.
Present(c, t, required) ==
    /\ pc[c] = "idle" /\ token[t] # None
    /\ \E reading \in Readings :
        /\ ~Over(t, reading) /\ ~Immature(t, reading)
    /\ about' = [about EXCEPT ![c] = t]
    /\ need' = [need EXCEPT ![c] = required]
    /\ began' = [began EXCEPT ![c] = now]
    /\ IF token[t].jti THEN EnterDenylist(c) ELSE GoTo(c, "cleared")
    /\ UNCHANGED <<now, token, entry, vetted, connection, turnedAway>>

\* 401: the token is over or, by this clock, from the future.
TurnAway(c, t) ==
    /\ pc[c] = "idle" /\ token[t] # None
    /\ \E reading \in Readings : Over(t, reading) \/ Immature(t, reading)
    /\ turnedAway' = turnedAway \cup {t}
    /\ UNCHANGED <<now, token, entry, pc, access, connection>>

\* A token without a jti is not looked up.
Cleared(c) ==
    /\ c \in Requests /\ pc[c] = "cleared"
    /\ Admit(c, FALSE)
    /\ UNCHANGED <<now, token, entry, connection, turnedAway>>

Listed(t) == entry[t] # None /\ now < entry[t].until

\* EXISTS answers: 401 for a listed token.
Lookup(c) ==
    /\ c \in Requests /\ pc[c] = "ask"
    /\ IF Listed(about[c]) THEN Leave(c) ELSE Admit(c, TRUE)
    /\ UNCHANGED <<now, token, entry, connection, turnedAway>>

\* EXISTS raises: the check is skipped.
LookupFails(c) ==
    /\ c \in Requests /\ pc[c] = "ask"
    /\ Admit(c, FALSE)
    /\ UNCHANGED <<now, token, entry, connection, turnedAway>>

\* No connection: the check is skipped.
LookupUnreachable(c) ==
    /\ c \in Requests /\ pc[c] = "ping"
    /\ PingFailed
    /\ Admit(c, FALSE)
    /\ UNCHANGED <<now, token, entry, turnedAway>>

-----------------------------------------------------------------------------
(***************************************************************************)
(* revoke_token, and the life of the process.                               *)
(***************************************************************************)
Revoke(r, t) ==
    /\ pc[r] = "idle" /\ token[t] # None /\ token[t].jti
    /\ EnterDenylist(r)
    /\ about' = [about EXCEPT ![r] = t]
    /\ UNCHANGED <<now, token, entry, need, began, vetted, connection, turnedAway>>

SetEntry(t) ==
    \E arg \in TtlArgs :
        entry' = [entry EXCEPT ![t] = [asked |-> arg, at |-> now,
                                     until |-> now + EntryLife(arg)]]

\* SET key "1" EX ttl.
StoreEntry(r) ==
    /\ r \in Revokers /\ pc[r] = "ask"
    /\ SetEntry(about[r])
    /\ Leave(r)
    /\ UNCHANGED <<now, token, connection, turnedAway>>

\* SET raises, applied or not; the caller is told nothing.
StoreEntryFails(r) ==
    /\ r \in Revokers /\ pc[r] = "ask"
    /\ SetEntry(about[r]) \/ UNCHANGED entry
    /\ Leave(r)
    /\ UNCHANGED <<now, token, connection, turnedAway>>

StoreUnreachable(r) ==
    /\ r \in Revokers /\ pc[r] = "ping"
    /\ PingFailed
    /\ Leave(r)
    /\ UNCHANGED <<now, token, entry, turnedAway>>

\* Mutant: a client that is closed stays cached.
CloseDenylistKept ==
    /\ \A c \in Callers : pc[c] = "idle"
    /\ cached
    /\ opened' = opened - 1
    /\ UNCHANGED <<now, token, entry, pc, access, cached, lock, turnedAway>>

\* shutdown(), after the last request has ended: a later process starts afresh.
CloseDenylist ==
    /\ \A c \in Callers : pc[c] = "idle"
    /\ cached
    /\ cached' = FALSE /\ opened' = opened - 1
    /\ UNCHANGED <<now, token, entry, pc, access, lock, turnedAway>>
=============================================================================
