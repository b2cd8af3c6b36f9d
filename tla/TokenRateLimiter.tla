-------------------------- MODULE TokenRateLimiter --------------------------
(***************************************************************************)
(* The limiter of the OAuth token endpoint (src/src/auth/rate_limit.py): a  *)
(* sliding window of hit times per IP and per client, in process memory.    *)
(*                                                                          *)
(* enforce holds its lock from reading the clock to its end, so a call is   *)
(* one step.  monotonic() never goes back, and two calls may read the same  *)
(* time.  log is history: the hits recorded since the last reset, which the *)
(* code forgets as soon as they leave the window.                           *)
(***************************************************************************)
EXTENDS Integers, Sequences, FiniteSets

CONSTANTS
    Ips,           \* keys of _ip_hits
    Clients,       \* keys of _client_hits
    IpLimit,       \* max(1, oauth_token_rate_limit_per_ip)
    ClientLimit,   \* max(1, oauth_token_rate_limit_per_client)
    Window,        \* max(1, oauth_token_rate_limit_window_seconds)
    MaxTime        \* bound on the clock

\* The two dictionaries are one function here, so their keys are kept apart.
ASSUME KeysAssumption == Ips \cap Clients = {}

ASSUME LimitsAssumption ==
    /\ IpLimit \in Nat \ {0}
    /\ ClientLimit \in Nat \ {0}
    /\ Window \in Nat \ {0}
    /\ MaxTime \in Nat

VARIABLES
    clock,     \* monotonic()
    hits,      \* _ip_hits and _client_hits, oldest hit first
    log,       \* history: every hit recorded since the last reset
    verdict,   \* what the last call said, until the clock moves on
    asked      \* its IP and its client

vars == <<clock, hits, log, verdict, asked>>

Keys == Ips \cup Clients
Limit(k) == IF k \in Ips THEN IpLimit ELSE ClientLimit

Init ==
    /\ clock = 0
    /\ hits = [k \in Keys |-> <<>>]
    /\ log = [k \in Keys |-> <<>>]
    /\ verdict = "none"
    /\ asked \in Ips \X Clients

\* Mutant: a hit exactly one window old still counts.
OutdatedLater(t) == clock - t > Window

\* Mutant: the window is one unit short.
OutdatedSooner(t) == clock - t >= Window - 1

\* A hit exactly one window old no longer counts.
Outdated(t) == clock - t >= Window

\* The bucket of k after the loop that pops outdated hits off its front: the
\* one suffix that is empty or starts with a hit that still counts.
Pruned(k) ==
    {SubSeq(hits[k], d + 1, Len(hits[k])) : d \in
        {d \in 0 .. Len(hits[k]) :
            /\ \A i \in 1 .. d : Outdated(hits[k][i])
            /\ d < Len(hits[k]) => ~Outdated(hits[k][d + 1])}}

\* Mutant: one hit too many fits.
FullLate(k, bucket) == Len(bucket) > Limit(k)

Full(k, bucket) == Len(bucket) >= Limit(k)

Answer(v, ip, client) ==
    /\ verdict' = v
    /\ asked' = <<ip, client>>
    /\ UNCHANGED clock

\* 429: the IP has used its window up.  The client's bucket is not looked at.
RefuseIp(ip, client) ==
    /\ \E b \in Pruned(ip) :
        /\ Full(ip, b)
        /\ hits' = [hits EXCEPT ![ip] = b]
    /\ UNCHANGED log
    /\ Answer("ip_refused", ip, client)

\* 429: the client has used its window up.  The IP has paid for the attempt.
RefuseClient(ip, client) ==
    /\ \E b \in Pruned(ip), c \in Pruned(client) :
        /\ ~Full(ip, b)
        /\ Full(client, c)
        /\ hits' = [hits EXCEPT ![ip] = Append(b, clock), ![client] = c]
    /\ log' = [log EXCEPT ![ip] = Append(@, clock)]
    /\ Answer("client_refused", ip, client)

Allow(ip, client) ==
    /\ \E b \in Pruned(ip), c \in Pruned(client) :
        /\ ~Full(ip, b)
        /\ ~Full(client, c)
        /\ hits' = [hits EXCEPT ![ip] = Append(b, clock), ![client] = Append(c, clock)]
    /\ log' = [log EXCEPT ![ip] = Append(@, clock), ![client] = Append(@, clock)]
    /\ Answer("allowed", ip, client)

Tick ==
    /\ clock < MaxTime
    /\ clock' = clock + 1
    /\ verdict' = "none"
    /\ UNCHANGED <<hits, log, asked>>

\* reset(), and a restart of the process, forget every hit.
Reset ==
    /\ hits' = [k \in Keys |-> <<>>]
    /\ log' = [k \in Keys |-> <<>>]
    /\ verdict' = "none"
    /\ UNCHANGED <<clock, asked>>

Next ==
    \/ \E ip \in Ips, client \in Clients :
        RefuseIp(ip, client) \/ RefuseClient(ip, client) \/ Allow(ip, client)
    \/ Tick
    \/ Reset

Spec == Init /\ [][Next]_vars

-----------------------------------------------------------------------------
(* Properties *)

\* Types; a bucket never holds more hits than its limit, so its memory is bounded.
TypeOK ==
    /\ clock \in 0 .. MaxTime
    /\ hits \in [Keys -> Seq(0 .. MaxTime)]
    /\ log \in [Keys -> Seq(0 .. MaxTime)]
    /\ verdict \in {"none", "allowed", "ip_refused", "client_refused"}
    /\ asked \in Ips \X Clients
    /\ \A k \in Keys : Len(hits[k]) <= Limit(k)

\* Between any hit and the Limit-th after it a whole window passes: no window,
\* wherever it starts, holds more hits than the limit (README.md:374-375,
\* rate_limit.py:28-35).
WindowRespected ==
    \A k \in Keys : \A i, j \in DOMAIN log[k] :
        j = i + Limit(k) => log[k][j] - log[k][i] >= Window

InWindow(k) == {i \in DOMAIN log[k] : clock - log[k][i] < Window}

\* Nobody is refused who has not used up the limit within the last window, be
\* it with attempts that the client's limit refused (rate_limit.py:46-62).
RefusedOnlyWhenFull ==
    /\ verdict = "ip_refused" => Cardinality(InWindow(asked[1])) >= IpLimit
    /\ verdict = "client_refused" => Cardinality(InWindow(asked[2])) >= ClientLimit
=============================================================================
