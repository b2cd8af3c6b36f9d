----------------------------- MODULE ApiRequests -----------------------------
(***************************************************************************)
(* A request to a protected route, from its Authorization header to the     *)
(* queue: the require_jwt dependency runs before the form is looked at      *)
(* (TokenAccess), then the form is checked, the upload is read and checked, *)
(* and the job is enqueued (Submission).  Enqueueing itself is JobPipeline's *)
(* subject: here it works or raises.                                        *)
(***************************************************************************)
EXTENDS TokenAccess, Submission

CONSTANT Forms   \* the forms that may be submitted

ASSUME FormsAssumption ==
    \A f \in Forms :
        /\ f.route \in Routes
        /\ f.callback \in {"url", "bad", Absent}
        /\ f.ids \in BOOLEAN
        /\ f.bytes \in Nat
        /\ \A kind \in Counts : f.counts[kind] \in Int \cup {Absent}

VARIABLE form    \* the form of each request that has been admitted

apiVars == <<tokenVars, form>>

\* What the routes of the forms require.
Required == {Needed(f.route) : f \in Forms}

\* The forms that the request models accept.
ValidForms == {f \in Forms : Valid(f)}

Init == AccessInit /\ form = [c \in Requests |-> None]

\* The request is answered.
Done(c) == GoTo(c, "idle") /\ form' = [form EXCEPT ![c] = None]

\* A submission to a route whose scopes the token has been checked for: 422 for
\* a form the request model refuses, otherwise the upload is awaited.
Validate(c, f) ==
    /\ pc[c] = "admitted"
    /\ Needed(f.route) = need[c]
    /\ \/ f \in ValidForms /\ GoTo(c, "upload") /\ form' = [form EXCEPT ![c] = f]
       \/ f \notin ValidForms /\ Done(c)
    /\ about' = [about EXCEPT ![c] = None]
    /\ need' = [need EXCEPT ![c] = {}]
    /\ began' = [began EXCEPT ![c] = 0]
    /\ vetted' = vetted \ {c}
    /\ UNCHANGED <<now, token, entry, connection, turnedAway>>

\* 422 or 413 for the file.
Upload(c) ==
    /\ pc[c] = "upload"
    /\ \/ AcceptsSize(form[c].bytes) /\ GoTo(c, "enqueue") /\ UNCHANGED form
       \/ ~AcceptsSize(form[c].bytes) /\ Done(c)
    /\ UNCHANGED <<now, token, entry, access, connection, turnedAway>>

\* 202, or 503 if enqueue_job raises: a store that fails, or a payload that the
\* model the worker parses it with does not accept.
Enqueue(c) ==
    /\ pc[c] = "enqueue"
    /\ Done(c)
    /\ UNCHANGED <<now, token, entry, access, connection, turnedAway>>

\* The process dies with its requests; Redis and the tokens stay.
Crash ==
    /\ \E c \in Callers : pc[c] # "idle"
    /\ pc' = [c \in Callers |-> "idle"]
    /\ about' = [c \in Callers |-> None]
    /\ need' = [c \in Requests |-> {}]
    /\ began' = [c \in Requests |-> 0]
    /\ vetted' = {}
    /\ form' = [c \in Requests |-> None]
    /\ cached' = FALSE /\ lock' = None /\ opened' = 0
    /\ UNCHANGED <<now, token, entry, turnedAway>>

-----------------------------------------------------------------------------
\* What a caller does for itself once its request or its call has begun.
Verify(c) ==
    \/ TakeLock(c) \/ PingAnswered(c)
    \/ Cleared(c) \/ Lookup(c) \/ LookupFails(c) \/ LookupUnreachable(c)
    \/ StoreEntry(c) \/ StoreEntryFails(c) \/ StoreUnreachable(c)

Submit(c) == (\E f \in Forms : Validate(c, f)) \/ Upload(c) \/ Enqueue(c)

Proceed(c) ==
    \/ Verify(c) /\ UNCHANGED form
    \/ c \in Requests /\ Submit(c)

Arrive(c) ==
    \E t \in Tokens :
        \/ \E required \in Required : Present(c, t, required)
        \/ TurnAway(c, t)

Outside ==
    \/ TimePasses
    \/ \E t \in Tokens :
        \/ Issue(t) \/ Mint(t)
        \/ \E r \in Revokers : Revoke(r, t)
    \/ \E c \in Requests : Arrive(c)
    \/ CloseDenylist

Next ==
    \/ Outside /\ UNCHANGED form
    \/ \E c \in Callers : Proceed(c)
    \/ Crash

Spec == Init /\ [][Next]_apiVars

\* The event loop runs whoever can run, Redis answers or the client raises, and
\* asyncio.Lock serves its waiters in order: one that waits while the lock is
\* given back again and again gets it.
Fairness ==
    \A c \in Callers :
        /\ WF_apiVars(Proceed(c))
        /\ SF_apiVars(TakeLock(c) /\ UNCHANGED form)

FairSpec == Spec /\ Fairness

-----------------------------------------------------------------------------
(* Properties *)

Stages == {"idle", "wait", "ping", "ask", "cleared", "admitted", "upload", "enqueue"}
Entries == [asked : TtlArgs, at : 0 .. MaxTime, until : Int]

\* Types of the variables.
TypeOK ==
    /\ now \in 0 .. MaxTime
    /\ token \in [Tokens -> Claims \cup {None}]
    /\ entry \in [Tokens -> Entries \cup {None}]
    /\ pc \in [Callers -> Stages]
    /\ about \in [Callers -> Tokens \cup {None}]
    /\ need \in [Requests -> Required \cup {{}}]
    /\ began \in [Requests -> 0 .. MaxTime]
    /\ vetted \subseteq Requests
    /\ cached \in BOOLEAN
    /\ lock \in Callers \cup {None}
    /\ opened \in Nat
    /\ turnedAway \subseteq Tokens
    /\ form \in [Requests -> Forms \cup {None}]

\* However many callers find no client at once, the process holds one
\* connection at most, whoever fails to open it gives it back with the lock, and
\* nobody asks through a client that is closed (revocation.py:30-50, 80-85).
OneConnection ==
    /\ cached => lock = None
    /\ opened = IF cached \/ lock # None THEN 1 ELSE 0
    /\ \A c \in Callers : pc[c] = "ping" <=> lock = c
    /\ \A c \in Callers : pc[c] = "ask" => cached

\* A request that asked the denylist about a revoked token and was admitted
\* nevertheless: the entry had run out, and then the token was revoked in the
\* first moments of its life, or the request took that much longer after its
\* token was decoded, or the caller of revoke_token chose a shorter TTL
\* (revocation.py:74, jwt.py:97).
ComesBackOnlyIfRevokedEarly(c) ==
    LET t == about[c] IN
    entry[t] # None =>
        \/ entry[t].at < token[t].at + Leeway + Drift + (now - began[c])
        \/ entry[t].asked # 0 /\ PerSec * entry[t].asked < Life

RevokedIsRefused ==
    [][\A c \in Requests :
        c \notin vetted /\ c \in vetted' => ComesBackOnlyIfRevokedEarly(c)]_apiVars

\* A token is good for all of the expires_in it was issued with, although iat
\* and exp lose their fractions and clocks disagree, if the leeway is made for
\* that (jwt.py:97, 121-122).
FullLife ==
    LeewayEnough => \A t \in turnedAway : now >= token[t].at + token[t].life

\* What is about to be queued is what the worker will parse and find small
\* enough: it re-validates both with models and limits of its own
\* (exec.py:85-89, runtime.py:98).
QueuedIsParsable ==
    \A c \in Requests : pc[c] = "enqueue" =>
        /\ Parses(Kind(form[c].route), Payload(Submitted(form[c])))
        /\ Fits(form[c].bytes)

\* README.md:146-171: the required fields are filled in, the counts that the
\* endpoint documents are left out or in their range.
Documented(f) ==
    /\ f.ids /\ f.callback # "bad" /\ f.bytes \in 1 .. MaxBytes
    /\ f.route = "/api/lkpd" => f.callback = "url"
    /\ f.route = "/api/material" =>
        f.types # <<>> /\ Range(f.types) \subseteq Types /\ IsInjective(f.types)
    /\ \A kind \in Reads(f.route) : f.counts[kind] \in Ranges[kind] \cup {Absent}

DocumentedForms == {f \in Forms : Documented(f)}

\* An admitted form that keeps to the documentation of its endpoint is not
\* answered 422 or 413, whichever of the routes and defaults it goes through
\* (material_routes.py:101-109, types/material.py:18-27).
DocumentedIsQueued ==
    [][\A c \in Requests :
        /\ pc[c] = "admitted" =>
            \A f \in DocumentedForms : Validate(c, f) => form'[c] = f
        /\ pc[c] = "upload" /\ form[c] \in DocumentedForms =>
            (Upload(c) => pc'[c] = "enqueue")]_apiVars

\* Every request is answered and every revocation ends, however callers race
\* for the connection and whatever Redis does (revocation.py:30-47).
Answered == \A c \in Callers : pc[c] # "idle" ~> pc[c] = "idle"
=============================================================================
