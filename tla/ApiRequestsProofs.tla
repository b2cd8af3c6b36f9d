-------------------------- MODULE ApiRequestsProofs --------------------------
(***************************************************************************)
(* Proofs about ApiRequests, for any callers, tokens, clocks, TTLs, forms    *)
(* and settings.                                                            *)
(***************************************************************************)
EXTENDS ApiRequests, TLAPS

-----------------------------------------------------------------------------
(* Truncation and the lives of tokens and entries. *)

LEMMA TruncatedBounds ==
  ASSUME NEW time \in Int
  PROVE  /\ Truncated(time) \in Int
         /\ Truncated(time) <= time
         /\ time - PerSec < Truncated(time)
  <1>1. PerSec \in Int /\ PerSec > 0
    BY TimeAssumption
  <1>2. time % PerSec \in 0 .. PerSec - 1
    BY <1>1
  <1> QED BY <1>1, <1>2 DEF Truncated

LEMMA Lives ==
  /\ Life \in Int /\ Leeway \in Nat
  /\ \A ttl \in Int : PerSec * ttl \in Int
  /\ \A arg \in TtlArgs : EntryLife(arg) \in Int
  <1>1. \A m, n \in Int : m * n \in Int
    OBVIOUS
  <1>2. \A m, n \in Nat : m * n \in Nat
    OBVIOUS
  <1>3. \A n \in Int : AtLeastOne(n) \in Int
    BY DEF AtLeastOne
  <1> QED BY <1>1, <1>2, <1>3, TimeAssumption DEF Life, Leeway, EntryLife

\* An entry lasts as long as a token, unless its caller asked for less.
LEMMA EntryLasts ==
  ASSUME NEW arg \in TtlArgs
  PROVE  EntryLife(arg) >= Life \/ (arg # 0 /\ PerSec * arg < Life)
  <1> DEFINE ttl == AtLeastOne(TokenTtl)
  <1>1. arg \in Int /\ PerSec \in Int /\ PerSec > 0 /\ ttl \in Int /\ ttl >= 1
    BY TimeAssumption DEF AtLeastOne
  <1> HIDE DEF ttl
  <1>2. CASE arg = 0
    BY <1>1, <1>2, Lives DEF EntryLife, Life
  <1>3. CASE arg >= 1
    <2>1. EntryLife(arg) = PerSec * arg
      BY <1>1, <1>3 DEF EntryLife, AtLeastOne
    <2> QED BY <2>1, <1>1, <1>3, Lives
  <1>4. CASE arg < 0
    <2>1. PerSec * arg < 0 /\ PerSec * ttl > 0
      BY <1>1, <1>4
    <2>2. Life = PerSec * ttl
      BY DEF Life, ttl
    <2> QED BY <2>1, <2>2, <1>1, <1>4, Lives
  <1> QED BY <1>1, <1>2, <1>3, <1>4

-----------------------------------------------------------------------------
(* Types. *)

LEMMA TypeInit == Init => TypeOK
  <1> SUFFICES ASSUME Init PROVE TypeOK
    OBVIOUS
  <1>1. 0 \in 0 .. MaxTime /\ {} \in Required \cup {{}} /\ "idle" \in Stages
    BY TimeAssumption DEF Stages
  <1>2. /\ token \in [Tokens -> Claims \cup {None}]
        /\ entry \in [Tokens -> Entries \cup {None}]
        /\ pc \in [Callers -> Stages]
        /\ about \in [Callers -> Tokens \cup {None}]
        /\ form \in [Requests -> Forms \cup {None}]
    BY <1>1 DEF Init, AccessInit
  <1>3. /\ need \in [Requests -> Required \cup {{}}]
        /\ began \in [Requests -> 0 .. MaxTime]
    BY <1>1 DEF Init, AccessInit
  <1> QED BY <1>1, <1>2, <1>3 DEF Init, AccessInit, TypeOK

LEMMA NewTokenType ==
  ASSUME TypeOK, NEW t \in Tokens, NEW life \in Int, NEW hasJti \in BOOLEAN,
         NEW scope \in SUBSET Scopes, NewToken(t, life, hasJti, scope), UNCHANGED form
  PROVE  TypeOK'
  <1>1. PICK reading \in Readings :
          token' = [token EXCEPT ![t] =
                      [at |-> now, life |-> life, iat |-> Truncated(reading),
                       exp |-> Truncated(reading + life),
                       jti |-> hasJti, scope |-> scope]]
    BY DEF NewToken
  <1>2. reading \in Int /\ now \in 0 .. LastIssue
    BY TimeAssumption DEF TypeOK, Readings, NewToken
  <1>3. Truncated(reading) \in Int /\ Truncated(reading + life) \in Int
    BY <1>2, TruncatedBounds
  <1>4. token' \in [Tokens -> Claims \cup {None}]
    BY <1>1, <1>2, <1>3 DEF TypeOK, Claims
  <1> QED BY <1>4 DEF TypeOK, NewToken, access, connection

\* What the caller itself changes when it ends.
LEMMA LeaveType ==
  ASSUME TypeOK, NEW c \in Callers, Leave(c)
  PROVE  /\ pc' \in [Callers -> Stages]
         /\ about' \in [Callers -> Tokens \cup {None}]
         /\ need' \in [Requests -> Required \cup {{}}]
         /\ began' \in [Requests -> 0 .. MaxTime]
         /\ vetted' \subseteq Requests
  BY TimeAssumption DEF TypeOK, Leave, GoTo, Stages, Callers

LEMMA AdmitType ==
  ASSUME TypeOK, NEW c \in Requests, NEW asked \in BOOLEAN, Admit(c, asked)
  PROVE  /\ pc' \in [Callers -> Stages]
         /\ about' \in [Callers -> Tokens \cup {None}]
         /\ need' \in [Requests -> Required \cup {{}}]
         /\ began' \in [Requests -> 0 .. MaxTime]
         /\ vetted' \subseteq Requests
  <1>1. c \in Callers
    BY DEF Callers
  <1>2. CASE need[c] \subseteq token[about[c]].scope
    BY <1>2 DEF Admit, TypeOK, GoTo, Stages
  <1>3. CASE ~(need[c] \subseteq token[about[c]].scope)
    BY <1>1, <1>3, LeaveType DEF Admit
  <1> QED BY <1>2, <1>3

LEMMA SetEntryType ==
  ASSUME TypeOK, NEW t \in Tokens \cup {None}, SetEntry(t)
  PROVE  entry' \in [Tokens -> Entries \cup {None}]
  <1>1. PICK arg \in TtlArgs :
          entry' = [entry EXCEPT ![t] = [asked |-> arg, at |-> now,
                                          until |-> now + EntryLife(arg)]]
    BY DEF SetEntry
  <1>2. now + EntryLife(arg) \in Int
    BY Lives, TimeAssumption DEF TypeOK
  <1> QED BY <1>1, <1>2 DEF TypeOK, Entries

\* One connection at a time: the fact that keeps the count of them natural.
LEMMA TypeStep == TypeOK /\ OneConnection /\ [Next]_apiVars => TypeOK'
  <1> SUFFICES ASSUME TypeOK, OneConnection, [Next]_apiVars
               PROVE  TypeOK'
    OBVIOUS
  <1> USE DEF Callers
  <1>1. ASSUME TimePasses, UNCHANGED form PROVE TypeOK'
    BY <1>1, TimeAssumption DEF TypeOK, TimePasses, access, connection
  <1>2. ASSUME NEW t \in Tokens, Issue(t), UNCHANGED form PROVE TypeOK'
    <2>1. PICK named \in ScopeForms :
            /\ ScopeGranted(named) \subseteq AllowedScopes
            /\ NewToken(t, Life, TRUE, ScopeGranted(named))
      BY <1>2 DEF Issue
    <2>2. ScopeGranted(named) \in SUBSET Scopes
      BY <2>1 DEF Scopes
    <2> QED BY <1>2, <2>1, <2>2, Lives, NewTokenType
  <1>3. ASSUME NEW t \in Tokens, Mint(t), UNCHANGED form PROVE TypeOK'
    <2>1. PICK named \in ScopeForms, ttl \in MintTtls : NewToken(t, PerSec * ttl, FALSE, named)
      BY <1>3 DEF Mint
    <2>2. named \in SUBSET Scopes
      BY DEF Scopes
    <2>3. PerSec * ttl \in Int
      BY Lives, TimeAssumption
    <2> QED BY <1>3, <2>1, <2>2, <2>3, NewTokenType
  <1>4. ASSUME NEW t \in Tokens, NEW r \in Revokers, Revoke(r, t), UNCHANGED form
        PROVE  TypeOK'
    BY <1>4 DEF TypeOK, Revoke, EnterDenylist, GoTo, Stages, connection
  <1>5. ASSUME NEW t \in Tokens, NEW c \in Requests, NEW required \in Required,
               Present(c, t, required), UNCHANGED form
        PROVE  TypeOK'
    BY <1>5 DEF TypeOK, Present, EnterDenylist, GoTo, Stages, connection
  <1>6. ASSUME NEW t \in Tokens, NEW c \in Requests, TurnAway(c, t), UNCHANGED form
        PROVE  TypeOK'
    BY <1>6 DEF TypeOK, TurnAway, access, connection
  <1>7. ASSUME CloseDenylist, UNCHANGED form PROVE TypeOK'
    <2>1. opened' \in Nat
      BY <1>7 DEF CloseDenylist, OneConnection
    <2> QED BY <1>7, <2>1 DEF TypeOK, CloseDenylist, access
  <1>8. ASSUME NEW c \in Callers, Verify(c), UNCHANGED form PROVE TypeOK'
    <2>1. CASE TakeLock(c)
      BY <1>8, <2>1 DEF TypeOK, TakeLock, GoTo, Stages, access
    <2>2. CASE PingAnswered(c)
      BY <1>8, <2>2 DEF TypeOK, PingAnswered, GoTo, Stages, access
    <2>3. CASE Cleared(c)
      BY <1>8, <2>3, AdmitType DEF TypeOK, Cleared, connection
    <2>4. CASE Lookup(c)
      <3>1. c \in Requests /\ (Leave(c) \/ Admit(c, TRUE))
        BY <2>4 DEF Lookup
      <3> QED BY <1>8, <2>4, <3>1, LeaveType, AdmitType DEF TypeOK, Lookup, connection
    <2>5. CASE LookupFails(c)
      BY <1>8, <2>5, AdmitType DEF TypeOK, LookupFails, connection
    <2>6. CASE LookupUnreachable(c)
      <3>1. lock' \in Callers \cup {None} /\ opened' \in Nat /\ cached' \in BOOLEAN
        BY <2>6, CallersAssumption DEF LookupUnreachable, PingFailed, OneConnection, TypeOK
      <3> QED BY <1>8, <2>6, <3>1, AdmitType DEF TypeOK, LookupUnreachable
    <2>7. CASE StoreEntry(c)
      <3>1. Leave(c) /\ SetEntry(about[c]) /\ about[c] \in Tokens \cup {None}
        BY <2>7 DEF StoreEntry, TypeOK
      <3> QED BY <1>8, <2>7, <3>1, LeaveType, SetEntryType DEF TypeOK, StoreEntry, connection
    <2>8. CASE StoreEntryFails(c)
      <3>1. /\ Leave(c) /\ about[c] \in Tokens \cup {None}
            /\ SetEntry(about[c]) \/ UNCHANGED entry
        BY <2>8 DEF StoreEntryFails, TypeOK
      <3>2. entry' \in [Tokens -> Entries \cup {None}]
        BY <3>1, SetEntryType DEF TypeOK
      <3> QED BY <1>8, <2>8, <3>1, <3>2, LeaveType DEF TypeOK, StoreEntryFails, connection
    <2>9. CASE StoreUnreachable(c)
      <3>1. lock' \in Callers \cup {None} /\ opened' \in Nat /\ cached' \in BOOLEAN
        BY <2>9, CallersAssumption DEF StoreUnreachable, PingFailed, OneConnection, TypeOK
      <3> QED BY <1>8, <2>9, <3>1, LeaveType DEF TypeOK, StoreUnreachable
    <2> QED BY <1>8, <2>1, <2>2, <2>3, <2>4, <2>5, <2>6, <2>7, <2>8, <2>9 DEF Verify
  <1>9. ASSUME NEW c \in Requests, NEW f \in Forms, Validate(c, f) PROVE TypeOK'
    BY <1>9, TimeAssumption DEF TypeOK, Validate, Done, GoTo, Stages, connection
  <1>10. ASSUME NEW c \in Requests, Upload(c) PROVE TypeOK'
    BY <1>10 DEF TypeOK, Upload, Done, GoTo, Stages, access, connection
  <1>11. ASSUME NEW c \in Requests, Enqueue(c) PROVE TypeOK'
    BY <1>11 DEF TypeOK, Enqueue, Done, GoTo, Stages, access, connection
  <1>12. ASSUME Crash PROVE TypeOK'
    <2>1. 0 \in 0 .. MaxTime /\ {} \in Required \cup {{}} /\ "idle" \in Stages
      BY TimeAssumption DEF Stages
    <2>2. /\ pc' \in [Callers -> Stages]
          /\ about' \in [Callers -> Tokens \cup {None}]
          /\ form' \in [Requests -> Forms \cup {None}]
      BY <1>12, <2>1 DEF Crash
    <2>3. /\ need' \in [Requests -> Required \cup {{}}]
          /\ began' \in [Requests -> 0 .. MaxTime]
      BY <1>12, <2>1 DEF Crash
    <2> QED BY <1>12, <2>2, <2>3 DEF TypeOK, Crash
  <1>13. ASSUME UNCHANGED apiVars PROVE TypeOK'
    BY <1>13 DEF TypeOK, apiVars, tokenVars, access, connection
  <1> QED
    BY <1>1, <1>2, <1>3, <1>4, <1>5, <1>6, <1>7, <1>8, <1>9, <1>10, <1>11, <1>12, <1>13
    DEF Next, Outside, Arrive, Proceed, Submit

-----------------------------------------------------------------------------
(* The connection. *)

LEMMA LeaveGoes ==
  ASSUME TypeOK, NEW c \in Callers, Leave(c)
  PROVE  pc' = [pc EXCEPT ![c] = "idle"]
  BY DEF Leave, GoTo

LEMMA AdmitGoes ==
  ASSUME TypeOK, NEW c \in Requests, NEW asked \in BOOLEAN, Admit(c, asked)
  PROVE  pc' = [pc EXCEPT ![c] = "admitted"] \/ pc' = [pc EXCEPT ![c] = "idle"]
  BY DEF Admit, Leave, GoTo

\* Whoever moves between stages other than "ping" leaves the connection as it is,
\* and asks through a client that is there.
LEMMA Aside ==
  ASSUME TypeOK, OneConnection, NEW c \in Callers, NEW stage,
         pc[c] # "ping", stage # "ping", stage = "ask" => cached,
         pc' = [pc EXCEPT ![c] = stage], UNCHANGED connection
  PROVE  OneConnection'
  BY DEF TypeOK, OneConnection, connection

\* Whoever fails to connect gives the connection and the lock back.
LEMMA GivenBack ==
  ASSUME TypeOK, OneConnection, NEW c \in Callers, NEW stage,
         pc[c] = "ping", stage \notin {"ping", "ask"},
         pc' = [pc EXCEPT ![c] = stage], PingFailed
  PROVE  OneConnection'
  BY CallersAssumption DEF TypeOK, OneConnection, PingFailed, Callers

LEMMA ConnectionInit == Init => OneConnection
  BY CallersAssumption DEF Init, AccessInit, OneConnection, Callers

LEMMA ConnectionStep == TypeOK /\ OneConnection /\ [Next]_apiVars => OneConnection'
  <1> SUFFICES ASSUME TypeOK, OneConnection, [Next]_apiVars
               PROVE  OneConnection'
    OBVIOUS
  <1>0. Requests \subseteq Callers /\ Revokers \subseteq Callers
    BY DEF Callers
  <1>1. ASSUME UNCHANGED <<pc, connection>> PROVE OneConnection'
    BY <1>1 DEF OneConnection, connection
  <1>2. ASSUME NEW t \in Tokens, NEW r \in Revokers, Revoke(r, t) PROVE OneConnection'
    <2>1. \E stage \in {"ask", "wait"} :
            pc' = [pc EXCEPT ![r] = stage] /\ (stage = "ask" => cached)
      BY <1>2 DEF Revoke, EnterDenylist, GoTo
    <2> QED BY <1>0, <1>2, <2>1, Aside DEF Revoke
  <1>3. ASSUME NEW t \in Tokens, NEW c \in Requests, NEW required \in Required,
               Present(c, t, required)
        PROVE  OneConnection'
    <2>1. \E stage \in {"ask", "wait", "cleared"} :
            pc' = [pc EXCEPT ![c] = stage] /\ (stage = "ask" => cached)
      BY <1>3 DEF Present, EnterDenylist, GoTo
    <2> QED BY <1>0, <1>3, <2>1, Aside DEF Present
  <1>4. ASSUME CloseDenylist PROVE OneConnection'
    BY <1>4 DEF OneConnection, CloseDenylist
  <1>5. ASSUME NEW c \in Callers, Verify(c) PROVE OneConnection'
    <2>1. CASE TakeLock(c)
      BY <2>1, CallersAssumption DEF TypeOK, TakeLock, GoTo, OneConnection, Callers
    <2>2. CASE PingAnswered(c)
      BY <2>2, CallersAssumption DEF TypeOK, PingAnswered, GoTo, OneConnection, Callers
    <2>3. CASE Cleared(c)
      BY <2>3, AdmitGoes, Aside DEF Cleared
    <2>4. CASE Lookup(c)
      BY <2>4, AdmitGoes, LeaveGoes, Aside DEF Lookup
    <2>5. CASE LookupFails(c)
      BY <2>5, AdmitGoes, Aside DEF LookupFails
    <2>6. CASE LookupUnreachable(c)
      BY <2>6, AdmitGoes, GivenBack DEF LookupUnreachable
    <2>7. CASE StoreEntry(c)
      BY <2>7, LeaveGoes, Aside DEF StoreEntry
    <2>8. CASE StoreEntryFails(c)
      BY <2>8, LeaveGoes, Aside DEF StoreEntryFails
    <2>9. CASE StoreUnreachable(c)
      BY <2>9, LeaveGoes, GivenBack DEF StoreUnreachable
    <2> QED BY <1>5, <2>1, <2>2, <2>3, <2>4, <2>5, <2>6, <2>7, <2>8, <2>9 DEF Verify
  <1>6. ASSUME NEW c \in Requests, Submit(c) PROVE OneConnection'
    <2>1. /\ pc[c] # "ping" /\ UNCHANGED connection
          /\ \E stage \in {"idle", "upload", "enqueue"} : pc' = [pc EXCEPT ![c] = stage]
      BY <1>6 DEF Submit, Validate, Upload, Enqueue, Done, GoTo
    <2> QED BY <1>0, <2>1, Aside
  <1>7. ASSUME Crash PROVE OneConnection'
    BY <1>7, CallersAssumption DEF Crash, OneConnection, Callers
  <1>8. ASSUME UNCHANGED apiVars PROVE OneConnection'
    BY <1>1, <1>8 DEF apiVars, tokenVars
  <1>9. ASSUME TimePasses PROVE OneConnection'
    BY <1>1, <1>9 DEF TimePasses
  <1>10. ASSUME NEW t \in Tokens, Issue(t) \/ Mint(t) PROVE OneConnection'
    BY <1>1, <1>10 DEF Issue, Mint, NewToken
  <1>11. ASSUME NEW t \in Tokens, NEW c \in Requests, TurnAway(c, t) PROVE OneConnection'
    BY <1>1, <1>11 DEF TurnAway
  <1> QED
    BY <1>2, <1>3, <1>4, <1>5, <1>6, <1>7, <1>8, <1>9, <1>10, <1>11
    DEF Next, Outside, Arrive, Proceed

\* However callers race for the connection, there is one at most, and the state
\* keeps its types.
THEOREM ConnectionCorrect == Spec => [](TypeOK /\ OneConnection)
  <1>1. Init => TypeOK /\ OneConnection
    BY TypeInit, ConnectionInit
  <1>2. TypeOK /\ OneConnection /\ [Next]_apiVars => (TypeOK /\ OneConnection)'
    BY TypeStep, ConnectionStep
  <1> QED BY <1>1, <1>2, PTL DEF Spec

-----------------------------------------------------------------------------
(* Lives of tokens and of entries. *)

\* The claims of a token against the time it was issued.
Issued ==
    \A t \in Tokens : token[t] # None =>
        /\ token[t].at <= now
        /\ token[t].at + token[t].life - PerSec < token[t].exp
        /\ token[t].exp <= token[t].at + Drift + token[t].life
        /\ token[t].iat <= token[t].at + Drift
        /\ token[t].jti => token[t].life = Life

Stored ==
    \A t \in Tokens : entry[t] # None =>
        entry[t].until = entry[t].at + EntryLife(entry[t].asked)

Refused ==
    \A t \in turnedAway :
        /\ token[t] # None
        /\ LeewayEnough => now >= token[t].at + token[t].life

\* A request in require_jwt is about a token that was good when it was decoded.
Vetting == {"wait", "ping", "ask"}
Good(c) ==
    /\ about[c] \in Tokens
    /\ token[about[c]] # None
    /\ token[about[c]].jti
    /\ began[c] < token[about[c]].exp + Leeway
Standing == \A c \in Requests : pc[c] \in Vetting => Good(c)

LivesInv == Issued /\ Stored /\ Refused /\ Standing

LEMMA LivesInit == Init => LivesInv
  <1> SUFFICES ASSUME Init PROVE LivesInv
    OBVIOUS
  <1>1. /\ \A t \in Tokens : token[t] = None /\ entry[t] = None
        /\ \A c \in Requests : pc[c] = "idle"
        /\ turnedAway = {}
    BY DEF Init, AccessInit, Callers
  <1> QED BY <1>1 DEF LivesInv, Issued, Stored, Refused, Standing, Vetting

\* A step that only moves callers, none of them into the vetting.
LEMMA Moving ==
  ASSUME LivesInv, UNCHANGED <<now, token, entry, turnedAway>>,
         \A c \in Requests : pc'[c] \in Vetting =>
            pc[c] \in Vetting /\ about'[c] = about[c] /\ began'[c] = began[c]
  PROVE  LivesInv'
  <1>1. Issued' /\ Stored' /\ Refused'
    BY DEF LivesInv, Issued, Stored, Refused
  <1>2. Standing'
    BY DEF LivesInv, Standing, Good
  <1> QED BY <1>1, <1>2 DEF LivesInv

LEMMA IssuingStep ==
  ASSUME TypeOK, LivesInv, NEW t \in Tokens, NEW life \in Int, NEW hasJti \in BOOLEAN,
         NEW scope \in SUBSET Scopes, NewToken(t, life, hasJti, scope),
         hasJti => life = Life
  PROVE  LivesInv'
  <1>1. PICK reading \in Readings :
          token' = [token EXCEPT ![t] =
                      [at |-> now, life |-> life, iat |-> Truncated(reading),
                       exp |-> Truncated(reading + life),
                       jti |-> hasJti, scope |-> scope]]
    BY DEF NewToken
  <1>2. /\ reading \in Int /\ now \in Int /\ Drift \in Int /\ PerSec \in Int
        /\ now <= reading /\ reading <= now + Drift
    BY TimeAssumption DEF TypeOK, Readings
  <1>3. /\ Truncated(reading) \in Int /\ Truncated(reading) <= reading
        /\ Truncated(reading + life) \in Int
        /\ Truncated(reading + life) <= reading + life
        /\ (reading + life) - PerSec < Truncated(reading + life)
    BY <1>2, TruncatedBounds
  <1>4. token' = [u \in Tokens |-> IF u = t
                    THEN [at |-> now, life |-> life, iat |-> Truncated(reading),
                          exp |-> Truncated(reading + life),
                          jti |-> hasJti, scope |-> scope]
                    ELSE token[u]]
    BY <1>1 DEF TypeOK
  <1>5. now' = now /\ token[t] = None /\ UNCHANGED <<entry, turnedAway, pc, about, began>>
    BY DEF NewToken, access
  <1>6. Issued'
    BY <1>2, <1>3, <1>4, <1>5 DEF LivesInv, Issued
  <1>7. Stored'
    BY <1>5 DEF LivesInv, Stored
  <1>8. \A u \in Tokens : token[u] # None => token'[u] = token[u]
    BY <1>4, <1>5
  <1>9. Refused'
    BY <1>5, <1>8 DEF LivesInv, Refused, TypeOK
  <1>10. Standing'
    BY <1>5, <1>8 DEF LivesInv, Standing, Good
  <1> QED BY <1>6, <1>7, <1>9, <1>10 DEF LivesInv

LEMMA EntryStep ==
  ASSUME TypeOK, LivesInv, NEW t \in Tokens \cup {None}, SetEntry(t)
  PROVE  Stored'
  <1>1. PICK arg \in TtlArgs :
          entry' = [entry EXCEPT ![t] = [asked |-> arg, at |-> now,
                                          until |-> now + EntryLife(arg)]]
    BY DEF SetEntry
  <1> QED BY <1>1 DEF LivesInv, Stored, TypeOK

\* Leaving or being admitted takes a request out of the vetting.
LEMMA LeaveMoves ==
  ASSUME TypeOK, NEW c \in Callers, Leave(c), NEW d \in Requests, pc'[d] \in Vetting
  PROVE  pc[d] \in Vetting /\ about'[d] = about[d] /\ began'[d] = began[d]
  BY DEF TypeOK, Leave, GoTo, Vetting

LEMMA AdmitMoves ==
  ASSUME TypeOK, NEW c \in Requests, NEW asked \in BOOLEAN, Admit(c, asked),
         NEW d \in Requests, pc'[d] \in Vetting
  PROVE  pc[d] \in Vetting /\ about'[d] = about[d] /\ began'[d] = began[d]
  <1>1. CASE Leave(c)
    BY <1>1, LeaveMoves DEF Callers
  <1>2. CASE GoTo(c, "admitted") /\ UNCHANGED <<about, need, began>>
    BY <1>2 DEF TypeOK, GoTo, Vetting
  <1> QED BY <1>1, <1>2 DEF Admit

LEMMA TurningAwayStep ==
  ASSUME TypeOK, LivesInv, NEW c \in Requests, NEW t \in Tokens, TurnAway(c, t)
  PROVE  LivesInv'
  <1>1. PICK reading \in Readings : Over(t, reading) \/ Immature(t, reading)
    BY DEF TurnAway
  <1>2. /\ reading \in Int /\ now \in Int /\ Drift \in Int /\ PerSec \in Int /\ PerSec > 0
        /\ Leeway \in Int /\ now <= reading /\ reading <= now + Drift
    BY TimeAssumption, Lives DEF TypeOK, Readings
  <1>3. token[t] # None /\ token[t] \in Claims
    BY DEF TurnAway, TypeOK
  <1>4. ASSUME LeewayEnough PROVE now >= token[t].at + token[t].life
    <2>1. /\ token[t].at \in Int /\ token[t].life \in Int
          /\ token[t].exp \in Int /\ token[t].iat \in Int
      BY <1>3, TimeAssumption DEF Claims
    <2>2. /\ token[t].at <= now
          /\ token[t].at + token[t].life - PerSec < token[t].exp
          /\ token[t].iat <= token[t].at + Drift
      BY <1>3 DEF LivesInv, Issued
    <2>3. Leeway >= Drift + PerSec - 1
      BY <1>4 DEF LeewayEnough
    <2>4. ~Immature(t, reading)
      BY <1>2, <2>1, <2>2, <2>3 DEF Immature
    <2>5. token[t].exp <= reading - Leeway
      BY <1>1, <2>4 DEF Over
    <2> QED BY <1>2, <2>1, <2>2, <2>3, <2>5
  <1>5. Refused'
    BY <1>3, <1>4 DEF TurnAway, LivesInv, Refused
  <1>6. Issued' /\ Stored' /\ Standing'
    BY DEF TurnAway, LivesInv, Issued, Stored, Standing, Good, access
  <1> QED BY <1>5, <1>6 DEF LivesInv

LEMMA PresentingStep ==
  ASSUME TypeOK, LivesInv, NEW c \in Requests, NEW t \in Tokens, NEW required \in Required,
         Present(c, t, required)
  PROVE  LivesInv'
  <1>1. PICK reading \in Readings : ~Over(t, reading)
    BY DEF Present
  <1>2. reading \in Int /\ now \in Int /\ now <= reading /\ Leeway \in Int
    BY TimeAssumption, Lives DEF TypeOK, Readings
  <1>3. token[t] # None /\ token[t].exp \in Int
    BY DEF Present, TypeOK, Claims
  <1>4. now < token[t].exp + Leeway
    BY <1>1, <1>2, <1>3 DEF Over
  <1>5. Issued' /\ Stored' /\ Refused'
    BY DEF Present, LivesInv, Issued, Stored, Refused
  <1>6. ASSUME NEW d \in Requests, pc'[d] \in Vetting PROVE Good(d)'
    <2>1. CASE d = c
      <3>1. token[t].jti
        BY <1>6, <2>1 DEF Present, GoTo, TypeOK, Vetting, Callers
      <3> QED BY <1>3, <1>4, <2>1, <3>1 DEF Present, TypeOK, Good, Callers
    <2>2. CASE d # c
      <3>1. pc[d] \in Vetting /\ about'[d] = about[d] /\ began'[d] = began[d]
        BY <1>6, <2>2 DEF Present, EnterDenylist, GoTo, TypeOK, Callers
      <3> QED BY <3>1 DEF Present, LivesInv, Standing, Good
    <2> QED BY <2>1, <2>2
  <1> QED BY <1>5, <1>6 DEF LivesInv, Standing, Vetting

LEMMA LivesStep == TypeOK /\ LivesInv /\ [Next]_apiVars => LivesInv'
  <1> SUFFICES ASSUME TypeOK, LivesInv, [Next]_apiVars
               PROVE  LivesInv'
    OBVIOUS
  <1>0. Requests \subseteq Callers /\ Revokers \subseteq Callers /\ Requests \cap Revokers = {}
    BY CallersAssumption DEF Callers
  <1>1. ASSUME TimePasses PROVE LivesInv'
    <2>1. now' = now + 1 /\ now \in Int
      BY <1>1, TimeAssumption DEF TimePasses, TypeOK
    <2>2. UNCHANGED <<token, entry, turnedAway, pc, about, began>>
      BY <1>1 DEF TimePasses, access
    <2>3. \A t \in Tokens : token[t] # None => token[t].at \in Int /\ token[t].life \in Int
      BY TimeAssumption DEF TypeOK, Claims
    <2>4. Issued' /\ Stored' /\ Standing'
      BY <2>1, <2>2, <2>3 DEF LivesInv, Issued, Stored, Standing, Good
    <2>5. Refused'
      BY <2>1, <2>2, <2>3 DEF LivesInv, Refused, TypeOK
    <2> QED BY <2>4, <2>5 DEF LivesInv
  <1>2. ASSUME NEW t \in Tokens, Issue(t) PROVE LivesInv'
    <2>1. PICK named \in ScopeForms :
            /\ ScopeGranted(named) \subseteq AllowedScopes
            /\ NewToken(t, Life, TRUE, ScopeGranted(named))
      BY <1>2 DEF Issue
    <2>2. ScopeGranted(named) \in SUBSET Scopes
      BY <2>1 DEF Scopes
    <2> QED BY <2>1, <2>2, Lives, IssuingStep
  <1>3. ASSUME NEW t \in Tokens, Mint(t) PROVE LivesInv'
    <2>1. PICK named \in ScopeForms, ttl \in MintTtls : NewToken(t, PerSec * ttl, FALSE, named)
      BY <1>3 DEF Mint
    <2>2. named \in SUBSET Scopes
      BY DEF Scopes
    <2>3. PerSec * ttl \in Int
      BY Lives, TimeAssumption
    <2> QED BY <2>1, <2>2, <2>3, IssuingStep
  <1>4. ASSUME NEW t \in Tokens, NEW r \in Revokers, Revoke(r, t) PROVE LivesInv'
    <2>1. \A c \in Requests : pc'[c] = pc[c] /\ about'[c] = about[c] /\ began'[c] = began[c]
      BY <1>0, <1>4 DEF Revoke, EnterDenylist, GoTo, TypeOK
    <2> QED BY <1>4, <2>1, Moving DEF Revoke
  <1>5. ASSUME CloseDenylist PROVE LivesInv'
    BY <1>5, Moving DEF CloseDenylist, access
  <1>6. ASSUME NEW c \in Callers, Verify(c) PROVE LivesInv'
    <2>1. CASE TakeLock(c) \/ PingAnswered(c)
      <3>1. \A d \in Requests : pc'[d] \in Vetting =>
              pc[d] \in Vetting /\ about'[d] = about[d] /\ began'[d] = began[d]
        BY <1>0, <2>1 DEF TakeLock, PingAnswered, GoTo, TypeOK, Vetting, access
      <3> QED BY <2>1, <3>1, Moving DEF TakeLock, PingAnswered
    <2>2. CASE Cleared(c) \/ LookupFails(c) \/ LookupUnreachable(c)
      <3>1. c \in Requests /\ Admit(c, FALSE) /\ UNCHANGED <<now, token, entry, turnedAway>>
        BY <2>2 DEF Cleared, LookupFails, LookupUnreachable
      <3> QED BY <3>1, AdmitMoves, Moving
    <2>3. CASE Lookup(c)
      <3>1. /\ c \in Requests /\ (Leave(c) \/ Admit(c, TRUE))
            /\ UNCHANGED <<now, token, entry, turnedAway>>
        BY <2>3 DEF Lookup
      <3> QED BY <3>1, AdmitMoves, LeaveMoves, Moving
    <2>4. CASE StoreUnreachable(c)
      <3>1. Leave(c) /\ UNCHANGED <<now, token, entry, turnedAway>>
        BY <2>4 DEF StoreUnreachable
      <3> QED BY <3>1, LeaveMoves, Moving
    <2>5. CASE StoreEntry(c) \/ StoreEntryFails(c)
      <3>1. /\ Leave(c) /\ about[c] \in Tokens \cup {None}
            /\ SetEntry(about[c]) \/ UNCHANGED entry
            /\ UNCHANGED <<now, token, turnedAway>>
        BY <2>5 DEF StoreEntry, StoreEntryFails, TypeOK
      <3>2. CASE UNCHANGED entry
        BY <3>1, <3>2, LeaveMoves, Moving
      <3>3. CASE SetEntry(about[c])
        <4>1. Stored'
          BY <3>1, <3>3, EntryStep
        <4>2. Issued' /\ Refused'
          BY <3>1 DEF LivesInv, Issued, Refused
        <4>3. Standing'
          BY <3>1, LeaveMoves DEF LivesInv, Standing, Good
        <4> QED BY <4>1, <4>2, <4>3 DEF LivesInv
      <3> QED BY <3>1, <3>2, <3>3
    <2> QED BY <1>6, <2>1, <2>2, <2>3, <2>4, <2>5 DEF Verify
  <1>7. ASSUME NEW c \in Requests, Submit(c) PROVE LivesInv'
    <2>1. CASE \E f \in Forms : Validate(c, f)
      <3>1. PICK f \in Forms : Validate(c, f)
        BY <2>1
      <3>2. \A d \in Requests : pc'[d] \in Vetting =>
              pc[d] \in Vetting /\ about'[d] = about[d] /\ began'[d] = began[d]
        BY <1>0, <3>1 DEF Validate, Done, GoTo, TypeOK, Vetting
      <3> QED BY <3>1, <3>2, Moving DEF Validate
    <2>2. CASE Upload(c) \/ Enqueue(c)
      <3>1. \A d \in Requests : pc'[d] \in Vetting =>
              pc[d] \in Vetting /\ about'[d] = about[d] /\ began'[d] = began[d]
        BY <1>0, <2>2 DEF Upload, Enqueue, Done, GoTo, TypeOK, Vetting, access
      <3> QED BY <2>2, <3>1, Moving DEF Upload, Enqueue
    <2> QED BY <1>7, <2>1, <2>2 DEF Submit
  <1>8. ASSUME Crash PROVE LivesInv'
    <2>1. \A d \in Requests : pc'[d] = "idle"
      BY <1>0, <1>8 DEF Crash
    <2> QED BY <1>8, <2>1, Moving DEF Crash, Vetting
  <1>9. ASSUME UNCHANGED apiVars PROVE LivesInv'
    BY <1>9, Moving DEF apiVars, tokenVars, access
  <1> QED
    BY <1>1, <1>2, <1>3, <1>4, <1>5, <1>6, <1>7, <1>8, <1>9, TurningAwayStep, PresentingStep
    DEF Next, Outside, Arrive, Proceed

\* A request is vetted by asking the denylist, and by nothing else.
LEMMA VettedByLookup ==
  ASSUME TypeOK, [Next]_apiVars, NEW c \in Requests, c \notin vetted, c \in vetted'
  PROVE  Lookup(c)
  <1>1. ASSUME NEW d \in Callers, Verify(d) PROVE Lookup(c)
    BY <1>1 DEF Verify, TakeLock, PingAnswered, Cleared, Lookup, LookupFails,
                LookupUnreachable, StoreEntry, StoreEntryFails, StoreUnreachable,
                Admit, Leave, access
  <1>2. ASSUME NEW d \in Requests, Submit(d) PROVE FALSE
    BY <1>2 DEF Submit, Validate, Upload, Enqueue, access
  <1>3. ASSUME Outside PROVE FALSE
    BY <1>3 DEF Outside, TimePasses, Issue, Mint, NewToken, Revoke, Arrive, Present,
                TurnAway, CloseDenylist, access
  <1>4. ~Crash /\ ~UNCHANGED apiVars
    BY DEF Crash, apiVars, tokenVars, access
  <1> QED BY <1>1, <1>2, <1>3, <1>4 DEF Next, Proceed

LEMMA AdmittedAfterRevocation ==
  ASSUME TypeOK, LivesInv, [Next]_apiVars, NEW c \in Requests, c \notin vetted, c \in vetted'
  PROVE  ComesBackOnlyIfRevokedEarly(c)
  <1> DEFINE t == about[c]
  <1> SUFFICES ASSUME entry[t] # None
               PROVE  \/ entry[t].at < token[t].at + Leeway + Drift + (now - began[c])
                      \/ entry[t].asked # 0 /\ PerSec * entry[t].asked < Life
    BY DEF ComesBackOnlyIfRevokedEarly
  <1>1. /\ pc[c] = "ask" /\ ~Listed(t)
    BY VettedByLookup DEF Lookup, Leave
  <1>2. t \in Tokens /\ token[t] # None /\ token[t].jti /\ began[c] < token[t].exp + Leeway
    BY <1>1 DEF LivesInv, Standing, Vetting, Good
  <1>3. token[t] \in Claims /\ entry[t] \in Entries
    BY <1>2 DEF TypeOK
  <1>4. /\ token[t].exp <= token[t].at + Drift + token[t].life /\ token[t].life = Life
    BY <1>2 DEF LivesInv, Issued
  <1>5. entry[t].until = entry[t].at + EntryLife(entry[t].asked)
    BY <1>2 DEF LivesInv, Stored
  <1>6. now >= entry[t].until
    BY <1>1, <1>3, TimeAssumption DEF Listed, TypeOK, Entries
  <1>7. /\ now \in Int /\ began[c] \in Int /\ token[t].at \in Int /\ token[t].exp \in Int
        /\ entry[t].at \in Int /\ entry[t].asked \in TtlArgs
        /\ Leeway \in Int /\ Drift \in Int /\ Life \in Int
        /\ EntryLife(entry[t].asked) \in Int
    BY <1>3, Lives, TimeAssumption DEF TypeOK, Claims, Entries
  <1>8. \/ EntryLife(entry[t].asked) >= Life
        \/ entry[t].asked # 0 /\ PerSec * entry[t].asked < Life
    BY <1>7, EntryLasts
  <1> HIDE DEF t
  <1> QED BY <1>2, <1>4, <1>5, <1>6, <1>7, <1>8

\* The inductive invariant.
IInv == TypeOK /\ OneConnection /\ LivesInv

LEMMA Inductive == Spec => []IInv
  <1>1. Init => IInv
    BY TypeInit, ConnectionInit, LivesInit DEF IInv
  <1>2. IInv /\ [Next]_apiVars => IInv'
    BY TypeStep, ConnectionStep, LivesStep DEF IInv
  <1> QED BY <1>1, <1>2, PTL DEF Spec

\* The state keeps its types: no claim, entry, scope or form gets anywhere that
\* the code would not put it, and the count of connections is never negative.
THEOREM ApiTypeCorrect == Spec => []TypeOK
  <1>1. IInv => TypeOK
    BY DEF IInv
  <1> QED BY <1>1, Inductive, PTL

\* A token is good for the whole of its expires_in, if the leeway makes up for
\* the clock and for the fractions of a second that its claims lose.
THEOREM FullLifeCorrect == Spec => []FullLife
  <1>1. IInv => FullLife
    BY DEF IInv, LivesInv, Refused, FullLife
  <1> QED BY <1>1, Inductive, PTL

\* A revoked token is refused by every request that reaches the denylist, but for
\* one that was revoked in the first moments of its life or given a short entry.
THEOREM RevocationCorrect == Spec => RevokedIsRefused
  <1> DEFINE A == \A c \in Requests :
                    c \notin vetted /\ c \in vetted' => ComesBackOnlyIfRevokedEarly(c)
  <1>1. IInv /\ [Next]_apiVars => [A]_apiVars
    BY AdmittedAfterRevocation DEF IInv
  <1> HIDE DEF A
  <1>2. Spec => [][A]_apiVars
    BY <1>1, Inductive, PTL DEF Spec
  <1> QED BY <1>2 DEF RevokedIsRefused, A

-----------------------------------------------------------------------------
(* Forms. *)

\* The fields that are left out of a payload are those its model forbids, and no
\* other.
LEMMA ValidParses ==
  ASSUME NEW f, Valid(f)
  PROVE  Parses(Kind(f.route), Payload(Submitted(f)))
  <1> DEFINE s == Submitted(f)
             p == Payload(s)
  <1>1. FieldsValid(s)
    BY DEF Valid
  <1>2. CASE f.route = "/api/lkpd"
    <2>1. s = [user |-> f.ids, callback |-> f.callback, activity |-> Count(f, "activity")]
      BY <1>2 DEF Submitted
    <2>2. DOMAIN s = {"user", "callback", "activity"}
      BY <2>1
    <2>3. DOMAIN p = {"user", "activity"} /\ \A x \in DOMAIN p : p[x] = s[x]
      BY <2>2 DEF Payload, Restrict
    <2>4. FieldsValid(p)
      BY <1>1, <2>2, <2>3 DEF FieldsValid
    <2> QED BY <1>2, <2>3, <2>4 DEF Parses, UploadFields, Kind
  <1>3. CASE f.route # "/api/lkpd"
    <2> DEFINE types == IF f.route = "/api/material" THEN f.types ELSE <<Alias[f.route]>>
    <2>1. s = [user |-> f.ids, tracking |-> f.ids, callback |-> f.callback,
               types |-> types,
               mcq |-> Count(f, "mcq"), essay |-> Count(f, "essay"),
               summary |-> Count(f, "summary")]
      BY <1>3 DEF Submitted
    <2> HIDE DEF types
    <2>2. DOMAIN s = {"user", "tracking", "callback", "types", "mcq", "essay", "summary"}
      BY <2>1
    <2>3. /\ DOMAIN p = {"user", "types", "mcq", "essay", "summary"}
          /\ \A x \in DOMAIN p : p[x] = s[x]
      BY <2>2 DEF Payload, Restrict
    <2> HIDE DEF p, s
    <2>4. FieldsValid(p)
      BY <1>1, <2>2, <2>3 DEF FieldsValid
    <2> QED BY <1>3, <2>3, <2>4 DEF Parses, UploadFields, Kind, Types, p, s
  <1> QED BY <1>2, <1>3

\* A form that waits for its upload or for the queue has passed the checks
\* before that.
Checked ==
    \A c \in Requests :
        /\ pc[c] \in {"upload", "enqueue"} => form[c] \in ValidForms
        /\ pc[c] = "enqueue" => AcceptsSize(form[c].bytes)

LEMMA CheckedStep == TypeOK /\ Checked /\ [Next]_apiVars => Checked'
  <1> SUFFICES ASSUME TypeOK, Checked, [Next]_apiVars
               PROVE  Checked'
    OBVIOUS
  <1>0. Requests \subseteq Callers
    BY DEF Callers
  <1>1. ASSUME UNCHANGED form,
               \A d \in Requests : pc'[d] = pc[d] \/ pc'[d] \notin {"upload", "enqueue"}
        PROVE  Checked'
    BY <1>1 DEF Checked
  <1>2. ASSUME NEW c \in Callers, NEW stage, stage \notin {"upload", "enqueue"},
               pc' = [pc EXCEPT ![c] = stage], UNCHANGED form
        PROVE  Checked'
    BY <1>0, <1>1, <1>2 DEF TypeOK
  <1>3. ASSUME NEW c \in Callers, Verify(c), UNCHANGED form PROVE Checked'
    <2>1. \E stage \in {"ask", "ping", "admitted", "idle"} : pc' = [pc EXCEPT ![c] = stage]
      BY <1>3 DEF Verify, TakeLock, PingAnswered, Cleared, Lookup, LookupFails,
                  LookupUnreachable, StoreEntry, StoreEntryFails, StoreUnreachable,
                  Admit, Leave, GoTo
    <2> QED BY <1>2, <1>3, <2>1
  <1>4. ASSUME Outside, UNCHANGED form PROVE Checked'
    <2>1. ASSUME NEW t \in Tokens, NEW r \in Revokers, Revoke(r, t) PROVE Checked'
      <3>1. \E stage \in {"ask", "wait"} : pc' = [pc EXCEPT ![r] = stage]
        BY <2>1 DEF Revoke, EnterDenylist, GoTo
      <3> QED BY <1>2, <1>4, <3>1 DEF Callers
    <2>2. ASSUME NEW t \in Tokens, NEW c \in Requests, NEW required \in Required,
                 Present(c, t, required)
          PROVE  Checked'
      <3>1. \E stage \in {"ask", "wait", "cleared"} : pc' = [pc EXCEPT ![c] = stage]
        BY <2>2 DEF Present, EnterDenylist, GoTo
      <3> QED BY <1>0, <1>2, <1>4, <3>1
    <2>3. ASSUME UNCHANGED pc PROVE Checked'
      BY <1>1, <1>4, <2>3
    <2> QED BY <1>4, <2>1, <2>2, <2>3
         DEF Outside, TimePasses, Issue, Mint, NewToken, Arrive, TurnAway, CloseDenylist
  <1>5. ASSUME NEW c \in Requests, NEW f \in Forms, Validate(c, f) PROVE Checked'
    <2>1. \A d \in Requests \ {c} : pc'[d] = pc[d] /\ form'[d] = form[d]
      BY <1>0, <1>5 DEF Validate, Done, GoTo, TypeOK
    <2>2. pc'[c] = "idle" \/ (pc'[c] = "upload" /\ form'[c] = f /\ f \in ValidForms)
      BY <1>0, <1>5 DEF Validate, Done, GoTo, TypeOK
    <2> QED BY <2>1, <2>2 DEF Checked
  <1>6. ASSUME NEW c \in Requests, Upload(c) PROVE Checked'
    <2>1. \A d \in Requests \ {c} : pc'[d] = pc[d] /\ form'[d] = form[d]
      <3>1. /\ \E stage \in Stages : pc' = [pc EXCEPT ![c] = stage]
            /\ form' = form \/ form' = [form EXCEPT ![c] = None]
        BY <1>6 DEF Upload, Done, GoTo, Stages
      <3> QED BY <1>0, <3>1 DEF TypeOK
    <2>2. \/ pc'[c] = "idle"
          \/ /\ pc[c] = "upload" /\ pc'[c] = "enqueue" /\ form'[c] = form[c]
             /\ AcceptsSize(form[c].bytes)
      BY <1>0, <1>6 DEF Upload, Done, GoTo, TypeOK
    <2> QED BY <2>1, <2>2 DEF Checked
  <1>7. ASSUME NEW c \in Requests, Enqueue(c) PROVE Checked'
    <2>1. \A d \in Requests \ {c} : pc'[d] = pc[d] /\ form'[d] = form[d]
      BY <1>0, <1>7 DEF Enqueue, Done, GoTo, TypeOK
    <2>2. pc'[c] = "idle"
      BY <1>0, <1>7 DEF Enqueue, Done, GoTo, TypeOK
    <2> QED BY <2>1, <2>2 DEF Checked
  <1>8. ASSUME Crash PROVE Checked'
    <2>1. \A d \in Requests : pc'[d] = "idle"
      BY <1>0, <1>8 DEF Crash
    <2> QED BY <2>1 DEF Checked
  <1>9. ASSUME UNCHANGED apiVars PROVE Checked'
    BY <1>1, <1>9 DEF apiVars, tokenVars
  <1> QED BY <1>3, <1>4, <1>5, <1>6, <1>7, <1>8, <1>9 DEF Next, Proceed, Submit

\* What is queued is what the worker's own models and limits accept.
THEOREM QueuedIsParsableCorrect == Spec => []QueuedIsParsable
  <1>1. Init => Checked
    BY DEF Init, AccessInit, Checked, Callers
  <1>2. IInv /\ Checked /\ [Next]_apiVars => Checked'
    BY CheckedStep DEF IInv
  <1>3. Checked => QueuedIsParsable
    BY ValidParses DEF Checked, QueuedIsParsable, ValidForms, AcceptsSize, Fits
  <1> QED BY <1>1, <1>2, <1>3, Inductive, PTL DEF Spec

\* The defaults an alias route fills in, and the fields it does not read, never
\* make a documented form invalid.
LEMMA DocumentedIsValid ==
  ASSUME NEW f \in Forms, Documented(f)
  PROVE  Valid(f)
  <1>1. f.route \in Routes /\ f.callback \in {"url", Absent} /\ f.ids
    BY FormsAssumption DEF Documented
  <1>2. \A kind \in Counts : Count(f, kind) \in Ranges[kind]
    BY DefaultsInRange DEF Count, Documented
  <1>3. Types \subseteq Counts /\ Types = {"mcq", "essay", "summary"}
        /\ Counts = {"mcq", "essay", "summary", "activity"}
    BY DEF Types, Counts
  <1>4. CASE f.route = "/api/lkpd"
    <2>1. Submitted(f) = [user |-> f.ids, callback |-> f.callback,
                          activity |-> Count(f, "activity")]
      BY <1>4 DEF Submitted
    <2>2. FieldsValid(Submitted(f))
      BY <1>1, <1>2, <1>3, <2>1 DEF FieldsValid
    <2> QED BY <1>4, <2>1, <2>2 DEF Valid, Documented
  <1>5. CASE f.route # "/api/lkpd"
    <2> DEFINE types == IF f.route = "/api/material" THEN f.types ELSE <<Alias[f.route]>>
    <2>1. Submitted(f) = [user |-> f.ids, tracking |-> f.ids, callback |-> f.callback,
                          types |-> types,
                          mcq |-> Count(f, "mcq"), essay |-> Count(f, "essay"),
                          summary |-> Count(f, "summary")]
      BY <1>5 DEF Submitted
    <2>2. types # <<>> /\ Range(types) \subseteq Types /\ IsInjective(types)
      <3>1. CASE f.route = "/api/material"
        BY <3>1 DEF Documented
      <3>2. CASE f.route # "/api/material"
        <4>1. Alias[f.route] \in Types /\ types = <<Alias[f.route]>>
          BY <1>1, <1>5, <3>2 DEF Routes, MaterialRoutes, Alias, Types
        <4> QED BY <4>1 DEF Range, IsInjective
      <3> QED BY <3>1, <3>2
    <2> HIDE DEF types
    <2>3. FieldsValid(Submitted(f))
      BY <1>1, <1>2, <1>3, <2>1, <2>2 DEF FieldsValid
    <2> QED BY <1>1, <1>5, <2>1, <2>3 DEF Valid
  <1> QED BY <1>4, <1>5

LEMMA DocumentedStep ==
  ASSUME TypeOK, NEW c \in Requests
  PROVE  /\ pc[c] = "admitted" =>
             \A f \in DocumentedForms : Validate(c, f) => form'[c] = f
         /\ pc[c] = "upload" /\ form[c] \in DocumentedForms =>
             (Upload(c) => pc'[c] = "enqueue")
  <1>1. ASSUME NEW f \in DocumentedForms, Validate(c, f) PROVE form'[c] = f
    <2>1. f \in ValidForms
      BY DocumentedIsValid DEF DocumentedForms, ValidForms
    <2> QED BY <1>1, <2>1 DEF Validate, TypeOK
  <1>2. ASSUME form[c] \in DocumentedForms, Upload(c) PROVE pc'[c] = "enqueue"
    <2>1. form[c].bytes \in 1 .. MaxBytes
      BY <1>2 DEF DocumentedForms, Documented
    <2>2. AcceptsSize(form[c].bytes)
      BY <2>1, SubmissionAssumption DEF AcceptsSize
    <2> QED BY <1>2, <2>2 DEF Upload, GoTo, TypeOK, Callers
  <1> QED BY <1>1, <1>2

\* A form that keeps to the documentation of its endpoint gets to the queue.
THEOREM DocumentedIsQueuedCorrect == Spec => DocumentedIsQueued
  <1> DEFINE A == \A c \in Requests :
                    /\ pc[c] = "admitted" =>
                        \A f \in DocumentedForms : Validate(c, f) => form'[c] = f
                    /\ pc[c] = "upload" /\ form[c] \in DocumentedForms =>
                        (Upload(c) => pc'[c] = "enqueue")
  <1>1. IInv /\ [Next]_apiVars => [A]_apiVars
    BY DocumentedStep DEF IInv
  <1> HIDE DEF A
  <1>2. Spec => [][A]_apiVars
    BY <1>1, Inductive, PTL DEF Spec
  <1> QED BY <1>2 DEF DocumentedIsQueued, A
=============================================================================
