------------------------- MODULE TokenEndpointProofs -------------------------
(***************************************************************************)
(* Proofs about TokenEndpoint: the handler does to the limiter what the      *)
(* limiter's own specification allows, so everything proved about that one   *)
(* holds here; and the comparisons of a client's secret are spaced as the    *)
(* hits of its bucket are.                                                   *)
(***************************************************************************)
EXTENDS TokenEndpoint, TokenRateLimiterProofs

LEMMA EndpointStepIsLimiterStep == [EndpointNext]_endpointVars => [Next]_vars
  <1> SUFFICES ASSUME [EndpointNext]_endpointVars PROVE [Next]_vars
    OBVIOUS
  <1>1. ASSUME NEW ip \in Ips, NEW client \in Clients, NEW form \in Faults \cup {Fine},
               OauthToken(ip, client, form)
        PROVE  Next
    BY <1>1 DEF OauthToken, Next
  <1>2. CASE EndpointTick \/ EndpointReset
    BY <1>2 DEF EndpointTick, EndpointReset, Next
  <1>3. CASE UNCHANGED endpointVars
    BY <1>3 DEF endpointVars
  <1> QED BY <1>1, <1>2, <1>3 DEF EndpointNext

\* The token endpoint implements the rate limiter: whatever it is asked, its
\* buckets change as the limiter says.
THEOREM EndpointIsLimited == EndpointSpec => Spec
  <1>1. EndpointInit => Init
    BY DEF EndpointInit
  <1> QED BY <1>1, EndpointStepIsLimiterStep, PTL DEF EndpointSpec, Spec

-----------------------------------------------------------------------------
\* Every time in s is a time in h, and later ones come as much later at least.
Embeds(s, h) ==
    \E f \in [1 .. Len(s) -> 1 .. Len(h)] :
        /\ \A i \in 1 .. Len(s) : h[f[i]] = s[i]
        /\ \A i, j \in 1 .. Len(s) : i <= j => f[j] - f[i] >= j - i

LEMMA NothingEmbeds == Embeds(<<>>, <<>>)
  <1> DEFINE f == [i \in 1 .. Len(<<>>) |-> 1]
  <1>1. Len(<<>>) = 0 /\ \A i \in 1 .. Len(<<>>) : FALSE
    OBVIOUS
  <1>2. f \in [1 .. Len(<<>>) -> 1 .. Len(<<>>)]
    BY <1>1
  <1> HIDE DEF f
  <1> QED BY <1>1, <1>2 DEF Embeds

LEMMA EmbedsLonger ==
  ASSUME NEW s \in Seq(Times), NEW h \in Seq(Times), NEW time \in Times, Embeds(s, h)
  PROVE  Embeds(s, Append(h, time))
  <1>1. PICK f \in [1 .. Len(s) -> 1 .. Len(h)] :
          /\ \A i \in 1 .. Len(s) : h[f[i]] = s[i]
          /\ \A i, j \in 1 .. Len(s) : i <= j => f[j] - f[i] >= j - i
    BY DEF Embeds
  <1>2. /\ Len(h) \in Nat /\ Len(Append(h, time)) = Len(h) + 1
        /\ \A i \in 1 .. Len(h) : Append(h, time)[i] = h[i]
    OBVIOUS
  <1>3. /\ f \in [1 .. Len(s) -> 1 .. Len(Append(h, time))]
        /\ \A i \in 1 .. Len(s) : Append(h, time)[f[i]] = s[i]
    BY <1>1, <1>2
  <1> QED BY <1>1, <1>3 DEF Embeds

LEMMA EmbedsBoth ==
  ASSUME NEW s \in Seq(Times), NEW h \in Seq(Times), NEW time \in Times, Embeds(s, h)
  PROVE  Embeds(Append(s, time), Append(h, time))
  <1> DEFINE n == Len(s)
             m == Len(h)
             s2 == Append(s, time)
             h2 == Append(h, time)
  <1>1. PICK f \in [1 .. n -> 1 .. m] :
          /\ \A i \in 1 .. n : h[f[i]] = s[i]
          /\ \A i, j \in 1 .. n : i <= j => f[j] - f[i] >= j - i
    BY DEF Embeds
  <1>2. /\ n \in Nat /\ m \in Nat /\ Len(s2) = n + 1 /\ Len(h2) = m + 1
        /\ \A i \in 1 .. m : h2[i] = h[i]
        /\ \A i \in 1 .. n : s2[i] = s[i]
        /\ h2[m + 1] = time /\ s2[n + 1] = time
    OBVIOUS
  <1> DEFINE g == [i \in 1 .. n + 1 |-> IF i = n + 1 THEN m + 1 ELSE f[i]]
  <1> HIDE DEF n, m, s2, h2
  <1>3. \A i \in 1 .. n : f[i] \in 1 .. m /\ g[i] = f[i]
    BY <1>1, <1>2
  <1>4. g[n + 1] = m + 1 /\ g \in [1 .. n + 1 -> 1 .. m + 1]
    BY <1>2, <1>3
  <1> HIDE DEF g
  <1>5. \A i \in 1 .. n + 1 : h2[g[i]] = s2[i]
    <2>1. \A i \in 1 .. n : h2[g[i]] = s2[i]
      BY <1>1, <1>2, <1>3
    <2>2. h2[g[n + 1]] = s2[n + 1]
      BY <1>2, <1>4
    <2>3. \A i \in 1 .. n + 1 : i \in 1 .. n \/ i = n + 1
      BY <1>2
    <2> QED BY <2>1, <2>2, <2>3, Zenon
  <1>6. ASSUME NEW i \in 1 .. n + 1, NEW j \in 1 .. n + 1, i <= j
        PROVE  g[j] - g[i] >= j - i
    <2>1. CASE j \in 1 .. n
      <3>1. i \in 1 .. n
        BY <1>2, <1>6, <2>1
      <3>2. f[j] - f[i] >= j - i
        BY <1>1, <1>6, <2>1, <3>1
      <3> QED BY <1>3, <2>1, <3>1, <3>2
    <2>2. CASE j = n + 1 /\ i = n + 1
      BY <1>2, <1>4, <2>2
    <2>3. CASE j = n + 1 /\ i \in 1 .. n
      <3>1. n \in 1 .. n /\ i <= n
        BY <1>2, <2>3
      <3>2. f[n] - f[i] >= n - i /\ f[n] \in 1 .. m /\ f[i] \in 1 .. m
        BY <1>1, <1>3, <2>3, <3>1
      <3> QED BY <1>2, <1>3, <1>4, <2>3, <3>2
    <2> QED BY <1>2, <1>6, <2>1, <2>2, <2>3
  <1>7. /\ g \in [1 .. Len(s2) -> 1 .. Len(h2)]
        /\ \A i \in 1 .. Len(s2) : h2[g[i]] = s2[i]
        /\ \A i, j \in 1 .. Len(s2) : i <= j => g[j] - g[i] >= j - i
    BY <1>2, <1>4, <1>5, <1>6
  <1>8. Embeds(s2, h2)
    BY <1>7 DEF Embeds
  <1> QED BY <1>8 DEF s2, h2

LEMMA EmbeddedSpaced ==
  ASSUME NEW s \in Seq(Times), NEW h \in Seq(Times), NEW now \in Times, NEW n \in Nat,
         Embeds(s, h), Ordered(h, now), Spaced(h, n)
  PROVE  Spaced(s, n)
  <1>1. PICK f \in [1 .. Len(s) -> 1 .. Len(h)] :
          /\ \A i \in 1 .. Len(s) : h[f[i]] = s[i]
          /\ \A i, j \in 1 .. Len(s) : i <= j => f[j] - f[i] >= j - i
    BY DEF Embeds
  <1>2. ASSUME NEW i \in 1 .. Len(s), NEW j \in 1 .. Len(s), j = i + n
        PROVE  s[j] - s[i] >= Window
    <2>0. /\ i \in Int /\ j \in Int /\ n \in Nat /\ i <= j /\ j - i = n
          /\ Len(h) \in Nat /\ \A l \in 1 .. Len(h) : h[l] \in Times
      BY <1>2
    <2>1. f[i] \in 1 .. Len(h) /\ f[j] \in 1 .. Len(h) /\ f[j] - f[i] >= n
      BY <1>1, <2>0
    <2>2. f[i] + n \in 1 .. Len(h) /\ f[i] + n <= f[j]
      BY <2>1
    <2>3. h[f[i] + n] - h[f[i]] >= Window
      BY <2>1, <2>2 DEF Spaced
    <2>4. h[f[i] + n] <= h[f[j]]
      BY <2>1, <2>2 DEF Ordered
    <2>5. h[f[i]] \in Int /\ h[f[i] + n] \in Int /\ h[f[j]] \in Int /\ Window \in Int
      <3>1. Times \subseteq Int /\ Window \in Int
        BY LimitsAssumption DEF Times
      <3>2. h[f[i]] \in Times /\ h[f[i] + n] \in Times /\ h[f[j]] \in Times
        BY <2>0, <2>1, <2>2, Zenon
      <3> QED BY <3>1, <3>2
    <2>6. s[i] = h[f[i]] /\ s[j] = h[f[j]]
      BY <1>1
    <2> QED BY <2>3, <2>4, <2>5, <2>6
  <1> QED BY <1>2 DEF Spaced

-----------------------------------------------------------------------------
\* What is compared has a hit of its own in the client's bucket.
ComparedAreHits ==
    /\ EndpointTypeOK
    /\ \A k \in Clients : Embeds(compared[k], log[k])

LEMMA ComparedInit == EndpointInit => ComparedAreHits
  <1> SUFFICES ASSUME EndpointInit PROVE ComparedAreHits
    OBVIOUS
  <1>1. EndpointTypeOK
    BY DEF EndpointInit, EndpointTypeOK, Replies
  <1>2. ASSUME NEW k \in Clients PROVE Embeds(compared[k], log[k])
    <2>1. compared[k] = <<>> /\ log[k] = <<>>
      BY DEF EndpointInit, Init, Keys
    <2> QED BY <2>1, NothingEmbeds
  <1> QED BY <1>1, <1>2 DEF ComparedAreHits

LEMMA TokenStepCompares ==
  ASSUME Inv, ComparedAreHits, NEW ip \in Ips, NEW client \in Clients,
         NEW form \in Faults \cup {Fine}, OauthToken(ip, client, form)
  PROVE  ComparedAreHits'
  <1>1. /\ compared \in [Clients -> Seq(Times)] /\ log \in [Keys -> Seq(Times)]
        /\ clock \in Times /\ ip \notin Clients /\ Clients \subseteq Keys /\ ip \in Keys
    BY KeysAssumption DEF Inv, TypeOK, ComparedAreHits, EndpointTypeOK, Times, Keys
  <1>2. CASE (RefuseIp(ip, client) \/ RefuseClient(ip, client)) /\ RejectBusy(client, form)
    <2>1. compared' = compared /\ \A k \in Clients : log'[k] = log[k]
      BY <1>1, <1>2 DEF RefuseIp, RefuseClient, RejectBusy
    <2>2. reply' \in Replies
      BY <1>2 DEF RejectBusy, Replies
    <2> QED BY <2>1, <2>2 DEF ComparedAreHits, EndpointTypeOK
  <1>3. CASE Allow(ip, client) /\ Evaluate(client, form)
    <2>1. reply' \in Replies
      BY <1>3 DEF Evaluate, Replies
    <2>2. /\ log'[client] = Append(log[client], clock)
          /\ \A k \in Clients \ {client} : log'[k] = log[k]
      BY <1>1, <1>3 DEF Allow
    <2>3. CASE compared' = compared
      <3>1. Embeds(compared[client], log'[client])
        BY <1>1, <2>2, EmbedsLonger DEF ComparedAreHits
      <3>2. \A k \in Clients : Embeds(compared[k], log'[k])
        BY <2>2, <3>1 DEF ComparedAreHits
      <3> QED BY <2>1, <2>3, <3>2 DEF ComparedAreHits, EndpointTypeOK
    <2>4. CASE compared' = [compared EXCEPT ![client] = Append(@, clock)]
      <3>1. /\ compared'[client] = Append(compared[client], clock)
            /\ \A k \in Clients \ {client} : compared'[k] = compared[k]
            /\ compared' \in [Clients -> Seq(Times)]
        BY <1>1, <2>4
      <3>2. Embeds(compared'[client], log'[client])
        BY <1>1, <2>2, <3>1, EmbedsBoth DEF ComparedAreHits
      <3>3. \A k \in Clients : Embeds(compared'[k], log'[k])
        BY <2>2, <3>1, <3>2 DEF ComparedAreHits
      <3> QED BY <2>1, <3>1, <3>3 DEF ComparedAreHits, EndpointTypeOK, Times
    <2> QED BY <1>3, <2>3, <2>4 DEF Evaluate
  <1> QED BY <1>2, <1>3 DEF OauthToken

LEMMA ComparedStep == Inv /\ ComparedAreHits /\ [EndpointNext]_endpointVars => ComparedAreHits'
  <1> SUFFICES ASSUME Inv, ComparedAreHits, [EndpointNext]_endpointVars
               PROVE  ComparedAreHits'
    OBVIOUS
  <1>1. CASE EndpointTick
    BY <1>1 DEF EndpointTick, Tick, ComparedAreHits, EndpointTypeOK, Replies
  <1>2. CASE EndpointReset
    <2>1. EndpointTypeOK'
      BY <1>2 DEF EndpointReset, EndpointTypeOK, Replies
    <2>2. ASSUME NEW k \in Clients PROVE Embeds(compared'[k], log'[k])
      <3>1. compared'[k] = <<>> /\ log'[k] = <<>>
        BY <1>2 DEF EndpointReset, Reset, Keys
      <3> QED BY <3>1, NothingEmbeds
    <2> QED BY <2>1, <2>2 DEF ComparedAreHits
  <1>3. CASE UNCHANGED endpointVars
    BY <1>3 DEF endpointVars, vars, ComparedAreHits, EndpointTypeOK
  <1> QED BY <1>1, <1>2, <1>3, TokenStepCompares DEF EndpointNext

\* However the requests are made up, no window sees more comparisons of a
\* client's secret than its limit.
THEOREM ComparisonsSpacedCorrect == EndpointSpec => []ComparisonsSpaced
  <1>1. EndpointInit => Inv /\ ComparedAreHits
    BY InvInit, ComparedInit DEF EndpointInit
  <1>2. Inv /\ ComparedAreHits /\ [EndpointNext]_endpointVars => (Inv /\ ComparedAreHits)'
    BY InvStep, EndpointStepIsLimiterStep, ComparedStep
  <1>3. Inv /\ ComparedAreHits => ComparisonsSpaced
    <2> SUFFICES ASSUME Inv, ComparedAreHits, NEW k \in Clients,
                        NEW i \in DOMAIN compared[k], NEW j \in DOMAIN compared[k],
                        j = i + ClientLimit
                 PROVE  compared[k][j] - compared[k][i] >= Window
      BY DEF ComparisonsSpaced
    <2>1. /\ k \in Keys /\ Limit(k) = ClientLimit /\ ClientLimit \in Nat
          /\ compared[k] \in Seq(Times) /\ log[k] \in Seq(Times) /\ clock \in Times
      BY KeysAssumption, LimitsAssumption
      DEF Keys, Limit, Inv, TypeOK, ComparedAreHits, EndpointTypeOK, Times
    <2>2. Ordered(log[k], clock) /\ Spaced(log[k], ClientLimit)
      BY <2>1 DEF Inv, WindowInv
    <2>3. Spaced(compared[k], ClientLimit)
      BY <2>1, <2>2, EmbeddedSpaced DEF ComparedAreHits
    <2>4. DOMAIN compared[k] = 1 .. Len(compared[k])
      BY <2>1
    <2> QED BY <2>3, <2>4 DEF Spaced
  <1> QED BY <1>1, <1>2, <1>3, PTL DEF EndpointSpec
=============================================================================
