----------------------- MODULE TokenRateLimiterProofs -----------------------
(***************************************************************************)
(* Proofs about TokenRateLimiter, for any keys, limits, window and clock    *)
(* bound.                                                                   *)
(***************************************************************************)
EXTENDS TokenRateLimiter, SequenceTheorems, FiniteSetTheorems, TLAPS

Times == 0 .. MaxTime

\* bucket is what is left of history when d hits were popped, all outdated.
Tracks(bucket, history, now) ==
    \E d \in 0 .. Len(history) :
        /\ Len(bucket) = Len(history) - d
        /\ \A i \in 1 .. Len(bucket) : bucket[i] = history[d + i]
        /\ \A i \in 1 .. d : now - history[i] >= Window

\* Hits are recorded in the order of their times.
Ordered(history, now) ==
    /\ \A i, j \in 1 .. Len(history) : i <= j => history[i] <= history[j]
    /\ \A i \in 1 .. Len(history) : history[i] <= now

Spaced(history, n) ==
    \A i, j \in 1 .. Len(history) : j = i + n => history[j] - history[i] >= Window

\* The inductive invariant behind the window: what was popped is outdated.
WindowInv ==
    \A k \in Keys : /\ Tracks(hits[k], log[k], clock)
                    /\ Ordered(log[k], clock)
                    /\ Spaced(log[k], Limit(k))

-----------------------------------------------------------------------------
LEMMA LimitType == \A k \in Keys : Limit(k) \in Nat \ {0}
  BY LimitsAssumption DEF Limit, Keys

\* What the pruning loop leaves of a bucket.
LEMMA PrunedType ==
  ASSUME TypeOK, NEW k \in Keys, NEW b \in Pruned(k)
  PROVE  /\ b \in Seq(Times)
         /\ Len(b) <= Len(hits[k])
         /\ Len(b) > 0 => clock - b[1] < Window
         /\ \E d \in 0 .. Len(hits[k]) :
               /\ Len(b) = Len(hits[k]) - d
               /\ \A i \in 1 .. Len(b) : b[i] = hits[k][d + i]
               /\ \A i \in 1 .. d : clock - hits[k][i] >= Window
  <1> DEFINE s == hits[k]
  <1>1. s \in Seq(Times)
    BY DEF TypeOK, Times
  <1>2. PICK d \in 0 .. Len(s) :
          /\ b = SubSeq(s, d + 1, Len(s))
          /\ \A i \in 1 .. d : Outdated(s[i])
          /\ d < Len(s) => ~Outdated(s[d + 1])
    BY DEF Pruned
  <1>3. Len(s) \in Nat /\ \A i \in 1 .. Len(s) : s[i] \in Times
    BY <1>1
  <1>4. \A i \in d + 1 .. Len(s) : s[i] \in Times
    BY <1>3
  <1> HIDE DEF s
  <1>5. /\ b \in Seq(Times)
        /\ Len(b) = IF d + 1 <= Len(s) THEN Len(s) - (d + 1) + 1 ELSE 0
        /\ \A i \in 1 .. Len(s) - (d + 1) + 1 : b[i] = s[(d + 1) + i - 1]
    <2>1. d + 1 \in Int /\ Len(s) \in Int
      BY <1>3
    <2>2. /\ SubSeq(s, d + 1, Len(s)) \in Seq(Times)
          /\ Len(SubSeq(s, d + 1, Len(s)))
               = IF d + 1 <= Len(s) THEN Len(s) - (d + 1) + 1 ELSE 0
          /\ \A i \in 1 .. Len(s) - (d + 1) + 1 :
               SubSeq(s, d + 1, Len(s))[i] = s[(d + 1) + i - 1]
      BY <1>4, <2>1, SubSeqProperties
    <2>3. b = SubSeq(s, d + 1, Len(s))
      BY <1>2
    <2> QED BY <2>2, <2>3, Zenon
  <1>6. Len(b) = Len(s) - d /\ \A i \in 1 .. Len(b) : b[i] = s[d + i]
    BY <1>3, <1>5
  <1>7. Len(b) > 0 => clock - b[1] < Window
    <2>1. ASSUME Len(b) > 0 PROVE ~Outdated(s[d + 1]) /\ b[1] = s[d + 1] /\ s[d + 1] \in Int
      BY <1>2, <1>3, <1>6, <2>1 DEF Times
    <2> QED BY <2>1, LimitsAssumption DEF Outdated, TypeOK
  <1>8. \A i \in 1 .. d : clock - s[i] >= Window
    BY <1>2 DEF Outdated
  <1>9. Len(b) <= Len(s)
    BY <1>3, <1>6
  <1>10. \E e \in 0 .. Len(s) :
            /\ Len(b) = Len(s) - e
            /\ \A i \in 1 .. Len(b) : b[i] = s[e + i]
            /\ \A i \in 1 .. e : clock - s[i] >= Window
    BY <1>6, <1>8, Zenon
  <1> USE DEF s
  <1>11. b \in Seq(Times)
    BY <1>5
  <1> QED BY <1>7, <1>9, <1>10, <1>11, Zenon

\* A pruned bucket still tracks the history.
LEMMA PrunedTracks ==
  ASSUME TypeOK, NEW k \in Keys, NEW b \in Pruned(k), Tracks(hits[k], log[k], clock)
  PROVE  Tracks(b, log[k], clock)
  <1>1. PICK d \in 0 .. Len(hits[k]) :
          /\ Len(b) = Len(hits[k]) - d
          /\ \A i \in 1 .. Len(b) : b[i] = hits[k][d + i]
          /\ \A i \in 1 .. d : clock - hits[k][i] >= Window
    BY PrunedType
  <1>2. PICK e \in 0 .. Len(log[k]) :
          /\ Len(hits[k]) = Len(log[k]) - e
          /\ \A i \in 1 .. Len(hits[k]) : hits[k][i] = log[k][e + i]
          /\ \A i \in 1 .. e : clock - log[k][i] >= Window
    BY DEF Tracks
  <1>3. Len(hits[k]) \in Nat /\ Len(log[k]) \in Nat
    BY DEF TypeOK
  <1>4. d + e \in 0 .. Len(log[k]) /\ Len(b) = Len(log[k]) - (d + e)
    BY <1>1, <1>2, <1>3
  <1>5. ASSUME NEW i \in 1 .. Len(b) PROVE b[i] = log[k][(d + e) + i]
    <2>1. d + i \in 1 .. Len(hits[k]) /\ e + (d + i) = (d + e) + i
      BY <1>1, <1>3, <1>4
    <2> QED BY <1>1, <1>2, <2>1
  <1>6. ASSUME NEW i \in 1 .. d + e PROVE clock - log[k][i] >= Window
    <2>1. CASE i <= e
      BY <1>2, <2>1
    <2>2. CASE i > e
      <3>1. i - e \in 1 .. d /\ i - e \in 1 .. Len(hits[k]) /\ e + (i - e) = i
        BY <1>1, <1>2, <1>3, <2>2
      <3>2. hits[k][i - e] = log[k][i]
        BY <1>2, <3>1
      <3> QED BY <1>1, <3>1, <3>2
    <2> QED BY <2>1, <2>2
  <1> QED BY <1>4, <1>5, <1>6 DEF Tracks

\* Appending the current time to a bucket below its limit and to its history.
LEMMA AppendKeeps ==
  ASSUME NEW b \in Seq(Times), NEW h \in Seq(Times), NEW n \in Nat \ {0},
         NEW now \in Times, Len(b) < n,
         Tracks(b, h, now), Ordered(h, now), Spaced(h, n)
  PROVE  /\ Tracks(Append(b, now), Append(h, now), now)
         /\ Ordered(Append(h, now), now)
         /\ Spaced(Append(h, now), n)
  <1> DEFINE c == Append(b, now)
             g == Append(h, now)
  <1>1. /\ Len(g) = Len(h) + 1 /\ g[Len(h) + 1] = now
        /\ \A i \in 1 .. Len(h) : g[i] = h[i]
        /\ Len(c) = Len(b) + 1 /\ c[Len(b) + 1] = now
        /\ \A i \in 1 .. Len(b) : c[i] = b[i]
    BY AppendProperties
  <1>2. Len(h) \in Nat /\ Len(b) \in Nat /\ now \in Nat /\ Window \in Nat \ {0}
        /\ \A i \in 1 .. Len(h) : h[i] \in Nat
    BY LimitsAssumption DEF Times
  <1>3. PICK d \in 0 .. Len(h) :
          /\ Len(b) = Len(h) - d
          /\ \A i \in 1 .. Len(b) : b[i] = h[d + i]
          /\ \A i \in 1 .. d : now - h[i] >= Window
    BY DEF Tracks
  <1> HIDE DEF c, g
  <1>len. /\ Len(g) = Len(h) + 1 /\ Len(c) = Len(b) + 1 /\ Len(b) = Len(h) - d
          /\ Len(h) \in Nat /\ Len(b) \in Nat /\ d \in Nat
    BY <1>1, <1>2, <1>3
  <1>4. Tracks(c, g, now)
    <2>1. d \in 0 .. Len(g) /\ Len(c) = Len(g) - d
      BY <1>1, <1>2, <1>3
    <2>2. ASSUME NEW i \in 1 .. Len(c) PROVE c[i] = g[d + i]
      <3>1. CASE i = Len(b) + 1
        BY <1>1, <1>2, <1>3, <3>1
      <3>2. CASE i # Len(b) + 1
        <4>1. i \in 1 .. Len(b) /\ d + i \in 1 .. Len(h)
          BY <1>len, <3>2
        <4> QED BY <1>1, <1>3, <4>1
      <3> QED BY <3>1, <3>2
    <2>3. ASSUME NEW i \in 1 .. d PROVE now - g[i] >= Window
      <3>1. i \in 1 .. Len(h)
        BY <1>len
      <3> QED BY <1>1, <1>3, <3>1
    <2> QED BY <2>1, <2>2, <2>3 DEF Tracks
  <1>5. Ordered(g, now)
    <2>1. \A i \in 1 .. Len(g) : g[i] <= now
      BY <1>1, <1>2 DEF Ordered
    <2>2. ASSUME NEW i \in 1 .. Len(g), NEW j \in 1 .. Len(g), i <= j PROVE g[i] <= g[j]
      <3>1. CASE j = Len(h) + 1
        BY <1>1, <2>1, <3>1
      <3>2. CASE j # Len(h) + 1
        <4>1. i \in 1 .. Len(h) /\ j \in 1 .. Len(h)
          BY <1>1, <1>2, <2>2, <3>2
        <4> QED BY <1>1, <2>2, <4>1 DEF Ordered
      <3> QED BY <3>1, <3>2
    <2> QED BY <2>1, <2>2 DEF Ordered
  <1>6. Spaced(g, n)
    <2> SUFFICES ASSUME NEW i \in 1 .. Len(g), NEW j \in 1 .. Len(g), j = i + n
                 PROVE  g[j] - g[i] >= Window
      BY DEF Spaced
    <2>1. CASE j = Len(h) + 1
      <3>1. i \in 1 .. d /\ i \in 1 .. Len(h)
        BY <1>len, <2>1
      <3>2. now - h[i] >= Window
        BY <1>3, <3>1
      <3> QED BY <1>1, <2>1, <3>1, <3>2
    <2>2. CASE j # Len(h) + 1
      <3>1. i \in 1 .. Len(h) /\ j \in 1 .. Len(h)
        BY <1>len, <2>2
      <3>2. h[j] - h[i] >= Window
        BY <3>1 DEF Spaced
      <3> QED BY <1>1, <3>1, <3>2
    <2> QED BY <2>1, <2>2
  <1> QED BY <1>4, <1>5, <1>6 DEF c, g

-----------------------------------------------------------------------------
\* One bucket that was pruned, and one that was pruned and got a hit.
LEMMA PrunedStep ==
  ASSUME TypeOK, WindowInv, NEW k \in Keys, NEW b \in Pruned(k)
  PROVE  /\ b \in Seq(Times) /\ Len(b) <= Limit(k)
         /\ Tracks(b, log[k], clock)
  BY PrunedType, PrunedTracks, LimitType DEF TypeOK, WindowInv

LEMMA HitStep ==
  ASSUME TypeOK, WindowInv, NEW k \in Keys, NEW b \in Pruned(k), ~Full(k, b)
  PROVE  /\ Append(b, clock) \in Seq(Times) /\ Len(Append(b, clock)) <= Limit(k)
         /\ Append(log[k], clock) \in Seq(Times)
         /\ Tracks(Append(b, clock), Append(log[k], clock), clock)
         /\ Ordered(Append(log[k], clock), clock)
         /\ Spaced(Append(log[k], clock), Limit(k))
  <1>1. /\ b \in Seq(Times) /\ log[k] \in Seq(Times) /\ clock \in Times
        /\ Len(b) \in Nat /\ Limit(k) \in Nat \ {0}
    BY PrunedType, LimitType DEF TypeOK, Times
  <1>2. Len(b) < Limit(k)
    BY <1>1 DEF Full
  <1>3. /\ Append(b, clock) \in Seq(Times) /\ Append(log[k], clock) \in Seq(Times)
        /\ Len(Append(b, clock)) = Len(b) + 1
    BY <1>1, AppendProperties
  <1>4. Tracks(b, log[k], clock) /\ Ordered(log[k], clock) /\ Spaced(log[k], Limit(k))
    BY PrunedTracks DEF WindowInv
  <1> QED BY <1>1, <1>2, <1>3, <1>4, AppendKeeps

-----------------------------------------------------------------------------
Inv == TypeOK /\ WindowInv

\* Answering keeps the rest of the types.
LEMMA AnswerType ==
  ASSUME TypeOK, NEW ip \in Ips, NEW client \in Clients,
         NEW v \in {"allowed", "ip_refused", "client_refused"}, Answer(v, ip, client)
  PROVE  /\ clock' = clock /\ clock' \in 0 .. MaxTime
         /\ verdict' \in {"none", "allowed", "ip_refused", "client_refused"}
         /\ asked' \in Ips \X Clients
  BY DEF Answer, TypeOK

\* What a step must establish of each bucket and its history.
BucketOK(k, bucket, history, now) ==
    /\ bucket \in Seq(Times) /\ Len(bucket) <= Limit(k)
    /\ history \in Seq(Times)
    /\ Tracks(bucket, history, now)
    /\ Ordered(history, now)
    /\ Spaced(history, Limit(k))

LEMMA InvHolds ==
  ASSUME clock \in Times,
         verdict \in {"none", "allowed", "ip_refused", "client_refused"},
         asked \in Ips \X Clients,
         hits = [k \in Keys |-> hits[k]], log = [k \in Keys |-> log[k]],
         \A k \in Keys : BucketOK(k, hits[k], log[k], clock)
  PROVE  Inv
  <1>1. hits \in [Keys -> Seq(Times)] /\ log \in [Keys -> Seq(Times)]
    BY DEF BucketOK
  <1> QED BY <1>1 DEF Inv, TypeOK, WindowInv, BucketOK, Times

LEMMA InvHoldsNext ==
  ASSUME clock' \in Times,
         verdict' \in {"none", "allowed", "ip_refused", "client_refused"},
         asked' \in Ips \X Clients,
         hits' = [k \in Keys |-> hits'[k]], log' = [k \in Keys |-> log'[k]],
         \A k \in Keys : BucketOK(k, hits'[k], log'[k], clock')
  PROVE  Inv'
  <1>1. hits' \in [Keys -> Seq(Times)] /\ log' \in [Keys -> Seq(Times)]
    BY DEF BucketOK
  <1> QED BY <1>1 DEF Inv, TypeOK, WindowInv, BucketOK, Times

LEMMA InvGives ==
  ASSUME Inv
  PROVE  /\ clock \in Times
         /\ hits = [k \in Keys |-> hits[k]] /\ log = [k \in Keys |-> log[k]]
         /\ \A k \in Keys : BucketOK(k, hits[k], log[k], clock)
  BY DEF Inv, TypeOK, WindowInv, BucketOK, Times

LEMMA InvInit == Init => Inv
  <1> SUFFICES ASSUME Init PROVE Inv
    OBVIOUS
  <1>1. ASSUME NEW k \in Keys PROVE BucketOK(k, hits[k], log[k], clock)
    <2>1. hits[k] = <<>> /\ log[k] = <<>>
      BY DEF Init
    <2> QED BY <2>1, LimitType DEF BucketOK, Tracks, Ordered, Spaced
  <1> QED BY <1>1, InvHolds, LimitsAssumption DEF Init, Times

LEMMA InvStep == Inv /\ [Next]_vars => Inv'
  <1> SUFFICES ASSUME Inv, [Next]_vars PROVE Inv'
    OBVIOUS
  <1>i. /\ clock \in Times
        /\ hits = [k \in Keys |-> hits[k]] /\ log = [k \in Keys |-> log[k]]
        /\ \A k \in Keys : BucketOK(k, hits[k], log[k], clock)
    BY InvGives
  <1>p. ASSUME NEW k \in Keys, NEW b \in Pruned(k)
        PROVE  BucketOK(k, b, log[k], clock)
    BY <1>i, PrunedStep DEF Inv, BucketOK
  <1>h. ASSUME NEW k \in Keys, NEW b \in Pruned(k), ~Full(k, b)
        PROVE  BucketOK(k, Append(b, clock), Append(log[k], clock), clock)
    BY <1>h, HitStep DEF Inv, BucketOK
  <1>k. /\ Ips \subseteq Keys /\ Clients \subseteq Keys
        /\ \A ip \in Ips, client \in Clients : ip # client
    BY KeysAssumption DEF Keys
  <1>1. ASSUME NEW ip \in Ips, NEW client \in Clients, RefuseIp(ip, client) PROVE Inv'
    <2>1. PICK b \in Pruned(ip) : hits' = [hits EXCEPT ![ip] = b]
      BY <1>1 DEF RefuseIp
    <2>2. log' = log /\ Answer("ip_refused", ip, client)
      BY <1>1 DEF RefuseIp
    <2>3. clock' = clock
      BY <2>2 DEF Answer
    <2>4. ASSUME NEW k \in Keys PROVE BucketOK(k, hits'[k], log'[k], clock')
      <3>1. CASE k = ip
        BY <1>i, <1>p, <2>1, <2>2, <2>3, <3>1
      <3>2. CASE k # ip
        BY <1>i, <2>1, <2>2, <2>3, <3>2
      <3> QED BY <3>1, <3>2
    <2>5. hits' = [k \in Keys |-> hits'[k]] /\ log' = [k \in Keys |-> log'[k]]
      BY <1>i, <2>1, <2>2
    <2> QED BY <2>2, <2>4, <2>5, AnswerType, InvHoldsNext DEF Inv, Times
  <1>2. ASSUME NEW ip \in Ips, NEW client \in Clients, RefuseClient(ip, client) PROVE Inv'
    <2>1. PICK b \in Pruned(ip), c \in Pruned(client) :
            /\ ~Full(ip, b)
            /\ hits' = [hits EXCEPT ![ip] = Append(b, clock), ![client] = c]
      BY <1>2 DEF RefuseClient
    <2>2. /\ log' = [log EXCEPT ![ip] = Append(@, clock)]
          /\ Answer("client_refused", ip, client)
      BY <1>2 DEF RefuseClient
    <2>3. clock' = clock /\ ip # client /\ ip \in Keys /\ client \in Keys
      BY <1>k, <2>2 DEF Answer
    <2>4. ASSUME NEW k \in Keys PROVE BucketOK(k, hits'[k], log'[k], clock')
      <3>1. CASE k = ip
        <4>1. hits'[k] = Append(b, clock) /\ log'[k] = Append(log[k], clock)
          BY <1>i, <2>1, <2>2, <2>3, <3>1
        <4> QED BY <1>h, <2>1, <2>3, <3>1, <4>1
      <3>2. CASE k = client
        <4>1. hits'[k] = c /\ log'[k] = log[k]
          BY <1>i, <2>1, <2>2, <2>3, <3>2
        <4> QED BY <1>p, <2>1, <2>3, <3>2, <4>1
      <3>3. CASE k \notin {ip, client}
        <4>1. hits'[k] = hits[k] /\ log'[k] = log[k]
          BY <1>i, <2>1, <2>2, <3>3
        <4> QED BY <1>i, <2>3, <4>1
      <3> QED BY <3>1, <3>2, <3>3
    <2>5. hits' = [k \in Keys |-> hits'[k]] /\ log' = [k \in Keys |-> log'[k]]
      BY <1>i, <2>1, <2>2
    <2> QED BY <2>2, <2>4, <2>5, AnswerType, InvHoldsNext DEF Inv, Times
  <1>3. ASSUME NEW ip \in Ips, NEW client \in Clients, Allow(ip, client) PROVE Inv'
    <2>1. PICK b \in Pruned(ip), c \in Pruned(client) :
            /\ ~Full(ip, b) /\ ~Full(client, c)
            /\ hits' = [hits EXCEPT ![ip] = Append(b, clock), ![client] = Append(c, clock)]
      BY <1>3 DEF Allow
    <2>2. /\ log' = [log EXCEPT ![ip] = Append(@, clock), ![client] = Append(@, clock)]
          /\ Answer("allowed", ip, client)
      BY <1>3 DEF Allow
    <2>3. clock' = clock /\ ip # client /\ ip \in Keys /\ client \in Keys
      BY <1>k, <2>2 DEF Answer
    <2>4. ASSUME NEW k \in Keys PROVE BucketOK(k, hits'[k], log'[k], clock')
      <3>1. CASE k = ip
        <4>1. hits'[k] = Append(b, clock) /\ log'[k] = Append(log[k], clock)
          BY <1>i, <2>1, <2>2, <2>3, <3>1
        <4> QED BY <1>h, <2>1, <2>3, <3>1, <4>1
      <3>2. CASE k = client
        <4>1. hits'[k] = Append(c, clock) /\ log'[k] = Append(log[k], clock)
          BY <1>i, <2>1, <2>2, <2>3, <3>2
        <4> QED BY <1>h, <2>1, <2>3, <3>2, <4>1
      <3>3. CASE k \notin {ip, client}
        <4>1. hits'[k] = hits[k] /\ log'[k] = log[k]
          BY <1>i, <2>1, <2>2, <3>3
        <4> QED BY <1>i, <2>3, <4>1
      <3> QED BY <3>1, <3>2, <3>3
    <2>5. hits' = [k \in Keys |-> hits'[k]] /\ log' = [k \in Keys |-> log'[k]]
      BY <1>i, <2>1, <2>2
    <2> QED BY <2>2, <2>4, <2>5, AnswerType, InvHoldsNext DEF Inv, Times
  <1>4. CASE Tick
    <2>1. clock' \in Times /\ clock' = clock + 1 /\ clock \in Int
      BY <1>4, <1>i, LimitsAssumption DEF Tick, Times
    <2>2. UNCHANGED <<hits, log, asked>> /\ verdict' = "none"
      BY <1>4 DEF Tick
    <2>3. ASSUME NEW k \in Keys PROVE BucketOK(k, hits[k], log[k], clock + 1)
      <3>1. \A i \in 1 .. Len(log[k]) : log[k][i] \in Int
        <4>1. log[k] \in Seq(Times)
          BY <1>i DEF BucketOK
        <4>2. Times \subseteq Int
          BY DEF Times
        <4>3. \A i \in 1 .. Len(log[k]) : log[k][i] \in Times
          BY <4>1
        <4> QED BY <4>2, <4>3, Zenon
      <3>2. Tracks(hits[k], log[k], clock + 1)
        <4>1. PICK d \in 0 .. Len(log[k]) :
                /\ Len(hits[k]) = Len(log[k]) - d
                /\ \A i \in 1 .. Len(hits[k]) : hits[k][i] = log[k][d + i]
                /\ \A i \in 1 .. d : clock - log[k][i] >= Window
          BY <1>i DEF BucketOK, Tracks
        <4>2. Len(log[k]) \in Nat /\ Window \in Nat
          BY <1>i, LimitsAssumption DEF BucketOK
        <4>3. ASSUME NEW i \in 1 .. d PROVE (clock + 1) - log[k][i] >= Window
          <5>1. log[k][i] \in Int /\ clock - log[k][i] >= Window
            BY <3>1, <4>1, <4>2
          <5> QED BY <2>1, <4>2, <5>1
        <4>4. \A i \in 1 .. d : (clock + 1) - log[k][i] >= Window
          BY <4>3
        <4> QED BY <4>1, <4>4, Zenon DEF Tracks
      <3>3. Ordered(log[k], clock + 1)
        BY <1>i, <2>1, <3>1 DEF BucketOK, Ordered
      <3> QED BY <1>i, <3>2, <3>3 DEF BucketOK
    <2>4. asked' \in Ips \X Clients
      BY <2>2 DEF Inv, TypeOK
    <2> QED BY <1>i, <2>1, <2>2, <2>3, <2>4, InvHoldsNext
  <1>5. CASE Reset
    <2>1. ASSUME NEW k \in Keys PROVE BucketOK(k, <<>>, <<>>, clock)
      BY LimitType DEF BucketOK, Tracks, Ordered, Spaced
    <2>2. /\ hits' = [k \in Keys |-> <<>>] /\ log' = [k \in Keys |-> <<>>]
          /\ verdict' = "none" /\ UNCHANGED <<clock, asked>>
      BY <1>5 DEF Reset
    <2>3. asked' \in Ips \X Clients
      BY <2>2 DEF Inv, TypeOK
    <2> QED BY <1>i, <2>1, <2>2, <2>3, InvHoldsNext
  <1>6. CASE UNCHANGED vars
    BY <1>6 DEF vars, Inv, TypeOK, WindowInv
  <1> QED BY <1>1, <1>2, <1>3, <1>4, <1>5, <1>6 DEF Next

\* Every variable keeps its type, and no bucket outgrows its limit
\* (rate_limit.py:31-34).
THEOREM RateTypeCorrect == Spec => []TypeOK
  <1>1. Inv => TypeOK
    BY DEF Inv
  <1> QED BY <1>1, InvInit, InvStep, PTL DEF Spec

\* Whatever the clients do, no window of the configured length holds more
\* hits of an IP or a client than its limit (rate_limit.py:28-35).
THEOREM RateWindowRespected == Spec => []WindowRespected
  <1>1. ASSUME Inv PROVE WindowRespected
    <2>1. ASSUME NEW k \in Keys PROVE DOMAIN log[k] = 1 .. Len(log[k])
      BY <1>1 DEF Inv, TypeOK
    <2> QED BY <1>1, <2>1 DEF Inv, WindowInv, Spaced, WindowRespected
  <1> QED BY <1>1, InvInit, InvStep, PTL DEF Spec

-----------------------------------------------------------------------------
\* The hits of a pruned bucket are hits of the history within the window.
LEMMA PrunedInWindow ==
  ASSUME Inv, NEW k \in Keys, NEW b \in Pruned(k)
  PROVE  Cardinality(InWindow(k)) >= Len(b)
  <1> DEFINE h == log[k]
  <1>1. /\ h \in Seq(Times) /\ Len(h) \in Nat /\ Len(b) \in Nat
        /\ clock \in Int /\ Window \in Nat
    BY PrunedType, LimitsAssumption DEF Inv, TypeOK, Times
  <1>2. Ordered(h, clock) /\ Tracks(b, h, clock)
    BY PrunedTracks DEF Inv, WindowInv
  <1>3. PICK d \in 0 .. Len(h) :
          /\ Len(b) = Len(h) - d
          /\ \A i \in 1 .. Len(b) : b[i] = h[d + i]
    BY <1>2 DEF Tracks
  <1>4. ASSUME NEW i \in d + 1 .. Len(h) PROVE i \in InWindow(k)
    <2>1. Len(b) > 0 /\ 1 \in 1 .. Len(b) /\ d + 1 \in 1 .. Len(h) /\ i \in 1 .. Len(h)
      BY <1>1, <1>3
    <2>2. clock - h[d + 1] < Window
      BY <1>3, <2>1, PrunedType DEF Inv
    <2>3. h[d + 1] <= h[i] /\ h[i] \in Times /\ h[d + 1] \in Times
      BY <1>1, <1>2, <2>1 DEF Ordered
    <2>4. clock - h[i] < Window
      BY <1>1, <2>2, <2>3 DEF Times
    <2> QED BY <1>1, <2>1, <2>4 DEF InWindow
  <1>5. IsFiniteSet(InWindow(k))
    <2>1. IsFiniteSet(1 .. Len(h))
      BY <1>1, FS_Interval
    <2>2. InWindow(k) \subseteq 1 .. Len(h)
      BY <1>1 DEF InWindow
    <2> QED BY <2>1, <2>2, FS_Subset
  <1>6. Cardinality(d + 1 .. Len(h)) = Len(b)
    <2>1. d + 1 \in Int /\ Len(h) \in Int
      BY <1>1
    <2>2. Cardinality(d + 1 .. Len(h)) = IF d + 1 > Len(h) THEN 0 ELSE Len(h) - (d + 1) + 1
      BY <2>1, FS_Interval
    <2> QED BY <1>1, <1>3, <2>2
  <1>7. Cardinality(d + 1 .. Len(h)) <= Cardinality(InWindow(k))
    <2>1. (d + 1 .. Len(h)) \in SUBSET InWindow(k)
      BY <1>4
    <2> QED BY <1>5, <2>1, FS_Subset
  <1>8. Cardinality(InWindow(k)) \in Nat
    BY <1>5, FS_CardinalityType
  <1> QED BY <1>1, <1>6, <1>7, <1>8

\* A call that is refused in a step met a window that was full.
LEMMA RefusedStep ==
  ASSUME Inv, RefusedOnlyWhenFull, [Next]_vars
  PROVE  RefusedOnlyWhenFull'
  <1>k. /\ Ips \subseteq Keys /\ Clients \subseteq Keys
        /\ \A ip \in Ips, client \in Clients : ip # client
    BY KeysAssumption DEF Keys
  <1>l. /\ \A ip \in Ips : Limit(ip) = IpLimit
        /\ \A client \in Clients : Limit(client) = ClientLimit
        /\ IpLimit \in Nat /\ ClientLimit \in Nat
    BY KeysAssumption, LimitsAssumption DEF Limit
  <1>t. log \in [Keys -> Seq(Times)]
    BY DEF Inv, TypeOK, Times
  <1>f. ASSUME NEW k \in Keys, NEW b \in Pruned(k), Full(k, b)
        PROVE  Cardinality(InWindow(k)) >= Limit(k)
    <2>1. IsFiniteSet(InWindow(k))
      <3>1. log[k] \in Seq(Times)
        BY <1>t
      <3>2. IsFiniteSet(1 .. Len(log[k]))
        BY <3>1, FS_Interval
      <3>3. InWindow(k) \subseteq 1 .. Len(log[k])
        BY <3>1 DEF InWindow
      <3> QED BY <3>2, <3>3, FS_Subset
    <2>2. Cardinality(InWindow(k)) \in Nat
      BY <2>1, FS_CardinalityType
    <2>3. Len(b) \in Nat /\ Limit(k) \in Nat
      BY PrunedType, LimitType DEF Inv
    <2> QED BY <1>f, <2>2, <2>3, PrunedInWindow DEF Full
  <1>1. ASSUME NEW ip \in Ips, NEW client \in Clients, RefuseIp(ip, client)
        PROVE  RefusedOnlyWhenFull'
    <2>1. /\ verdict' = "ip_refused" /\ asked'[1] = ip
          /\ UNCHANGED <<clock, log>>
      BY <1>1 DEF RefuseIp, Answer
    <2>2. PICK b \in Pruned(ip) : Full(ip, b)
      BY <1>1 DEF RefuseIp
    <2>3. Cardinality(InWindow(ip)) >= IpLimit
      BY <1>f, <1>k, <1>l, <2>2
    <2>4. InWindow(ip)' = InWindow(ip)
      BY <2>1 DEF InWindow
    <2> QED BY <2>1, <2>3, <2>4 DEF RefusedOnlyWhenFull, InWindow
  <1>2. ASSUME NEW ip \in Ips, NEW client \in Clients, RefuseClient(ip, client)
        PROVE  RefusedOnlyWhenFull'
    <2>1. /\ verdict' = "client_refused" /\ asked'[2] = client
          /\ UNCHANGED clock /\ log' = [log EXCEPT ![ip] = Append(@, clock)]
      BY <1>2 DEF RefuseClient, Answer
    <2>2. PICK c \in Pruned(client) : Full(client, c)
      BY <1>2 DEF RefuseClient
    <2>3. Cardinality(InWindow(client)) >= ClientLimit
      BY <1>f, <1>k, <1>l, <2>2
    <2>4. log'[client] = log[client]
      BY <1>k, <1>t, <2>1
    <2>5. InWindow(client)' = InWindow(client)
      BY <2>1, <2>4 DEF InWindow
    <2> QED BY <2>1, <2>3, <2>5 DEF RefusedOnlyWhenFull, InWindow
  <1>3. ASSUME NEW ip \in Ips, NEW client \in Clients, Allow(ip, client)
        PROVE  RefusedOnlyWhenFull'
    BY <1>3 DEF Allow, Answer, RefusedOnlyWhenFull
  <1>4. CASE Tick \/ Reset
    BY <1>4 DEF Tick, Reset, RefusedOnlyWhenFull
  <1>5. CASE UNCHANGED vars
    BY <1>5 DEF vars, RefusedOnlyWhenFull, InWindow
  <1> QED BY <1>1, <1>2, <1>3, <1>4, <1>5 DEF Next

\* A 429 is only answered to an IP or a client that used up its limit within
\* the last window (rate_limit.py:46-62).
THEOREM RateRefusedOnlyWhenFull == Spec => []RefusedOnlyWhenFull
  <1>1. Init => RefusedOnlyWhenFull
    BY DEF Init, RefusedOnlyWhenFull
  <1>2. Inv /\ RefusedOnlyWhenFull /\ [Next]_vars => RefusedOnlyWhenFull'
    BY RefusedStep
  <1> QED BY <1>1, <1>2, InvInit, InvStep, PTL DEF Spec
=============================================================================
