------------------------- MODULE JobPipelineAgreement -------------------------
(***************************************************************************)
(* What a client is told agrees with the record of its job, and a queued    *)
(* job is untouched: both for any number of submissions with ids of their   *)
(* own, under every incident but an LPUSH the Redis client sends twice.     *)
(* Two facts about callbacks follow, each with the incident it excludes.    *)
(***************************************************************************)
EXTENDS JobPipelineProofs, FiniteSetTheorems

\* The hypotheses of the two theorems.
OneRunPerId == UniqueIds /\ "redis_replay" \notin Incidents

Pushed == {"accepted", "refused"}

\* Nobody has worked on s yet.
Fresh(s) ==
    /\ received[s] = {}
    /\ records[IdOf[s]] = None \/ records[IdOf[s]] = NewRecord(s)

\* A record is stored under the id of its submission; the worker's copy is of
\* the job it holds.
KeyInv ==
    /\ \A j \in JobIds : records[j] # None => IdOf[records[j].sub] = j
    /\ snap # None => wstep = "write" /\ snap.sub = held

\* While its request is being handled, a submission is fresh and not at the worker.
HandlerInv ==
    \A s \in Subs : handler[s] \in HandlerSteps => Fresh(s) /\ ~AtWorker(s)

\* So is a submission whose id is queued.
QueueInv ==
    \A k \in Kinds, s \in Subs : \A i \in DOMAIN queues[k] :
        queues[k][i] = IdOf[s] =>
            KindOf[s] = k /\ handler[s] \in Pushed /\ Fresh(s) /\ ~AtWorker(s)

\* No id is queued twice.
OnceInv ==
    \A k \in Kinds : \A i, n \in DOMAIN queues[k] :
        queues[k][i] = queues[k][n] => i = n

PoppedInv ==
    \A s \in Subs : popped = IdOf[s] =>
        handler[s] \in Pushed /\ Fresh(s) /\ held # s

\* The worker has begun to call back.
Delivering ==
    \/ wstep \in {"send", "backoff"}
    \/ wstep \in {"read", "write"} /\ site \in {"acked", "nacked", "failed_delivery"}

\* Before the delivery nothing was sent; during it, only the outcome that the
\* record, and the copy about to be written, show.
HeldInv ==
    held # None =>
        /\ handler[held] \in Pushed
        /\ ~Delivering => received[held] = {}
        /\ Delivering =>
             /\ received[held] \subseteq {outcome}
             /\ records[IdOf[held]] = None \/ records[IdOf[held]].status = outcome
             /\ snap = None \/ snap.status = outcome

SafeInv ==
    /\ KeyInv /\ HandlerInv /\ QueueInv /\ OnceInv /\ PoppedInv /\ HeldInv
    /\ CallbackAgreesWithRecord

-----------------------------------------------------------------------------
LEMMA SafeInit == Init => SafeInv
  BY SubsAssumption, NoneAssumption
     DEF Init, SafeInv, KeyInv, HandlerInv, QueueInv, OnceInv, PoppedInv, HeldInv,
         CallbackAgreesWithRecord, Fresh, AtWorker, Delivering

\* What the worker does to a job it holds, or to none, leaves everything about
\* other jobs as it was.
LEMMA WorkerFrame ==
  ASSUME SafeInv, UNCHANGED <<handler, queues>>,
         \A s \in Subs : s # held => (Fresh(s) => Fresh(s)'),
         (held' = held \/ held' = None) /\ (popped' = popped \/ popped' = None)
  PROVE  HandlerInv' /\ QueueInv' /\ OnceInv' /\ PoppedInv'
  <1> USE SubsAssumption, NoneAssumption
  <1>1. \A s \in Subs : ~AtWorker(s) => ~AtWorker(s)'
    BY DEF AtWorker
  <1>2. \A s \in Subs : Fresh(s) /\ ~AtWorker(s) => Fresh(s)'
    BY DEF AtWorker
  <1>3. HandlerInv'
    BY <1>1, <1>2 DEF SafeInv, HandlerInv
  <1>4. QueueInv'
    BY <1>1, <1>2 DEF SafeInv, QueueInv
  <1>5. OnceInv'
    BY DEF SafeInv, OnceInv
  <1>6. PoppedInv'
    BY DEF SafeInv, PoppedInv
  <1> QED BY <1>3, <1>4, <1>5, <1>6

\* With ids of their own, the copy the worker writes back touches only the
\* record of the job it holds.
LEMMA WriteTouchesHeld ==
  ASSUME TypeInv, SafeInv, UniqueIds, wstep = "write", UNCHANGED received,
         WriteBack \/ UNCHANGED records
  PROVE  /\ \A s \in Subs : s # held => (Fresh(s) => Fresh(s)')
         /\ \A j \in JobIds : records'[j] # None => IdOf[records'[j].sub] = j
  <1>1. held \in Subs /\ IdOf[held] \in JobIds /\ snap \in Record
    BY SubsAssumption DEF TypeInv, TypeOK, WorkerOK, Busy
  <1>2. \A s \in Subs : s # held => records'[IdOf[s]] = records[IdOf[s]]
    BY <1>1, SubsAssumption DEF TypeInv, TypeOK, WriteBack, UniqueIds
  <1>3. Updated(snap).sub = held
    BY DEF Updated, SafeInv, KeyInv, TypeInv, WorkerOK
  <1>4. \A j \in JobIds : records'[j] # None => IdOf[records'[j].sub] = j
    BY <1>1, <1>3 DEF TypeInv, TypeOK, WriteBack, SafeInv, KeyInv
  <1> QED BY <1>2, <1>4 DEF Fresh

\* What the held job's record shows after the write.
LEMMA WriteStatus ==
  ASSUME TypeInv, SafeInv, wstep = "write", WriteBack
  PROVE  records'[IdOf[held]].status = NewStatus(snap)
  <1>1. held \in Subs /\ IdOf[held] \in JobIds
    BY SubsAssumption DEF TypeInv, TypeOK, WorkerOK, Busy
  <1> QED BY <1>1 DEF TypeInv, TypeOK, WriteBack, Updated

\* Writing back keeps callbacks and records in agreement.
LEMMA WriteAgrees ==
  ASSUME TypeInv, SafeInv, UniqueIds, wstep = "write", UNCHANGED received,
         WriteBack \/ UNCHANGED records
  PROVE  CallbackAgreesWithRecord'
  <1>1. CASE UNCHANGED records
    BY <1>1 DEF SafeInv, CallbackAgreesWithRecord
  <1>2. CASE WriteBack
    <2>1. held \in Subs /\ held # None /\ snap # None /\ site # "none"
      BY DEF TypeInv, TypeOK, WorkerOK, Busy
    <2>2. SUFFICES ASSUME NEW s \in Subs, NEW o \in received[s]
                   PROVE  \/ records'[IdOf[s]] = None
                          \/ records'[IdOf[s]].status \in {o, "failed_delivery"}
      BY DEF CallbackAgreesWithRecord
    <2>3. CASE s # held
      <3>1. records'[IdOf[s]] = records[IdOf[s]]
        BY <1>2, <2>1, <2>3, SubsAssumption DEF TypeInv, TypeOK, WriteBack, UniqueIds
      <3> QED BY <3>1 DEF SafeInv, CallbackAgreesWithRecord
    <2>4. CASE s = held
      <3>1. Delivering /\ o = outcome /\ snap.status = outcome
        BY <2>1, <2>4 DEF SafeInv, HeldInv
      <3>2. records'[IdOf[s]].status = NewStatus(snap)
        BY <1>2, <2>4, WriteStatus
      <3>3. NewStatus(snap) \in {outcome, "failed_delivery"}
        BY <3>1 DEF NewStatus, Delivering, Statuses, Outcomes
      <3> QED BY <3>1, <3>2, <3>3
    <2> QED BY <2>3, <2>4
  <1> QED BY <1>1, <1>2

\* An update that returned.
LEMMA AfterUpdateSafe ==
  ASSUME TypeInv, SafeInv, UniqueIds, UNCHANGED <<handler, queues, received>>,
         AfterUpdate,
         \/ wstep = "read" /\ UNCHANGED records /\ records[IdOf[held]] = None
         \/ wstep = "write" /\ WriteBack
  PROVE  SafeInv'
  <1>1. held \in Subs /\ held # None /\ site \in Sites \ {"none"}
    BY DEF TypeInv, TypeOK, WorkerOK, Busy
  <1>2. /\ \A s \in Subs : s # held => (Fresh(s) => Fresh(s)')
        /\ \A j \in JobIds : records'[j] # None => IdOf[records'[j].sub] = j
        /\ CallbackAgreesWithRecord'
    <2>1. CASE wstep = "read" /\ UNCHANGED records
      BY <2>1 DEF Fresh, SafeInv, KeyInv, CallbackAgreesWithRecord
    <2>2. CASE wstep = "write" /\ WriteBack
      BY <2>2, WriteTouchesHeld, WriteAgrees
    <2> QED BY <2>1, <2>2
  <1>3. /\ records'[IdOf[held]] = None \/ records'[IdOf[held]].status = NewStatus(snap)
        /\ records'[IdOf[held]] = None \/ snap # None
    BY WriteStatus DEF TypeInv, WorkerOK
  <1>4. /\ snap' = None
        /\ (held' = held \/ held' = None) /\ (popped' = popped \/ popped' = None)
    BY DEF AfterUpdate, BeginDelivery, Goto, Release, NoJob
  <1>5. HeldInv'
    <2>1. CASE site = "processing"
      <3>1. wstep' = "generate" /\ site' = "none" /\ held' = held
        BY <2>1 DEF AfterUpdate, Goto, Outcomes
      <3>2. received[held] = {} /\ handler[held] \in Pushed
        BY <1>1, <2>1, <1>2 DEF SafeInv, HeldInv, Delivering, AfterUpdate
      <3> QED BY <3>1, <3>2 DEF HeldInv, Delivering
    <2>2. CASE site \in Outcomes
      <3>1. received[held] = {} /\ handler[held] \in Pushed /\ outcome = site
        BY <1>1, <2>2 DEF SafeInv, HeldInv, Delivering, TypeInv, WorkerOK, Outcomes
      <3>2. held' = None \/ (held' = held /\ outcome' = outcome)
        BY <2>2 DEF AfterUpdate, BeginDelivery, Goto, Release, NoJob, Outcomes
      <3>3. records'[IdOf[held]] = None \/ records'[IdOf[held]].status = outcome
        BY <1>3, <2>2, <3>1 DEF NewStatus, Statuses
      <3> QED BY <1>4, <3>1, <3>2, <3>3 DEF HeldInv
    <2>3. CASE site = "nacked"
      <3>1. /\ received[held] \subseteq {outcome} /\ handler[held] \in Pushed
            /\ snap = None \/ snap.status = outcome
        BY <1>1, <2>3 DEF SafeInv, HeldInv, Delivering
      <3>2. /\ held' = held /\ outcome' = outcome
            /\ wstep' = "backoff" \/ (wstep' = "read" /\ site' = "failed_delivery")
        BY <2>3 DEF AfterUpdate, Goto, delivery, Outcomes
      <3>3. records'[IdOf[held]] = None \/ records'[IdOf[held]].status = outcome
        BY <1>3, <2>3, <3>1 DEF NewStatus, Statuses, Outcomes
      <3> QED BY <1>4, <3>1, <3>2, <3>3 DEF HeldInv, Delivering
    <2>4. CASE site \in {"acked", "failed_delivery"}
      BY <2>4 DEF AfterUpdate, Release, NoJob, HeldInv, Outcomes
    <2> QED BY <1>1, <2>1, <2>2, <2>3, <2>4 DEF Sites, Outcomes
  <1>6. KeyInv'
    BY <1>2, <1>4 DEF KeyInv
  <1> QED BY <1>2, <1>4, <1>5, <1>6, WorkerFrame DEF SafeInv

\* An update that raised, whether or not Redis had applied the write.
LEMMA AfterUpdateErrorSafe ==
  ASSUME TypeInv, SafeInv, UniqueIds, UNCHANGED <<handler, queues, received>>,
         AfterUpdateError,
         \/ wstep = "read" /\ UNCHANGED records
         \/ wstep = "write" /\ (WriteBack \/ UNCHANGED records)
  PROVE  SafeInv'
  <1>1. held \in Subs /\ held # None /\ site \in Sites \ {"none"}
    BY DEF TypeInv, TypeOK, WorkerOK, Busy
  <1>2. /\ \A s \in Subs : s # held => (Fresh(s) => Fresh(s)')
        /\ \A j \in JobIds : records'[j] # None => IdOf[records'[j].sub] = j
        /\ CallbackAgreesWithRecord'
    <2>1. CASE wstep = "read" /\ UNCHANGED records
      BY <2>1 DEF Fresh, SafeInv, KeyInv, CallbackAgreesWithRecord
    <2>2. CASE wstep = "write" /\ (WriteBack \/ UNCHANGED records)
      BY <2>2, WriteTouchesHeld, WriteAgrees
    <2> QED BY <2>1, <2>2
  <1>4. /\ snap' = None
        /\ (held' = held \/ held' = None) /\ (popped' = popped \/ popped' = None)
    BY DEF AfterUpdateError, SuccessNotRecorded, AckNotRecorded, Goto, Release, NoJob
  <1>5. HeldInv'
    <2>1. CASE site = "succeeded"
      <3>1. received[held] = {} /\ handler[held] \in Pushed
        BY <1>1, <2>1 DEF SafeInv, HeldInv, Delivering
      <3>2. wstep' = "read" /\ site' = "failed_processing" /\ held' = held
        BY <2>1 DEF AfterUpdateError, SuccessNotRecorded, Goto
      <3> QED BY <3>1, <3>2 DEF HeldInv, Delivering
    <2>2. CASE site = "acked"
      <3>1. /\ received[held] \subseteq {outcome} /\ handler[held] \in Pushed
            /\ snap = None \/ snap.status = outcome
            /\ records[IdOf[held]] = None \/ records[IdOf[held]].status = outcome
        BY <1>1, <2>2 DEF SafeInv, HeldInv, Delivering
      <3>2. held' = held /\ outcome' = outcome /\ wstep' = "read" /\ site' = "nacked"
        BY <2>2 DEF AfterUpdateError, AckNotRecorded, Goto
      <3>3. records'[IdOf[held]] = None \/ records'[IdOf[held]].status = outcome
        <4>1. CASE UNCHANGED records
          BY <3>1, <4>1
        <4>2. CASE wstep = "write" /\ WriteBack
          <5>1. snap # None
            BY <4>2 DEF TypeInv, WorkerOK
          <5>2. NewStatus(snap) = outcome
            BY <2>2, <3>1, <5>1 DEF NewStatus, Statuses, Outcomes
          <5> QED BY <4>2, <5>2, WriteStatus
        <4> QED BY <4>1, <4>2
      <3> QED BY <1>4, <3>1, <3>2, <3>3 DEF HeldInv, Delivering
    <2>3. CASE site \notin {"succeeded", "acked"}
      BY <2>3 DEF AfterUpdateError, Release, NoJob, HeldInv
    <2> QED BY <2>1, <2>2, <2>3
  <1>6. KeyInv'
    BY <1>2, <1>4 DEF KeyInv
  <1> QED BY <1>2, <1>4, <1>5, <1>6, WorkerFrame DEF SafeInv

-----------------------------------------------------------------------------
\* A step that lets the worker go, or changes nothing but its step, with the
\* queues, the handlers and the history as they were.
LEMMA ReleaseSafe ==
  ASSUME SafeInv, Release, UNCHANGED <<handler, queues, records, received>>
  PROVE  SafeInv'
  <1>1. held' = None /\ popped' = None /\ snap' = None
    BY DEF Release, NoJob
  <1>2. KeyInv' /\ HeldInv' /\ CallbackAgreesWithRecord'
    BY <1>1 DEF SafeInv, KeyInv, HeldInv, CallbackAgreesWithRecord
  <1>3. \A s \in Subs : Fresh(s) => Fresh(s)'
    BY DEF Fresh
  <1> QED BY <1>1, <1>2, <1>3, WorkerFrame DEF SafeInv

\* Taking the head off a queue: what is left was behind it.
LEMMA TailOfQueue ==
  ASSUME NEW S, NEW q \in Seq(S), q # << >>
  PROVE  \A i \in DOMAIN Tail(q) :
            i \in Nat /\ i + 1 \in DOMAIN q /\ Tail(q)[i] = q[i + 1]
  OBVIOUS

\* BRPOP hands over the one occurrence of an id.
LEMMA PopSafe ==
  ASSUME TypeInv, SafeInv, Pop
  PROVE  SafeInv'
  <1> DEFINE k == PopKind
             q == queues[k]
  <1>1. k \in Kinds /\ q \in Seq(JobIds) /\ q # << >> /\ 1 \in DOMAIN q
    <2>1. k \in Kinds /\ q \in Seq(JobIds) /\ q # << >>
      BY DEF TypeInv, TypeOK, Pop, PopKind, Kinds
    <2> QED BY <2>1
  <1>2. popped' = q[1] /\ queues' = [queues EXCEPT ![k] = Tail(q)]
    BY <1>1 DEF Pop, PopTail
  <1>3. UNCHANGED <<handler, records, received, site, held, snap, outcome>> /\ wstep' = "fetch"
    BY DEF Pop, api, seen, delivery
  <1>4. \A s \in Subs : (Fresh(s) => Fresh(s)')
    BY <1>3 DEF Fresh
  <1>5. \A s \in Subs : popped' = IdOf[s] =>
           KindOf[s] = k /\ handler[s] \in Pushed /\ Fresh(s) /\ ~AtWorker(s)
    BY <1>1, <1>2 DEF SafeInv, QueueInv
  <1>6. \A n \in Kinds : \A i \in DOMAIN queues'[n] :
          \E h \in DOMAIN queues[n] :
             /\ queues'[n][i] = queues[n][h]
             /\ n = k => h = i + 1 /\ i \in Nat
             /\ n # k => h = i
    BY <1>1, <1>2, TailOfQueue DEF TypeInv, TypeOK
  <1>7. QueueInv'
    <2> SUFFICES ASSUME NEW n \in Kinds, NEW s \in Subs, NEW i \in DOMAIN queues'[n],
                        queues'[n][i] = IdOf[s]
                 PROVE  KindOf[s] = n /\ handler'[s] \in Pushed /\ Fresh(s)' /\ ~AtWorker(s)'
      BY DEF QueueInv
    <2>1. PICK h \in DOMAIN queues[n] : /\ queues'[n][i] = queues[n][h]
                                        /\ n = k => h = i + 1 /\ i \in Nat
                                        /\ n # k => h = i
      BY <1>6
    <2>2. KindOf[s] = n /\ handler[s] \in Pushed /\ Fresh(s) /\ ~AtWorker(s)
      BY <2>1 DEF SafeInv, QueueInv
    <2>3. popped' # IdOf[s]
      <3> SUFFICES ASSUME popped' = IdOf[s] PROVE FALSE
        OBVIOUS
      <3>1. n = k
        BY <1>5, <2>2
      <3>2. queues[n][h] = queues[n][1]
        BY <1>2, <2>1, <3>1
      <3>3. h = 1
        BY <1>1, <2>1, <3>1, <3>2 DEF SafeInv, OnceInv
      <3>4. i = 0 /\ i \in DOMAIN Tail(q)
        BY <1>1, <1>2, <2>1, <3>1, <3>3 DEF TypeInv, TypeOK
      <3> QED BY <1>1, <3>4
    <2> QED BY <1>3, <1>4, <2>2, <2>3 DEF AtWorker
  <1>8. OnceInv'
    <2> SUFFICES ASSUME NEW n \in Kinds, NEW i \in DOMAIN queues'[n],
                        NEW m \in DOMAIN queues'[n], queues'[n][i] = queues'[n][m]
                 PROVE  i = m
      BY DEF OnceInv
    <2> QED BY <1>6 DEF SafeInv, OnceInv
  <1>9. HandlerInv'
    <2>1. \A s \in Subs : handler[s] \in HandlerSteps => popped' # IdOf[s]
      BY <1>5 DEF HandlerSteps, Pushed
    <2> QED BY <1>3, <1>4, <2>1 DEF SafeInv, HandlerInv, AtWorker
  <1>10. PoppedInv'
    BY <1>3, <1>4, <1>5 DEF PoppedInv, AtWorker
  <1>11. HeldInv'
    BY <1>3 DEF SafeInv, HeldInv, Delivering, Pop
  <1>12. KeyInv' /\ CallbackAgreesWithRecord'
    BY <1>3 DEF Pop, SafeInv, KeyInv, CallbackAgreesWithRecord
  <1> QED BY <1>7, <1>8, <1>9, <1>10, <1>11, <1>12 DEF SafeInv

\* BRPOP raises, perhaps with the element gone.
LEMMA PopFailsSafe ==
  ASSUME TypeInv, SafeInv, PopFails
  PROVE  SafeInv'
  <1>1. CASE UNCHANGED queues
    BY <1>1, ReleaseSafe DEF PopFails, api, seen
  <1>2. CASE queues[PopKind] # << >> /\ PopTail
    <2> DEFINE k == PopKind
               q == queues[k]
    <2>1. k \in Kinds /\ q \in Seq(JobIds) /\ q # << >>
      BY <1>2 DEF TypeInv, TypeOK, PopKind, Kinds
    <2>2. queues' = [queues EXCEPT ![k] = Tail(q)]
      BY <1>2, <2>1 DEF PopTail
    <2>3. \A n \in Kinds : \A i \in DOMAIN queues'[n] :
            \E h \in DOMAIN queues[n] :
               /\ queues'[n][i] = queues[n][h]
               /\ n = k => h = i + 1 /\ i \in Nat
               /\ n # k => h = i
      BY <2>1, <2>2, TailOfQueue DEF TypeInv, TypeOK
    <2>4. /\ UNCHANGED <<handler, records, received>>
          /\ held' = None /\ popped' = None /\ snap' = None
      BY DEF PopFails, Release, NoJob, api, seen
    <2>5. \A s \in Subs : (Fresh(s) => Fresh(s)') /\ ~AtWorker(s)'
      BY <2>4, SubsAssumption, NoneAssumption DEF Fresh, AtWorker
    <2>6. QueueInv'
      <3> SUFFICES ASSUME NEW n \in Kinds, NEW s \in Subs, NEW i \in DOMAIN queues'[n],
                          queues'[n][i] = IdOf[s]
                   PROVE  KindOf[s] = n /\ handler'[s] \in Pushed /\ Fresh(s)' /\ ~AtWorker(s)'
        BY DEF QueueInv
      <3>1. KindOf[s] = n /\ handler[s] \in Pushed /\ Fresh(s)
        BY <2>3 DEF SafeInv, QueueInv
      <3> QED BY <2>4, <2>5, <3>1
    <2>7. OnceInv'
      <3> SUFFICES ASSUME NEW n \in Kinds, NEW i \in DOMAIN queues'[n],
                          NEW m \in DOMAIN queues'[n], queues'[n][i] = queues'[n][m]
                   PROVE  i = m
        BY DEF OnceInv
      <3> QED BY <2>3 DEF SafeInv, OnceInv
    <2>8. HandlerInv' /\ PoppedInv'
      BY <2>4, <2>5, SubsAssumption, NoneAssumption DEF SafeInv, HandlerInv, PoppedInv
    <2>9. KeyInv' /\ HeldInv' /\ CallbackAgreesWithRecord'
      BY <2>4 DEF SafeInv, KeyInv, HeldInv, CallbackAgreesWithRecord
    <2> QED BY <2>6, <2>7, <2>8, <2>9 DEF SafeInv
  <1> QED BY <1>1, <1>2 DEF PopFails

\* The job whose record is read is fresh.
LEMMA FetchSafe ==
  ASSUME TypeInv, SafeInv, Fetch
  PROVE  SafeInv'
  <1>1. CASE records[popped] = None
    BY <1>1, ReleaseSafe DEF Fetch, api, redis, seen
  <1>2. CASE records[popped] # None
    <2> DEFINE s == records[popped].sub
    <2>1. popped \in JobIds /\ s \in Subs /\ IdOf[s] = popped
      BY <1>2 DEF Fetch, TypeInv, TypeOK, WorkerOK, Record, SafeInv, KeyInv
    <2>2. handler[s] \in Pushed /\ Fresh(s)
      BY <2>1 DEF SafeInv, PoppedInv
    <2>3. /\ UNCHANGED <<handler, queues, records, received, snap, outcome>>
          /\ held' = s /\ popped' = None /\ wstep' = "read" /\ site' = "processing"
      BY <1>2 DEF Fetch, api, redis, seen, delivery
    <2>4. \A u \in Subs : Fresh(u) => Fresh(u)'
      BY <2>3 DEF Fresh
    <2>5. HandlerInv'
      BY <2>1, <2>2, <2>3, <2>4, SubsAssumption, NoneAssumption
         DEF SafeInv, HandlerInv, AtWorker, HandlerSteps, Pushed
    <2>6. QueueInv'
      <3>1. \A n \in Kinds : \A i \in DOMAIN queues[n] : queues[n][i] # IdOf[s]
        BY <2>1 DEF SafeInv, QueueInv, AtWorker
      <3> QED BY <2>3, <2>4, <3>1, SubsAssumption, NoneAssumption
              DEF SafeInv, QueueInv, AtWorker
    <2>7. PoppedInv' /\ OnceInv'
      BY <2>3, SubsAssumption, NoneAssumption DEF SafeInv, PoppedInv, OnceInv
    <2>8. HeldInv'
      BY <2>2, <2>3 DEF HeldInv, Delivering, Fresh
    <2>9. snap = None
      BY DEF Fetch, SafeInv, KeyInv
    <2>10. KeyInv' /\ CallbackAgreesWithRecord'
      BY <2>3, <2>9 DEF SafeInv, KeyInv, CallbackAgreesWithRecord
    <2> QED BY <2>5, <2>6, <2>7, <2>8, <2>10 DEF SafeInv
  <1> QED BY <1>1, <1>2

\* Steps of the worker that leave Redis and the history alone.
LEMMA QuietSafe ==
  ASSUME TypeInv, SafeInv, StartPoll \/ Generate \/ Backoff
  PROVE  SafeInv'
  <1>1. /\ UNCHANGED <<handler, queues, records, received, held, popped>>
        /\ snap = None /\ snap' = None
    BY DEF StartPoll, Generate, Backoff, Goto, api, redis, job, seen, delivery, SafeInv, KeyInv
  <1>2. \A s \in Subs : Fresh(s) => Fresh(s)'
    BY <1>1 DEF Fresh
  <1>3. HeldInv'
    <2>1. CASE StartPoll
      BY <1>1, <2>1 DEF StartPoll, SafeInv, HeldInv, Delivering, job, delivery
    <2>2. CASE Generate
      <3>1. held # None /\ received[held] = {}
        BY <2>2 DEF Generate, SafeInv, HeldInv, Delivering, TypeInv, WorkerOK, Busy
      <3> QED BY <1>1, <2>2, <3>1 DEF Generate, SafeInv, HeldInv, Delivering, Outcomes
    <2>3. CASE Backoff
      BY <1>1, <2>3 DEF Backoff, Goto, SafeInv, HeldInv, Delivering
    <2> QED BY <2>1, <2>2, <2>3
  <1>4. KeyInv' /\ CallbackAgreesWithRecord'
    BY <1>1 DEF SafeInv, KeyInv, CallbackAgreesWithRecord
  <1> QED BY <1>1, <1>2, <1>3, <1>4, WorkerFrame DEF SafeInv

\* The read half of update_job.
LEMMA UpdateReadSafe ==
  ASSUME TypeInv, SafeInv, UniqueIds, UpdateRead
  PROVE  SafeInv'
  <1>1. UNCHANGED <<handler, queues, records, received>> /\ wstep = "read"
    BY DEF UpdateRead, api, redis, seen
  <1>2. CASE records[IdOf[held]] = None
    BY <1>1, <1>2, AfterUpdateSafe DEF UpdateRead
  <1>3. CASE records[IdOf[held]] # None
    <2>1. /\ snap' = records[IdOf[held]] /\ wstep' = "write"
          /\ UNCHANGED <<site, popped, held, outcome>>
      BY <1>3 DEF UpdateRead, delivery
    <2>2. held \in Subs /\ IdOf[held] \in JobIds
      BY <1>1, SubsAssumption DEF TypeInv, TypeOK, WorkerOK, Busy
    <2>3. snap'.sub = held
      <3>1. IdOf[snap'.sub] = IdOf[held] /\ snap'.sub \in Subs
        BY <1>3, <2>1, <2>2 DEF SafeInv, KeyInv, TypeInv, TypeOK, Record
      <3> QED BY <2>2, <3>1 DEF UniqueIds
    <2>4. \A s \in Subs : Fresh(s) => Fresh(s)'
      BY <1>1 DEF Fresh
    <2>5. HeldInv'
      BY <1>1, <1>3, <2>1 DEF SafeInv, HeldInv, Delivering
    <2>6. KeyInv' /\ CallbackAgreesWithRecord'
      BY <1>1, <2>1, <2>3 DEF SafeInv, KeyInv, CallbackAgreesWithRecord
    <2> QED BY <1>1, <2>1, <2>4, <2>5, <2>6, WorkerFrame DEF SafeInv
  <1> QED BY <1>2, <1>3

\* A POST tells the outcome the record shows.
LEMMA SendSafe ==
  ASSUME TypeInv, SafeInv, UniqueIds, SendOk \/ SendFails
  PROVE  SafeInv'
  <1>1. /\ UNCHANGED <<handler, queues, records, outcome, held, popped>>
        /\ snap' = None /\ wstep = "send" /\ wstep' = "read"
        /\ site' \in {"acked", "nacked"}
    BY DEF SendOk, SendFails, Goto, api, redis, delivery
  <1>2. held \in Subs /\ held # None
    BY <1>1 DEF TypeInv, TypeOK, WorkerOK, Busy
  <1>3. /\ received' \in [Subs -> SUBSET Outcomes]
        /\ \A s \in Subs : s # held => received'[s] = received[s]
        /\ received'[held] \subseteq received[held] \cup {outcome}
    <2>1. received \in [Subs -> SUBSET Outcomes] /\ outcome \in Outcomes
      BY <1>1 DEF TypeInv, TypeOK, WorkerOK
    <2> QED BY <1>2, <2>1 DEF SendOk, SendFails, Deliver
  <1>4. /\ received[held] \subseteq {outcome} /\ handler[held] \in Pushed
        /\ records[IdOf[held]] = None \/ records[IdOf[held]].status = outcome
    BY <1>1, <1>2 DEF SafeInv, HeldInv, Delivering
  <1>5. \A s \in Subs : s # held => (Fresh(s) => Fresh(s)')
    BY <1>1, <1>3 DEF Fresh
  <1>6. HeldInv'
    BY <1>1, <1>3, <1>4 DEF HeldInv, Delivering
  <1>7. CallbackAgreesWithRecord'
    BY <1>1, <1>3, <1>4 DEF SafeInv, CallbackAgreesWithRecord
  <1>8. KeyInv'
    BY <1>1 DEF SafeInv, KeyInv
  <1> QED BY <1>1, <1>5, <1>6, <1>7, <1>8, WorkerFrame DEF SafeInv

\* All steps of the worker and their failures.
LEMMA WorkerSafe ==
  ASSUME TypeInv, SafeInv, UniqueIds, WorkerStep \/ WorkerFault
  PROVE  SafeInv'
  <1>1. CASE StartPoll \/ Generate \/ Backoff
    BY <1>1, QuietSafe
  <1>2. CASE PopTimeout \/ FetchFails \/ GenerateFailsSilently
    BY <1>2, ReleaseSafe DEF PopTimeout, FetchFails, GenerateFailsSilently, api, redis, seen
  <1>3. CASE UpdateWrite
    BY <1>3, AfterUpdateSafe DEF UpdateWrite, api, seen
  <1>4. CASE UpdateReadFails \/ UpdateWriteFails
    BY <1>4, AfterUpdateErrorSafe DEF UpdateReadFails, UpdateWriteFails, api, redis, seen
  <1> QED BY <1>1, <1>2, <1>3, <1>4, PopSafe, PopFailsSafe, FetchSafe, UpdateReadSafe,
             SendSafe
          DEF WorkerStep, WorkerFault

-----------------------------------------------------------------------------
\* A handler whose submission has an id of its own.
LEMMA SaveRecordSafe ==
  ASSUME TypeInv, SafeInv, UniqueIds, NEW s \in Subs, SaveRecord(s)
  PROVE  SafeInv'
  <1>1. /\ UNCHANGED <<queues, received, worker>> /\ handler[s] = "idle"
        /\ \A u \in Subs : u # s => handler'[u] = handler[u]
        /\ handler'[s] \in {"insert", "refused"}
    BY DEF SaveRecord, seen, TypeInv, TypeOK
  <1>2. UNCHANGED <<wstep, site, popped, held, snap, outcome>>
    BY <1>1 DEF worker, job, delivery
  <1>3. Fresh(s) /\ ~AtWorker(s)
    BY <1>1 DEF SafeInv, HandlerInv, HandlerSteps
  <1>4. IdOf[s] \in JobIds /\ NewRecord(s) # None
    BY SubsAssumption, NoneAssumption, NewRecordType
  <1>5. /\ \A j \in JobIds : j # IdOf[s] => records'[j] = records[j]
        /\ records'[IdOf[s]] \in {records[IdOf[s]], NewRecord(s)}
    BY <1>4 DEF SaveRecord, TypeInv, TypeOK
  <1>6. \A u \in Subs : u # s => records'[IdOf[u]] = records[IdOf[u]]
    BY <1>5, SubsAssumption DEF UniqueIds
  <1>7. \A u \in Subs : Fresh(u) => Fresh(u)'
    <2>1. Fresh(s)'
      BY <1>1, <1>3, <1>5 DEF Fresh
    <2> QED BY <1>1, <1>6, <2>1 DEF Fresh
  <1>8. \A u \in Subs : ~AtWorker(u) => ~AtWorker(u)'
    BY <1>2 DEF AtWorker
  <1>9. \A u \in Subs : handler[u] \in Pushed => handler'[u] \in Pushed
    BY <1>1 DEF Pushed
  <1>10. HandlerInv'
    BY <1>1, <1>3, <1>7, <1>8 DEF SafeInv, HandlerInv
  <1>11. QueueInv' /\ OnceInv'
    BY <1>1, <1>7, <1>8, <1>9 DEF SafeInv, QueueInv, OnceInv
  <1>12. PoppedInv'
    BY <1>2, <1>7, <1>9 DEF SafeInv, PoppedInv
  <1>13. HeldInv'
    <2>1. held # None => held \in Subs /\ held # s
      BY <1>3 DEF TypeInv, TypeOK, AtWorker
    <2> QED BY <1>1, <1>2, <1>6, <1>9, <2>1 DEF SafeInv, HeldInv, Delivering
  <1>14. KeyInv'
    BY <1>2, <1>5, <1>4 DEF SafeInv, KeyInv, NewRecord
  <1>15. CallbackAgreesWithRecord'
    <2>1. received'[s] = {}
      BY <1>1, <1>3 DEF Fresh
    <2> QED BY <1>1, <1>6, <2>1 DEF SafeInv, CallbackAgreesWithRecord
  <1> QED BY <1>10, <1>11, <1>12, <1>13, <1>14, <1>15 DEF SafeInv

\* Steps that change only how far a handler is, and not to a queued state.
LEMMA HandlerFrame ==
  ASSUME TypeInv, SafeInv, UNCHANGED <<records, queues, received, worker>>,
         \A u \in Subs : handler'[u] \in HandlerSteps => handler[u] \in HandlerSteps,
         \A u \in Subs : handler[u] \in Pushed => handler'[u] \in Pushed
  PROVE  SafeInv'
  <1>1. UNCHANGED <<wstep, site, popped, held, snap, outcome>>
    BY DEF worker, job, delivery
  <1>2. \A u \in Subs : (Fresh(u) <=> Fresh(u)') /\ (AtWorker(u) <=> AtWorker(u)')
    BY <1>1 DEF Fresh, AtWorker
  <1>3. HandlerInv' /\ QueueInv' /\ OnceInv'
    BY <1>2 DEF SafeInv, HandlerInv, QueueInv, OnceInv
  <1>4. PoppedInv'
    BY <1>1, <1>2 DEF SafeInv, PoppedInv
  <1>5. HeldInv' /\ KeyInv' /\ CallbackAgreesWithRecord'
    <2>1. held # None => held \in Subs
      BY DEF TypeInv, TypeOK
    <2> QED BY <1>1, <2>1 DEF SafeInv, HeldInv, Delivering, KeyInv, CallbackAgreesWithRecord
  <1> QED BY <1>3, <1>4, <1>5 DEF SafeInv

\* LPUSH of an id that is not queued.
LEMMA PushSafe ==
  ASSUME TypeInv, SafeInv, OneRunPerId, NEW s \in Subs, PushId(s)
  PROVE  SafeInv'
  <1>1. /\ UNCHANGED <<records, received, worker>> /\ handler[s] = "push"
        /\ \A u \in Subs : u # s => handler'[u] = handler[u]
        /\ handler'[s] \in Pushed
    BY DEF PushId, seen, Pushed, TypeInv, TypeOK
  <1>2. UNCHANGED <<wstep, site, popped, held, snap, outcome>>
    BY <1>1 DEF worker, job, delivery
  <1>3. CASE UNCHANGED queues
    BY <1>1, <1>3, HandlerFrame DEF HandlerSteps, Pushed
  <1>4. CASE Push(s)
    <2> DEFINE k == KindOf[s]
               q == queues[k]
    <2>1. k \in Kinds /\ q \in Seq(JobIds) /\ IdOf[s] \in JobIds
      BY SubsAssumption DEF TypeInv, TypeOK
    <2>2. queues' = [queues EXCEPT ![k] = Append(q, IdOf[s])]
      BY <1>4 DEF Push
    <2>3. \A n \in Kinds : \A i \in DOMAIN queues'[n] :
            \/ i \in DOMAIN queues[n] /\ queues'[n][i] = queues[n][i]
            \/ n = k /\ i = Len(q) + 1 /\ queues'[n][i] = IdOf[s]
      BY <2>1, <2>2 DEF TypeInv, TypeOK
    <2>4. Fresh(s) /\ ~AtWorker(s)
      BY <1>1 DEF SafeInv, HandlerInv, HandlerSteps
    <2>5. \A n \in Kinds : \A i \in DOMAIN queues[n] : queues[n][i] # IdOf[s]
      BY <1>1 DEF SafeInv, QueueInv, Pushed
    <2>6. \A u \in Subs : (Fresh(u) <=> Fresh(u)') /\ (AtWorker(u) <=> AtWorker(u)')
      BY <1>1, <1>2 DEF Fresh, AtWorker
    <2>7. \A u \in Subs : handler[u] \in Pushed => handler'[u] \in Pushed
      BY <1>1
    <2>8. QueueInv'
      <3> SUFFICES ASSUME NEW n \in Kinds, NEW u \in Subs, NEW i \in DOMAIN queues'[n],
                          queues'[n][i] = IdOf[u]
                   PROVE  KindOf[u] = n /\ handler'[u] \in Pushed /\ Fresh(u)' /\ ~AtWorker(u)'
        BY DEF QueueInv
      <3>1. CASE i \in DOMAIN queues[n] /\ queues'[n][i] = queues[n][i]
        <4>1. KindOf[u] = n /\ handler[u] \in Pushed /\ Fresh(u) /\ ~AtWorker(u)
          BY <3>1 DEF SafeInv, QueueInv
        <4> QED BY <4>1, <2>6, <2>7
      <3>2. CASE n = k /\ queues'[n][i] = IdOf[s]
        <4>1. u = s
          BY <3>2 DEF OneRunPerId, UniqueIds
        <4> QED BY <1>1, <2>4, <2>6, <3>2, <4>1
      <3> QED BY <2>3, <3>1, <3>2
    <2>9. OnceInv'
      <3> SUFFICES ASSUME NEW n \in Kinds, NEW i \in DOMAIN queues'[n],
                          NEW m \in DOMAIN queues'[n], queues'[n][i] = queues'[n][m]
                   PROVE  i = m
        BY DEF OnceInv
      <3> QED BY <2>3, <2>5 DEF SafeInv, OnceInv
    <2>10. HandlerInv'
      BY <1>1, <2>6 DEF SafeInv, HandlerInv, HandlerSteps, Pushed
    <2>11. PoppedInv'
      BY <1>2, <2>6, <2>7 DEF SafeInv, PoppedInv
    <2>12. HeldInv'
      <3>1. held # None => held \in Subs
        BY DEF TypeInv, TypeOK
      <3> QED BY <1>1, <1>2, <2>7, <3>1 DEF SafeInv, HeldInv, Delivering
    <2>13. KeyInv' /\ CallbackAgreesWithRecord'
      BY <1>1, <1>2 DEF SafeInv, KeyInv, CallbackAgreesWithRecord
    <2> QED BY <2>8, <2>9, <2>10, <2>11, <2>12, <2>13 DEF SafeInv
  <1> QED BY <1>3, <1>4 DEF PushId, OneRunPerId, Incident

-----------------------------------------------------------------------------
\* A record that expires disagrees with nothing.
LEMMA ExpireSafe ==
  ASSUME TypeInv, SafeInv, NEW e \in JobIds, Expire(e)
  PROVE  SafeInv'
  <1>1. UNCHANGED <<handler, queues, received, wstep, site, popped, held, snap, outcome>>
    BY DEF Expire, api, worker, job, delivery, seen
  <1>2. \A j \in JobIds : records'[j] = None \/ records'[j] = records[j]
    BY DEF Expire, TypeInv, TypeOK
  <1>3. \A u \in Subs : (Fresh(u) => Fresh(u)') /\ (AtWorker(u) <=> AtWorker(u)')
    BY <1>1, <1>2, SubsAssumption DEF Fresh, AtWorker
  <1>4. HandlerInv' /\ QueueInv' /\ OnceInv'
    BY <1>1, <1>3 DEF SafeInv, HandlerInv, QueueInv, OnceInv
  <1>5. PoppedInv'
    BY <1>1, <1>3 DEF SafeInv, PoppedInv
  <1>6. HeldInv'
    <2>1. held # None => IdOf[held] \in JobIds
      BY SubsAssumption DEF TypeInv, TypeOK
    <2> QED BY <1>1, <1>2, <2>1 DEF SafeInv, HeldInv, Delivering
  <1>7. KeyInv' /\ CallbackAgreesWithRecord'
    BY <1>1, <1>2, SubsAssumption DEF SafeInv, KeyInv, CallbackAgreesWithRecord
  <1> QED BY <1>4, <1>5, <1>6, <1>7 DEF SafeInv

\* A kill forgets the worker and the handlers, Redis keeps the rest.
LEMMA CrashSafe ==
  ASSUME TypeInv, SafeInv, Crash
  PROVE  SafeInv'
  <1>1. /\ UNCHANGED <<queues, records, received>>
        /\ held' = None /\ popped' = None /\ snap' = None
        /\ \A u \in Subs : handler'[u] \in {handler[u], "dropped"}
        /\ \A u \in Subs : handler[u] \in Pushed => handler'[u] = handler[u]
    BY DEF Crash, Release, NoJob, InFlight, Pushed, redis, seen
  <1>2. \A u \in Subs : (Fresh(u) => Fresh(u)') /\ ~AtWorker(u)'
    BY <1>1, SubsAssumption, NoneAssumption DEF Fresh, AtWorker
  <1>3. HandlerInv'
    BY <1>1, <1>2 DEF SafeInv, HandlerInv, HandlerSteps
  <1>4. QueueInv' /\ OnceInv'
    BY <1>1, <1>2 DEF SafeInv, QueueInv, OnceInv
  <1>5. PoppedInv' /\ HeldInv'
    BY <1>1, SubsAssumption, NoneAssumption DEF PoppedInv, HeldInv
  <1>6. KeyInv' /\ CallbackAgreesWithRecord'
    BY <1>1 DEF SafeInv, KeyInv, CallbackAgreesWithRecord
  <1> QED BY <1>3, <1>4, <1>5, <1>6 DEF SafeInv

LEMMA SafeStutter ==
  ASSUME TypeInv, SafeInv, UNCHANGED <<handler, records, queues, received, worker>>
  PROVE  SafeInv'
  BY HandlerFrame

\* The invariant holds in every behaviour.
LEMMA SafeInvariant ==
  ASSUME OneRunPerId
  PROVE  Spec => []SafeInv
  <1>1. TypeInv /\ SafeInv /\ [Next]_vars => SafeInv'
    <2> SUFFICES ASSUME TypeInv, SafeInv, [Next]_vars PROVE SafeInv'
      OBVIOUS
    <2>1. CASE \E s \in Subs : HandlerStep(s)
      <3>1. PICK s \in Subs : HandlerStep(s)
        BY <2>1
      <3>2. CASE SaveRecord(s)
        BY <3>2, SaveRecordSafe DEF OneRunPerId
      <3>3. CASE InsertRow(s)
        <4>1. /\ UNCHANGED <<records, queues, received, worker>>
              /\ \A u \in Subs : handler'[u] \in HandlerSteps => handler[u] \in HandlerSteps
              /\ \A u \in Subs : handler[u] \in Pushed => handler'[u] \in Pushed
          BY <3>3 DEF InsertRow, redis, seen, HandlerSteps, Pushed, TypeInv, TypeOK
        <4> QED BY <4>1, HandlerFrame
      <3>4. CASE PushId(s)
        BY <3>4, PushSafe
      <3> QED BY <3>1, <3>2, <3>3, <3>4 DEF HandlerStep
    <2>2. CASE WorkerStep \/ WorkerFault
      BY <2>2, WorkerSafe DEF OneRunPerId
    <2>3. CASE \E j \in JobIds : Expire(j)
      BY <2>3, ExpireSafe
    <2>4. CASE Lifespan
      BY <2>4, CrashSafe, SafeStutter
         DEF Lifespan, Stop, WorkerExit, Restart, redis, seen
    <2>5. CASE UNCHANGED vars
      BY <2>5, SafeStutter DEF vars, api, redis, seen
    <2> QED BY <2>1, <2>2, <2>3, <2>4, <2>5 DEF Next
  <1> QED BY <1>1, SafeInit, TypeInvariant, PTL DEF Spec

\* For submissions with ids of their own, and whatever incidents happen save a
\* resent LPUSH, no callback contradicts the record of its job.
THEOREM CallbackAgreement ==
  ASSUME OneRunPerId
  PROVE  Spec => []CallbackAgreesWithRecord
  <1>1. SafeInv => CallbackAgreesWithRecord
    BY DEF SafeInv
  <1> QED BY <1>1, SafeInvariant, PTL

\* Under the same hypotheses an id waits in the queues at most once, never
\* while the worker has its job, and its record is as it was submitted.
THEOREM QueuedUntouched ==
  ASSUME OneRunPerId
  PROVE  Spec => []QueuedAwaitsWorker
  <1>1. TypeInv /\ SafeInv => QueuedAwaitsWorker
    <2> SUFFICES ASSUME TypeInv, SafeInv, NEW s \in Subs, Occurrences(IdOf[s]) # {}
                 PROVE  /\ Cardinality(Occurrences(IdOf[s])) = 1
                        /\ ~AtWorker(s)
                        /\ records[IdOf[s]] = None \/ records[IdOf[s]] = NewRecord(s)
      BY DEF QueuedAwaitsWorker
    <2>1. PICK e \in Occurrences(IdOf[s]) : TRUE
      OBVIOUS
    <2>2. \A f \in Occurrences(IdOf[s]) :
            /\ f = <<f[1], f[2]>> /\ f[1] \in Kinds /\ f[2] \in DOMAIN queues[f[1]]
            /\ queues[f[1]][f[2]] = IdOf[s]
      BY DEF Occurrences
    <2>3. KindOf[s] = e[1] /\ Fresh(s) /\ ~AtWorker(s)
      BY <2>1, <2>2 DEF SafeInv, QueueInv
    <2>4. \A f \in Occurrences(IdOf[s]) : f = e
      <3> SUFFICES ASSUME NEW f \in Occurrences(IdOf[s]) PROVE f = e
        OBVIOUS
      <3>1. f[1] = e[1]
        BY <2>1, <2>2 DEF SafeInv, QueueInv
      <3>2. f[2] = e[2]
        BY <2>1, <2>2, <3>1 DEF SafeInv, OnceInv
      <3> QED BY <2>1, <2>2, <3>1, <3>2
    <2>5. Occurrences(IdOf[s]) = {e}
      BY <2>1, <2>4
    <2> QED BY <2>3, <2>5, FS_Singleton DEF Fresh
  <1> QED BY <1>1, SafeInvariant, TypeInvariant, PTL

-----------------------------------------------------------------------------
(***************************************************************************)
(* Two more facts about callbacks, each with the incident it excludes.      *)
(***************************************************************************)
\* The record of the job in hand is of a submission and has a status.
LEMMA HeldRecord ==
  ASSUME TypeInv, held # None
  PROVE  /\ held \in Subs /\ IdOf[held] \in JobIds
         /\ records[IdOf[held]] \in Record \cup {None} /\ snap \in Record \cup {None}
  BY SubsAssumption DEF TypeInv, TypeOK

\* What UpdateWrite puts under the id of the job in hand.
LEMMA Written ==
  ASSUME TypeInv, wstep = "write", WriteBack
  PROVE  /\ records'[IdOf[held]] = Updated(snap)
         /\ \A j \in JobIds : j # IdOf[held] => records'[j] = records[j]
  <1>1. held # None
    BY DEF TypeInv, WorkerOK, Busy
  <1> QED BY <1>1, HeldRecord DEF TypeInv, TypeOK, WriteBack

\* A submission answered 2xx was sent something, and the worker has only to
\* record the answer.
AckInv ==
    /\ \A s \in acked : received[s] # {}
    /\ held \in acked => wstep \in {"read", "write"} /\ site = "acked"

\* Only the job in hand is sent or answered.
LEMMA AckInvariant ==
  ASSUME OneRunPerId, "redis_error" \notin Incidents
  PROVE  Spec => []AckInv
  <1>1. Init => AckInv
    BY DEF Init, AckInv
  <1>2. TypeInv /\ SafeInv /\ AckInv /\ [Next]_vars => AckInv'
    <2> SUFFICES ASSUME TypeInv, SafeInv, AckInv, [Next]_vars PROVE AckInv'
      OBVIOUS
    <2>1. acked \subseteq Subs /\ None \notin acked /\ received \in [Subs -> SUBSET Outcomes]
      BY NoneAssumption DEF TypeInv, TypeOK
    <2>2. ASSUME UNCHANGED seen, held' = None \/ UNCHANGED <<held, wstep, site>>
          PROVE  AckInv'
      BY <2>1, <2>2 DEF AckInv, seen
    <2>3. CASE Release /\ UNCHANGED seen
      BY <2>2, <2>3 DEF Release, NoJob
    <2>4. CASE StartPoll \/ Pop \/ Generate \/ Backoff
      <3>1. wstep \notin {"read", "write"} /\ held' = held /\ UNCHANGED seen
        BY <2>4 DEF StartPoll, Pop, Generate, Backoff, Goto, job
      <3> QED BY <3>1 DEF AckInv, seen
    <2>5. CASE Fetch
      <3>1. CASE records[popped] = None
        BY <2>3, <2>5, <3>1 DEF Fetch
      <3>2. CASE records[popped] # None
        <4> DEFINE s == records[popped].sub
        <4>1. s \in Subs /\ IdOf[s] = popped
          BY <2>5, <3>2 DEF Fetch, TypeInv, TypeOK, WorkerOK, Record, SafeInv, KeyInv
        <4>2. received[s] = {}
          BY <4>1 DEF SafeInv, PoppedInv, Fresh
        <4>3. held' = s /\ UNCHANGED seen
          BY <2>5, <3>2 DEF Fetch
        <4> QED BY <4>2, <4>3 DEF AckInv, seen
      <3> QED BY <3>1, <3>2
    <2>6. CASE UpdateRead \/ UpdateWrite
      <3>1. wstep \in {"read", "write"} /\ UNCHANGED seen
        BY <2>6 DEF UpdateRead, UpdateWrite
      <3>2. CASE AfterUpdate
        <4>1. held' = held \/ held' = None
          BY <3>2 DEF AfterUpdate, BeginDelivery, Goto, Release, NoJob
        <4>2. held \in acked => held' = None
          BY <3>2 DEF AckInv, AfterUpdate, Release, NoJob, Outcomes
        <4> QED BY <2>1, <3>1, <4>1, <4>2 DEF AckInv, seen
      <3>3. CASE ~AfterUpdate
        <4>1. held' = held /\ site' = site /\ wstep' = "write"
          BY <2>6, <3>3 DEF UpdateRead, UpdateWrite
        <4> QED BY <3>1, <4>1 DEF AckInv, seen
      <3> QED BY <3>2, <3>3
    <2>7. CASE SendOk
      <3>1. /\ acked' = acked \cup {held} /\ Deliver(TRUE) /\ held \in Subs
            /\ held' = held /\ wstep' = "read" /\ site' = "acked"
        BY <2>7 DEF SendOk, Goto, TypeInv, TypeOK, WorkerOK, Busy
      <3>2. \A s \in acked' : received'[s] # {}
        BY <2>1, <3>1 DEF AckInv, Deliver
      <3> QED BY <3>1, <3>2 DEF AckInv
    <2>8. CASE SendFails
      <3>1. /\ acked' = acked /\ held' = held /\ held \notin acked
            /\ \E reaches \in BOOLEAN : Deliver(reaches)
        BY <2>8 DEF SendFails, Goto, AckInv
      <3>2. \A s \in acked : received'[s] # {}
        BY <2>1, <3>1 DEF AckInv, Deliver
      <3> QED BY <3>1, <3>2 DEF AckInv
    <2>9. CASE \/ \E s \in Subs : HandlerStep(s)
               \/ \E j \in JobIds : Expire(j)
               \/ Stop \/ WorkerExit \/ Restart \/ UNCHANGED vars
      BY <2>2, <2>9
         DEF HandlerStep, SaveRecord, InsertRow, PushId, Expire, Stop, WorkerExit, Restart,
             vars, worker, job
    <2>10. CASE PopTimeout \/ GenerateFailsSilently \/ Crash
      BY <2>3, <2>10 DEF PopTimeout, GenerateFailsSilently, Crash
    <2>11. ~(PopFails \/ FetchFails \/ UpdateReadFails \/ UpdateWriteFails)
      BY DEF PopFails, FetchFails, UpdateReadFails, UpdateWriteFails, Incident
    <2> QED BY <2>4, <2>5, <2>6, <2>7, <2>8, <2>9, <2>10, <2>11
            DEF Next, WorkerStep, WorkerFault, Lifespan
  <1> QED BY <1>1, <1>2, TypeInvariant, SafeInvariant, PTL DEF Spec

\* No POST after a 2xx answer, as long as Redis never raises: the run
\* resend_after_ack shows that an error while recording the answer is enough.
THEOREM NoSendAfterAckWithoutErrors ==
  ASSUME OneRunPerId, "redis_error" \notin Incidents
  PROVE  Spec => []NoSendAfterAck
  <1>1. AckInv => NoSendAfterAck
    BY DEF AckInv, NoSendAfterAck
  <1> QED BY <1>1, AckInvariant, PTL

-----------------------------------------------------------------------------
HasRow(j) == \E t \in dbRows : IdOf[t] = j

\* Every id has its row from before it is pushed.
RowInv ==
    /\ \A j \in JobIds : records[j] # None => IdOf[records[j].sub] = j
    /\ wstep = "write" => IdOf[snap.sub] = IdOf[held]
    /\ \A s \in Subs : handler[s] = "push" => HasRow(IdOf[s])
    /\ \A k \in Kinds : \A i \in DOMAIN queues[k] : HasRow(queues[k][i])
    /\ popped # None => HasRow(popped)
    /\ held # None => HasRow(IdOf[held])
    /\ CallbackHasRow

\* Rows only come, so a step that keeps what the invariant reads keeps it.
LEMMA RowFrame ==
  ASSUME RowInv, UNCHANGED received, dbRows \subseteq dbRows',
         UNCHANGED records, UNCHANGED queues,
         \A s \in Subs : handler'[s] = "push" => handler[s] = "push",
         popped' = popped \/ popped' = None,
         \/ held' = None /\ wstep' # "write"
         \/ held' = held /\ (wstep' = "write" => UNCHANGED <<wstep, snap>>)
  PROVE  RowInv'
  <1>1. \A j : HasRow(j) => HasRow(j)'
    BY DEF HasRow
  <1> QED BY <1>1 DEF RowInv, CallbackHasRow, HasRow

\* A step of a request handler.
LEMMA RowHandler ==
  ASSUME TypeInv, RowInv, "postgres_error" \notin Incidents, NEW s \in Subs, HandlerStep(s)
  PROVE  RowInv'
  <1>1. UNCHANGED <<held, popped, wstep, snap, received>>
    BY DEF HandlerStep, SaveRecord, InsertRow, PushId, worker, job, seen
  <1>2. CASE SaveRecord(s)
    <2>1. UNCHANGED <<dbRows, queues>>
      BY <1>2 DEF SaveRecord
    <2>2. \A t \in Subs : handler'[t] = "push" => handler[t] = "push"
      BY <1>2 DEF SaveRecord, TypeInv, TypeOK
    <2>3. \A j \in JobIds : records'[j] # None => IdOf[records'[j].sub] = j
      <3>1. CASE UNCHANGED records
        BY <3>1 DEF RowInv
      <3>2. CASE records' = [records EXCEPT ![IdOf[s]] = NewRecord(s)]
        <4>1. \A j \in JobIds : j # IdOf[s] => records'[j] = records[j]
          BY <3>2 DEF TypeInv, TypeOK
        <4>2. records'[IdOf[s]] = NewRecord(s)
          BY <3>2, SubsAssumption DEF TypeInv, TypeOK
        <4> QED BY <4>1, <4>2 DEF RowInv, NewRecord
      <3> QED BY <1>2, <3>1, <3>2 DEF SaveRecord
    <2> QED BY <1>1, <2>1, <2>2, <2>3 DEF RowInv, CallbackHasRow, HasRow
  <1>3. CASE InsertRow(s)
    <2>1. UNCHANGED <<records, queues>>
      BY <1>3 DEF InsertRow, redis
    <2>2. dbRows' = IF RowConflicts(s) THEN dbRows ELSE dbRows \cup {s}
      BY <1>3 DEF InsertRow, Incident
    <2>3. HasRow(IdOf[s])'
      BY <2>2 DEF RowConflicts, HasRow
    <2>4. \A j : HasRow(j) => HasRow(j)'
      BY <2>2 DEF HasRow
    <2>5. \A t \in Subs : t # s => handler'[t] = handler[t]
      BY <1>3 DEF InsertRow, TypeInv, TypeOK
    <2> QED BY <1>1, <2>1, <2>3, <2>4, <2>5 DEF RowInv, CallbackHasRow, HasRow
  <1>4. CASE PushId(s)
    <2>1. UNCHANGED <<records, dbRows>> /\ HasRow(IdOf[s])
      BY <1>4 DEF PushId, RowInv
    <2>2. \A t \in Subs : handler'[t] = "push" => handler[t] = "push"
      BY <1>4 DEF PushId, TypeInv, TypeOK
    <2>3. \A k \in Kinds : \A i \in DOMAIN queues'[k] : HasRow(queues'[k][i])
      <3> DEFINE q == queues[KindOf[s]]
      <3>1. q \in Seq(JobIds) /\ KindOf[s] \in Kinds /\ IdOf[s] \in JobIds
        BY SubsAssumption DEF TypeInv, TypeOK
      <3>2. \A k \in Kinds : k # KindOf[s] => queues'[k] = queues[k]
        BY <1>4 DEF PushId, Push, PushTwice, TypeInv, TypeOK
      <3>3. queues'[KindOf[s]] \in {q, Append(q, IdOf[s]), q \o <<IdOf[s], IdOf[s]>>}
        BY <1>4, <3>1 DEF PushId, Push, PushTwice, TypeInv, TypeOK
      <3>4. \A i \in DOMAIN q : HasRow(q[i])
        BY <3>1 DEF RowInv
      <3>5. \A i \in DOMAIN queues'[KindOf[s]] :
               \/ queues'[KindOf[s]][i] = IdOf[s]
               \/ i \in DOMAIN q /\ queues'[KindOf[s]][i] = q[i]
        <4> DEFINE r == queues'[KindOf[s]]
        <4> SUFFICES \A i \in DOMAIN r : r[i] = IdOf[s] \/ (i \in DOMAIN q /\ r[i] = q[i])
          OBVIOUS
        <4> HIDE DEF q, r
        <4>1. CASE r = Append(q, IdOf[s])
          BY <3>1, <4>1
        <4>2. CASE r = q \o <<IdOf[s], IdOf[s]>>
          <5>1. \A i \in DOMAIN r : i \in 1 .. (Len(q) + 2)
            BY <3>1, <4>2
          <5>2. \A i \in 1 .. Len(q) : r[i] = q[i]
            BY <3>1, <4>2
          <5>3. r[Len(q) + 1] = IdOf[s] /\ r[Len(q) + 2] = IdOf[s]
            BY <3>1, <4>2
          <5>4. Len(q) \in Nat /\ DOMAIN q = 1 .. Len(q)
            BY <3>1
          <5> QED BY <5>1, <5>2, <5>3, <5>4
        <4> QED BY <3>3, <4>1, <4>2 DEF r
      <3> QED BY <2>1, <3>2, <3>4, <3>5 DEF RowInv
    <2> QED BY <1>1, <2>1, <2>2, <2>3 DEF RowInv, CallbackHasRow, HasRow
  <1> QED BY <1>2, <1>3, <1>4 DEF HandlerStep

\* The end that BRPOP leaves behind.
LEMMA RowTail ==
  ASSUME TypeInv, RowInv, UNCHANGED dbRows, queues[PopKind] # << >>, PopTail
  PROVE  \A k \in Kinds : \A i \in DOMAIN queues'[k] : HasRow(queues'[k][i])
  <1> DEFINE q == queues[PopKind]
  <1>1. PopKind \in Kinds /\ q \in Seq(JobIds) /\ q # << >>
    BY DEF PopKind, Kinds, TypeInv, TypeOK
  <1>2. \A k \in Kinds : k # PopKind => queues'[k] = queues[k]
    BY DEF PopTail, TypeInv, TypeOK
  <1>3. queues'[PopKind] = Tail(q)
    BY <1>1 DEF PopTail, TypeInv, TypeOK
  <1>4. \A i \in DOMAIN Tail(q) : i + 1 \in DOMAIN q /\ Tail(q)[i] = q[i + 1]
    BY <1>1, TailOfQueue
  <1>5. \A i \in DOMAIN q : HasRow(q[i])
    BY <1>1 DEF RowInv
  <1> HIDE DEF q
  <1>6. \A i \in DOMAIN Tail(q) : HasRow(Tail(q)[i])
    BY <1>4, <1>5
  <1> QED BY <1>2, <1>3, <1>6 DEF RowInv

\* A step of the worker.
LEMMA RowWorker ==
  ASSUME TypeInv, RowInv, WorkerStep \/ WorkerFault
  PROVE  RowInv'
  <1>1. UNCHANGED <<handler, dbRows>>
    BY DEF WorkerStep, WorkerFault, StartPoll, Pop, PopTimeout, Fetch, Generate, UpdateRead,
           UpdateWrite, SendOk, SendFails, Backoff, PopFails, FetchFails,
           GenerateFailsSilently, UpdateReadFails, UpdateWriteFails, api
  <1>2. CASE StartPoll \/ Generate \/ Backoff
    <2>1. /\ UNCHANGED <<records, queues, received, popped, held>> /\ wstep' # "write"
      BY <1>2 DEF StartPoll, Generate, Backoff, Goto, redis, job, seen
    <2> QED BY <1>1, <2>1, RowFrame
  <1>3. CASE PopTimeout \/ FetchFails \/ GenerateFailsSilently
    <2>1. UNCHANGED <<records, queues, received>> /\ Release
      BY <1>3 DEF PopTimeout, FetchFails, GenerateFailsSilently, redis, seen
    <2> QED BY <1>1, <2>1, RowFrame DEF Release, NoJob
  <1>4. CASE Pop
    <2>1. /\ UNCHANGED <<records, received, held>> /\ wstep' = "fetch"
          /\ popped' = Head(queues[PopKind])
          /\ queues[PopKind] # << >> /\ PopTail
      BY <1>4 DEF Pop, seen
    <2>2. HasRow(popped')
      <3>1. PopKind \in Kinds /\ queues[PopKind] \in Seq(JobIds)
        BY DEF PopKind, Kinds, TypeInv, TypeOK
      <3>2. 1 \in DOMAIN queues[PopKind] /\ Head(queues[PopKind]) = queues[PopKind][1]
        BY <2>1, <3>1
      <3> QED BY <2>1, <3>1, <3>2 DEF RowInv
    <2>3. \A k \in Kinds : \A i \in DOMAIN queues'[k] : HasRow(queues'[k][i])
      BY <1>1, <2>1, RowTail
    <2> QED BY <1>1, <2>1, <2>2, <2>3 DEF RowInv, CallbackHasRow, HasRow
  <1>5. CASE PopFails
    <2>1. /\ UNCHANGED <<records, received>> /\ Release
          /\ UNCHANGED queues \/ (queues[PopKind] # << >> /\ PopTail)
      BY <1>5 DEF PopFails, seen
    <2>2. \A k \in Kinds : \A i \in DOMAIN queues'[k] : HasRow(queues'[k][i])
      BY <1>1, <2>1, RowTail DEF RowInv
    <2> QED BY <1>1, <2>1, <2>2 DEF RowInv, CallbackHasRow, HasRow, Release, NoJob
  <1>6. CASE Fetch
    <2>1. UNCHANGED <<records, queues, received>> /\ popped \in JobIds /\ popped # None
      BY <1>6 DEF Fetch, redis, seen, TypeInv, TypeOK, WorkerOK
    <2>2. CASE records[popped] = None
      BY <1>1, <1>6, <2>1, <2>2, RowFrame DEF Fetch, Release, NoJob
    <2>3. CASE records[popped] # None
      <3>1. held' = records[popped].sub /\ wstep' = "read" /\ popped' = None
        BY <1>6, <2>3 DEF Fetch
      <3>2. HasRow(IdOf[held'])
        BY <2>1, <2>3, <3>1 DEF RowInv
      <3> QED BY <1>1, <2>1, <3>1, <3>2 DEF RowInv, CallbackHasRow, HasRow
    <2> QED BY <2>2, <2>3
  <1>7. CASE UpdateRead \/ UpdateReadFails
    <2>1. UNCHANGED <<records, queues, received>>
      BY <1>7 DEF UpdateRead, UpdateReadFails, redis, seen
    <2>2. CASE UpdateRead /\ records[IdOf[held]] # None
      <3>1. snap' = records[IdOf[held]] /\ UNCHANGED <<popped, held>>
        BY <2>2 DEF UpdateRead
      <3>2. IdOf[snap'.sub] = IdOf[held]
        BY <2>2, <3>1, HeldRecord DEF UpdateRead, RowInv, TypeInv, WorkerOK, Busy
      <3> QED BY <1>1, <2>1, <3>1, <3>2 DEF RowInv, CallbackHasRow, HasRow
    <2>3. CASE (UpdateRead /\ records[IdOf[held]] = None) \/ UpdateReadFails
      <3>1. AfterUpdate \/ AfterUpdateError
        BY <2>3 DEF UpdateRead, UpdateReadFails
      <3>2. /\ wstep' # "write"
            /\ held' = held \/ held' = None
            /\ popped' = popped \/ popped' = None
        BY <3>1 DEF AfterUpdate, AfterUpdateError, SuccessNotRecorded, AckNotRecorded,
                    BeginDelivery, Goto, Release, NoJob
      <3> QED BY <1>1, <2>1, <3>2, RowFrame
    <2> QED BY <1>7, <2>2, <2>3
  <1>8. CASE UpdateWrite \/ UpdateWriteFails
    <2>1. /\ UNCHANGED <<queues, received>> /\ wstep = "write"
          /\ WriteBack \/ UNCHANGED records
          /\ AfterUpdate \/ AfterUpdateError
      BY <1>8 DEF UpdateWrite, UpdateWriteFails, seen
    <2>2. /\ wstep' # "write"
          /\ held' = held \/ held' = None
          /\ popped' = popped \/ popped' = None
      BY <2>1 DEF AfterUpdate, AfterUpdateError, SuccessNotRecorded, AckNotRecorded,
                  BeginDelivery, Goto, Release, NoJob
    <2>3. \A j \in JobIds : records'[j] # None => IdOf[records'[j].sub] = j
      <3>1. CASE UNCHANGED records
        BY <3>1 DEF RowInv
      <3>2. CASE WriteBack
        <4>1. Updated(snap).sub = snap.sub
          BY DEF Updated
        <4> QED BY <2>1, <3>2, <4>1, Written DEF RowInv
      <3> QED BY <2>1, <3>1, <3>2
    <2> QED BY <1>1, <2>1, <2>2, <2>3 DEF RowInv, CallbackHasRow, HasRow
  <1>9. CASE SendOk \/ SendFails
    <2>1. /\ UNCHANGED <<records, queues, held, popped>> /\ wstep' = "read"
          /\ \E reaches \in BOOLEAN : Deliver(reaches)
          /\ held # None
      BY <1>9 DEF SendOk, SendFails, Goto, redis, TypeInv, WorkerOK, Busy
    <2>2. \A s \in Subs : s # held => received'[s] = received[s]
      BY <2>1 DEF Deliver, TypeInv, TypeOK
    <2> QED BY <1>1, <2>1, <2>2 DEF RowInv, CallbackHasRow, HasRow
  <1> QED BY <1>2, <1>3, <1>4, <1>5, <1>6, <1>7, <1>8, <1>9 DEF WorkerStep, WorkerFault

\* No callback without an AIJob row, whatever happens to Redis and the process,
\* also when job ids are shared, as long as Postgres takes every insert.
THEOREM CallbackRowCorrect ==
  ASSUME "postgres_error" \notin Incidents
  PROVE  Spec => []CallbackHasRow
  <1>1. Init => RowInv
    BY DEF Init, RowInv, CallbackHasRow
  <1>2. TypeInv /\ RowInv /\ [Next]_vars => RowInv'
    <2> SUFFICES ASSUME TypeInv, RowInv, [Next]_vars PROVE RowInv'
      OBVIOUS
    <2>1. CASE \E s \in Subs : HandlerStep(s)
      BY <2>1, RowHandler
    <2>2. CASE WorkerStep \/ WorkerFault
      BY <2>2, RowWorker
    <2>3. CASE \E j \in JobIds : Expire(j)
      <3>1. PICK j \in JobIds : Expire(j)
        BY <2>3
      <3>2. /\ UNCHANGED <<handler, dbRows, queues, received, popped, held, wstep, snap>>
            /\ \A i \in JobIds : records'[i] \in {records[i], None}
        BY <3>1 DEF Expire, api, worker, job, seen, TypeInv, TypeOK
      <3> QED BY <3>2 DEF RowInv, CallbackHasRow, HasRow
    <2>4. CASE Lifespan
      <3>1. /\ UNCHANGED <<records, queues, dbRows, received>>
            /\ \A s \in Subs : handler'[s] = "push" => handler[s] = "push"
        BY <2>4 DEF Lifespan, Crash, Stop, WorkerExit, Restart, redis, seen
      <3>2. Release \/ UNCHANGED <<wstep, held, popped, snap>>
        BY <2>4 DEF Lifespan, Crash, Stop, WorkerExit, Restart, worker, job
      <3> QED BY <3>1, <3>2, RowFrame DEF Release, NoJob
    <2>5. CASE UNCHANGED vars
      BY <2>5, RowFrame DEF vars, api, redis, worker, job, seen
    <2> QED BY <2>1, <2>2, <2>3, <2>4, <2>5 DEF Next
  <1>3. RowInv => CallbackHasRow
    BY DEF RowInv
  <1> QED BY <1>1, <1>2, <1>3, TypeInvariant, PTL DEF Spec
=============================================================================
