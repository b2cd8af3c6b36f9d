-------------------------- MODULE JobPipelineProofs --------------------------
(***************************************************************************)
(* Proofs about JobPipeline, for any submissions, ids and bounds.           *)
(***************************************************************************)
EXTENDS JobPipeline, TLAPS

Busy == {"read", "write", "generate", "send", "backoff"}

\* What the worker's variables hold at each of its steps.
WorkerOK ==
    /\ wstep = "fetch" => popped # None
    /\ wstep \in Busy => held # None
    /\ wstep \in {"read", "write"} => site # "none"
    /\ wstep = "write" => snap # None
    /\ site \in Outcomes => outcome = site
    /\ wstep \in {"send", "backoff"} \/ site \in {"acked", "nacked", "failed_delivery"}
         => outcome \in Outcomes
    /\ wstep = "backoff" => attempt < TotalAttempts

TypeInv == TypeOK /\ WorkerOK

-----------------------------------------------------------------------------
\* TotalAttempts is positive.
LEMMA TotalAttemptsType == TotalAttempts \in Nat /\ TotalAttempts >= 1
  BY BoundsAssumption DEF TotalAttempts

\* An initial record is a record.
LEMMA NewRecordType ==
  ASSUME NEW s \in Subs
  PROVE  NewRecord(s) \in Record
  BY TotalAttemptsType DEF NewRecord, Record, Statuses, Outcomes

\* update_job writes a record.
LEMMA UpdatedType ==
  ASSUME TypeInv, NEW r \in Record
  PROVE  Updated(r) \in Record
  <1> USE DEF Record
  <1>1. NewStatus(r) \in Statuses
    BY DEF NewStatus
  <1>2. NewAttempts(r) \in 0 .. TotalAttempts
    BY DEF NewAttempts, TypeInv, TypeOK
  <1>3. NewError(r) \in {"none", "processing", "delivery"}
    BY DEF NewError
  <1> QED BY <1>1, <1>2, <1>3 DEF Updated

\* An incident stays within its bound.
LEMMA IncidentType ==
  ASSUME TypeInv, NEW kind, Incident(kind)
  PROVE  incidents' \in 0 .. MaxIncidents
  BY BoundsAssumption DEF Incident, TypeInv, TypeOK

\* The part of TypeInv about the worker's variables.
WorkerInv ==
    /\ wstep \in WorkerSteps
    /\ site \in Sites
    /\ popped \in JobIds \cup {None}
    /\ held \in Subs \cup {None}
    /\ snap \in Record \cup {None}
    /\ outcome \in Outcomes \cup {"none"}
    /\ attempt \in 0 .. TotalAttempts
    /\ retryable \in BOOLEAN
    /\ WorkerOK

\* The rest.
StoreInv ==
    /\ handler \in [Subs -> HandlerStates]
    /\ records \in [JobIds -> Record \cup {None}]
    /\ queues \in [Kinds -> Seq(JobIds)]
    /\ dbRows \subseteq Subs
    /\ mode \in {"up", "stopping", "down"}
    /\ received \in [Subs -> SUBSET Outcomes]
    /\ acked \subseteq Subs
    /\ incidents \in 0 .. MaxIncidents

LEMMA TypeInvParts == TypeInv <=> WorkerInv /\ StoreInv
  BY DEF TypeInv, TypeOK, WorkerInv, StoreInv

\* Releasing the worker clears its variables.
LEMMA ReleaseType ==
  ASSUME Release
  PROVE  WorkerInv'
  <1> USE DEF Release, NoJob
  <1>1. attempt' \in 0 .. TotalAttempts
    BY TotalAttemptsType
  <1>4. retryable' \in BOOLEAN
    OBVIOUS
  <1>2. /\ wstep' \in WorkerSteps /\ site' \in Sites
        /\ popped' \in JobIds \cup {None} /\ held' \in Subs \cup {None}
        /\ snap' \in Record \cup {None} /\ outcome' \in Outcomes \cup {"none"}
    BY DEF WorkerSteps, Sites
  <1>3. WorkerOK'
    BY DEF WorkerOK, Busy, Outcomes
  <1> QED BY <1>1, <1>2, <1>3, <1>4 DEF WorkerInv

\* The worker's variables after an update, in the four ways it can go on.
LEMMA AfterUpdateType ==
  ASSUME TypeInv, wstep \in {"read", "write"}, AfterUpdate
  PROVE  WorkerInv'
  <1> USE TotalAttemptsType, NoneAssumption
      DEF TypeInv, TypeOK, WorkerInv, WorkerOK, WorkerSteps, Sites, Busy, Outcomes,
          Goto, delivery
  <1>1. CASE site = "processing"
    BY <1>1 DEF AfterUpdate
  <1>2. CASE site \in Outcomes
    BY <1>2, ReleaseType DEF AfterUpdate, BeginDelivery
  <1>3. CASE site = "nacked"
    BY <1>3 DEF AfterUpdate, GivesUp
  <1>4. CASE site \in {"acked", "failed_delivery"}
    BY <1>4, ReleaseType DEF AfterUpdate
  <1> QED BY <1>1, <1>2, <1>3, <1>4 DEF AfterUpdate

\* And after an update that raised.
LEMMA AfterUpdateErrorType ==
  ASSUME TypeInv, wstep \in {"read", "write"}, AfterUpdateError
  PROVE  WorkerInv'
  <1> USE DEF TypeInv, TypeOK, WorkerInv, WorkerOK, WorkerSteps, Sites, Busy, Outcomes,
          Goto, delivery
  <1>1. CASE site = "succeeded"
    BY <1>1 DEF AfterUpdateError, SuccessNotRecorded
  <1>2. CASE site = "acked"
    BY <1>2 DEF AfterUpdateError, AckNotRecorded
  <1>3. CASE site \notin {"succeeded", "acked"}
    BY <1>3, ReleaseType DEF AfterUpdateError
  <1> QED BY <1>1, <1>2, <1>3

-----------------------------------------------------------------------------
\* The constants of the model stay in their sets.
LEMMA InitType == Init => TypeInv
  <1> SUFFICES ASSUME Init PROVE TypeInv
    OBVIOUS
  <1> USE TotalAttemptsType, BoundsAssumption DEF Init
  <1>1. WorkerInv
    <2>1. attempt \in 0 .. TotalAttempts
      OBVIOUS
    <2>2. retryable \in BOOLEAN
      OBVIOUS
    <2>3. WorkerOK
      BY DEF WorkerOK, Busy, Outcomes
    <2> QED BY <2>1, <2>2, <2>3 DEF WorkerInv, WorkerSteps, Sites
  <1>2. StoreInv
    BY DEF StoreInv, HandlerStates, HandlerSteps
  <1> QED BY <1>1, <1>2, TypeInvParts

\* A step of a submission handler.
LEMMA HandlerType ==
  ASSUME TypeInv, NEW s \in Subs, HandlerStep(s)
  PROVE  TypeInv'
  <1> USE SubsAssumption
  <1>1. IdOf[s] \in JobIds /\ KindOf[s] \in Kinds
    OBVIOUS
  <1>2. UNCHANGED worker /\ WorkerInv
    BY TypeInvParts DEF HandlerStep, SaveRecord, InsertRow, PushId
  <1>3. WorkerInv'
    BY <1>2 DEF WorkerInv, WorkerOK, worker, job, delivery
  <1>4. StoreInv
    BY TypeInvParts
  <1> SUFFICES StoreInv'
    BY <1>3 DEF TypeInv, TypeOK, WorkerInv, StoreInv
  <1>5. CASE SaveRecord(s)
    <2>1. handler' \in [Subs -> HandlerStates]
      BY <1>4, <1>5 DEF SaveRecord, StoreInv, HandlerStates, HandlerSteps
    <2>2. records' \in [JobIds -> Record \cup {None}]
      BY <1>1, <1>4, <1>5, NewRecordType DEF SaveRecord, StoreInv
    <2>3. incidents' \in 0 .. MaxIncidents
      BY <1>4, <1>5, IncidentType DEF SaveRecord, StoreInv
    <2> QED BY <1>4, <1>5, <2>1, <2>2, <2>3 DEF SaveRecord, StoreInv, seen
  <1>6. CASE InsertRow(s)
    BY <1>4, <1>6, IncidentType
       DEF InsertRow, StoreInv, HandlerStates, HandlerSteps, seen, redis
  <1>7. CASE PushId(s)
    <2>1. queues' \in [Kinds -> Seq(JobIds)]
      <3>1. queues[KindOf[s]] \in Seq(JobIds)
        BY <1>1, <1>4 DEF StoreInv
      <3>2. /\ Append(queues[KindOf[s]], IdOf[s]) \in Seq(JobIds)
            /\ queues[KindOf[s]] \o <<IdOf[s], IdOf[s]>> \in Seq(JobIds)
        BY <1>1, <3>1
      <3> QED BY <1>4, <1>7, <3>2 DEF PushId, StoreInv, Push, PushTwice
    <2> QED BY <1>4, <1>7, <2>1, IncidentType
       DEF PushId, StoreInv, HandlerStates, HandlerSteps, seen
  <1> QED BY <1>5, <1>6, <1>7 DEF HandlerStep

\* A step of the worker or a failure of one: first its own variables.
LEMMA WorkerStepType ==
  ASSUME TypeInv, WorkerStep \/ WorkerFault
  PROVE  WorkerInv'
  <1> USE TotalAttemptsType, NoneAssumption
  <1>0. TypeOK /\ WorkerOK
    BY DEF TypeInv
  <1>1. CASE StartPoll
    BY <1>0, <1>1 DEF StartPoll, TypeOK, WorkerInv, WorkerOK, WorkerSteps, Busy, job, delivery
  <1>2. CASE Pop
    <2>1. queues[PopKind] \in Seq(JobIds)
      BY <1>0 DEF TypeOK, PopKind, Kinds
    <2>2. Head(queues[PopKind]) \in JobIds
      BY <1>2, <2>1 DEF Pop
    <2> QED BY <1>0, <1>2, <2>2
            DEF Pop, TypeOK, WorkerInv, WorkerOK, WorkerSteps, Busy, delivery
  <1>3. CASE PopTimeout \/ PopFails \/ FetchFails \/ GenerateFailsSilently
    BY <1>3, ReleaseType DEF PopTimeout, PopFails, FetchFails, GenerateFailsSilently
  <1>4. CASE Fetch
    <2>1. CASE records[popped] = None
      BY <1>4, <2>1, ReleaseType DEF Fetch
    <2>2. CASE records[popped] # None
      <3>1. popped \in JobIds
        BY <1>0, <1>4 DEF Fetch, TypeOK, WorkerOK
      <3>2. records[popped].sub \in Subs
        BY <1>0, <2>2, <3>1 DEF TypeOK, Record
      <3> QED BY <1>0, <1>4, <2>2, <3>2
              DEF Fetch, TypeOK, WorkerInv, WorkerOK, WorkerSteps, Busy, Sites,
                  Outcomes, delivery
    <2> QED BY <2>1, <2>2
  <1>5. CASE Generate
    BY <1>0, <1>5
       DEF Generate, TypeOK, WorkerInv, WorkerOK, WorkerSteps, Busy, Sites, Outcomes
  <1>6. CASE UpdateRead
    <2>1. CASE records[IdOf[held]] = None
      BY <1>6, <2>1, AfterUpdateType DEF UpdateRead
    <2>2. CASE records[IdOf[held]] # None
      <3>1. IdOf[held] \in JobIds
        BY <1>0, <1>6, SubsAssumption DEF UpdateRead, TypeOK, WorkerOK, Busy
      <3>2. records[IdOf[held]] \in Record
        BY <1>0, <2>2, <3>1 DEF TypeOK
      <3> QED BY <1>0, <1>6, <2>2, <3>2
              DEF UpdateRead, TypeOK, WorkerInv, WorkerOK, WorkerSteps, Busy, delivery
    <2> QED BY <2>1, <2>2
  <1>7. CASE UpdateWrite
    BY <1>7, AfterUpdateType DEF UpdateWrite
  <1>8. CASE UpdateReadFails \/ UpdateWriteFails
    BY <1>8, AfterUpdateErrorType DEF UpdateReadFails, UpdateWriteFails
  <1>9. CASE SendOk
    BY <1>0, <1>9
       DEF SendOk, TypeOK, WorkerInv, WorkerOK, WorkerSteps, Busy, Sites, Outcomes,
           Goto, delivery
  <1>10. CASE SendFails
    <2>1. retryable' \in BOOLEAN
      BY <1>10 DEF SendFails
    <2> QED BY <1>0, <1>10, <2>1
            DEF SendFails, TypeOK, WorkerInv, WorkerOK, WorkerSteps, Busy, Sites,
                Outcomes, Goto
  <1>11. CASE Backoff
    <2>1. attempt' \in 0 .. TotalAttempts
      BY <1>0, <1>11 DEF Backoff, TypeOK, WorkerOK
    <2> QED BY <1>0, <1>11, <2>1
            DEF Backoff, TypeOK, WorkerInv, WorkerOK, WorkerSteps, Busy, Sites,
                Outcomes, Goto
  <1> QED BY <1>1, <1>2, <1>3, <1>4, <1>5, <1>6, <1>7, <1>8, <1>9, <1>10, <1>11
          DEF WorkerStep, WorkerFault

\* Then Redis, Postgres, the handlers and the history.
LEMMA WorkerStepStore ==
  ASSUME TypeInv, WorkerStep \/ WorkerFault
  PROVE  StoreInv'
  <1>0. StoreInv /\ TypeOK /\ WorkerOK
    BY TypeInvParts DEF TypeInv
  <1>1. UNCHANGED api
    BY DEF WorkerStep, WorkerFault, StartPoll, Pop, PopTimeout, PopFails, Fetch,
           FetchFails, Generate, GenerateFailsSilently, UpdateRead, UpdateReadFails,
           UpdateWrite, UpdateWriteFails, SendOk, SendFails, Backoff
  <1>2. queues' \in [Kinds -> Seq(JobIds)]
    <2>1. CASE UNCHANGED queues
      BY <1>0, <2>1 DEF StoreInv
    <2>2. CASE queues[PopKind] # << >> /\ PopTail
      <3>1. PopKind \in Kinds /\ queues[PopKind] \in Seq(JobIds)
        BY <1>0 DEF StoreInv, PopKind, Kinds
      <3>2. Tail(queues[PopKind]) \in Seq(JobIds)
        BY <2>2, <3>1
      <3> QED BY <1>0, <2>2, <3>1, <3>2 DEF StoreInv, PopTail
    <2> QED BY <2>1, <2>2
         DEF WorkerStep, WorkerFault, StartPoll, Pop, PopTimeout, PopFails, Fetch,
             FetchFails, Generate, GenerateFailsSilently, UpdateRead, UpdateReadFails,
             UpdateWrite, UpdateWriteFails, SendOk, SendFails, Backoff, redis
  <1>3. records' \in [JobIds -> Record \cup {None}]
    <2>1. CASE UNCHANGED records
      BY <1>0, <2>1 DEF StoreInv
    <2>2. CASE wstep = "write" /\ WriteBack
      <3>1. IdOf[held] \in JobIds /\ snap \in Record
        BY <1>0, <2>2, SubsAssumption DEF TypeOK, WorkerOK, Busy
      <3>2. Updated(snap) \in Record
        BY <3>1, UpdatedType
      <3> QED BY <1>0, <2>2, <3>1, <3>2 DEF StoreInv, WriteBack
    <2> QED BY <2>1, <2>2
         DEF WorkerStep, WorkerFault, StartPoll, Pop, PopTimeout, PopFails, Fetch,
             FetchFails, Generate, GenerateFailsSilently, UpdateRead, UpdateReadFails,
             UpdateWrite, UpdateWriteFails, SendOk, SendFails, Backoff, redis
  <1>4. received' \in [Subs -> SUBSET Outcomes] /\ acked' \subseteq Subs
    <2>1. CASE UNCHANGED seen
      BY <1>0, <2>1 DEF StoreInv, seen
    <2>2. CASE SendOk
      BY <1>0, <2>2 DEF StoreInv, SendOk, Deliver, TypeOK, WorkerOK, Busy
    <2>3. CASE SendFails
      BY <1>0, <2>3 DEF StoreInv, SendFails, Deliver, TypeOK, WorkerOK, Busy
    <2> QED BY <2>1, <2>2, <2>3
         DEF WorkerStep, WorkerFault, StartPoll, Pop, PopTimeout, PopFails, Fetch,
             FetchFails, Generate, GenerateFailsSilently, UpdateRead, UpdateReadFails,
             UpdateWrite, UpdateWriteFails, Backoff
  <1>5. incidents' \in 0 .. MaxIncidents
    <2>1. CASE UNCHANGED incidents
      BY <1>0, <2>1 DEF StoreInv
    <2>2. CASE \E kind \in IncidentKinds : Incident(kind)
      BY <2>2, IncidentType
    <2> QED BY <2>1, <2>2
         DEF WorkerStep, WorkerFault, StartPoll, Pop, PopTimeout, PopFails, Fetch,
             FetchFails, Generate, GenerateFailsSilently, UpdateRead, UpdateReadFails,
             UpdateWrite, UpdateWriteFails, SendOk, SendFails, Backoff, IncidentKinds
  <1> QED BY <1>0, <1>1, <1>2, <1>3, <1>4, <1>5 DEF StoreInv, api

\* Expiry and the life of the process.
LEMMA EnvironmentType ==
  ASSUME TypeInv, (\E j \in JobIds : Expire(j)) \/ Lifespan
  PROVE  TypeInv'
  <1>0. WorkerInv /\ StoreInv
    BY TypeInvParts
  <1>1. CASE \E j \in JobIds : Expire(j)
    <2>1. UNCHANGED worker
      BY <1>1 DEF Expire
    <2>2. WorkerInv'
      BY <1>0, <2>1 DEF WorkerInv, WorkerOK, worker, job, delivery
    <2>3. StoreInv'
      <3>1. PICK j \in JobIds : Expire(j)
        BY <1>1
      <3>2. records' \in [JobIds -> Record \cup {None}]
        BY <1>0, <3>1 DEF Expire, StoreInv
      <3>3. incidents' \in 0 .. MaxIncidents
        BY <3>1, IncidentType DEF Expire
      <3> QED BY <1>0, <3>1, <3>2, <3>3 DEF Expire, StoreInv, api, seen
    <2> QED BY <2>2, <2>3 DEF TypeInv, TypeOK, WorkerInv, StoreInv
  <1>2. CASE Crash
    <2>1. handler' \in [Subs -> HandlerStates]
      BY <1>0, <1>2 DEF Crash, StoreInv, HandlerStates
    <2>2. StoreInv'
      BY <1>0, <1>2, <2>1, IncidentType DEF Crash, StoreInv, redis, seen
    <2>3. WorkerInv'
      BY <1>2, ReleaseType DEF Crash
    <2> QED BY <2>2, <2>3 DEF TypeInv, TypeOK, WorkerInv, StoreInv
  <1>3. CASE Stop \/ WorkerExit \/ Restart
    <2>1. UNCHANGED worker
      BY <1>3 DEF Stop, WorkerExit, Restart
    <2>2. WorkerInv'
      BY <1>0, <2>1 DEF WorkerInv, WorkerOK, worker, job, delivery
    <2>3. StoreInv'
      BY <1>0, <1>3, IncidentType DEF Stop, WorkerExit, Restart, StoreInv, redis, seen
    <2> QED BY <2>2, <2>3 DEF TypeInv, TypeOK, WorkerInv, StoreInv
  <1> QED BY <1>1, <1>2, <1>3 DEF Lifespan

\* Stuttering.
LEMMA StutterType ==
  ASSUME TypeInv, UNCHANGED vars
  PROVE  TypeInv'
  BY DEF TypeInv, TypeOK, WorkerOK, vars, api, redis, worker, job, delivery, seen

\* The types and the worker's steps fit together in every behaviour.
LEMMA TypeInvariant == Spec => []TypeInv
  <1>1. TypeInv /\ [Next]_vars => TypeInv'
    <2> SUFFICES ASSUME TypeInv, [Next]_vars PROVE TypeInv'
      OBVIOUS
    <2>1. CASE \E s \in Subs : HandlerStep(s)
      BY <2>1, HandlerType
    <2>2. CASE WorkerStep \/ WorkerFault
      BY <2>2, WorkerStepType, WorkerStepStore DEF TypeInv, TypeOK, WorkerInv, StoreInv
    <2>3. CASE (\E j \in JobIds : Expire(j)) \/ Lifespan
      BY <2>3, EnvironmentType
    <2>4. CASE UNCHANGED vars
      BY <2>4, StutterType
    <2> QED BY <2>1, <2>2, <2>3, <2>4 DEF Next
  <1> QED BY <1>1, InitType, PTL DEF Spec

\* Whatever incidents happen and however ids collide, every variable keeps its
\* type; attempts never exceed 1 + webhook_callback_max_retries.
THEOREM TypeCorrect == Spec => []TypeOK
  <1>1. TypeInv => TypeOK
    BY DEF TypeInv
  <1> QED BY <1>1, TypeInvariant, PTL
=============================================================================
