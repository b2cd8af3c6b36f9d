------------------------- MODULE JobPipelineLifecycle -------------------------
(***************************************************************************)
(* What becomes of a job, for any number of submissions with ids of their   *)
(* own: the pipeline implements JobLifecycle, marks a job failed_delivery   *)
(* only when its attempts are used up, and loses at most one accepted job   *)
(* to an incident.  What the worker leaves on a record follows, with the    *)
(* incidents that must be excluded.                                         *)
(***************************************************************************)
EXTENDS JobPipelineAgreement

Updating == wstep \in {"read", "write"}

\* The statuses that the record of the job in hand, or the worker's copy of it,
\* may show.
Expected ==
    IF wstep = "generate" \/ (Updating /\ site = "succeeded") THEN {"processing"}
    ELSE IF Updating /\ site = "processing" THEN {"accepted"}
    ELSE IF Updating /\ site = "failed_processing" THEN {"processing", "succeeded"}
    ELSE Statuses

Expects(r) == r = None \/ r.status \in Expected

\* What the last failed attempt has left on a record.
Exhausted(r) == r = None \/ (r.attempts = attempt /\ r.error = "delivery")

StageInv ==
    held # None =>
        /\ Expects(records[IdOf[held]]) /\ Expects(snap)
        /\ Updating /\ site = "failed_delivery" =>
            /\ attempt = TotalAttempts \/ ~retryable
            /\ Exhausted(records[IdOf[held]]) /\ Exhausted(snap)

-----------------------------------------------------------------------------
\* Steps that change nothing the invariant reads but, perhaps, take records away
\* or add one of another job.
LEMMA StageFrame ==
  ASSUME TypeInv, StageInv, UNCHANGED worker,
         held # None => records'[IdOf[held]] \in {records[IdOf[held]], None}
  PROVE  StageInv'
  <1>1. UNCHANGED <<wstep, site, held, snap, attempt, retryable>>
    BY DEF worker, job, delivery
  <1> QED BY <1>1 DEF StageInv, Expects, Exhausted, Expected, Updating

\* A worker that lets go of its job expects nothing.
LEMMA StageRelease ==
  ASSUME Release
  PROVE  StageInv'
  BY DEF Release, NoJob, StageInv

\* An update that returned.
LEMMA StageAfterUpdate ==
  ASSUME TypeInv, TypeInv', StageInv, AfterUpdate,
         \/ wstep = "read" /\ UNCHANGED records /\ records[IdOf[held]] = None
         \/ wstep = "write" /\ WriteBack
  PROVE  StageInv'
  <1>1. held # None /\ site \in Sites \ {"none"}
    BY DEF TypeInv, TypeOK, WorkerOK, Busy
  <1>2. /\ records'[IdOf[held]] # None => records'[IdOf[held]] = Updated(snap)
    BY Written
  <1>3. CASE site = "processing"
    <2>1. wstep' = "generate" /\ site' = "none" /\ held' = held /\ snap' = None
      BY <1>3 DEF AfterUpdate, Goto, Outcomes
    <2>2. Updated(snap).status = "processing"
      BY <1>3 DEF Updated, NewStatus, Statuses
    <2> QED BY <1>2, <2>1, <2>2 DEF StageInv, Expects, Expected, Updating
  <1>4. CASE site \in Outcomes
    <2>1. CASE HasCallback[held]
      <3>1. wstep' = "send" /\ site' = "none" /\ held' = held /\ snap' = None
        BY <1>4, <2>1 DEF AfterUpdate, BeginDelivery, Goto, Outcomes
      <3>2. records'[IdOf[held]] \in Record \cup {None}
        BY <1>1, <3>1, HeldRecord DEF TypeInv, TypeOK
      <3> QED BY <3>1, <3>2 DEF StageInv, Expects, Expected, Updating, Record
    <2>2. CASE ~HasCallback[held]
      <3>1. Release
        BY <1>4, <2>2 DEF AfterUpdate, BeginDelivery, Outcomes
      <3> QED BY <3>1, StageRelease
    <2> QED BY <2>1, <2>2
  <1>5. CASE site = "nacked" /\ ~GivesUp
    <2>1. wstep' = "backoff" /\ held' = held /\ snap' = None
      BY <1>5 DEF AfterUpdate, Goto, Outcomes
    <2>2. records'[IdOf[held]] \in Record \cup {None}
      BY <1>1, <2>1, HeldRecord DEF TypeInv, TypeOK
    <2> QED BY <2>1, <2>2 DEF StageInv, Expects, Expected, Updating, Record
  <1>6. CASE site = "nacked" /\ GivesUp
    <2>1. /\ wstep' = "read" /\ site' = "failed_delivery" /\ held' = held /\ snap' = None
          /\ UNCHANGED <<attempt, retryable>>
      BY <1>6 DEF AfterUpdate, Goto, Outcomes, delivery
    <2>2. records'[IdOf[held]] \in Record \cup {None}
      BY <1>1, <2>1, HeldRecord DEF TypeInv, TypeOK
    <2>3. Updated(snap).attempts = attempt /\ Updated(snap).error = "delivery"
      BY <1>6 DEF Updated, NewAttempts, NewError
    <2>4. attempt = TotalAttempts \/ ~retryable
      <3>1. attempt \in 0 .. TotalAttempts
        BY DEF TypeInv, TypeOK
      <3> QED BY <1>6, <3>1, TotalAttemptsType DEF GivesUp
    <2>5. Expects(records[IdOf[held]])' /\ Expects(snap)'
      BY <2>1, <2>2 DEF Expects, Expected, Updating, Record
    <2> QED BY <1>2, <2>1, <2>3, <2>4, <2>5 DEF StageInv, Exhausted, Updating
  <1>7. CASE site \in {"acked", "failed_delivery"}
    <2>1. Release
      BY <1>7 DEF AfterUpdate, Outcomes
    <2> QED BY <2>1, StageRelease
  <1> QED BY <1>1, <1>3, <1>4, <1>5, <1>6, <1>7 DEF Sites, Outcomes

\* An update that raised, whether or not Redis had applied the write.
LEMMA StageAfterUpdateError ==
  ASSUME TypeInv, TypeInv', StageInv, AfterUpdateError,
         \/ wstep = "read" /\ UNCHANGED records
         \/ wstep = "write" /\ (WriteBack \/ UNCHANGED records)
  PROVE  StageInv'
  <1>1. held # None
    BY DEF TypeInv, TypeOK, WorkerOK, Busy
  <1>2. CASE site = "succeeded"
    <2>1. wstep' = "read" /\ site' = "failed_processing" /\ held' = held /\ snap' = None
      BY <1>2 DEF AfterUpdateError, SuccessNotRecorded, Goto
    <2>2. records[IdOf[held]] = None \/ records[IdOf[held]].status = "processing"
      BY <1>1, <1>2 DEF StageInv, Expects, Expected, Updating
    <2>3. Updated(snap).status = "succeeded"
      BY <1>2 DEF Updated, NewStatus, Statuses, Outcomes
    <2>4. records'[IdOf[held]] \in {records[IdOf[held]], Updated(snap)}
      BY Written
    <2> QED BY <2>1, <2>2, <2>3, <2>4 DEF StageInv, Expects, Expected, Updating
  <1>3. CASE site = "acked"
    <2>1. wstep' = "read" /\ site' = "nacked" /\ held' = held /\ snap' = None
      BY <1>3 DEF AfterUpdateError, AckNotRecorded, Goto
    <2>2. records'[IdOf[held]] \in Record \cup {None}
      BY <1>1, <2>1, HeldRecord DEF TypeInv, TypeOK
    <2> QED BY <2>1, <2>2 DEF StageInv, Expects, Expected, Updating, Record
  <1>4. CASE site \notin {"succeeded", "acked"}
    <2>1. Release
      BY <1>4 DEF AfterUpdateError
    <2> QED BY <2>1, StageRelease
  <1> QED BY <1>2, <1>3, <1>4

\* The other steps of the worker.
LEMMA StageWorker ==
  ASSUME TypeInv, TypeInv', SafeInv, StageInv, WorkerStep \/ WorkerFault
  PROVE  StageInv'
  <1>1. CASE StartPoll
    <2>1. /\ UNCHANGED <<records, site, held, snap, attempt, retryable>>
          /\ wstep' = "poll" /\ wstep = "idle"
      BY <1>1 DEF StartPoll, redis, job, delivery
    <2>2. held # None => records[IdOf[held]] \in Record \cup {None} /\ snap \in Record \cup {None}
      BY HeldRecord
    <2> QED BY <2>1, <2>2 DEF StageInv, Expects, Expected, Updating, Record
  <1>2. CASE Pop
    <2>1. UNCHANGED <<records, site, held, snap, attempt, retryable>> /\ wstep' = "fetch"
      BY <1>2 DEF Pop, delivery
    <2>2. held # None => records[IdOf[held]] \in Record \cup {None} /\ snap \in Record \cup {None}
      BY HeldRecord
    <2> QED BY <2>1, <2>2 DEF StageInv, Expects, Expected, Updating, Record
  <1>3. CASE PopTimeout \/ PopFails \/ FetchFails \/ GenerateFailsSilently
    BY <1>3, StageRelease DEF PopTimeout, PopFails, FetchFails, GenerateFailsSilently
  <1>4. CASE Fetch
    <2>1. CASE records[popped] = None
      BY <1>4, <2>1, StageRelease DEF Fetch
    <2>2. CASE records[popped] # None
      <3> DEFINE s == records[popped].sub
      <3>1. popped \in JobIds /\ s \in Subs /\ IdOf[s] = popped
        BY <1>4, <2>2 DEF Fetch, TypeInv, TypeOK, WorkerOK, Record, SafeInv, KeyInv
      <3>2. records[popped] = NewRecord(s)
        BY <2>2, <3>1 DEF SafeInv, PoppedInv, Fresh
      <3>3. /\ UNCHANGED <<records, snap>> /\ snap = None
            /\ held' = s /\ wstep' = "read" /\ site' = "processing"
        BY <1>4, <2>2 DEF Fetch, redis, SafeInv, KeyInv
      <3> QED BY <3>1, <3>2, <3>3 DEF StageInv, Expects, Expected, Updating, NewRecord
    <2> QED BY <2>1, <2>2
  <1>5. CASE Generate
    <2>1. /\ UNCHANGED <<records, held, snap>> /\ snap = None /\ wstep = "generate"
          /\ wstep' = "read" /\ site' \in Outcomes
      BY <1>5 DEF Generate, redis, SafeInv, KeyInv
    <2>2. site' # "processing" /\ site' # "failed_delivery"
      BY <2>1 DEF Outcomes
    <2> QED BY <2>1, <2>2 DEF StageInv, Expects, Expected, Updating, Outcomes
  <1>6. CASE UpdateRead
    <2>1. CASE records[IdOf[held]] = None
      BY <1>6, <2>1, StageAfterUpdate DEF UpdateRead, redis
    <2>2. CASE records[IdOf[held]] # None
      <3>1. /\ snap' = records[IdOf[held]] /\ wstep = "read" /\ wstep' = "write"
            /\ UNCHANGED <<records, site, held, attempt, retryable>>
        BY <1>6, <2>2 DEF UpdateRead, delivery, redis
      <3> QED BY <3>1 DEF StageInv, Expects, Exhausted, Expected, Updating
    <2> QED BY <2>1, <2>2
  <1>7. CASE UpdateWrite
    BY <1>7, StageAfterUpdate DEF UpdateWrite
  <1>8. CASE UpdateReadFails \/ UpdateWriteFails
    BY <1>8, StageAfterUpdateError DEF UpdateReadFails, UpdateWriteFails, redis
  <1>9. CASE SendOk \/ SendFails \/ Backoff
    <2>1. /\ UNCHANGED <<records, held>> /\ snap' = None
          /\ \/ wstep' = "read" /\ site' \in {"acked", "nacked"}
             \/ wstep' = "send"
      BY <1>9 DEF SendOk, SendFails, Backoff, Goto, redis
    <2>2. held # None => records[IdOf[held]] \in Record \cup {None}
      BY HeldRecord
    <2> QED BY <2>1, <2>2 DEF StageInv, Expects, Expected, Updating, Record
  <1> QED BY <1>1, <1>2, <1>3, <1>4, <1>5, <1>6, <1>7, <1>8, <1>9
          DEF WorkerStep, WorkerFault

\* The invariant holds in every behaviour.
LEMMA StageInvariant ==
  ASSUME OneRunPerId
  PROVE  Spec => []StageInv
  <1>1. Init => StageInv
    BY DEF Init, StageInv
  <1>2. TypeInv /\ TypeInv' /\ SafeInv /\ StageInv /\ [Next]_vars => StageInv'
    <2> SUFFICES ASSUME TypeInv, TypeInv', SafeInv, StageInv, [Next]_vars PROVE StageInv'
      OBVIOUS
    <2>1. CASE \E s \in Subs : HandlerStep(s)
      <3>1. PICK s \in Subs : HandlerStep(s)
        BY <2>1
      <3>2. CASE SaveRecord(s)
        <4>1. held # s
          BY <3>2 DEF SaveRecord, SafeInv, HandlerInv, HandlerSteps, AtWorker
        <4>2. held # None => records'[IdOf[held]] = records[IdOf[held]]
          BY <3>2, <4>1, HeldRecord, SubsAssumption
             DEF SaveRecord, OneRunPerId, UniqueIds, TypeInv, TypeOK
        <4> QED BY <3>2, <4>2, StageFrame DEF SaveRecord
      <3>3. CASE InsertRow(s) \/ PushId(s)
        BY <3>3, StageFrame DEF InsertRow, PushId, redis
      <3> QED BY <3>1, <3>2, <3>3 DEF HandlerStep
    <2>2. CASE WorkerStep \/ WorkerFault
      BY <2>2, StageWorker
    <2>3. CASE \E j \in JobIds : Expire(j)
      <3>1. held # None => records'[IdOf[held]] \in {records[IdOf[held]], None}
        BY <2>3, HeldRecord DEF Expire, TypeInv, TypeOK
      <3> QED BY <2>3, <3>1, StageFrame DEF Expire
    <2>4. CASE Lifespan
      BY <2>4, StageRelease, StageFrame DEF Lifespan, Crash, Stop, WorkerExit, Restart, redis
    <2>5. CASE UNCHANGED vars
      BY <2>5, StageFrame DEF vars, redis
    <2> QED BY <2>1, <2>2, <2>3, <2>4, <2>5 DEF Next
  <1> QED BY <1>1, <1>2, SafeInvariant, TypeInvariant, PTL DEF Spec
-----------------------------------------------------------------------------
(***************************************************************************)
(* Every step of the pipeline is a step of the lifecycle, or a stutter.     *)
(***************************************************************************)
Status(s) == IF records[IdOf[s]] = None THEN "none" ELSE records[IdOf[s]].status

\* A step that changes the record of one submission.
LEMMA ShowOne ==
  ASSUME NEW s \in Subs, NEW to, UNCHANGED received, Status(s)' = to,
         \A t \in Subs : t # s => records'[IdOf[t]] = records[IdOf[t]]
  PROVE  Lifecycle!Show(s, to)
  BY DEF Lifecycle!Show, Status

\* A step that changes no status.
LEMMA ShowNone ==
  ASSUME UNCHANGED received, \A t \in Subs : Status(t)' = Status(t)
  PROVE  UNCHANGED Lifecycle!vars
  BY DEF Lifecycle!vars, Status

\* update_job's write moves the status of the job in hand as the lifecycle allows.
LEMMA WriteImplements ==
  ASSUME TypeInv, SafeInv, StageInv, UniqueIds, UNCHANGED received,
         wstep = "write", WriteBack
  PROVE  Lifecycle!Next \/ UNCHANGED Lifecycle!vars
  <1>0. PICK h : h = held
    OBVIOUS
  <1>1. /\ h \in Subs /\ held \in Subs /\ held # None
        /\ snap \in Record /\ site \in Sites \ {"none"}
    BY <1>0 DEF TypeInv, TypeOK, WorkerOK, Busy
  <1>2. records[IdOf[held]] \in Record \cup {None}
    BY <1>0, <1>1, HeldRecord
  <1>3. \A t \in Subs : t # h => records'[IdOf[t]] = records[IdOf[t]]
    BY <1>0, <1>1, Written, SubsAssumption DEF UniqueIds
  <1>4. PICK to : to = NewStatus(snap)
    OBVIOUS
  <1>5. Status(h)' = to
    <2>1. records'[IdOf[h]] = Updated(snap)
      BY <1>0, Written
    <2>2. Updated(snap) # None
      BY <1>0, <1>1, UpdatedType, NoneAssumption
    <2> QED BY <1>4, <2>1, <2>2 DEF Status, Updated
  <1>6. Lifecycle!Show(h, to)
    BY <1>0, <1>1, <1>3, <1>5, ShowOne
  <1>7. ~Delivering => received[h] = {}
    BY <1>0, <1>1 DEF SafeInv, HeldInv
  <1>8. Status(h) = [s \in Subs |-> IF records[IdOf[s]] = None THEN "none"
                                    ELSE records[IdOf[s]].status][h]
    BY <1>0, <1>1 DEF Status
  <1>9. CASE site = "processing"
    <2>1. to = "processing" /\ received[h] = {}
      BY <1>0, <1>4, <1>7, <1>9 DEF NewStatus, Statuses, Delivering
    <2>2. Status(h) \in {"none", "accepted"}
      BY <1>0, <1>1, <1>9 DEF StageInv, Expects, Expected, Updating, Status
    <2>3. Lifecycle!Begin(h) \/ Lifecycle!Return(h)
      BY <1>0, <1>6, <1>8, <2>1, <2>2 DEF Lifecycle!Begin, Lifecycle!Move, Lifecycle!Return
    <2> QED BY <1>1, <2>3 DEF Lifecycle!Next
  <1>10. CASE site \in Outcomes
    <2>1. to = site /\ received[h] = {}
      BY <1>0, <1>4, <1>7, <1>10 DEF NewStatus, Statuses, Delivering, Outcomes
    <2>2. \/ Status(h) \in {"none", "processing"}
          \/ site = "failed_processing" /\ Status(h) = "succeeded"
      BY <1>0, <1>1, <1>10 DEF StageInv, Expects, Expected, Updating, Status, Outcomes
    <2>3. Lifecycle!Finish(h) \/ Lifecycle!Revise(h) \/ Lifecycle!Return(h)
      BY <1>0, <1>6, <1>8, <1>10, <2>1, <2>2
         DEF Lifecycle!Finish, Lifecycle!Revise, Lifecycle!Move, Lifecycle!Return,
             Lifecycle!Outcomes, Outcomes
    <2> QED BY <1>1, <2>3 DEF Lifecycle!Next
  <1>11. CASE site \in {"acked", "nacked", "failed_delivery"}
    <2>1. /\ received[h] \subseteq {outcome} /\ outcome \in Outcomes
          /\ snap.status = outcome
          /\ Status(h) \in {"none", outcome}
      BY <1>0, <1>1, <1>11, NoneAssumption
         DEF SafeInv, HeldInv, Delivering, Status, TypeInv, WorkerOK
    <2>2. CASE site = "failed_delivery"
      <3>1. to = "failed_delivery"
        BY <1>4, <2>2 DEF NewStatus, Statuses
      <3>2. Lifecycle!GiveUp(h) \/ Lifecycle!Return(h)
        BY <1>0, <1>6, <1>8, <2>1, <3>1
           DEF Lifecycle!GiveUp, Lifecycle!Move, Lifecycle!Return, Lifecycle!Outcomes,
               Outcomes
      <3> QED BY <1>1, <3>2 DEF Lifecycle!Next
    <2>3. CASE site # "failed_delivery"
      <3>1. to = outcome
        BY <1>0, <1>4, <1>11, <2>1, <2>3 DEF NewStatus, Statuses, Outcomes
      <3>2. CASE Status(h) = "none"
        <4>1. Lifecycle!Return(h)
          BY <1>0, <1>6, <1>8, <2>1, <3>1, <3>2
             DEF Lifecycle!Return, Lifecycle!Outcomes, Outcomes
        <4> QED BY <1>1, <4>1 DEF Lifecycle!Next
      <3>3. CASE Status(h) = outcome
        <4>1. \A t \in Subs : Status(t)' = Status(t)
          BY <1>0, <1>3, <1>5, <3>1, <3>3 DEF Status
        <4> QED BY <4>1, ShowNone
      <3> QED BY <2>1, <3>2, <3>3
    <2> QED BY <2>2, <2>3
  <1> QED BY <1>1, <1>9, <1>10, <1>11 DEF Sites, Outcomes

\* A POST that reaches the client tells the outcome of the job in hand.
LEMMA SendImplements ==
  ASSUME TypeInv, SafeInv, SendOk \/ SendFails
  PROVE  Lifecycle!Next \/ UNCHANGED Lifecycle!vars
  <1>0. PICK h : h = held
    OBVIOUS
  <1>1. /\ h \in Subs /\ held \in Subs /\ held # None /\ UNCHANGED records
        /\ received \in [Subs -> SUBSET Outcomes]
    BY <1>0 DEF SendOk, SendFails, TypeInv, TypeOK, WorkerOK, Busy, redis
  <1>2. /\ received[h] \subseteq {outcome} /\ outcome \in Outcomes
        /\ Status(h) \in {"none", outcome}
    BY <1>0, <1>1 DEF SafeInv, HeldInv, Delivering, Status, TypeInv, WorkerOK, SendOk, SendFails
  <1>3. \A t \in Subs : Status(t)' = Status(t)
    BY <1>0, <1>1 DEF Status
  <1>4. CASE Deliver(TRUE)
    <2>1. received' = [received EXCEPT ![held] = {outcome}]
      <3>1. received[h] \cup {outcome} = {outcome}
        BY <1>0, <1>2
      <3> QED BY <1>0, <1>1, <1>4, <3>1 DEF Deliver
    <2>2. Lifecycle!Tell(h)
      BY <1>0, <1>1, <1>2, <2>1 DEF Lifecycle!Tell, Lifecycle!Outcomes, Outcomes, Status
    <2> QED BY <1>1, <2>2 DEF Lifecycle!Next
  <1>5. CASE Deliver(FALSE)
    <2>1. UNCHANGED received
      BY <1>0, <1>1, <1>5 DEF Deliver
    <2> QED BY <2>1, <1>3, ShowNone
  <1> QED BY <1>4, <1>5 DEF SendOk, SendFails

\* The step lemma.
LEMMA StepImplements ==
  ASSUME TypeInv, SafeInv, StageInv, OneRunPerId, [Next]_vars
  PROVE  Lifecycle!Next \/ UNCHANGED Lifecycle!vars
  <1>1. CASE UNCHANGED <<records, received>>
    <2>1. \A t \in Subs : Status(t)' = Status(t)
      BY <1>1 DEF Status
    <2> QED BY <1>1, <2>1, ShowNone
  <1>2. ASSUME NEW s \in Subs, SaveRecord(s)
        PROVE  Lifecycle!Next \/ UNCHANGED Lifecycle!vars
    <2>1. CASE records' = [records EXCEPT ![IdOf[s]] = NewRecord(s)]
      <3>1. Fresh(s) /\ UNCHANGED received
        BY <1>2 DEF SaveRecord, SafeInv, HandlerInv, HandlerSteps, seen
      <3>2. \A t \in Subs : t # s => records'[IdOf[t]] = records[IdOf[t]]
        BY <1>2, <2>1, SubsAssumption DEF OneRunPerId, UniqueIds, TypeInv, TypeOK
      <3>3. records'[IdOf[s]] = NewRecord(s) /\ NewRecord(s) # None
        BY <1>2, <2>1, SubsAssumption, NewRecordType, NoneAssumption DEF TypeInv, TypeOK
      <3>4. Status(s)' = "accepted"
        BY <3>3 DEF Status, NewRecord
      <3>5. CASE records[IdOf[s]] = None
        <4>1. Lifecycle!Show(s, "accepted")
          BY <1>2, <3>1, <3>2, <3>4, ShowOne
        <4>2. Lifecycle!Accept(s)
          BY <1>2, <3>1, <3>5, <4>1 DEF Lifecycle!Accept, Lifecycle!Move, Fresh
        <4> QED BY <1>2, <4>2 DEF Lifecycle!Next
      <3>6. CASE records[IdOf[s]] = NewRecord(s)
        <4>1. \A t \in Subs : Status(t)' = Status(t)
          BY <3>2, <3>3, <3>6 DEF Status
        <4> QED BY <3>1, <4>1, ShowNone
      <3> QED BY <3>1, <3>5, <3>6 DEF Fresh
    <2>2. CASE UNCHANGED records
      BY <1>1, <1>2, <2>2 DEF SaveRecord, seen
    <2> QED BY <1>2, <2>1, <2>2 DEF SaveRecord
  <1>3. ASSUME NEW j \in JobIds, Expire(j)
        PROVE  Lifecycle!Next \/ UNCHANGED Lifecycle!vars
    <2>1. PICK s \in Subs : IdOf[s] = j
      BY <1>3 DEF Expire, TypeInv, TypeOK, Record, SafeInv, KeyInv
    <2>2. /\ records'[IdOf[s]] = None /\ UNCHANGED received
          /\ \A t \in Subs : t # s => records'[IdOf[t]] = records[IdOf[t]]
      BY <1>3, <2>1, SubsAssumption
         DEF Expire, OneRunPerId, UniqueIds, TypeInv, TypeOK, seen
    <2>3. Lifecycle!Expire(s)
      <3>1. Status(s)' = "none"
        BY <2>2 DEF Status
      <3> QED BY <2>1, <2>2, <3>1, ShowOne DEF Lifecycle!Expire
    <2> QED BY <2>1, <2>3 DEF Lifecycle!Next
  <1>4. CASE UpdateWrite \/ UpdateWriteFails
    <2>1. wstep = "write" /\ UNCHANGED received /\ (WriteBack \/ UNCHANGED records)
      BY <1>4 DEF UpdateWrite, UpdateWriteFails, seen
    <2> QED BY <1>1, <2>1, WriteImplements DEF OneRunPerId
  <1>5. CASE SendOk \/ SendFails
    BY <1>5, SendImplements
  <1>6. CASE \/ \E s \in Subs : InsertRow(s) \/ PushId(s)
             \/ StartPoll \/ Pop \/ PopTimeout \/ Fetch \/ Generate \/ UpdateRead \/ Backoff
             \/ PopFails \/ FetchFails \/ GenerateFailsSilently \/ UpdateReadFails
             \/ Lifespan \/ UNCHANGED vars
    <2>1. UNCHANGED <<records, received>>
      BY <1>6 DEF InsertRow, PushId, StartPoll, Pop, PopTimeout, Fetch, Generate,
                  UpdateRead, Backoff, PopFails, FetchFails, GenerateFailsSilently,
                  UpdateReadFails, Lifespan, Crash, Stop, WorkerExit, Restart,
                  vars, redis, seen
    <2> QED BY <1>1, <2>1
  <1> QED BY <1>2, <1>3, <1>4, <1>5, <1>6
          DEF Next, HandlerStep, WorkerStep, WorkerFault

\* The record and the callbacks of every submission behave as JobLifecycle says:
\* statuses only go forward, a client is told one outcome, and a record that comes
\* back after it expired agrees with what was told.
THEOREM ImplementsLifecycle ==
  ASSUME OneRunPerId
  PROVE  Spec => LifecycleSpec
  <1>1. Init => Lifecycle!Init
    BY SubsAssumption DEF Init, Lifecycle!Init
  <1>2. TypeInv /\ SafeInv /\ StageInv /\ [Next]_vars => [Lifecycle!Next]_(Lifecycle!vars)
    BY StepImplements
  <1> QED BY <1>1, <1>2, TypeInvariant, SafeInvariant, StageInvariant, PTL
          DEF Spec, LifecycleSpec, Lifecycle!Spec

\* The lifecycle tells one outcome at most.
LEMMA LifecycleTellsOne == LifecycleSpec => []OneOutcomeTold
  <1> DEFINE Told == received \in [Subs -> SUBSET Outcomes] /\ OneOutcomeTold
  <1>1. Lifecycle!Init => Told
    BY DEF Lifecycle!Init, OneOutcomeTold
  <1>2. Told /\ [Lifecycle!Next]_(Lifecycle!vars) => Told'
    <2> SUFFICES ASSUME Told, [Lifecycle!Next]_(Lifecycle!vars) PROVE Told'
      OBVIOUS
    <2>1. CASE UNCHANGED received
      BY <2>1 DEF OneOutcomeTold
    <2>2. ASSUME NEW s \in Subs, Lifecycle!Tell(s) PROVE Told'
      <3>1. PICK o \in Outcomes : received' = [received EXCEPT ![s] = {o}]
        BY <2>2 DEF Lifecycle!Tell, Lifecycle!Outcomes, Outcomes
      <3> QED BY <3>1 DEF OneOutcomeTold
    <2> QED BY <2>1, <2>2
         DEF Lifecycle!Next, Lifecycle!vars, Lifecycle!Accept, Lifecycle!Begin,
             Lifecycle!Finish, Lifecycle!Revise, Lifecycle!GiveUp, Lifecycle!Expire,
             Lifecycle!Return, Lifecycle!Move, Lifecycle!Show
  <1>3. Told => OneOutcomeTold
    OBVIOUS
  <1> HIDE DEF Told
  <1> QED BY <1>1, <1>2, <1>3, PTL DEF LifecycleSpec, Lifecycle!Spec

\* So a client is never told two outcomes for one submission, whatever incident
\* makes the worker try again and also when the record is gone.
THEOREM OneOutcomeCorrect ==
  ASSUME OneRunPerId
  PROVE  Spec => []OneOutcomeTold
  BY ImplementsLifecycle, LifecycleTellsOne, PTL

-----------------------------------------------------------------------------
\* A record becomes failed_delivery only for the job in hand, after the last
\* attempt or an error that is not retryable, and shows both.
THEOREM ExhaustedCorrect ==
  ASSUME OneRunPerId
  PROVE  Spec => FailedDeliveryOnlyWhenExhausted
  <1> DEFINE Marked == \A s \in Subs :
               LET r == records[IdOf[s]]
                   n == records'[IdOf[s]]
               IN  (r # None /\ n # None /\ r.status # n.status
                       /\ n.status = "failed_delivery") =>
                     /\ held = s
                     /\ attempt = TotalAttempts \/ ~retryable
                     /\ n.attempts = attempt
                     /\ n.error = "delivery"
  <1>1. TypeInv /\ SafeInv /\ StageInv /\ [Next]_vars => [Marked]_vars
    <2> SUFFICES ASSUME TypeInv, SafeInv, StageInv, Next,
                        NEW s \in Subs,
                        records[IdOf[s]] # None, records'[IdOf[s]] # None,
                        records[IdOf[s]].status # records'[IdOf[s]].status,
                        records'[IdOf[s]].status = "failed_delivery"
                 PROVE  /\ held = s
                        /\ attempt = TotalAttempts \/ ~retryable
                        /\ records'[IdOf[s]].attempts = attempt
                        /\ records'[IdOf[s]].error = "delivery"
      OBVIOUS
    <2>1. ~UNCHANGED records
      OBVIOUS
    <2>2. ASSUME NEW t \in Subs, SaveRecord(t) PROVE FALSE
      <3>1. records' = [records EXCEPT ![IdOf[t]] = NewRecord(t)]
        BY <2>1, <2>2 DEF SaveRecord
      <3>2. records'[IdOf[s]] \in {records[IdOf[s]], NewRecord(t)}
        BY <3>1, SubsAssumption DEF TypeInv, TypeOK
      <3> QED BY <3>2 DEF NewRecord
    <2>3. ASSUME NEW j \in JobIds, Expire(j) PROVE FALSE
      BY <2>3, SubsAssumption DEF Expire, TypeInv, TypeOK
    <2>4. CASE UpdateWrite \/ UpdateWriteFails
      <3>1. wstep = "write" /\ WriteBack
        BY <2>1, <2>4 DEF UpdateWrite, UpdateWriteFails
      <3>2. held # None /\ held \in Subs /\ snap # None
        BY <3>1 DEF TypeInv, TypeOK, WorkerOK, Busy
      <3>3. s = held
        BY <3>1, <3>2, Written, SubsAssumption DEF OneRunPerId, UniqueIds
      <3>4. records'[IdOf[s]] = Updated(snap)
        BY <3>1, <3>3, Written
      <3>5. NewStatus(snap) = "failed_delivery"
        BY <3>4 DEF Updated
      <3>6. site = "failed_delivery"
        <4>1. CASE Delivering
          <5>1. snap.status = outcome /\ records[IdOf[s]].status = outcome
            BY <3>2, <3>3, <4>1 DEF SafeInv, HeldInv
          <5> QED BY <3>5, <5>1 DEF NewStatus
        <4>2. CASE ~Delivering
          <5>1. site \in Statuses
            BY <3>1, <4>2 DEF Delivering, TypeInv, TypeOK, WorkerOK, Sites, Statuses, Outcomes
          <5> QED BY <3>5, <5>1 DEF NewStatus
        <4> QED BY <4>1, <4>2
      <3>7. /\ attempt = TotalAttempts \/ ~retryable
            /\ snap.attempts = attempt /\ snap.error = "delivery"
        BY <3>1, <3>2, <3>6 DEF StageInv, Updating, Exhausted
      <3>8. Updated(snap).attempts = attempt /\ Updated(snap).error = "delivery"
        BY <3>6, <3>7 DEF Updated, NewAttempts, NewError, Outcomes
      <3> QED BY <3>3, <3>4, <3>7, <3>8
    <2> QED
      BY <2>1, <2>2, <2>3, <2>4
         DEF Next, HandlerStep, WorkerStep, WorkerFault, InsertRow, PushId, StartPoll, Pop,
             PopTimeout, Fetch, Generate, UpdateRead, Backoff, SendOk, SendFails, PopFails,
             FetchFails, GenerateFailsSilently, UpdateReadFails, Lifespan, Crash, Stop,
             WorkerExit, Restart, redis
  <1>2. [][Marked]_vars <=> FailedDeliveryOnlyWhenExhausted
    BY DEF FailedDeliveryOnlyWhenExhausted
  <1> QED BY <1>1, <1>2, TypeInvariant, SafeInvariant, StageInvariant, PTL DEF Spec
-----------------------------------------------------------------------------
(***************************************************************************)
(* What an incident costs.                                                  *)
(***************************************************************************)
\* The worker has a job or an id only where it uses it; a POST is answered
\* before the answer is recorded.
BusyInv ==
    /\ held # None => wstep \in Busy
    /\ popped # None => wstep = "fetch"
    /\ Updating /\ site = "acked" => held \in acked

LEMMA BusyInvariant == Spec => []BusyInv
  <1>1. Init => BusyInv
    BY DEF Init, BusyInv, Updating
  <1>2. TypeInv /\ BusyInv /\ [Next]_vars => BusyInv'
    <2> SUFFICES ASSUME TypeInv, BusyInv, [Next]_vars PROVE BusyInv'
      OBVIOUS
    <2>1. CASE Release
      BY <2>1 DEF Release, NoJob, BusyInv, Updating
    <2>2. CASE UNCHANGED worker /\ UNCHANGED acked
      BY <2>2 DEF worker, job, BusyInv, Updating
    <2>3. CASE StartPoll \/ Pop \/ Fetch \/ Generate \/ SendOk \/ SendFails \/ Backoff
      BY <2>1, <2>3
         DEF StartPoll, Pop, Fetch, Generate, SendOk, SendFails, Backoff, Goto, job,
             BusyInv, Busy, Updating, Outcomes
    <2>4. CASE AfterUpdate /\ wstep \in {"read", "write"}
      BY <2>1, <2>4 DEF AfterUpdate, BeginDelivery, Goto, BusyInv, Busy, Updating
    <2>5. CASE AfterUpdateError /\ wstep \in {"read", "write"}
      BY <2>1, <2>5
         DEF AfterUpdateError, SuccessNotRecorded, AckNotRecorded, Goto, BusyInv, Busy,
             Updating
    <2>6. CASE UpdateRead \/ UpdateWrite \/ UpdateReadFails \/ UpdateWriteFails
      BY <2>4, <2>5, <2>6
         DEF UpdateRead, UpdateWrite, UpdateReadFails, UpdateWriteFails, seen, BusyInv,
             Busy, Updating
    <2>7. CASE PopTimeout \/ PopFails \/ FetchFails \/ GenerateFailsSilently
      BY <2>1, <2>7 DEF PopTimeout, PopFails, FetchFails, GenerateFailsSilently
    <2>8. CASE \/ \E s \in Subs : HandlerStep(s)
               \/ \E j \in JobIds : Expire(j)
               \/ Lifespan \/ UNCHANGED vars
      BY <2>1, <2>2, <2>8
         DEF HandlerStep, SaveRecord, InsertRow, PushId, Expire, Lifespan, Crash, Stop,
             WorkerExit, Restart, vars, seen
    <2> QED BY <2>3, <2>6, <2>7, <2>8 DEF Next, WorkerStep, WorkerFault
  <1> QED BY <1>1, <1>2, TypeInvariant, PTL DEF Spec

Queued(j) == \E k \in Kinds : \E i \in DOMAIN queues[k] : queues[k][i] = j

Taken == {"insert", "push", "accepted"}

\* The job of s has its record, and something will still work on it, or nothing
\* needs to.
Kept(s) ==
    /\ records[IdOf[s]] # None
    /\ handler[s] \in {"insert", "push"} \/ Queued(IdOf[s]) \/ AtWorker(s) \/ Settled(s)

\* The jobs that some incident has cost already, also those not yet given up.
Charged == {s \in Subs : handler[s] \in Taken /\ ~Kept(s)}

Costly == {"redis_error", "expiry", "empty_message", "crash"}

\* What a step may do: charge one job to an incident.
Charges ==
    \/ Charged' \subseteq Charged
    \/ /\ \E kind \in Costly : Incident(kind)
       /\ \E x : Charged' \subseteq Charged \cup {x}

LEMMA QueuedOccurs ==
  ASSUME TypeInv, NEW j
  PROVE  Occurrences(j) # {} <=> Queued(j)
  <1>1. \A k \in Kinds : queues[k] \in Seq(JobIds)
    BY DEF TypeInv, TypeOK
  <1>2. \A k \in Kinds :
           Len(queues[k]) \in Nat /\ DOMAIN queues[k] = 1 .. Len(queues[k])
    BY <1>1
  <1>3. \A k \in Kinds : \A i \in DOMAIN queues[k] :
           i \in 1 .. (Len(queues["material"]) + Len(queues["lkpd"]))
    <2> DEFINE m == Len(queues["material"])
               l == Len(queues["lkpd"])
    <2>1. m \in Nat /\ l \in Nat
      BY <1>2 DEF Kinds
    <2>2. \A k \in Kinds : DOMAIN queues[k] = 1 .. m \/ DOMAIN queues[k] = 1 .. l
      BY <1>2 DEF Kinds
    <2> HIDE DEF m, l
    <2>3. \A k \in Kinds : \A i \in DOMAIN queues[k] : i \in 1 .. (m + l)
      BY <2>1, <2>2
    <2> QED BY <2>3 DEF m, l
  <1>4. ASSUME NEW k \in Kinds, NEW i \in DOMAIN queues[k], queues[k][i] = j
        PROVE  <<k, i>> \in Occurrences(j)
    BY <1>3, <1>4 DEF Occurrences
  <1>5. ASSUME NEW e \in Occurrences(j)
        PROVE  e[1] \in Kinds /\ e[2] \in DOMAIN queues[e[1]] /\ queues[e[1]][e[2]] = j
    BY DEF Occurrences
  <1> QED BY <1>4, <1>5 DEF Queued

\* A job keeps what it has where a step changes nothing it rests on.
LEMMA KeptFrame ==
  ASSUME NEW s \in Subs, Kept(s), acked \subseteq acked',
         handler'[s] = handler[s] \/ handler'[s] \in {"insert", "push"},
         records'[IdOf[s]] = records[IdOf[s]],
         Queued(IdOf[s]) => Queued(IdOf[s])',
         AtWorker(s) => AtWorker(s)'
  PROVE  Kept(s)'
  BY DEF Kept, Settled

\* To let go of the job in hand costs that job at most.
LEMMA ReleaseCharges ==
  ASSUME TypeInv, BusyInv, UniqueIds, Release, UNCHANGED <<records, queues, acked>>,
         \A t \in Subs : handler'[t] \in {handler[t], "dropped"}
  PROVE  \E x : Charged' \subseteq Charged \cup {x}
  <1>1. \A t, u \in Subs : AtWorker(t) /\ AtWorker(u) => t = u
    BY SubsAssumption, NoneAssumption DEF BusyInv, Busy, AtWorker, UniqueIds, TypeInv, TypeOK
  <1>2. \A t \in Subs : Kept(t) /\ ~AtWorker(t) /\ handler'[t] = handler[t] => Kept(t)'
    BY KeptFrame DEF Queued
  <1>3. \A t \in Charged' : t \in Charged \/ (t \in Subs /\ AtWorker(t))
    BY <1>2 DEF Charged, Taken
  <1>4. CASE \E x \in Subs : AtWorker(x)
    <2>1. PICK x \in Subs : AtWorker(x)
      BY <1>4
    <2>2. Charged' \subseteq Charged \cup {x}
      BY <1>1, <1>3, <2>1
    <2> QED BY <2>2
  <1>5. CASE ~\E x \in Subs : AtWorker(x)
    BY <1>3, <1>5
  <1> QED BY <1>4, <1>5

\* A pop takes one id off the queues.
LEMMA PopQueued ==
  ASSUME TypeInv, queues[PopKind] # << >>, PopTail, NEW j, Queued(j),
         j # Head(queues[PopKind])
  PROVE  Queued(j)'
  <1> DEFINE q == queues[PopKind]
  <1>1. PopKind \in Kinds /\ q \in Seq(JobIds) /\ q # << >>
    BY DEF PopKind, Kinds, TypeInv, TypeOK
  <1>2. \A k \in Kinds : k # PopKind => queues'[k] = queues[k]
    BY DEF PopTail, TypeInv, TypeOK
  <1>3. queues'[PopKind] = Tail(q)
    BY <1>1 DEF PopTail, TypeInv, TypeOK
  <1>4. PICK k \in Kinds : \E i \in DOMAIN queues[k] : queues[k][i] = j
    BY DEF Queued
  <1>5. CASE k # PopKind
    BY <1>2, <1>4, <1>5 DEF Queued
  <1>6. CASE k = PopKind
    <2>1. PICK i \in DOMAIN q : q[i] = j
      BY <1>4, <1>6
    <2> HIDE DEF q
    <2>2. i \in Nat /\ i > 1 /\ i <= Len(q) /\ Len(q) \in Nat
      <3>1. q[1] = Head(q) /\ i \in 1 .. Len(q) /\ Len(q) \in Nat
        BY <1>1, <2>1
      <3>2. i # 1
        BY <2>1, <3>1 DEF q
      <3> QED BY <3>1, <3>2
    <2>3. i - 1 \in DOMAIN Tail(q) /\ Tail(q)[i - 1] = j
      BY <1>1, <2>1, <2>2
    <2> QED BY <1>1, <1>3, <2>3 DEF Queued
  <1> QED BY <1>5, <1>6

\* A step of a request handler costs nothing.
LEMMA ChargesHandler ==
  ASSUME TypeInv, OneRunPerId, NEW s \in Subs, HandlerStep(s)
  PROVE  Charged' \subseteq Charged
  <1>1. UNCHANGED <<worker, acked>>
    BY DEF HandlerStep, SaveRecord, InsertRow, PushId, seen
  <1>2. \A t \in Subs : AtWorker(t) => AtWorker(t)'
    BY <1>1 DEF AtWorker, worker, job
  <1>3. \A t \in Subs : t # s => handler'[t] = handler[t] /\ records'[IdOf[t]] = records[IdOf[t]]
    BY SubsAssumption
       DEF HandlerStep, SaveRecord, InsertRow, PushId, redis, OneRunPerId, UniqueIds,
           TypeInv, TypeOK
  <1>4. \A j \in JobIds : Queued(j) => Queued(j)'
    <2>1. CASE UNCHANGED queues
      BY <2>1 DEF Queued
    <2>2. CASE Push(s)
      <3>1. \A k \in Kinds : \A i \in DOMAIN queues[k] :
               i \in DOMAIN queues'[k] /\ queues'[k][i] = queues[k][i]
        <4>1. \A k \in Kinds : queues[k] \in Seq(JobIds)
          BY DEF TypeInv, TypeOK
        <4>2. \A k \in Kinds : queues'[k] \in {queues[k], Append(queues[k], IdOf[s])}
          BY <2>2 DEF Push, TypeInv, TypeOK
        <4>3. IdOf[s] \in JobIds
          BY SubsAssumption
        <4>4. ASSUME NEW q \in Seq(JobIds), NEW i \in DOMAIN q
              PROVE  i \in DOMAIN Append(q, IdOf[s]) /\ Append(q, IdOf[s])[i] = q[i]
          BY <4>3
        <4> QED BY <4>1, <4>2, <4>4
      <3> QED BY <3>1 DEF Queued
    <2> QED BY <2>1, <2>2
            DEF HandlerStep, SaveRecord, InsertRow, PushId, redis, Incident, OneRunPerId
  <1>5. \A t \in Subs : t # s /\ Kept(t) => Kept(t)'
    BY <1>1, <1>2, <1>3, <1>4, KeptFrame, SubsAssumption
  <1>6. ASSUME handler'[s] \in Taken, handler[s] \in Taken => Kept(s)
        PROVE  Kept(s)'
    <2>1. CASE SaveRecord(s)
      <3>1. records' = [records EXCEPT ![IdOf[s]] = NewRecord(s)] /\ handler'[s] = "insert"
        BY <1>6, <2>1 DEF SaveRecord, Taken, TypeInv, TypeOK
      <3>2. records'[IdOf[s]] # None
        BY <3>1, SubsAssumption, NewRecordType, NoneAssumption DEF TypeInv, TypeOK
      <3> QED BY <3>1, <3>2 DEF Kept
    <2>2. CASE InsertRow(s)
      <3>1. Kept(s) /\ UNCHANGED records /\ handler'[s] = "push"
        BY <1>6, <2>2 DEF InsertRow, Taken, redis, TypeInv, TypeOK
      <3> QED BY <3>1 DEF Kept
    <2>3. CASE PushId(s)
      <3>1. Kept(s) /\ UNCHANGED records /\ handler'[s] = "accepted" /\ Push(s)
        BY <1>6, <2>3 DEF PushId, Taken, TypeInv, TypeOK, Incident, OneRunPerId
      <3>2. Queued(IdOf[s])'
        <4>1. KindOf[s] \in Kinds /\ IdOf[s] \in JobIds /\ queues[KindOf[s]] \in Seq(JobIds)
          BY SubsAssumption DEF TypeInv, TypeOK
        <4>2. queues'[KindOf[s]] = Append(queues[KindOf[s]], IdOf[s])
          BY <3>1, <4>1 DEF Push, TypeInv, TypeOK
        <4>3. /\ Len(queues[KindOf[s]]) + 1 \in DOMAIN queues'[KindOf[s]]
              /\ queues'[KindOf[s]][Len(queues[KindOf[s]]) + 1] = IdOf[s]
          BY <4>1, <4>2
        <4> QED BY <4>1, <4>3 DEF Queued
      <3> QED BY <3>1, <3>2 DEF Kept
    <2> QED BY <2>1, <2>2, <2>3 DEF HandlerStep
  <1> QED BY <1>3, <1>5, <1>6 DEF Charged

\* What update_job leaves of the job in hand.
LEMMA UpdateKeeps ==
  ASSUME TypeInv, SafeInv, BusyInv, NEW h, h = held,
         wstep = "write", WriteBack, AfterUpdate, UNCHANGED acked
  PROVE  Kept(h)'
  <1>1. held \in Subs /\ held # None /\ snap \in Record /\ snap.sub = held
    BY DEF TypeInv, TypeOK, WorkerOK, Busy, SafeInv, KeyInv
  <1>2. records'[IdOf[held]] = Updated(snap) /\ Updated(snap) # None
    BY <1>1, Written, UpdatedType, NoneAssumption
  <1>3. CASE site = "processing"
    BY <1>2, <1>3 DEF AfterUpdate, Goto, Outcomes, Kept, AtWorker
  <1>4. CASE site \in Outcomes
    <2>1. CASE HasCallback[held]
      BY <1>2, <1>4, <2>1 DEF AfterUpdate, BeginDelivery, Goto, Outcomes, Kept, AtWorker
    <2>2. CASE ~HasCallback[held]
      <3>1. Updated(snap).sub = held /\ Updated(snap).status \in Outcomes
        BY <1>1, <1>4 DEF Updated, NewStatus, Statuses
      <3> QED BY <1>2, <2>2, <3>1 DEF Kept, Settled
    <2> QED BY <2>1, <2>2
  <1>5. CASE site = "nacked"
    BY <1>2, <1>5 DEF AfterUpdate, Goto, Outcomes, Kept, AtWorker
  <1>6. CASE site = "acked"
    <2>1. held \in acked
      BY <1>6 DEF BusyInv, Updating
    <2>2. Updated(snap).sub = held /\ Updated(snap).status \in Outcomes
      <3>1. snap.status = outcome /\ outcome \in Outcomes
        BY <1>1, <1>6, NoneAssumption DEF SafeInv, HeldInv, Delivering, TypeInv, WorkerOK
      <3> QED BY <1>1, <1>6, <3>1 DEF Updated, NewStatus, Statuses, Outcomes
    <2> QED BY <1>2, <2>1, <2>2 DEF Kept, Settled
  <1>7. CASE site = "failed_delivery"
    <2>1. Updated(snap).sub = held /\ Updated(snap).status = "failed_delivery"
      BY <1>1, <1>7 DEF Updated, NewStatus, Statuses
    <2> QED BY <1>2, <2>1 DEF Kept, Settled
  <1> QED BY <1>3, <1>4, <1>5, <1>6, <1>7 DEF AfterUpdate

\* Between its steps the worker drops nothing.
LEMMA ChargesFrame ==
  ASSUME UNCHANGED <<handler, records, held>>, acked \subseteq acked',
         \A t \in Subs :
            /\ Queued(IdOf[t]) => Queued(IdOf[t])' \/ popped' = IdOf[t]
            /\ popped = IdOf[t] => popped' = IdOf[t]
  PROVE  Charged' \subseteq Charged
  <1>1. \A t \in Subs : Kept(t) => Kept(t)'
    <2> SUFFICES ASSUME NEW t \in Subs, Kept(t) PROVE Kept(t)'
      OBVIOUS
    <2>1. AtWorker(t) => AtWorker(t)'
      BY DEF AtWorker
    <2>2. Queued(IdOf[t]) => Queued(IdOf[t])' \/ AtWorker(t)'
      BY DEF AtWorker
    <2>3. Settled(t) => Settled(t)'
      BY DEF Settled
    <2> QED BY <2>1, <2>2, <2>3 DEF Kept
  <1> QED BY <1>1 DEF Charged

\* A step of the worker.
LEMMA ChargesWorker ==
  ASSUME TypeInv, SafeInv, BusyInv, UniqueIds, WorkerStep \/ WorkerFault
  PROVE  Charges
  <1>1. UNCHANGED handler
    BY DEF WorkerStep, WorkerFault, StartPoll, Pop, PopTimeout, Fetch, Generate, UpdateRead,
           UpdateWrite, SendOk, SendFails, Backoff, PopFails, FetchFails,
           GenerateFailsSilently, UpdateReadFails, UpdateWriteFails, api
  <1>2. ASSUME Release, UNCHANGED <<records, queues, acked>>, ~\E t \in Subs : AtWorker(t)
        PROVE  Charged' \subseteq Charged
    <2>1. \A t \in Subs : Kept(t) => Kept(t)'
      BY <1>1, <1>2, KeptFrame DEF Queued
    <2> QED BY <1>1, <2>1 DEF Charged
  <1>3. CASE StartPoll \/ Generate \/ Backoff \/ SendOk \/ SendFails
    <2>1. UNCHANGED <<records, queues, held, popped>> /\ acked \subseteq acked'
      BY <1>3 DEF StartPoll, Generate, Backoff, SendOk, SendFails, Goto, redis, job, seen
    <2> QED BY <1>1, <2>1, ChargesFrame DEF Charges, Queued
  <1>4. CASE Pop
    <2>1. /\ UNCHANGED <<records, held, acked>> /\ popped = None
          /\ popped' = Head(queues[PopKind]) /\ queues[PopKind] # << >> /\ PopTail
      BY <1>4 DEF Pop, seen, BusyInv
    <2>2. \A t \in Subs : Queued(IdOf[t]) => Queued(IdOf[t])' \/ popped' = IdOf[t]
      BY <2>1, PopQueued
    <2>3. \A t \in Subs : popped # IdOf[t]
      BY <2>1, SubsAssumption, NoneAssumption
    <2> QED BY <1>1, <2>1, <2>2, <2>3, ChargesFrame DEF Charges
  <1>5. CASE PopTimeout \/ PopFails
    <2>1. Release /\ UNCHANGED <<records, acked>> /\ held = None /\ popped = None
      BY <1>5 DEF PopTimeout, PopFails, redis, seen, BusyInv, Busy
    <2>2. ~\E t \in Subs : AtWorker(t)
      BY <2>1, SubsAssumption, NoneAssumption DEF AtWorker
    <2>3. CASE UNCHANGED queues
      BY <1>2, <2>1, <2>2, <2>3 DEF Charges
    <2>4. CASE ~UNCHANGED queues
      <3>1. Incident("redis_error") /\ queues[PopKind] # << >> /\ PopTail
        BY <1>5, <2>4 DEF PopTimeout, PopFails, redis
      <3>2. \A t \in Subs : Kept(t) /\ IdOf[t] # Head(queues[PopKind]) => Kept(t)'
        BY <1>1, <2>1, <2>2, <3>1, PopQueued, KeptFrame
      <3>3. \A t \in Charged' : t \in Charged \/ (t \in Subs /\ IdOf[t] = Head(queues[PopKind]))
        BY <1>1, <3>2 DEF Charged
      <3>4. \E x : Charged' \subseteq Charged \cup {x}
        <4>1. CASE \E x \in Subs : IdOf[x] = Head(queues[PopKind])
          <5>1. PICK x \in Subs : IdOf[x] = Head(queues[PopKind])
            BY <4>1
          <5>2. Charged' \subseteq Charged \cup {x}
            BY <3>3, <5>1 DEF UniqueIds
          <5> QED BY <5>2
        <4>2. CASE ~\E x \in Subs : IdOf[x] = Head(queues[PopKind])
          BY <3>3, <4>2
        <4> QED BY <4>1, <4>2
      <3> QED BY <3>1, <3>4 DEF Charges, Costly
    <2> QED BY <2>3, <2>4
  <1>6. CASE Fetch
    <2>1. /\ UNCHANGED <<records, queues, acked>> /\ held = None
          /\ popped \in JobIds /\ popped # None
      BY <1>6 DEF Fetch, redis, seen, BusyInv, Busy, TypeInv, TypeOK, WorkerOK
    <2>2. ASSUME NEW t \in Subs, Kept(t) PROVE Kept(t)'
      <3>1. CASE IdOf[t] # popped
        <4>1. ~AtWorker(t)
          BY <2>1, <3>1, NoneAssumption DEF AtWorker
        <4> QED BY <1>1, <2>1, <2>2, <4>1, KeptFrame DEF Queued
      <3>2. CASE IdOf[t] = popped
        <4>1. records[popped] \in Record /\ IdOf[records[popped].sub] = popped
          BY <2>1, <2>2, <3>2 DEF Kept, TypeInv, TypeOK, SafeInv, KeyInv
        <4>2. records[popped].sub = t
          BY <3>2, <4>1 DEF UniqueIds, Record
        <4>3. held' = t
          BY <1>6, <2>2, <3>2, <4>2 DEF Fetch, Kept
        <4> QED BY <2>1, <2>2, <4>3 DEF Kept, AtWorker
      <3> QED BY <3>1, <3>2
    <2> QED BY <1>1, <2>2 DEF Charges, Charged
  <1>7. CASE FetchFails \/ GenerateFailsSilently
    <2>1. /\ Release /\ UNCHANGED <<records, queues, acked>>
          /\ \E kind \in Costly : Incident(kind)
      BY <1>7 DEF FetchFails, GenerateFailsSilently, redis, seen, Costly
    <2> QED BY <1>1, <2>1, ReleaseCharges DEF Charges
  <1>8. CASE UpdateRead /\ records[IdOf[held]] # None
    <2>1. UNCHANGED <<records, queues, held, popped, acked>>
      BY <1>8 DEF UpdateRead, redis, seen
    <2> QED BY <1>1, <2>1, ChargesFrame DEF Charges, Queued
  <1>9. CASE \/ UpdateRead /\ records[IdOf[held]] = None
             \/ UpdateWrite \/ UpdateReadFails \/ UpdateWriteFails
    <2>1. PICK h : h = held
      OBVIOUS
    <2>2. /\ UNCHANGED <<queues, acked>> /\ popped = None
          /\ h \in Subs /\ h # None
          /\ wstep \in {"read", "write"}
      BY <1>9, <2>1
         DEF UpdateRead, UpdateWrite, UpdateReadFails, UpdateWriteFails, redis, seen, BusyInv,
             Busy, TypeInv, TypeOK, WorkerOK
    <2>3. \A t \in Subs : t # h => records'[IdOf[t]] = records[IdOf[t]]
      <3>1. UNCHANGED records \/ (wstep = "write" /\ WriteBack)
        BY <1>9 DEF UpdateRead, UpdateWrite, UpdateReadFails, UpdateWriteFails, redis
      <3>2. \A t \in Subs : t # h => IdOf[t] \in JobIds /\ IdOf[t] # IdOf[h]
        BY <2>2, SubsAssumption DEF UniqueIds
      <3>3. CASE UNCHANGED records
        BY <3>3
      <3>4. CASE wstep = "write" /\ WriteBack
        BY <2>1, <3>2, <3>4, Written
      <3> QED BY <3>1, <3>3, <3>4
    <2>4. \A t \in Subs : t # h /\ Kept(t) => Kept(t)'
      <3>1. \A t \in Subs : t # h => ~AtWorker(t)
        BY <2>1, <2>2, SubsAssumption, NoneAssumption DEF AtWorker
      <3>2. \A j : Queued(j) => Queued(j)'
        BY <2>2 DEF Queued
      <3> QED BY <1>1, <2>2, <2>3, <3>1, <3>2, KeptFrame
    <2>5. Charged' \subseteq Charged \cup {h}
      BY <1>1, <2>4 DEF Charged
    <2>6. CASE UpdateRead /\ records[IdOf[held]] = None
      <3>1. ~Kept(h)
        BY <2>1, <2>6 DEF Kept
      <3> QED BY <1>1, <2>4, <3>1 DEF Charges, Charged
    <2>7. CASE UpdateWrite
      <3>1. Kept(h)'
        BY <2>1, <2>7, UpdateKeeps DEF UpdateWrite, seen
      <3> QED BY <1>1, <2>4, <3>1 DEF Charges, Charged
    <2>8. CASE UpdateReadFails \/ UpdateWriteFails
      <3>1. \E kind \in Costly : Incident(kind)
        BY <2>8 DEF UpdateReadFails, UpdateWriteFails, Costly
      <3> QED BY <2>5, <3>1 DEF Charges
    <2> QED BY <1>9, <2>6, <2>7, <2>8
  <1> QED BY <1>3, <1>4, <1>5, <1>6, <1>7, <1>8, <1>9 DEF WorkerStep, WorkerFault

\* Every step charges at most one job, and only to an incident of a costly kind.
LEMMA StepCharges ==
  ASSUME TypeInv, SafeInv, BusyInv, OneRunPerId, [Next]_vars
  PROVE  Charges
  <1>1. CASE \E s \in Subs : HandlerStep(s)
    BY <1>1, ChargesHandler DEF Charges
  <1>2. CASE WorkerStep \/ WorkerFault
    BY <1>2, ChargesWorker DEF OneRunPerId
  <1>3. ASSUME NEW j \in JobIds, Expire(j) PROVE Charges
    <2>1. UNCHANGED <<handler, queues, held, popped, acked>> /\ Incident("expiry")
      BY <1>3 DEF Expire, api, worker, job, seen
    <2>2. \A t \in Subs : IdOf[t] # j => records'[IdOf[t]] = records[IdOf[t]]
      BY <1>3, SubsAssumption DEF Expire, TypeInv, TypeOK
    <2>3. \A t \in Subs : Kept(t) /\ IdOf[t] # j => Kept(t)'
      BY <2>1, <2>2, KeptFrame DEF AtWorker, Queued
    <2>4. PICK x \in Subs : IdOf[x] = j
      BY <1>3 DEF Expire, TypeInv, TypeOK, Record, SafeInv, KeyInv
    <2>5. Charged' \subseteq Charged \cup {x}
      BY <2>1, <2>3, <2>4 DEF Charged, OneRunPerId, UniqueIds
    <2> QED BY <2>1, <2>5 DEF Charges, Costly
  <1>4. CASE Crash
    <2>1. \A t \in Subs : handler'[t] \in {handler[t], "dropped"}
      BY <1>4 DEF Crash
    <2> QED BY <1>4, <2>1, ReleaseCharges DEF Crash, redis, seen, Charges, Costly, OneRunPerId
  <1>5. CASE Stop \/ WorkerExit \/ Restart \/ UNCHANGED vars
    <2>1. UNCHANGED <<handler, records, queues, held, popped, acked>>
      BY <1>5 DEF Stop, WorkerExit, Restart, vars, api, redis, worker, job, seen
    <2> QED BY <2>1, ChargesFrame DEF Charges, Queued
  <1> QED BY <1>1, <1>2, <1>3, <1>4, <1>5 DEF Next, Lifespan

\* Whoever is lost has been charged.
LEMMA LostIsCharged ==
  ASSUME TypeInv
  PROVE  Lost \subseteq Charged
  BY QueuedOccurs DEF Lost, Charged, Taken, Kept, Waiting

\* An incident costs at most one accepted job, whatever it hits: with n incidents
\* at most n submissions that were answered 202 have neither a final record nor
\* anybody who will give them one.
THEOREM LossBoundedCorrect ==
  ASSUME OneRunPerId
  PROVE  Spec => []LossBounded
  <1> DEFINE Bound == IsFiniteSet(Charged) /\ Cardinality(Charged) <= incidents
  <1>1. Init => Bound
    <2> SUFFICES ASSUME Init PROVE Bound
      OBVIOUS
    <2>1. Charged = {}
      BY DEF Init, Charged, Taken
    <2> QED BY <2>1, FS_EmptySet DEF Init
  <1>2. TypeInv /\ SafeInv /\ BusyInv /\ Bound /\ [Next]_vars => Bound'
    <2> SUFFICES ASSUME TypeInv, SafeInv, BusyInv, Bound, [Next]_vars PROVE Bound'
      OBVIOUS
    <2>1. incidents \in Nat /\ incidents' \in {incidents, incidents + 1}
      <3>1. UNCHANGED incidents \/ \E kind \in IncidentKinds : Incident(kind)
        <4>1. CASE \/ \E s \in Subs : HandlerStep(s)
                   \/ \E j \in JobIds : Expire(j)
                   \/ Lifespan \/ UNCHANGED vars
          BY <4>1 DEF HandlerStep, SaveRecord, InsertRow, PushId, Expire, Lifespan, Crash,
                      Stop, WorkerExit, Restart, vars, IncidentKinds
        <4>2. CASE WorkerStep
          BY <4>2 DEF WorkerStep, StartPoll, Pop, PopTimeout, Fetch, Generate, UpdateRead,
                      UpdateWrite, SendOk, SendFails, Backoff
        <4>3. CASE WorkerFault
          BY <4>3 DEF WorkerFault, PopFails, FetchFails, GenerateFailsSilently,
                      UpdateReadFails, UpdateWriteFails, IncidentKinds
        <4> QED BY <4>1, <4>2, <4>3 DEF Next
      <3> QED BY <3>1 DEF Incident, TypeInv, TypeOK
    <2>2. Cardinality(Charged) \in Nat
      BY FS_CardinalityType
    <2>3. CASE Charged' \subseteq Charged
      <3>1. IsFiniteSet(Charged') /\ Cardinality(Charged') <= Cardinality(Charged)
        BY <2>3, FS_Subset
      <3>2. Cardinality(Charged') \in Nat
        BY <3>1, FS_CardinalityType
      <3> QED BY <2>1, <2>2, <3>1, <3>2
    <2>4. CASE /\ \E kind \in Costly : Incident(kind)
               /\ \E x : Charged' \subseteq Charged \cup {x}
      <3>1. PICK x : Charged' \subseteq Charged \cup {x}
        BY <2>4
      <3>2. /\ IsFiniteSet(Charged \cup {x})
            /\ Cardinality(Charged \cup {x}) \in {Cardinality(Charged), Cardinality(Charged) + 1}
        <4>1. IsFiniteSet(Charged)
          OBVIOUS
        <4> QED BY <4>1, FS_AddElement
      <3>3. /\ IsFiniteSet(Charged') /\ Cardinality(Charged') <= Cardinality(Charged \cup {x})
        BY <3>1, <3>2, FS_Subset
      <3>4. Cardinality(Charged') \in Nat /\ Cardinality(Charged \cup {x}) \in Nat
        BY <3>2, <3>3, FS_CardinalityType
      <3>5. incidents' = incidents + 1
        BY <2>4 DEF Incident
      <3> QED BY <2>1, <2>2, <3>2, <3>3, <3>4, <3>5
    <2> QED BY <2>3, <2>4, StepCharges DEF Charges
  <1>3. TypeInv /\ Bound => LossBounded
    <2> SUFFICES ASSUME TypeInv, Bound PROVE LossBounded
      OBVIOUS
    <2>1. IsFiniteSet(Lost) /\ Cardinality(Lost) <= Cardinality(Charged)
      BY LostIsCharged, FS_Subset
    <2>2. Cardinality(Lost) \in Nat /\ Cardinality(Charged) \in Nat /\ incidents \in Nat
      BY <2>1, FS_CardinalityType DEF TypeInv, TypeOK
    <2> QED BY <2>1, <2>2 DEF LossBounded
  <1> HIDE DEF Bound
  <1> QED BY <1>1, <1>2, <1>3, TypeInvariant, SafeInvariant, BusyInvariant, PTL DEF Spec

\* Graceful stops and restarts, also next to a Postgres that fails, lose no
\* accepted job.
THEOREM NothingLostCorrect ==
  ASSUME OneRunPerId, Incidents \cap Costly = {}
  PROVE  Spec => []NothingLost
  <1> DEFINE NoneCharged == Charged = {}
  <1>1. Init => NoneCharged
    BY DEF Init, Charged, Taken
  <1>2. TypeInv /\ SafeInv /\ BusyInv /\ NoneCharged /\ [Next]_vars => NoneCharged'
    BY StepCharges DEF Charges, Incident
  <1>3. TypeInv /\ NoneCharged => NothingLost
    BY LostIsCharged DEF NothingLost
  <1> HIDE DEF NoneCharged
  <1> QED BY <1>1, <1>2, <1>3, TypeInvariant, SafeInvariant, BusyInvariant, PTL DEF Spec

-----------------------------------------------------------------------------
(***************************************************************************)
(* What is on the record when the worker has left a job.  The incidents     *)
(* that the theorems exclude are those of the runs silent_failure and       *)
(* undelivered_unmarked, and the kill, which leaves any job half done.      *)
(***************************************************************************)
\* Only the job in hand is processing, and its outcome is still to be recorded;
\* a copy that is written back without a new status is not of such a record.
\* Ids may be shared and queued twice.
ProcessingInv ==
    /\ \A j \in JobIds :
        records[j] # None /\ records[j].status = "processing" =>
            /\ held # None /\ j = IdOf[held]
            /\ wstep = "generate" \/ (Updating /\ site \in Outcomes)
    /\ wstep = "write" /\ site \notin Statuses => snap.status # "processing"

\* What an update that returns leaves on the record of the job in hand.
LEMMA UpdateShows ==
  ASSUME TypeInv, AfterUpdate,
         \/ wstep = "read" /\ UNCHANGED records /\ records[IdOf[held]] = None
         \/ wstep = "write" /\ WriteBack
  PROVE  /\ held \in Subs /\ IdOf[held] \in JobIds
         /\ \A j \in JobIds : j # IdOf[held] => records'[j] = records[j]
         /\ \/ wstep = "read" /\ records'[IdOf[held]] = None
            \/ wstep = "write" /\ snap \in Record /\ records'[IdOf[held]] = Updated(snap)
         /\ site \in Statuses \cup {"acked", "nacked"}
  <1>1. held \in Subs /\ IdOf[held] \in JobIds /\ wstep \in {"read", "write"}
    BY SubsAssumption DEF TypeInv, TypeOK, WorkerOK, Busy
  <1>2. site \in Statuses \cup {"acked", "nacked"}
    BY <1>1 DEF TypeInv, TypeOK, WorkerOK, Sites, Statuses, Outcomes
  <1>3. \A j \in JobIds : j # IdOf[held] => records'[j] = records[j]
    BY <1>1 DEF WriteBack, TypeInv, TypeOK
  <1>4. CASE wstep = "read" /\ UNCHANGED records /\ records[IdOf[held]] = None
    BY <1>1, <1>2, <1>3, <1>4
  <1>5. CASE wstep = "write" /\ WriteBack
    <2>1. snap \in Record /\ records'[IdOf[held]] = Updated(snap)
      BY <1>1, <1>5 DEF WriteBack, TypeInv, TypeOK, WorkerOK
    <2> QED BY <1>1, <1>2, <1>3, <1>5, <2>1
  <1> QED BY <1>4, <1>5

LEMMA ProcessingStep ==
  ASSUME Incidents \cap {"redis_error", "empty_message", "crash"} = {},
         TypeInv, BusyInv, ProcessingInv, [Next]_vars
  PROVE  ProcessingInv'
  <1> USE DEF ProcessingInv, Updating
  <1>1. CASE \E s \in Subs : HandlerStep(s)
    <2>1. UNCHANGED <<wstep, site, held, snap>>
      BY <1>1 DEF HandlerStep, SaveRecord, InsertRow, PushId, worker, job
    <2>2. CASE UNCHANGED records
      BY <2>1, <2>2
    <2>3. ASSUME NEW s \in Subs, SaveRecord(s), ~UNCHANGED records
          PROVE  ProcessingInv'
      <3>1. records' = [records EXCEPT ![IdOf[s]] = NewRecord(s)]
        BY <2>3 DEF SaveRecord
      <3>2. NewRecord(s).status = "accepted"
        BY DEF NewRecord
      <3>3. \A j \in JobIds : records'[j] = records[j] \/ records'[j] = NewRecord(s)
        BY <3>1 DEF TypeInv, TypeOK
      <3> QED BY <2>1, <3>2, <3>3
    <2> QED BY <1>1, <2>2, <2>3 DEF HandlerStep, InsertRow, PushId, redis
  <1>2. CASE \E j \in JobIds : Expire(j)
    <2>1. PICK j \in JobIds : Expire(j)
      BY <1>2
    <2>2. \A i \in JobIds : records'[i] \in {records[i], None}
      BY <2>1 DEF Expire, TypeInv, TypeOK
    <2> QED BY <2>1, <2>2 DEF Expire, worker, job
  <1>3. CASE Stop \/ WorkerExit \/ Restart \/ UNCHANGED vars
    BY <1>3 DEF Stop, WorkerExit, Restart, vars, redis, worker, job
  <1>4. CASE StartPoll \/ Pop \/ PopTimeout \/ Fetch
    <2>1. UNCHANGED records /\ held = None /\ wstep' # "write"
      BY <1>4 DEF StartPoll, Pop, PopTimeout, Fetch, Release, redis, BusyInv, Busy
    <2> QED BY <2>1
  <1>5. CASE Generate
    BY <1>5 DEF Generate, redis
  <1>6. CASE SendOk \/ SendFails \/ Backoff
    BY <1>6 DEF SendOk, SendFails, Backoff, Goto, redis
  <1>7. CASE UpdateRead /\ records[IdOf[held]] # None
    <2>1. /\ UNCHANGED <<records, held, site>> /\ wstep = "read" /\ wstep' = "write"
          /\ snap' = records[IdOf[held]]
      BY <1>7 DEF UpdateRead, redis
    <2>2. IdOf[held] \in JobIds
      BY <2>1, SubsAssumption DEF TypeInv, TypeOK, WorkerOK, Busy
    <2>3. site \notin Statuses => site \notin Outcomes
      BY DEF Statuses
    <2> QED BY <1>7, <2>1, <2>2, <2>3
  <1>8. CASE (UpdateRead /\ records[IdOf[held]] = None) \/ UpdateWrite
    <2>1. /\ AfterUpdate
          /\ \/ wstep = "read" /\ UNCHANGED records /\ records[IdOf[held]] = None
             \/ wstep = "write" /\ WriteBack
      BY <1>8 DEF UpdateRead, UpdateWrite, redis
    <2>2. PICK h : h = held
      OBVIOUS
    <2>3. /\ h \in Subs
          /\ \A j \in JobIds : j # IdOf[h] => records'[j] = records[j]
          /\ \/ wstep = "read" /\ records'[IdOf[h]] = None
             \/ wstep = "write" /\ snap \in Record /\ records'[IdOf[h]] = Updated(snap)
          /\ site \in Statuses \cup {"acked", "nacked"}
      BY <2>1, <2>2, UpdateShows
    <2>4. wstep' # "write"
      BY <2>1 DEF AfterUpdate, BeginDelivery, Goto, Release
    <2>5. \A j \in JobIds : j # IdOf[h] =>
             ~(records'[j] # None /\ records'[j].status = "processing")
      BY <2>2, <2>3
    <2>6. ASSUME records'[IdOf[h]] # None, records'[IdOf[h]].status = "processing"
          PROVE  held' = h /\ wstep' = "generate"
      <3>1. wstep = "write" /\ NewStatus(snap) = "processing"
        BY <2>3, <2>6 DEF Updated
      <3>2. site = "processing"
        BY <2>3, <3>1 DEF NewStatus, Statuses, Outcomes
      <3> QED BY <2>1, <2>2, <3>2 DEF AfterUpdate, Goto, Outcomes
    <2> QED BY <2>3, <2>4, <2>5, <2>6, NoneAssumption
  <1>9. ~(\/ PopFails \/ FetchFails \/ UpdateReadFails \/ UpdateWriteFails
          \/ GenerateFailsSilently \/ Crash)
    BY DEF PopFails, FetchFails, UpdateReadFails, UpdateWriteFails, GenerateFailsSilently,
           Crash, Incident
  <1> QED BY <1>1, <1>2, <1>3, <1>4, <1>5, <1>6, <1>7, <1>8, <1>9
          DEF Next, WorkerStep, WorkerFault, Lifespan

\* A job the worker has left is not at processing: where no exception is silent, no
\* process killed and no Redis command fails, its outcome is on its record, also when
\* job ids collide, an id is queued twice or a record expires (README.md:240).
THEOREM OutcomeRecordedCorrect ==
  ASSUME Incidents \cap {"redis_error", "empty_message", "crash"} = {}
  PROVE  Spec => []OutcomeRecorded
  <1>1. Init => ProcessingInv
    BY DEF Init, ProcessingInv
  <1>2. TypeInv /\ BusyInv /\ ProcessingInv /\ [Next]_vars => ProcessingInv'
    BY ProcessingStep
  <1>3. ProcessingInv => OutcomeRecorded
    BY DEF ProcessingInv, OutcomeRecorded, Updating
  <1> QED BY <1>1, <1>2, <1>3, TypeInvariant, BusyInvariant, PTL DEF Spec

-----------------------------------------------------------------------------
\* A job that was called back and left was acknowledged or given up.
LeftInv ==
    \A s \in Subs :
        records[IdOf[s]] # None /\ received[s] # {} /\ held # s =>
            s \in acked \/ records[IdOf[s]].status = "failed_delivery"

\* Requests, expiries and the process leave both as they are.
LEMMA LeftFrame ==
  ASSUME TypeInv, SafeInv, OneRunPerId,
         UNCHANGED <<held, seen>>,
         \A s \in Subs :
            \/ records'[IdOf[s]] \in {records[IdOf[s]], None}
            \/ records'[IdOf[s]] = NewRecord(s) /\ Fresh(s)
  PROVE  LeftInv => LeftInv'
  BY DEF LeftInv, NewRecord, Fresh, seen

LEMMA LeftElsewhere ==
  ASSUME TypeInv, SafeInv, OneRunPerId,
         \/ \E s \in Subs : HandlerStep(s)
         \/ \E j \in JobIds : Expire(j)
         \/ Stop \/ WorkerExit \/ Restart \/ UNCHANGED vars
  PROVE  LeftInv => LeftInv'
  <1>1. UNCHANGED <<held, seen>>
    BY DEF HandlerStep, SaveRecord, InsertRow, PushId, Expire, Stop, WorkerExit, Restart, vars,
           worker, job
  <1>2. CASE UNCHANGED records
    BY <1>1, <1>2, LeftFrame
  <1>3. ASSUME NEW s \in Subs, SaveRecord(s), ~UNCHANGED records
        PROVE  LeftInv => LeftInv'
    <2>1. records' = [records EXCEPT ![IdOf[s]] = NewRecord(s)] /\ Fresh(s)
      BY <1>3 DEF SaveRecord, SafeInv, HandlerInv, HandlerSteps
    <2>2. /\ records'[IdOf[s]] = NewRecord(s)
          /\ \A t \in Subs : t # s => records'[IdOf[t]] = records[IdOf[t]]
      BY <2>1, SubsAssumption DEF OneRunPerId, UniqueIds, TypeInv, TypeOK
    <2> QED BY <1>1, <2>1, <2>2, LeftFrame
  <1>4. ASSUME NEW j \in JobIds, Expire(j)
        PROVE  LeftInv => LeftInv'
    <2>1. \A s \in Subs : records'[IdOf[s]] \in {records[IdOf[s]], None}
      BY <1>4, SubsAssumption DEF Expire, TypeInv, TypeOK
    <2> QED BY <1>1, <2>1, LeftFrame
  <1> QED BY <1>2, <1>3, <1>4
          DEF HandlerStep, InsertRow, PushId, Stop, WorkerExit, Restart, vars, redis

\* What update_job leaves on the record of the job in hand.
LEMMA UpdateLeaves ==
  ASSUME TypeInv, SafeInv, StageInv, OneRunPerId, NEW h, h = held, UNCHANGED seen, AfterUpdate,
         \/ wstep = "read" /\ UNCHANGED records /\ records[IdOf[held]] = None
         \/ wstep = "write" /\ WriteBack
  PROVE  /\ h \in Subs /\ h # None /\ held' \in {h, None}
         /\ \A t \in Subs : t # h => records'[IdOf[t]] = records[IdOf[t]]
         /\ \/ records'[IdOf[h]] = None
            \/ records'[IdOf[h]] = Updated(snap) /\ wstep = "write"
         /\ wstep = "write" =>
               \/ site = "processing" /\ ~Delivering
               \/ site \in Outcomes /\ ~Delivering /\ NewStatus(snap) = site
               \/ /\ site \in {"acked", "nacked"}
                  /\ NewStatus(snap) = outcome /\ outcome \in Outcomes
               \/ site = "failed_delivery" /\ NewStatus(snap) = "failed_delivery"
  <1>1. h \in Subs /\ h # None /\ site \in Sites \ {"none"}
    BY DEF TypeInv, TypeOK, WorkerOK, Busy
  <1>2. held' \in {h, None}
    BY DEF AfterUpdate, BeginDelivery, Goto, Release, NoJob
  <1>3. \A t \in Subs : t # h => records'[IdOf[t]] = records[IdOf[t]]
    <2>1. \A t \in Subs : t # h => IdOf[t] \in JobIds /\ IdOf[t] # IdOf[h]
      BY <1>1, SubsAssumption DEF OneRunPerId, UniqueIds
    <2> QED BY <2>1, Written
  <1>4. \/ records'[IdOf[h]] = None
        \/ records'[IdOf[h]] = Updated(snap) /\ wstep = "write"
    BY Written
  <1>5. CASE site = "processing"
    BY <1>1, <1>2, <1>3, <1>4, <1>5 DEF Delivering
  <1>6. CASE site \in Outcomes
    <2>1. ~Delivering /\ NewStatus(snap) = site
      BY <1>6 DEF Delivering, NewStatus, Outcomes, Statuses
    <2> QED BY <1>1, <1>2, <1>3, <1>4, <1>6, <2>1
  <1>7. CASE site \in {"acked", "nacked"}
    <2>1. wstep = "write" => NewStatus(snap) = outcome /\ outcome \in Outcomes
      BY <1>1, <1>7
         DEF SafeInv, HeldInv, Delivering, TypeInv, WorkerOK, NewStatus, Statuses, Outcomes
    <2> QED BY <1>1, <1>2, <1>3, <1>4, <1>7, <2>1
  <1>8. CASE site = "failed_delivery"
    <2>1. NewStatus(snap) = "failed_delivery"
      BY <1>8 DEF NewStatus, Statuses
    <2> QED BY <1>1, <1>2, <1>3, <1>4, <1>8, <2>1
  <1> QED BY <1>1, <1>5, <1>6, <1>7, <1>8 DEF Sites, Outcomes

\* A step of a worker whom Redis never fails.
LEMMA LeftWorker ==
  ASSUME TypeInv, SafeInv, StageInv, BusyInv, OneRunPerId, "redis_error" \notin Incidents,
         WorkerStep \/ WorkerFault
  PROVE  LeftInv => LeftInv'
  <1>1. CASE StartPoll \/ Pop \/ PopTimeout
    <2>1. /\ UNCHANGED <<records, seen>> /\ held = None /\ held' = None
      BY <1>1 DEF StartPoll, Pop, PopTimeout, Release, NoJob, redis, job, BusyInv, Busy
    <2> QED BY <2>1 DEF LeftInv, seen
  <1>2. CASE Fetch
    <2>1. UNCHANGED <<records, seen>> /\ held = None
      BY <1>2 DEF Fetch, redis, BusyInv, Busy
    <2> QED BY <2>1, NoneAssumption DEF LeftInv, seen
  <1>3. CASE Generate
    <2>1. /\ UNCHANGED <<records, seen, held>> /\ wstep' = "read" /\ site' \in Outcomes
      BY <1>3 DEF Generate, redis
    <2> QED BY <2>1 DEF LeftInv, seen
  <1>4. CASE SendOk \/ SendFails \/ Backoff
    <2>1. /\ UNCHANGED <<records, held>> /\ wstep \in {"send", "backoff"} /\ acked \subseteq acked'
          /\ \A s \in Subs : s # held => received'[s] = received[s]
      BY <1>4 DEF SendOk, SendFails, Backoff, Goto, Deliver, redis, seen, TypeInv, TypeOK
    <2> QED BY <2>1 DEF LeftInv
  <1>5. CASE UpdateRead /\ records[IdOf[held]] # None
    <2>1. UNCHANGED <<records, seen, held, site>> /\ wstep = "read" /\ wstep' = "write"
      BY <1>5 DEF UpdateRead, redis
    <2> QED BY <2>1 DEF LeftInv, seen
  <1>6. CASE (UpdateRead /\ records[IdOf[held]] = None) \/ UpdateWrite
    <2>1. PICK h : h = held
      OBVIOUS
    <2>2. /\ UNCHANGED seen /\ AfterUpdate
          /\ \/ wstep = "read" /\ UNCHANGED records /\ records[IdOf[held]] = None
             \/ wstep = "write" /\ WriteBack
      BY <1>6 DEF UpdateRead, UpdateWrite, redis
    <2>3. /\ h \in Subs /\ h # None /\ held' \in {h, None}
          /\ \A t \in Subs : t # h => records'[IdOf[t]] = records[IdOf[t]]
          /\ \/ records'[IdOf[h]] = None
             \/ records'[IdOf[h]] = Updated(snap) /\ wstep = "write"
      BY <2>1, <2>2, UpdateLeaves
    <2>4. wstep = "write" =>
             \/ site = "processing" /\ ~Delivering
             \/ site \in Outcomes /\ ~Delivering /\ NewStatus(snap) = site
             \/ /\ site \in {"acked", "nacked"}
                /\ NewStatus(snap) = outcome /\ outcome \in Outcomes
             \/ site = "failed_delivery" /\ NewStatus(snap) = "failed_delivery"
      BY <2>1, <2>2, UpdateLeaves
    <2>5. ASSUME LeftInv PROVE LeftInv'
      <3>1. ASSUME NEW t \in Subs, t # h, records'[IdOf[t]] # None, received'[t] # {}
            PROVE  t \in acked' \/ records'[IdOf[t]].status = "failed_delivery"
        BY <2>1, <2>2, <2>3, <2>5, <3>1 DEF LeftInv, seen
      <3>2. ASSUME records'[IdOf[h]] # None, received'[h] # {}, held' # h
            PROVE  h \in acked' \/ records'[IdOf[h]].status = "failed_delivery"
        <4>1. /\ wstep = "write" /\ records'[IdOf[h]].status = NewStatus(snap)
              /\ received[h] # {} /\ UNCHANGED acked
          BY <2>2, <2>3, <3>2 DEF Updated, seen
        <4>2. Delivering
          BY <2>1, <2>3, <4>1 DEF SafeInv, HeldInv
        <4>3. site # "nacked"
          BY <2>1, <2>2, <3>2 DEF AfterUpdate, Goto, Outcomes
        <4>4. site = "acked" => h \in acked
          BY <2>1, <4>1 DEF BusyInv, Updating
        <4> QED BY <2>4, <4>1, <4>2, <4>3, <4>4
      <3> QED BY <3>1, <3>2 DEF LeftInv
    <2> QED BY <2>5
  <1>7. CASE GenerateFailsSilently
    <2>1. /\ UNCHANGED <<records, seen>> /\ held' = None /\ wstep = "generate" /\ held # None
      BY <1>7 DEF GenerateFailsSilently, Release, NoJob, redis, TypeInv, WorkerOK, Busy
    <2>2. received[held] = {}
      BY <2>1 DEF SafeInv, HeldInv, Delivering
    <2> QED BY <1>7, <2>1, <2>2 DEF LeftInv, seen
  <1>8. ~(PopFails \/ FetchFails \/ UpdateReadFails \/ UpdateWriteFails)
    BY DEF PopFails, FetchFails, UpdateReadFails, UpdateWriteFails, Incident
  <1> QED BY <1>1, <1>2, <1>3, <1>4, <1>5, <1>6, <1>7, <1>8 DEF WorkerStep, WorkerFault

\* A job whose callback was sent, and never answered 2xx, is marked failed_delivery
\* when the worker leaves it, where no Redis command fails and no process is killed.
THEOREM UndeliveredMarkedCorrect ==
  ASSUME OneRunPerId, Incidents \cap {"redis_error", "crash"} = {}
  PROVE  Spec => []UndeliveredIsFailedDelivery
  <1>1. Init => LeftInv
    BY SubsAssumption DEF Init, LeftInv
  <1>2. TypeInv /\ SafeInv /\ StageInv /\ BusyInv /\ LeftInv /\ [Next]_vars => LeftInv'
    <2>1. ~Crash
      BY DEF Crash, Incident
    <2> QED BY <2>1, LeftElsewhere, LeftWorker DEF Next, Lifespan
  <1>3. LeftInv => UndeliveredIsFailedDelivery
    BY DEF LeftInv, UndeliveredIsFailedDelivery, AtWorker
  <1> QED BY <1>1, <1>2, <1>3, TypeInvariant, SafeInvariant, StageInvariant,
             BusyInvariant, PTL DEF Spec
-----------------------------------------------------------------------------
(***************************************************************************)
(* The same where ids are shared and an id is queued twice.                 *)
(***************************************************************************)
\* A record, and the worker's copy of one, is of a submission that was made
\* under its id; so is the job in hand.
OwnerInv ==
    /\ \A j \in JobIds : records[j] # None =>
         IdOf[records[j].sub] = j /\ handler[records[j].sub] # "idle"
    /\ held # None => handler[held] # "idle"
    /\ wstep = "write" => IdOf[snap.sub] = IdOf[held] /\ handler[snap.sub] # "idle"

\* Who is called back was submitted, with a callback_url.
CalledInv ==
    /\ \A s \in Subs : received[s] # {} => HasCallback[s] /\ handler[s] # "idle"
    /\ Delivering => HasCallback[held]

\* A record of a submission that was called back, and is not in hand, is settled,
\* and the job in hand has another id; update_job holds no copy of such a record.
SharedInv ==
    /\ \A s \in Subs :
        /\ records[IdOf[s]] # None
        /\ records[IdOf[s]].sub = s
        /\ received[s] # {}
        /\ held # s
        => /\ s \in acked \/ records[IdOf[s]].status = "failed_delivery"
           /\ held # None => IdOf[held] # IdOf[s]
    /\ wstep = "write" /\ snap.sub # held => received[snap.sub] = {}

\* No handler goes back to the start.
LEMMA StartedStays ==
  ASSUME TypeInv, [Next]_vars, NEW s \in Subs, handler[s] # "idle"
  PROVE  handler'[s] # "idle"
  <1>1. CASE \E t \in Subs : HandlerStep(t)
    BY <1>1 DEF HandlerStep, SaveRecord, InsertRow, PushId, TypeInv, TypeOK
  <1>2. CASE Crash
    BY <1>2 DEF Crash
  <1>3. CASE WorkerStep \/ WorkerFault
    BY <1>3 DEF WorkerStep, WorkerFault, StartPoll, Pop, PopTimeout, Fetch, Generate,
                UpdateRead, UpdateWrite, SendOk, SendFails, Backoff, PopFails, FetchFails,
                GenerateFailsSilently, UpdateReadFails, UpdateWriteFails, api
  <1>4. CASE (\E j \in JobIds : Expire(j)) \/ Stop \/ WorkerExit \/ Restart \/ UNCHANGED vars
    BY <1>4 DEF Expire, Stop, WorkerExit, Restart, vars, api
  <1> QED BY <1>1, <1>2, <1>3, <1>4 DEF Next, Lifespan

\* The records a step leaves: those there were, of a request just made, or the
\* worker's copy under the id of the job in hand.
LEMMA RecordsAfter ==
  ASSUME TypeInv, [Next]_vars, NEW j \in JobIds
  PROVE  \/ records'[j] \in {records[j], None}
         \/ /\ \E s \in Subs : /\ j = IdOf[s] /\ records'[j] = NewRecord(s)
                             /\ handler[s] = "idle" /\ handler'[s] # "idle"
            /\ UNCHANGED <<worker, seen>>
         \/ wstep = "write" /\ j = IdOf[held] /\ records'[j] = Updated(snap)
  <1>1. ASSUME NEW s \in Subs, SaveRecord(s)
        PROVE  \/ records'[j] = records[j]
               \/ /\ j = IdOf[s] /\ records'[j] = NewRecord(s)
                  /\ handler[s] = "idle" /\ handler'[s] # "idle" /\ UNCHANGED <<worker, seen>>
    BY <1>1 DEF SaveRecord, TypeInv, TypeOK
  <1>2. CASE \E i \in JobIds : Expire(i)
    BY <1>2 DEF Expire, TypeInv, TypeOK
  <1>3. CASE UpdateWrite \/ UpdateWriteFails
    BY <1>3, Written DEF UpdateWrite, UpdateWriteFails
  <1>4. CASE \/ \E s \in Subs : InsertRow(s) \/ PushId(s)
             \/ StartPoll \/ Pop \/ PopTimeout \/ Fetch \/ Generate \/ UpdateRead
             \/ SendOk \/ SendFails \/ Backoff \/ PopFails \/ FetchFails
             \/ GenerateFailsSilently \/ UpdateReadFails \/ Lifespan \/ UNCHANGED vars
    BY <1>4 DEF InsertRow, PushId, StartPoll, Pop, PopTimeout, Fetch, Generate, UpdateRead,
                SendOk, SendFails, Backoff, PopFails, FetchFails, GenerateFailsSilently,
                UpdateReadFails, Lifespan, Crash, Stop, WorkerExit, Restart, vars, redis
  <1> QED BY <1>1, <1>2, <1>3, <1>4 DEF Next, HandlerStep, WorkerStep, WorkerFault

\* What a step does with the job in hand and update_job's copy.
LEMMA HandAfter ==
  ASSUME TypeInv, [Next]_vars
  PROVE  /\ \/ held' \in {held, None}
            \/ /\ wstep = "fetch" /\ wstep' = "read" /\ site' = "processing"
               /\ records[popped] # None /\ held' = records[popped].sub
         /\ wstep' = "write" =>
               /\ UNCHANGED <<held, seen>>
               /\ \/ UNCHANGED <<wstep, snap>>
                  \/ /\ wstep = "read" /\ records[IdOf[held]] # None
                     /\ snap' = records[IdOf[held]] /\ UNCHANGED records
  <1>1. CASE UNCHANGED worker /\ UNCHANGED seen
    BY <1>1 DEF worker, job, seen
  <1>2. CASE Release
    BY <1>2 DEF Release, NoJob
  <1>3. CASE AfterUpdate
    BY <1>2, <1>3 DEF AfterUpdate, BeginDelivery, Goto
  <1>4. CASE AfterUpdateError
    BY <1>2, <1>4 DEF AfterUpdateError, SuccessNotRecorded, AckNotRecorded, Goto
  <1>5. CASE UpdateRead /\ records[IdOf[held]] # None
    BY <1>5 DEF UpdateRead, redis
  <1>6. CASE StartPoll \/ Pop \/ Fetch \/ Generate \/ SendOk \/ SendFails \/ Backoff
    BY <1>2, <1>6
       DEF StartPoll, Pop, Fetch, Generate, SendOk, SendFails, Backoff, Goto, job
  <1>7. CASE UpdateRead \/ UpdateWrite \/ UpdateReadFails \/ UpdateWriteFails
    BY <1>3, <1>4, <1>5, <1>7
       DEF UpdateRead, UpdateWrite, UpdateReadFails, UpdateWriteFails
  <1>8. CASE PopTimeout \/ PopFails \/ FetchFails \/ GenerateFailsSilently \/ Crash
    BY <1>2, <1>8 DEF PopTimeout, PopFails, FetchFails, GenerateFailsSilently, Crash
  <1>9. CASE \/ \E s \in Subs : HandlerStep(s)
             \/ \E j \in JobIds : Expire(j)
             \/ Stop \/ WorkerExit \/ Restart \/ UNCHANGED vars
    BY <1>1, <1>9 DEF HandlerStep, SaveRecord, InsertRow, PushId, Expire, Stop, WorkerExit,
                      Restart, vars
  <1> QED BY <1>6, <1>7, <1>8, <1>9 DEF Next, WorkerStep, WorkerFault, Lifespan

LEMMA OwnerInvariant == Spec => []OwnerInv
  <1>1. Init => OwnerInv
    BY SubsAssumption DEF Init, OwnerInv
  <1>2. TypeInv /\ OwnerInv /\ [Next]_vars => OwnerInv'
    <2> SUFFICES ASSUME TypeInv, OwnerInv, [Next]_vars PROVE OwnerInv'
      OBVIOUS
    <2>1. \A j \in JobIds : records[j] # None => records[j].sub \in Subs
      BY DEF TypeInv, TypeOK, Record
    <2>2. wstep \in {"read", "write"} => held \in Subs /\ IdOf[held] \in JobIds
      BY SubsAssumption DEF TypeInv, TypeOK, WorkerOK, Busy
    <2>3. wstep = "write" => snap.sub \in Subs
      BY DEF TypeInv, TypeOK, WorkerOK, Record
    <2>4. ASSUME NEW j \in JobIds, records'[j] # None
          PROVE  IdOf[records'[j].sub] = j /\ handler'[records'[j].sub] # "idle"
      <3>1. CASE records'[j] = records[j]
        BY <2>1, <2>4, <3>1, StartedStays DEF OwnerInv
      <3>2. ASSUME NEW s \in Subs, j = IdOf[s], records'[j] = NewRecord(s),
                   handler'[s] # "idle"
            PROVE  IdOf[records'[j].sub] = j /\ handler'[records'[j].sub] # "idle"
        BY <3>2 DEF NewRecord
      <3>3. CASE wstep = "write" /\ j = IdOf[held] /\ records'[j] = Updated(snap)
        BY <2>3, <3>3, StartedStays DEF OwnerInv, Updated
      <3> QED BY <2>4, <3>1, <3>2, <3>3, RecordsAfter
    <2>5. held' # None => handler'[held'] # "idle"
      <3>1. PICK h : h = held'
        OBVIOUS
      <3>2. ASSUME h # None PROVE h \in Subs /\ handler[h] # "idle"
        <4>1. CASE h = held
          BY <3>2, <4>1 DEF OwnerInv, TypeInv, TypeOK
        <4>2. CASE /\ wstep = "fetch" /\ records[popped] # None
                   /\ h = records[popped].sub
          <5>1. popped \in JobIds
            BY <4>2 DEF TypeInv, TypeOK, WorkerOK
          <5> QED BY <2>1, <4>2, <5>1 DEF OwnerInv
        <4> QED BY <3>1, <3>2, <4>1, <4>2, HandAfter
      <3> QED BY <3>1, <3>2, StartedStays
    <2>6. wstep' = "write" => IdOf[snap'.sub] = IdOf[held'] /\ handler'[snap'.sub] # "idle"
      <3> SUFFICES ASSUME wstep' = "write"
                   PROVE  IdOf[snap'.sub] = IdOf[held'] /\ handler'[snap'.sub] # "idle"
        OBVIOUS
      <3>1. UNCHANGED held
        BY HandAfter
      <3>2. CASE UNCHANGED <<wstep, snap>>
        BY <2>3, <3>1, <3>2, StartedStays DEF OwnerInv
      <3>3. CASE /\ wstep = "read" /\ records[IdOf[held]] # None
                 /\ snap' = records[IdOf[held]]
        BY <2>1, <2>2, <3>1, <3>3, StartedStays DEF OwnerInv
      <3> QED BY <3>2, <3>3, HandAfter
    <2> QED BY <2>4, <2>5, <2>6 DEF OwnerInv
  <1> QED BY <1>1, <1>2, TypeInvariant, PTL DEF Spec

LEMMA CalledInvariant == Spec => []CalledInv
  <1>1. Init => CalledInv
    BY DEF Init, CalledInv, Delivering
  <1>2. TypeInv /\ OwnerInv /\ CalledInv /\ [Next]_vars => CalledInv'
    <2> SUFFICES ASSUME TypeInv, OwnerInv, CalledInv, [Next]_vars PROVE CalledInv'
      OBVIOUS
    <2> USE DEF CalledInv
    <2>1. \A s \in Subs : received[s] # {} => HasCallback[s] /\ handler'[s] # "idle"
      BY StartedStays
    <2>2. CASE SendOk \/ SendFails
      <3>1. PICK h : h = held
        OBVIOUS
      <3>2. /\ h \in Subs /\ HasCallback[h] /\ held' = h /\ handler'[h] # "idle"
            /\ \A s \in Subs : s # h => received'[s] = received[s]
        <4>1. h \in Subs /\ handler[h] # "idle" /\ HasCallback[h] /\ held' = h
          BY <2>2, <3>1
             DEF SendOk, SendFails, Goto, Delivering, OwnerInv, TypeInv, TypeOK, WorkerOK, Busy
        <4>2. \A s \in Subs : s # h => received'[s] = received[s]
          BY <2>2, <3>1 DEF SendOk, SendFails, Deliver, TypeInv, TypeOK
        <4> QED BY <4>1, <4>2, StartedStays
      <3> QED BY <2>1, <3>2
    <2>3. CASE UNCHANGED <<wstep, site, held, seen>>
      BY <2>1, <2>3 DEF Delivering, seen
    <2>4. CASE Release /\ UNCHANGED seen
      BY <2>1, <2>4 DEF Delivering, Release, seen
    <2>5. CASE /\ AfterUpdate \/ AfterUpdateError
               /\ wstep \in {"read", "write"} /\ UNCHANGED seen
      BY <2>1, <2>4, <2>5
         DEF AfterUpdate, BeginDelivery, AfterUpdateError, SuccessNotRecorded,
             AckNotRecorded, Goto, Delivering, Outcomes, seen
    <2>6. CASE UpdateRead \/ UpdateWrite \/ UpdateReadFails \/ UpdateWriteFails
      BY <2>1, <2>5, <2>6
         DEF UpdateRead, UpdateWrite, UpdateReadFails, UpdateWriteFails, Delivering, seen
    <2>7. CASE StartPoll \/ Pop \/ Fetch \/ Generate \/ Backoff
      BY <2>1, <2>4, <2>7
         DEF StartPoll, Pop, Fetch, Generate, Backoff, Goto, Delivering, Outcomes, seen
    <2>8. CASE PopTimeout \/ PopFails \/ FetchFails \/ GenerateFailsSilently \/ Crash
      BY <2>4, <2>8 DEF PopTimeout, PopFails, FetchFails, GenerateFailsSilently, Crash
    <2>9. CASE \/ \E s \in Subs : HandlerStep(s)
               \/ \E j \in JobIds : Expire(j)
               \/ Stop \/ WorkerExit \/ Restart \/ UNCHANGED vars
      BY <2>3, <2>9
         DEF HandlerStep, SaveRecord, InsertRow, PushId, Expire, Stop, WorkerExit, Restart,
             vars, worker, job
    <2> QED BY <2>2, <2>6, <2>7, <2>8, <2>9 DEF Next, WorkerStep, WorkerFault, Lifespan
  <1> QED BY <1>1, <1>2, TypeInvariant, OwnerInvariant, PTL DEF Spec

\* A worker step that lets go of a job which was called back leaves it settled.
LEMMA LeavesSettled ==
  ASSUME Incidents \cap {"redis_error", "crash", "empty_message"} = {},
         TypeInv, BusyInv, CalledInv, [Next]_vars, NEW h \in Subs, h = held, held' = None,
         received[h] # {}
  PROVE  /\ AfterUpdate
         /\ \/ wstep = "read" /\ UNCHANGED records /\ records[IdOf[held]] = None
            \/ wstep = "write" /\ WriteBack
         /\ site = "failed_delivery" \/ h \in acked
  <1>1. h # None
    BY NoneAssumption
  <1>2. ~(\/ PopFails \/ FetchFails \/ UpdateReadFails \/ UpdateWriteFails
          \/ GenerateFailsSilently \/ Crash)
    BY DEF PopFails, FetchFails, UpdateReadFails, UpdateWriteFails, GenerateFailsSilently,
           Crash, Incident
  <1>3. ~(StartPoll \/ Pop \/ PopTimeout \/ Fetch)
    BY <1>1 DEF StartPoll, Pop, PopTimeout, Fetch, BusyInv, Busy
  <1>4. ~(\/ Generate \/ SendOk \/ SendFails \/ Backoff
          \/ \E s \in Subs : HandlerStep(s)
          \/ \E j \in JobIds : Expire(j)
          \/ Stop \/ WorkerExit \/ Restart \/ UNCHANGED vars)
    BY <1>1 DEF Generate, SendOk, SendFails, Backoff, Goto, HandlerStep, SaveRecord, InsertRow,
                PushId, Expire, Stop, WorkerExit, Restart, vars, worker, job
  <1>5. UpdateRead \/ UpdateWrite
    BY <1>2, <1>3, <1>4 DEF Next, WorkerStep, WorkerFault, Lifespan
  <1>6. /\ AfterUpdate
        /\ \/ wstep = "read" /\ UNCHANGED records /\ records[IdOf[held]] = None
           \/ wstep = "write" /\ WriteBack
    BY <1>1, <1>5 DEF UpdateRead, UpdateWrite, redis
  <1>7. site \in {"acked", "failed_delivery"}
    BY <1>1, <1>6 DEF AfterUpdate, BeginDelivery, Goto, CalledInv
  <1> QED BY <1>6, <1>7 DEF BusyInv, Updating

LEMMA SharedStep ==
  ASSUME Incidents \cap {"redis_error", "crash", "empty_message"} = {},
         TypeInv, BusyInv, OwnerInv, CalledInv, SharedInv, [Next]_vars
  PROVE  SharedInv'
  <1>0. PICK h : h = held
    OBVIOUS
  <1>1. /\ wstep = "write" => h \in Subs /\ IdOf[h] \in JobIds /\ snap.sub \in Subs
        /\ wstep = "read" => h \in Subs /\ IdOf[h] \in JobIds
    BY <1>0, SubsAssumption DEF TypeInv, TypeOK, WorkerOK, Busy, Record
  <1>2. ASSUME NEW s \in Subs,
               records'[IdOf[s]] # None, records'[IdOf[s]].sub = s, received'[s] # {},
               held' # s
        PROVE  /\ s \in acked' \/ records'[IdOf[s]].status = "failed_delivery"
               /\ held' # None => IdOf[held'] # IdOf[s]
    <2>1. IdOf[s] \in JobIds
      BY SubsAssumption
    <2>2. /\ acked \subseteq acked'
          /\ s # h => received'[s] = received[s]
          /\ s = h /\ held' # h => UNCHANGED seen
      <3>1. CASE UNCHANGED seen
        BY <3>1 DEF seen
      <3>2. CASE SendOk \/ SendFails
        BY <1>0, <3>2 DEF SendOk, SendFails, Deliver, Goto, TypeInv, TypeOK
      <3> QED BY <3>1, <3>2
           DEF Next, HandlerStep, SaveRecord, InsertRow, PushId, WorkerStep, StartPoll, Pop,
               PopTimeout, Fetch, Generate, UpdateRead, UpdateWrite, Backoff, WorkerFault,
               PopFails, FetchFails, GenerateFailsSilently, UpdateReadFails,
               UpdateWriteFails, Expire, Lifespan, Crash, Stop, WorkerExit, Restart, vars
    <2>3. CASE s = h
      <3>1. received[h] # {} /\ UNCHANGED seen
        BY <1>2, <2>2, <2>3 DEF seen
      <3>2. held' = None
        BY <1>0, <1>2, <2>3, NoneAssumption, HandAfter DEF BusyInv, Busy
      <3>3. /\ AfterUpdate
            /\ \/ wstep = "read" /\ UNCHANGED records /\ records[IdOf[held]] = None
               \/ wstep = "write" /\ WriteBack
            /\ site = "failed_delivery" \/ h \in acked
        BY <1>0, <2>3, <3>1, <3>2, LeavesSettled
      <3>4. CASE h \in acked
        BY <2>2, <2>3, <3>2, <3>4
      <3>5. CASE site = "failed_delivery"
        <4>1. records'[IdOf[h]] # None => records'[IdOf[h]] = Updated(snap)
          BY <1>0, <3>3, UpdateShows
        <4>2. NewStatus(snap) = "failed_delivery"
          BY <3>5 DEF NewStatus, Statuses
        <4> QED BY <1>2, <2>3, <3>2, <4>1, <4>2 DEF Updated
      <3> QED BY <3>3, <3>4, <3>5
    <2>4. CASE s # h
      <3>1. received[s] # {} /\ s # held
        BY <1>0, <1>2, <2>2, <2>4
      <3>2. CASE records'[IdOf[s]] = records[IdOf[s]]
        <4>1. /\ s \in acked \/ records[IdOf[s]].status = "failed_delivery"
              /\ held # None => IdOf[held] # IdOf[s]
          BY <1>2, <3>1, <3>2 DEF SharedInv
        <4>2. PICK k : k = held'
          OBVIOUS
        <4>3. k # None => IdOf[k] # IdOf[s]
          <5>1. CASE k \in {held, None}
            BY <4>1, <5>1
          <5>2. CASE /\ wstep = "fetch" /\ records[popped] # None
                     /\ k = records[popped].sub
            <6>1. popped \in JobIds
              BY <5>2 DEF TypeInv, TypeOK, WorkerOK
            <6>2. IdOf[k] = popped
              BY <5>2, <6>1 DEF OwnerInv
            <6>3. IdOf[s] = popped => k = s
              BY <1>2, <3>2, <5>2
            <6> QED BY <1>2, <4>2, <6>2, <6>3
          <5> QED BY <4>2, <5>1, <5>2, HandAfter
        <4> QED BY <2>2, <3>2, <4>1, <4>2, <4>3
      <3>3. ASSUME NEW t \in Subs, IdOf[s] = IdOf[t], records'[IdOf[s]] = NewRecord(t),
                   handler[t] = "idle"
            PROVE  FALSE
        BY <1>2, <3>1, <3>3 DEF NewRecord, CalledInv
      <3>4. CASE wstep = "write" /\ IdOf[s] = IdOf[held] /\ records'[IdOf[s]] = Updated(snap)
        BY <1>0, <1>2, <2>4, <3>1, <3>4 DEF Updated, SharedInv
      <3> QED BY <1>2, <2>1, <3>2, <3>3, <3>4, RecordsAfter
    <2> QED BY <2>3, <2>4
  <1>3. ASSUME wstep' = "write", snap'.sub # held'
        PROVE  received'[snap'.sub] = {}
    <2>1. UNCHANGED <<held, seen>>
      BY <1>3, HandAfter
    <2>2. CASE UNCHANGED <<wstep, snap>>
      BY <1>3, <2>1, <2>2 DEF SharedInv, seen
    <2>3. CASE wstep = "read" /\ records[IdOf[held]] # None /\ snap' = records[IdOf[held]]
      <3>1. PICK s : s = records[IdOf[h]].sub
        OBVIOUS
      <3>2. s \in Subs /\ IdOf[s] = IdOf[h] /\ h # None
        BY <1>0, <1>1, <2>3, <3>1, NoneAssumption DEF OwnerInv, TypeInv, TypeOK, Record
      <3>3. received[s] = {}
        BY <1>0, <1>3, <2>1, <2>3, <3>1, <3>2 DEF SharedInv
      <3> QED BY <1>0, <2>1, <2>3, <3>1, <3>3 DEF seen
    <2> QED BY <1>3, <2>2, <2>3, HandAfter
  <1> QED BY <1>2, <1>3 DEF SharedInv

\* The same however ids collide and however often an id is queued: a job whose
\* callback was sent, and never answered 2xx, is marked failed_delivery when the
\* worker leaves it, unless its record is another submission's by then.  Excludes the
\* silent exception too: it leaves the second run of a job half done.
THEOREM UndeliveredMarkedWhenShared ==
  ASSUME Incidents \cap {"redis_error", "crash", "empty_message"} = {}
  PROVE  Spec => []UndeliveredIsFailedDelivery
  <1>1. Init => SharedInv
    BY SubsAssumption DEF Init, SharedInv
  <1>2. TypeInv /\ BusyInv /\ OwnerInv /\ CalledInv /\ SharedInv /\ [Next]_vars
          => SharedInv'
    BY SharedStep
  <1>3. SharedInv => UndeliveredIsFailedDelivery
    BY DEF SharedInv, UndeliveredIsFailedDelivery, AtWorker
  <1> QED BY <1>1, <1>2, <1>3, TypeInvariant, BusyInvariant, OwnerInvariant,
             CalledInvariant, PTL DEF Spec
=============================================================================
