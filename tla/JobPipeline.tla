----------------------------- MODULE JobPipeline -----------------------------
(***************************************************************************)
(* The asynchronous job pipeline: HTTP submission handlers put a job record *)
(* and a queue entry in Redis (src/src/agent/jobs.py), one worker task      *)
(* takes jobs, generates a result, records it and calls the client back     *)
(* (src/src/agent/worker.py and worker_helpers/).                           *)
(*                                                                          *)
(* Every await on Redis is one step, so the handlers and the worker         *)
(* interleave exactly where asyncio lets them.  A submission is one HTTP    *)
(* request; two submissions that carry the same client-chosen job_id share  *)
(* a record key.  What can go wrong around the program (a Redis command     *)
(* that raises, a killed process, a stop, a TTL that runs out) is an        *)
(* incident; MaxIncidents bounds how many happen in a behaviour.            *)
(***************************************************************************)
EXTENDS Integers, Sequences, FiniteSets

CONSTANTS
    Subs,          \* submissions: HTTP requests that pass validation
    JobIds,        \* job ids
    IdOf,          \* the job id a submission is stored under
    KindOf,        \* "material" or "lkpd"
    HasCallback,   \* does the submission name a callback_url?
    UuidIds,       \* the job ids that parse as a UUID
    MaxRetries,    \* settings.webhook_callback_max_retries
    Incidents,     \* the kinds of incident that may happen
    MaxIncidents,  \* bound on the number of incidents
    None           \* no record, no job

Kinds == {"material", "lkpd"}
Outcomes == {"succeeded", "failed_processing"}
Statuses == {"accepted", "processing", "failed_delivery"} \cup Outcomes
IncidentKinds == {"redis_error", "redis_replay", "postgres_error", "expiry",
                  "empty_message", "crash", "stop"}

ASSUME SubsAssumption ==
    /\ IdOf \in [Subs -> JobIds]
    /\ KindOf \in [Subs -> Kinds]
    /\ HasCallback \in [Subs -> BOOLEAN]
    /\ UuidIds \subseteq JobIds

\* LKPD submissions must name a callback and get a fresh uuid4 as job id.
ASSUME LkpdAssumption ==
    \A s \in Subs : KindOf[s] = "lkpd" =>
        /\ HasCallback[s]
        /\ IdOf[s] \in UuidIds
        /\ \A t \in Subs : IdOf[t] = IdOf[s] => t = s

ASSUME BoundsAssumption ==
    /\ MaxRetries \in Nat
    /\ MaxIncidents \in Nat
    /\ Incidents \subseteq IncidentKinds

\* total_attempts = max_retries + 1.
TotalAttempts == MaxRetries + 1

\* QueuedJob as Redis holds it, without the payload the properties never read.
Record == [sub : Subs, status : Statuses, attempts : 0 .. TotalAttempts,
           error : {"none", "processing", "delivery"}]

ASSUME NoneAssumption == None \notin Record \cup Subs \cup JobIds

VARIABLES
    handler,    \* where each submission's request handler stands
    records,    \* Redis: material_jobs:<job_id>
    queues,     \* Redis: one list per kind, the BRPOP end first
    dbRows,     \* Postgres: submissions with a row in "AIJob"
    mode,       \* the process: "up", "stopping" (lifespan exit) or "down"
    wstep,      \* the worker's next step
    site,       \* which update_job call the worker is in
    popped,     \* job id BRPOP returned, before its record is read
    held,       \* submission whose record the worker read
    snap,       \* the copy update_job read and will write back
    outcome,    \* status in the callback payload
    attempt,    \* callback attempt number
    retryable,  \* was the last delivery error retryable?
    received,   \* history: outcomes each submission's callback_url was sent
    acked,      \* history: submissions whose callback was answered 2xx
    incidents   \* number of incidents so far

redis == <<records, queues>>
api == <<handler, dbRows, mode>>
delivery == <<outcome, attempt, retryable>>
job == <<site, popped, held, snap, delivery>>
worker == <<wstep, job>>
seen == <<received, acked>>
vars == <<api, redis, worker, seen, incidents>>

HandlerSteps == {"idle", "insert", "push"}
HandlerStates == HandlerSteps \cup {"accepted", "refused", "dropped"}
WorkerSteps == {"idle", "poll", "fetch", "read", "write", "generate", "send",
                "backoff"}
\* The update_job calls, named by what they record.
Sites == {"none", "processing", "succeeded", "failed_processing", "acked",
          "nacked", "failed_delivery"}

TypeOK ==
    /\ handler \in [Subs -> HandlerStates]
    /\ records \in [JobIds -> Record \cup {None}]
    /\ queues \in [Kinds -> Seq(JobIds)]
    /\ dbRows \subseteq Subs
    /\ mode \in {"up", "stopping", "down"}
    /\ wstep \in WorkerSteps
    /\ site \in Sites
    /\ popped \in JobIds \cup {None}
    /\ held \in Subs \cup {None}
    /\ snap \in Record \cup {None}
    /\ outcome \in Outcomes \cup {"none"}
    /\ attempt \in 0 .. TotalAttempts
    /\ retryable \in BOOLEAN
    /\ received \in [Subs -> SUBSET Outcomes]
    /\ acked \subseteq Subs
    /\ incidents \in 0 .. MaxIncidents

Init ==
    /\ handler = [s \in Subs |-> "idle"]
    /\ records = [j \in JobIds |-> None]
    /\ queues = [k \in Kinds |-> << >>]
    /\ dbRows = {}
    /\ mode = "up"
    /\ wstep = "idle"
    /\ site = "none" /\ popped = None /\ held = None /\ snap = None
    /\ outcome = "none" /\ attempt = 0 /\ retryable = FALSE
    /\ received = [s \in Subs |-> {}]
    /\ acked = {}
    /\ incidents = 0

Incident(kind) ==
    /\ kind \in Incidents
    /\ incidents < MaxIncidents
    /\ incidents' = incidents + 1

-----------------------------------------------------------------------------
(***************************************************************************)
(* enqueue_job, one handler per submission: SET the record, insert the     *)
(* Postgres row, LPUSH the id.  An exception becomes a 503 ("refused"),    *)
(* whether or not Redis had already applied the command.                   *)
(***************************************************************************)
NewRecord(s) ==
    [sub |-> s, status |-> "accepted", attempts |-> 0, error |-> "none"]

SaveRecord(s) ==
    /\ mode = "up"
    /\ handler[s] = "idle"
    /\ \/ /\ records' = [records EXCEPT ![IdOf[s]] = NewRecord(s)]
          /\ handler' = [handler EXCEPT ![s] = "insert"]
          /\ UNCHANGED incidents
       \/ /\ Incident("redis_error")
          /\ handler' = [handler EXCEPT ![s] = "refused"]
          /\ \/ UNCHANGED records
             \/ records' = [records EXCEPT ![IdOf[s]] = NewRecord(s)]
    /\ UNCHANGED <<queues, dbRows, mode, worker, seen>>

\* Mutant: the conflict target is not the id.
RowConflictsAnyId(s) == IdOf[s] \in UuidIds /\ dbRows # {}

\* ON CONFLICT DO NOTHING: only an id that parses as a UUID can conflict, any
\* other one is replaced by a random uuid4.  A failed insert is logged only.
RowConflicts(s) ==
    IdOf[s] \in UuidIds /\ \E t \in dbRows : IdOf[t] = IdOf[s]

InsertRow(s) ==
    /\ handler[s] = "insert"
    /\ handler' = [handler EXCEPT ![s] = "push"]
    /\ \/ /\ dbRows' = IF RowConflicts(s) THEN dbRows ELSE dbRows \cup {s}
          /\ UNCHANGED incidents
       \/ Incident("postgres_error") /\ UNCHANGED dbRows
    /\ UNCHANGED <<redis, mode, worker, seen>>

Push(s) == queues' = [queues EXCEPT ![KindOf[s]] = Append(@, IdOf[s])]

\* The Redis client resends a command whose reply was lost: LPUSH then runs
\* twice although the caller sees one success.
PushTwice(s) ==
    queues' = [queues EXCEPT ![KindOf[s]] = @ \o <<IdOf[s], IdOf[s]>>]

PushId(s) ==
    /\ handler[s] = "push"
    /\ \/ /\ Push(s)
          /\ handler' = [handler EXCEPT ![s] = "accepted"]
          /\ UNCHANGED incidents
       \/ /\ Incident("redis_replay")
          /\ PushTwice(s)
          /\ handler' = [handler EXCEPT ![s] = "accepted"]
       \/ /\ Incident("redis_error")
          /\ Push(s) \/ UNCHANGED queues
          /\ handler' = [handler EXCEPT ![s] = "refused"]
    /\ UNCHANGED <<records, dbRows, mode, worker, seen>>

-----------------------------------------------------------------------------
(***************************************************************************)
(* The worker loop.                                                        *)
(***************************************************************************)
NoJob ==
    /\ site' = "none" /\ popped' = None /\ held' = None /\ snap' = None
    /\ outcome' = "none" /\ attempt' = 0 /\ retryable' = FALSE

\* Back to the top of _run_loop, by a return or by a logged exception.
Release == wstep' = "idle" /\ NoJob

\* The loop tests the stop event before it calls pop_next_job.
StartPoll ==
    /\ wstep = "idle" /\ mode = "up"
    /\ wstep' = "poll"
    /\ UNCHANGED <<api, redis, job, seen, incidents>>

\* Mutant: BRPOP on the material key only.
PopKindMaterial == "material"

\* BRPOP [material, lkpd]: the first key that has an element.
PopKind == IF queues["material"] # << >> THEN "material" ELSE "lkpd"

\* Mutants: the element is read but not removed; the whole list is removed.
PopTailPeeks == UNCHANGED queues
PopTailDrains == queues' = [queues EXCEPT ![PopKind] = << >>]

PopTail == queues' = [queues EXCEPT ![PopKind] = Tail(@)]

Pop ==
    /\ wstep = "poll"
    /\ queues[PopKind] # << >>
    /\ popped' = Head(queues[PopKind])
    /\ PopTail
    /\ wstep' = "fetch"
    /\ UNCHANGED <<api, records, site, held, snap, delivery, seen, incidents>>

PopTimeout ==
    /\ wstep = "poll"
    /\ \A k \in Kinds : queues[k] = << >>
    /\ Release
    /\ UNCHANGED <<api, redis, seen, incidents>>

\* BRPOP raises, before or after the server removed the element.
PopFails ==
    /\ wstep = "poll"
    /\ Incident("redis_error")
    /\ Release
    /\ \/ UNCHANGED queues
       \/ queues[PopKind] # << >> /\ PopTail
    /\ UNCHANGED <<api, records, seen>>

\* get_job(job_id) after BRPOP.  The first thing done with the job is
\* update_job(status="processing"), outside the try block.
Fetch ==
    /\ wstep = "fetch"
    /\ IF records[popped] = None
       THEN Release
       ELSE /\ held' = records[popped].sub
            /\ wstep' = "read"
            /\ site' = "processing"
            /\ popped' = None
            /\ UNCHANGED <<snap, delivery>>
    /\ UNCHANGED <<api, redis, seen, incidents>>

FetchFails ==
    /\ wstep = "fetch"
    /\ Incident("redis_error")
    /\ Release
    /\ UNCHANGED <<api, redis, seen>>

\* invoke_material_upload / invoke_lkpd_upload and building the payload.
Generate ==
    /\ wstep = "generate"
    /\ \E o \in Outcomes : outcome' = o /\ site' = o
    /\ wstep' = "read"
    /\ UNCHANGED <<api, redis, popped, held, snap, attempt, retryable, seen, incidents>>

\* An exception whose str() is empty: CallbackErrorInfo requires a message of
\* at least one character, so building the failure payload raises in turn and
\* the exception leaves the handler.
GenerateFailsSilently ==
    /\ wstep = "generate"
    /\ Incident("empty_message")
    /\ Release
    /\ UNCHANGED <<api, redis, seen>>

-----------------------------------------------------------------------------
(***************************************************************************)
(* update_job: GET, change the copy, SET it back.                          *)
(***************************************************************************)
\* Mutants: one status is never written.
NewStatusKeepsProcessing(r) ==
    IF site \in Statuses \ {"failed_processing"} THEN site ELSE r.status
NewStatusNeverProcessing(r) ==
    IF site \in Statuses \ {"processing"} THEN site ELSE r.status
NewStatusNeverFailedDelivery(r) ==
    IF site \in Statuses \ {"failed_delivery"} THEN site ELSE r.status

NewStatus(r) == IF site \in Statuses THEN site ELSE r.status

NewAttempts(r) == IF site \in {"acked", "nacked"} THEN attempt ELSE r.attempts

\* last_error is set by a failure and cleared by a success or an acknowledgement.
NewError(r) ==
    CASE site = "failed_processing"        -> "processing"
      [] site = "nacked"                   -> "delivery"
      [] site \in {"succeeded", "acked"}   -> "none"
      [] OTHER                             -> r.error

Updated(r) == [sub |-> r.sub, status |-> NewStatus(r),
               attempts |-> NewAttempts(r), error |-> NewError(r)]

\* Mutants: one attempt too many, one too few.
GivesUpLate == attempt > TotalAttempts \/ ~retryable
GivesUpEarly == attempt >= MaxRetries \/ ~retryable

\* attempt >= total_attempts or not retryable.
GivesUp == attempt >= TotalAttempts \/ ~retryable

Goto(step, where) ==
    /\ wstep' = step /\ site' = where
    /\ snap' = None
    /\ UNCHANGED <<popped, held>>

\* deliver_with_retry returns True at once without a callback_url.
BeginDelivery ==
    IF HasCallback[held]
    THEN Goto("send", "none") /\ attempt' = 1 /\ UNCHANGED <<outcome, retryable>>
    ELSE Release

\* Where the worker goes when an update_job call has returned.
AfterUpdate ==
    \/ /\ site = "processing"
       /\ Goto("generate", "none")
       /\ UNCHANGED delivery
    \/ site \in Outcomes /\ BeginDelivery
    \/ /\ site = "nacked"
       /\ IF GivesUp THEN Goto("read", "failed_delivery") ELSE Goto("backoff", "none")
       /\ UNCHANGED delivery
    \/ site \in {"acked", "failed_delivery"} /\ Release

\* Mutant: the payload built before the update is sent all the same.
SuccessNotRecordedKeepsPayload ==
    Goto("read", "failed_processing") /\ UNCHANGED delivery

\* The success update is inside the try block of the processing handler: if
\* it raises, the job is reported as failed.
SuccessNotRecorded ==
    /\ Goto("read", "failed_processing")
    /\ outcome' = "failed_processing"
    /\ UNCHANGED <<attempt, retryable>>

\* Mutant: the processing handler catches a failed acknowledgement.
AckNotRecordedFailsJob ==
    /\ Goto("read", "failed_processing")
    /\ outcome' = "failed_processing"
    /\ UNCHANGED <<attempt, retryable>>

\* The acknowledgement is inside the try block around the POST: if recording
\* it raises, the delivery counts as failed, with a retryable error.
AckNotRecorded ==
    /\ Goto("read", "nacked")
    /\ retryable' = TRUE
    /\ UNCHANGED <<outcome, attempt>>

\* Where the worker goes when an update_job call raised: every update but
\* these two lets the exception reach the loop.
AfterUpdateError ==
    \/ site = "succeeded" /\ SuccessNotRecorded
    \/ site = "acked" /\ AckNotRecorded
    \/ site \notin {"succeeded", "acked"} /\ Release

UpdateRead ==
    /\ wstep = "read"
    /\ LET r == records[IdOf[held]] IN
         IF r = None
         THEN AfterUpdate
         ELSE /\ snap' = r
              /\ wstep' = "write"
              /\ UNCHANGED <<site, popped, held, delivery>>
    /\ UNCHANGED <<api, redis, seen, incidents>>

UpdateReadFails ==
    /\ wstep = "read"
    /\ Incident("redis_error")
    /\ AfterUpdateError
    /\ UNCHANGED <<api, redis, seen>>

WriteBack == records' = [records EXCEPT ![IdOf[held]] = Updated(snap)]

UpdateWrite ==
    /\ wstep = "write"
    /\ WriteBack
    /\ AfterUpdate
    /\ UNCHANGED <<api, queues, seen, incidents>>

UpdateWriteFails ==
    /\ wstep = "write"
    /\ Incident("redis_error")
    /\ WriteBack \/ UNCHANGED records
    /\ AfterUpdateError
    /\ UNCHANGED <<api, queues, seen>>

-----------------------------------------------------------------------------
(***************************************************************************)
(* deliver_with_retry.  The POST reaches the receiver or not; the worker    *)
(* sees a 2xx, a retryable error (no reply, 408, 425, 429, 5xx) or another  *)
(* HTTP error.                                                              *)
(***************************************************************************)
Deliver(reaches) ==
    received' = [received EXCEPT ![held] =
                    IF reaches THEN @ \cup {outcome} ELSE @]

SendOk ==
    /\ wstep = "send"
    /\ Deliver(TRUE)
    /\ acked' = acked \cup {held}
    /\ Goto("read", "acked")
    /\ UNCHANGED <<api, redis, delivery, incidents>>

SendFails ==
    /\ wstep = "send"
    /\ \E reaches \in BOOLEAN : Deliver(reaches)
    /\ retryable' \in BOOLEAN
    /\ Goto("read", "nacked")
    /\ UNCHANGED <<api, redis, outcome, attempt, acked, incidents>>

Backoff ==
    /\ wstep = "backoff"
    /\ Goto("send", "none")
    /\ attempt' = attempt + 1
    /\ retryable' = FALSE
    /\ UNCHANGED <<api, redis, outcome, seen, incidents>>

-----------------------------------------------------------------------------
(***************************************************************************)
(* The environment of the two: key expiry and the life of the process.      *)
(***************************************************************************)
\* Every SET carries ex=job_ttl_seconds.
Expire(j) ==
    /\ records[j] # None
    /\ Incident("expiry")
    /\ records' = [records EXCEPT ![j] = None]
    /\ UNCHANGED <<api, queues, worker, seen>>

InFlight(s) == handler[s] \in {"insert", "push"}

\* The process is killed: handlers and the worker vanish, Redis stays.
Crash ==
    /\ mode # "down"
    /\ Incident("crash")
    /\ mode' = "down"
    /\ handler' = [s \in Subs |-> IF InFlight(s) THEN "dropped" ELSE handler[s]]
    /\ Release
    /\ UNCHANGED <<redis, dbRows, seen>>

\* The server lets open requests finish, then leaves the lifespan, which
\* calls job_worker.stop(): set the stop event and wait for the loop.
Stop ==
    /\ mode = "up"
    /\ Incident("stop")
    /\ \A s \in Subs : ~InFlight(s)
    /\ mode' = "stopping"
    /\ UNCHANGED <<handler, redis, dbRows, worker, seen>>

\* Mutant: stop() cancels the loop instead of waiting for it.
WorkerExitCancels ==
    /\ mode = "stopping"
    /\ mode' = "down"
    /\ Release
    /\ UNCHANGED <<handler, redis, dbRows, seen, incidents>>

WorkerExit ==
    /\ mode = "stopping" /\ wstep = "idle"
    /\ mode' = "down"
    /\ UNCHANGED <<handler, redis, dbRows, worker, seen, incidents>>

\* A new process: a fresh worker, the same Redis and Postgres.
Restart ==
    /\ mode = "down"
    /\ mode' = "up"
    /\ UNCHANGED <<handler, redis, dbRows, worker, seen, incidents>>

-----------------------------------------------------------------------------
WorkerStep ==
    \/ StartPoll \/ Pop \/ PopTimeout \/ Fetch
    \/ Generate \/ UpdateRead \/ UpdateWrite
    \/ SendOk \/ SendFails \/ Backoff

WorkerFault ==
    \/ PopFails \/ FetchFails \/ GenerateFailsSilently
    \/ UpdateReadFails \/ UpdateWriteFails

HandlerStep(s) == SaveRecord(s) \/ InsertRow(s) \/ PushId(s)

Lifespan == Crash \/ Stop \/ WorkerExit \/ Restart

Next ==
    \/ \E s \in Subs : HandlerStep(s)
    \/ WorkerStep
    \/ WorkerFault
    \/ \E j \in JobIds : Expire(j)
    \/ Lifespan

Spec == Init /\ [][Next]_vars

\* asyncio runs every ready task, BRPOP returns when an element is there, every
\* POST ends within its timeout, the container is restarted.  Clients owe nothing.
Fairness ==
    /\ WF_vars(WorkerStep)
    /\ \A s \in Subs : WF_vars(InsertRow(s)) /\ WF_vars(PushId(s))
    /\ WF_vars(WorkerExit) /\ WF_vars(Restart)

FairSpec == Spec /\ Fairness

-----------------------------------------------------------------------------
(***************************************************************************)
(* Properties.                                                              *)
(***************************************************************************)
UniqueIds == \A s, t \in Subs : IdOf[s] = IdOf[t] => s = t

Occurrences(j) ==
    {e \in Kinds \X (1 .. Len(queues["material"]) + Len(queues["lkpd"])) :
        e[2] \in DOMAIN queues[e[1]] /\ queues[e[1]][e[2]] = j}

AtWorker(s) == popped = IdOf[s] \/ held = s

\* The record of s is final: its outcome is recorded, and its callback, if it
\* has one, was answered 2xx or given up.
Settled(s) ==
    LET r == records[IdOf[s]] IN
      /\ r # None
      /\ r.sub = s
      /\ \/ r.status \in Outcomes /\ (HasCallback[s] => s \in acked)
         \/ r.status = "failed_delivery"

\* What a client has been told by callback is what its record says, unless
\* the record has expired or says failed_delivery: no failure between the
\* record's update and the POST (job_handlers.py, delivery.py) tells a client
\* "succeeded" for a job that Redis shows as processing or failed.
CallbackAgreesWithRecord ==
    \A s \in Subs : \A o \in received[s] :
        LET r == records[IdOf[s]] IN r = None \/ r.status \in {o, "failed_delivery"}

\* No client is told two outcomes, whatever is retried and whether or not the
\* record still exists: the payload is built once and a delivery error never
\* sends the job back to the processing handler (job_handlers.py, delivery.py).
OneOutcomeTold ==
    \A s \in Subs : \A o, p \in received[s] : o = p

\* An id waits in the queues at most once, never while the worker has its job,
\* and its record, if it has not expired, is untouched: enqueue_job and
\* pop_next_job hand a job over without a moment in which two could process it.
QueuedAwaitsWorker ==
    \A s \in Subs : Occurrences(IdOf[s]) # {} =>
        /\ Cardinality(Occurrences(IdOf[s])) = 1
        /\ ~AtWorker(s)
        /\ records[IdOf[s]] = None \/ records[IdOf[s]] = NewRecord(s)

\* A record becomes failed_delivery only for the job the worker holds, after
\* the last attempt or an error that is not retryable, and it then shows how
\* many attempts were made and that the last one failed (delivery.py:48-99).
FailedDeliveryOnlyWhenExhausted ==
    [][\A s \in Subs :
        LET r == records[IdOf[s]]
            n == records'[IdOf[s]]
        IN  (r # None /\ n # None /\ r.status # n.status
                /\ n.status = "failed_delivery") =>
              /\ held = s
              /\ attempt = TotalAttempts \/ ~retryable
              /\ n.attempts = attempt
              /\ n.error = "delivery"]_vars

\* A callback is never sent for a job id that has no AIJob row: the row is
\* inserted before the id is pushed (jobs.py:109-113).  Needs a healthy Postgres.
CallbackHasRow ==
    \A s \in Subs : received[s] # {} => \E t \in dbRows : IdOf[t] = IdOf[s]

\* When the worker is between jobs no record says "processing": the outcome
\* of a job is recorded whatever it was (job_handlers.py; README.md:240).
OutcomeRecorded ==
    wstep \in {"idle", "poll"} =>
        \A j \in JobIds : records[j] # None => records[j].status # "processing"

\* A job whose callback reached the receiver but was never answered 2xx is
\* failed_delivery once the worker has left it (delivery.py:48-99,
\* worker.py:97-102; README.md:235-236).
UndeliveredIsFailedDelivery ==
    \A s \in Subs : LET r == records[IdOf[s]] IN
        (/\ r # None
         /\ r.sub = s
         /\ received[s] # {}
         /\ ~AtWorker(s)) => s \in acked \/ r.status = "failed_delivery"

\* No POST is attempted again after one was answered 2xx (README.md:232-233).
NoSendAfterAck == wstep = "send" => held \notin acked

Waiting(s) == Occurrences(IdOf[s]) # {} \/ AtWorker(s)

\* Submissions answered 202 that nothing will ever bring to a final record.
Lost == {s \in Subs : handler[s] = "accepted" /\ ~Waiting(s) /\ ~Settled(s)}

\* Stopping and restarting the service loses no accepted job: stop() waits for
\* the job in hand, the others stay in Redis (worker.py:45-68, main.py:42-56).
NothingLost == Lost = {}

\* Whatever goes wrong, an incident costs at most one accepted job, also a kill
\* with a backlog: the worker takes one id off the queue at a time.
LossBounded == Cardinality(Lost) <= incidents

\* Every accepted job is brought to a final record (worker.py:52-68).
Served == \A s \in Subs : handler[s] = "accepted" ~> Settled(s)

\* Also when job ids collide or an id was pushed twice: the queues drain, and
\* an id that was queued ends with an outcome on its record.
QueuedIsProcessed ==
    \A s \in Subs : Occurrences(IdOf[s]) # {} ~>
        /\ Occurrences(IdOf[s]) = {}
        /\ ~AtWorker(s)
        /\ records[IdOf[s]] # None
        /\ records[IdOf[s]].status \in Outcomes \cup {"failed_delivery"}

\* The pipeline implements the lifecycle of a submission.
Lifecycle == INSTANCE JobLifecycle WITH
    status <- [s \in Subs |-> IF records[IdOf[s]] = None THEN "none"
                              ELSE records[IdOf[s]].status],
    told <- received

LifecycleSpec == Lifecycle!Spec
=============================================================================
