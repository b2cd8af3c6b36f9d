# Formal models of rtm-class-ai

The service (`src/src/`) accepts teaching material over HTTP, queues a job in
Redis, and a worker inside the same process generates quizzes, summaries or
LKPD worksheets with a language model and reports the result to a callback URL.
This directory holds TLA+ models of that program, the TLC configurations that
check them on small instances, and TLAPS proofs about them.

## Inventory

| Component | State | Operations | Interacts with |
|---|---|---|---|
| job store and queues (`agent/jobs.py`) | Redis records `material_jobs:<id>` with a TTL, two Redis lists, rows of the `AIJob` table | `enqueue_job`, `pop_next_job`, `get_job`, `update_job` | API handlers (producers), worker (consumer) |
| job worker (`agent/worker.py`, `worker_helpers/job_handlers.py`) | one asyncio task, a stop event, the job in hand | `start`, `stop`, `_run_loop`, the two processing handlers | job store, runtime, delivery, LKPD storage |
| callback delivery (`worker_helpers/delivery.py`, `agent/callback.py`) | attempt counter | `deliver_with_retry`, `send_json` | job store, the client's receiver |
| submission API (`api/material_routes.py`, `api/lkpd_routes.py`, `api/job_submission.py`) | none of its own | authenticate, validate the form, read the file, enqueue, answer 202 / 4xx / 503 | OAuth tokens, job store |
| lifespan (`main.py`) | up / stopping / down | start and stop of everything | worker, denylist |
| LKPD file storage (`agent/lkpd_storage.py`) | a PDF and a metadata file per id | `save_pdf`, `get_pdf_path`, `cleanup_expired_files` | worker (writes, cleans), API (reads) |
| token rate limiter (`auth/rate_limit.py`) | two tables of recent hits | `enforce`, `reset` | token endpoint |
| OAuth tokens (`api/oauth_routes.py`, `auth/jwt.py`, `auth/revocation.py`, the command line tool `cmd/jwt_client.py`) | denylist in Redis, one cached connection to it and the lock around opening it, clocks | `oauth_token`, `build_token`, `require_jwt`, `is_token_revoked`, `revoke_token`, shutdown | limiter, every protected route |
| RAG store (`agent/rag.py`, `runtime_helpers/rag_context.py`) | a vector collection of chunks on disk, a list of chunks in memory | split, index, retrieve, fall back | runtime |
| generation runtime (`agent/runtime.py`, `runtime_helpers/`) | per call only | prompt, parse, repair once, enforce contract, plan inserts | RAG, model, MCP tools |
| MCP registry (`agent/infra/mcp_registry.py`) | loaded tools, loaded flag | `load_tools`, `call_mcp_tool`, `close` | runtime |
| memory store (`agent/infra/memory_store.py`) | remembered summaries | remember, recall | runtime |
| extraction, PDF rendering, configuration, HTTP envelope | none | pure functions | - |

What is hard here: several request handlers and the worker interleave at every
`await`; `update_job` reads and writes a record in two of them; Redis may raise
before or after it applied a command; the process may be killed between any two
steps or stopped while a job is in hand; a record may expire under its queue
entry; a callback may be handled by the receiver although its answer is lost.
`PROJECT.json` lists each such hazard at its line with the properties that
guard it.

What makes each component correct: the store hands a job over exactly once and
untouched; the worker brings each job to a recorded outcome; delivery tells what
the record says, a bounded number of times, and marks what it could not deliver;
stopping loses nothing; storage serves no expired file and removes what
expired; no window of the limiter admits more than its limit; a chunker loses no
text; generation returns only what satisfies its contract; the limiter is asked
before any credential is compared; a token lives as long as its `expires_in`, and
not on after its revocation; callers share one connection to the denylist; a form
that keeps to the documentation is queued, and what is queued is what the worker
can parse.

## Modules

| Module | What it is |
|---|---|
| `JobLifecycle` | abstract: the status of a submission's record, which may expire and come back, and the outcomes its client was told |
| `JobPipeline` | store, queues, handlers, worker, delivery, process life: one step per `await` on Redis or on the receiver |
| `MC_JobPipeline` | the instances TLC checks |
| `JobPipelineProofs` | type correctness of `JobPipeline` |
| `JobPipelineAgreement` | the safety invariant of `JobPipeline` and what it says of callbacks |
| `JobPipelineLifecycle` | that `JobPipeline` implements `JobLifecycle`, what an incident costs, what the worker leaves on a record |
| `GenerationContract` | abstract: how a job ends, when its answer is settled, what may be inserted and remembered of it |
| `RagStore` | chunking, the collection, the list in memory, retrieval, and every way they fail |
| `GenerationRuntime` | extends `RagStore`: one job of `AgentRuntime` after the other, with one step per `await` on the model or on an MCP tool |
| `MC_GenerationRuntime`, `GenerationProofs` | its instances; all of its safety properties, and that it implements `GenerationContract` |
| `FileLease` | abstract: how long a saved file can be had, and what becomes of those who ask for it |
| `LkpdStorage` | stored LKPD files: saving, serving, expiry, the worker's cleanup, kills and OSErrors |
| `MC_LkpdStorage`, `LkpdStorageProofs` | its instances; all of its safety properties, and that it implements `FileLease` |
| `TokenRateLimiter` | the sliding windows of the token endpoint |
| `TokenEndpoint` | extends `TokenRateLimiter`: the whole handler of `POST /api/oauth/token` |
| `MC_TokenEndpoint`, `TokenRateLimiterProofs`, `TokenEndpointProofs` | its instance; the limiter's properties; that the endpoint implements the limiter, and its own property |
| `TokenAccess` | tokens, their clocks, `require_jwt`, the denylist and the connection to it |
| `Submission` | constant operators: routes, scopes, defaults, request models, payloads, sizes |
| `ApiRequests` | extends both: a request from its header to the queue, next to revocations and kills |
| `MC_ApiRequests`, `ApiRequestsProofs` | its instance; all of its safety properties |

Operators whose comment says *Mutant* state a plausible bug of the definition
that follows them. They are not part of the model: replacing the definition by
the mutant must break the property `PROJECT.json` pairs it with.

### JobPipeline and the code

* `handler[s]` is where the request of submission `s` stands in `enqueue_job`:
  `SaveRecord` (SET), `InsertRow` (Postgres), `PushId` (LPUSH), then answered 202
  (`accepted`) or 503 (`refused`); `dropped` if the process died under it.
* `records` and `queues` are the Redis keys. LPUSH is `Append`, the BRPOP end is
  the head. A record carries the submission it came from instead of its payload,
  so a record of a resubmission under the same id can be told from the older one.
* `wstep` is the worker's next await; `site` says which `update_job` call it is
  in, since the code calls it in six places that differ in what they write and in
  who catches their exceptions (`AfterUpdate`, `AfterUpdateError`).
  `UpdateRead` and `UpdateWrite` are its GET and its SET; other tasks run between.
* The receiver answers 2xx (`SendOk`), or the worker sees an error, retryable or
  not, after the POST did or did not reach the receiver (`SendFails`).
* `mode` is the process: `Crash`, or `Stop` (all requests done, stop event set),
  `WorkerExit` when the loop has left, `Restart`.
* `received`, `acked` and `incidents` are history and a bound; no step of the
  program reads them.

Left out, because no property depends on it: payloads, times and delays (backoff
lengths, the one second BRPOP timeout), logging, the periodic cleanup and the PDF
a successful LKPD job saves (they are `LkpdStorage`, below). Assumed about
the environment: Redis itself does not lose data; record keys and list keys
differ; uvicorn lets open requests finish before it leaves the lifespan; redis
errors carry a text; `max_retries` is not negative.

### RagStore, GenerationRuntime and the code

* A text is its length and a chunk is the upload it comes from with its number:
  enough to tell which positions of which text a prompt shows. `Chunks` is the loop
  of `split_material_text`, as a set of window numbers.
* `vector` is the collection on disk, shared by all users and kept over restarts;
  `memory` is `_fallback_docs`, which a restart empties (a set, since one process
  indexes an upload once). `BuildContext` is the whole of
  `_build_context_from_queries`, which never awaits. `Found` leaves open which of
  the chunks that pass the filter the searches prefer (embeddings, MMR, counted
  words), but not how many they return. `context = {}` stands for the extracted text.
* `notes` are the warnings of the context, `warnings` those about types. Warnings
  that only say what was trimmed or dropped are left out.
* The size of a part is its number of questions, words or activities. `Answers` is
  every answer that parses; `Unreadable` is one that does not, `ModelRaises` an
  exception of the model's client.
* Tools are loaded once per process, by `Start`. A failed load counts as loaded, so
  `tools` stays empty until the next start. `ToolSets` is what servers may offer.
* `CallReturns` and `CallRaises` are one attempt of `call_mcp_tool`; an attempt that
  raises may have inserted its row. `rows` is what the tools inserted, by upload,
  type and size: rows that differ only in the call are one, so how often a row was
  inserted is not stated (a retry can insert it twice).
* A type without a tool fails without an await, so its warning is given at once.

`GenerationContract` says what a job promises without saying how. `Contract` maps to
it: an answer is settled when inserts are pending or the job has succeeded
(`Answered`), and from then on `payload` is its result. What is new to a reader of the
other properties: after it is settled an answer never changes, and no tool can fail the
job; a fact is remembered only in the step in which a job succeeds; a stop waits for
the job, a kill cuts it off.

Left out: `mcp_insert_failed:missing_required_identifiers`, which no job of the
worker reaches (all three ids have at least one character); empty texts and settings
that `split_material_text` refuses; answer keys, in particular that a key which
matches no option is replaced by the first one (`parsing.py:210`); a
`learning_objectives`, `instructions` or rubric list that is empty, which does not
parse. The number requested is one per upload, not one per type. What becomes of a
job's outcome after the runtime returns is `JobPipeline`: `succeeded` and `failed`
here are the results its `Generate` and `GenerateFailsSilently` choose from.

### LkpdStorage and the code

* `pdf[f]` and `meta[f]` are the two files of an id. No method of
  `LkpdFileStorage` awaits, so `SavePdf`, `Cleanup` and `get_pdf_path`
  (`GetFound`, `GetNothing`) are single steps of the event loop. The `CutShort`
  actions are the same operations left in the middle, by an OSError or a kill:
  `SaveStages` and `DeleteFirstOnly` say what may then be on disk.
* `FileResponse` gets a path and opens it later: `Open` is a step of its own, and
  a cleanup, an expiry or another request may come in between.
* `Due` is what the cleanup deletes. `_load_meta` returns `None` for metadata that
  is broken and also for metadata it failed to read; `CleanupReadError` is the
  latter.
* Time is relative (`left`, `since`), so the model needs no horizon: a time to
  live of 3 and an interval of 2 let a file expire before, at and after a cleanup.
  The wall clock is assumed not to go back, and the volume to survive restarts
  (`docker-compose.yml`: `generated_data`). A `kill -9` is modelled, a power loss
  that reorders writes is not.

* `FileLease` is what the store looks like from outside, and `Lease` maps to it: a file
  is leased for what is left of its time if its metadata can be read, a response that
  found its file has it granted, and every incident is `trouble`. Where the PDF is, when
  the cleanup runs and in which order files are written or deleted cannot be seen there.
  So one specification says that a saved file is had for its whole time, that a request
  for it is not refused and, once granted, is answered with all of it unless the time
  ends in between, and that each exception is paid for by an incident in that very step.

The worker that calls `save_pdf` is not composed with `JobPipeline`: of a job only
whether its save returned matters here (`promised`).

### TokenRateLimiter and the code

* `hits` holds both dictionaries, `log` is history. A call of `enforce` is one
  step, with one action per answer. `Pruned(k)` has one element, what the popping
  loop leaves of a bucket.
* `Reset` is `reset()` and also a restart: the hits live in process memory. A
  process counts for itself; the `Dockerfile` starts one.
* The clock is `monotonic()` in units; `MaxTime` bounds it in the run (two and a
  half windows) and is arbitrary in the proofs.

### TokenEndpoint and the code

* `oauth_token` never awaits, so a request is one step, `OauthToken`: the limiter's
  answer, then `RejectBusy` (429) or `Evaluate` (400 or a token). `Carries` relates
  a form to the key the limiter counts it under: a client_id that is missing or
  blank is `Unknown`. `Faults` is what the handler may find wrong, in its order.
* `compared` is history: when the credentials of a client were compared.
* With `OAUTH_ENABLED=false` the endpoint answers 404 and is not modelled.

### TokenAccess, Submission, ApiRequests and the code

* A caller is a slot for a request or for a call of `revoke_token`. `pc` is the
  await it stands at: `wait` for the lock of `_get_redis`, `ping`, `ask` (EXISTS or
  SET), `upload` (`file.read()`), `enqueue`. `cleared` and `admitted` are not
  awaits: they part the decision on the token from the one on the form.
* Whatever Redis does is a step: it answers (`Lookup`, `StoreEntry`), raises before
  or after it applied the command (`LookupFails`, `StoreEntryFails`), or cannot be
  reached (`LookupUnreachable`, `StoreUnreachable`). Each failure admits the request
  or drops the revocation, as the code does.
* `opened` counts Redis clients that are open; no step reads it. `vetted` are the
  requests that were admitted after EXISTS answered, `turnedAway` the tokens that
  decoding refused: history, too.
* Time is in ticks, `PerSec` to a second, so that `iat` and `exp` lose fractions.
  The API's clock is ahead of true time by 0 to `Drift` ticks, by another amount at
  every reading; the TTL of an entry runs in true time. Only differences matter, so
  a clock that is behind is the same model. `LeewayEnough` is what
  `JWT_CLOCK_SKEW_SECONDS` must be for `FullLife`: drift and a truncated second.
* `Issue` is a token of the endpoint, with a jti. `Mint` is one of `cmd/jwt_client.py
  token`, which has none and is never looked up.
* A form is a record of what the checks tell apart: route, types, counts, whether
  the ids are filled in, the callback URL and the file's size. Routes, defaults and
  scopes are as the routers compute them; an alias generates one type and fills the
  other counts with the defaults. `mcp_enabled` is a Boolean everywhere and left out.
* `Payload` is `model_dump(exclude=...)`; `Parses` is the model the worker applies,
  with extra fields forbidden.

Left out: a token that is not genuine (signature, issuer, audience, subject), which
is answered 401 and changes nothing; `JWT_ENABLED=false` and
`JWT_DENYLIST_ENABLED=false`, which leave nothing of this; the GET of a file, which
authenticates in the same way and then is `LkpdStorage`. One process: the
`Dockerfile` starts one, and each would have its own connection. Enqueueing is one
step here and the handler of `JobPipeline` there.

`DefaultsInRange` is assumed, and nothing in `get_settings` makes sure of it: with
`DEFAULT_SUMMARY_MAX_WORDS=50` the routes `/api/mcq` and `/api/essay` answer 422 to
every form, for a field they do not even take.

### Runs

All pipeline instances have the submissions `m1`, `m2` (material, `m2` without a callback)
and `l1` (LKPD), unless they say otherwise, and one retry, so a delivery can be
acknowledged at once, be retried, and be exhausted. One worker and two or three
submissions are enough for every pair of steps of two handlers, or of a handler
and the worker, to interleave. `MaxIncidents` bounds the incidents of a
behaviour; two of them cover a failure inside the handling of another.

| Run | Question | Result |
|---|---|---|
| `pipeline_unique` | no incident but a graceful stop and restart: types, no job lost, no callback without its row, no POST after an acknowledgement, every accepted job settles | holds |
| `pipeline_faults` | any two incidents, expiries among them: callbacks agree with records, no client is told two outcomes, a queued job is untouched, an incident costs at most one job, failed_delivery only after the attempts, and `JobLifecycle` is implemented | holds |
| `pipeline_resubmit` | `m2` reuses the id of `m1`, and an LPUSH may be sent twice: the queue drains, no record stays at processing, an undelivered job is marked | holds |
| `silent_failure` | `OutcomeRecorded` when an exception has no text | violated |
| `resend_after_ack` | `NoSendAfterAck` under one Redis error | violated |
| `undelivered_unmarked` | `UndeliveredIsFailedDelivery` under one Redis error | violated |
| `lkpd_files` | two files, two requests, any two kills, OSErrors or failed reads: a promised file stays until it expires, only expiry overtakes a response, saved files leave the disk, and `FileLease` is implemented | holds |
| `lkpd_orphan` | `PdfIsRemoved` under one kill | violated |
| `generation` | two jobs of four uploads, one stop or kill: contexts stay with user and document, old chunks in place of new ones are announced, short texts are shown whole, results, rows and warnings account for every requested type, `GenerationContract` is implemented, every job ends | holds |
| `stale_context` | `ContextOfThisUpload` | violated |
| `token_endpoint` | two IPs, one client and forms without one, limits 2 and 3: no window is exceeded, no refusal without a full window, a client's secret is compared at most 3 times in a window | holds |
| `api_requests` | one request and two revocations about one token: one connection to the denylist and nobody on a closed one, revocations hold, tokens live their life, what is queued is parsable, documented forms are queued, everybody is answered | holds |

The instances of `generation` have two uploads of one user under one `material_id`,
the second one shorter by one chunk, another user's upload under the same id, and an
LKPD. Two jobs per behaviour (`MaxJobs`) are every pair of them in either order,
which is what one upload can do to another; `MaxStops` puts a kill or a restart
anywhere. Answers have parts of up to two questions where one is requested (two
activities for the LKPD), so they are missing, empty, short, exact and long. Two
attempts per insert give a retry that works and one that does not; chunks are 4 long
and overlap by 1; `TopK` is 2, the number of chunks of the longest text.

The instance of `token_endpoint` runs over one and a half windows, which is enough for
hits to leave a bucket and for others to take their places. In `api_requests` two
revocations are enough to race each other and the request for the lock; a token is
issued at time 0 and lives 4 ticks of half a second, the leeway is 2 and the drift 1,
so `MaxTime` 7 lies behind its life, its leeway and any entry of its revocation. A
minted token lives 2 ticks. `TtlArgs` are no argument and one shorter than the life.
The thirteen forms are documented ones, at the ends of their ranges, and one for each
check that refuses it.

The five violations are the findings of `PROJECT.json`:

1. *Silent failure.* `CallbackErrorInfo.message` must not be empty, so an
   exception whose `str()` is empty breaks the construction of the failure payload
   (`job_handlers.py:67`); the job stays at `processing` and nobody is called.
2. *Resend after acknowledgement.* `update_job` after a 2xx is inside the `try`
   around the POST (`delivery.py:42`).
3. *Undelivered and unmarked.* `update_job` in the `except` block can raise out of
   the delivery (`delivery.py:52`): no more attempts, no `failed_delivery`.
4. *Orphan PDF.* The cleanup looks for metadata; a PDF whose save stopped before
   its metadata is never found (`lkpd_storage.py:34`, `60`).
5. *Stale context.* Chunks are replaced by id, so the last chunks of a longer
   upload under the same `material_id` survive a shorter one and enter its prompt
   (`rag.py:206`). The README promises a context of "that upload only"; the filter it
   names tells documents apart, not uploads.

More behaviours of the code that the properties leave room for: a resubmission
that is saved between the GET and the SET of `update_job` is replaced by the copy
of the older submission (`jobs.py:146-160`; the README asks for unique ids), and
the cleanup deletes a pair, expired or not, whose metadata it cannot read
(`lkpd_storage.py:63`, `86`), hence `misread` in `AvailableUntilExpiry`. An entry in
the denylist lasts `OAUTH_TOKEN_TTL_SECONDS` from the revocation, but a token is
accepted for the leeway after its life (`revocation.py:74`, `jwt.py:97`): one that is
revoked within its first moments is accepted again at the end of the leeway
(`ComesBackOnlyIfRevokedEarly`). A failure of Redis skips the check or the revocation,
which `README.md` calls optional. Seen while reading, and not a property of a
model: nothing in the application calls `revoke_token`; tokens of
`cmd/jwt_client.py` have no jti and cannot be revoked, and its default subject
`service:backend` (line 112) is refused by `require_jwt`, which asks for `client:`.

Deadlock is checked in every run but `generation` and `stale_context`, which end
when their `MaxJobs` jobs are done, and `api_requests`, where every token is over at
`MaxTime`; in the others an idle worker polls.

### Fairness

`FairSpec` assumes weak fairness of the worker's steps (asyncio resumes a task
whose await is done, BRPOP returns at once when a list has an element, a POST ends
within `webhook_callback_timeout_seconds`), of the handlers' later steps, of the
worker's exit, and of `Restart` (`docker-compose.yml`: `restart: unless-stopped`).
`LkpdStorage` assumes that time passes, that the worker comes back to its loop and
cleans up when the interval is over (each job ends), and `Restart`.
`GenerationRuntime` assumes weak fairness of a job's steps (the model's client and
the MCP transport end every call, with an answer or an exception) and of `Start`.
`ApiRequests` assumes weak fairness of what each caller does next (Redis answers or the
client raises, the file is read, the event loop runs whoever can run), and strong
fairness of taking the lock: it is free again and again while others ask, and
`asyncio.Lock` serves its waiters in order.
Clients need not submit anything, and no incident is ever forced to happen.

## Proofs

* `TypeCorrect`: `Spec => []TypeOK`, for all constants. `TypeOK` alone is not
  inductive: `WorkerOK` adds what the worker's variables hold at each step (a job
  in hand between `Fetch` and the end, a copy to write at `write`, an attempt left
  at `backoff`).
* `CallbackAgreement`: `Spec => []CallbackAgreesWithRecord`, and `QueuedUntouched`:
  `Spec => []QueuedAwaitsWorker`, assuming that no two submissions share an id and
  that the Redis client resends no LPUSH. The invariant `SafeInv` follows a
  submission through the pipeline: nothing was sent and the record is untouched
  while it is being handled (`HandlerInv`), queued (`QueueInv`, once: `OnceInv`) or
  popped (`PoppedInv`); once it is in hand nothing was sent before its outcome is on
  the record, and during delivery record, copy and payload show the same outcome
  (`HeldInv`). `WorkerFrame` shows once that the worker disturbs no other job; each
  action then only concerns the job it holds.
* `ImplementsLifecycle`: `Spec => LifecycleSpec`, under the same two hypotheses.
  `SafeInv` lacks one thing: which status `update_job` finds where. `StageInv` says it
  (`accepted` before processing, `processing` before an outcome, perhaps `succeeded`
  before a failure), of the record and of the copy about to be written, and of a job
  being given up that its record shows the last attempt. Then a write is a step of the
  lifecycle, or brings an expired record back (`WriteImplements`), and a POST tells the
  outcome on the record (`SendImplements`). `ExhaustedCorrect` uses the same invariant.
  `OneOutcomeCorrect`: `Spec => []OneOutcomeTold`, is proved about `JobLifecycle` alone
  (`LifecycleTellsOne`) and carried over: a client is told one outcome also when the
  record has expired and `CallbackAgreesWithRecord` says nothing.
* `LossBoundedCorrect`. `LossBounded` is not inductive: a record may expire long before
  the worker finds it gone. `Charged` are the jobs an incident has cost already, given
  up or not: accepted or on the way to it, without a record, or neither queued, nor at
  the worker, nor settled. `StepCharges` shows that a step adds at most one of them,
  and only with an incident of four kinds; so `NothingLostCorrect` is the same proof.
* `NoSendAfterAckWithoutErrors`, `CallbackRowCorrect`, `OutcomeRecordedCorrect` and
  `UndeliveredMarkedCorrect` are the properties of the instances without faults, each for
  every incident that does not break it. For three of them a run listed above shows that
  an excluded incident does break it. `CallbackRowCorrect` and `OutcomeRecordedCorrect` do
  not need the hypotheses about ids.
* `UndeliveredMarkedWhenShared`: `UndeliveredIsFailedDelivery` again, with ids that
  collide and ids that are queued twice, where no Redis command fails, nothing is
  killed and no exception is silent. A second run of a job takes its record back to
  processing, and another submission may replace the record at any time, so the status
  alone says nothing. `OwnerInv` says that a record is a submission's own, `CalledInv`
  that only submissions with a callback URL are called, and `SharedInv` that a
  submission which was called and never acknowledged is marked, or in hand again, or no
  longer on the record.
* `LkpdAvailable`, `LkpdOpens`, `WholeFilesServed` (which the run checks as a part of
  `LeaseSpec`: an answer is all of a file or none): `WholeInv` says that metadata is
  on disk only of files whose save returned, `IntactInv` that a file that is
  promised, or about to be opened, is complete until it expires. All hold whatever
  the incidents; `misread` names the one exception.
* `ImplementsLease`: `Spec => LeaseSpec`, for any files, requests, TTL and incidents.
  Besides `WholeInv` it needs `LeasedInv`: a file whose metadata can be read is whole as
  long as it has not expired, also a file nobody was promised. `LeaseMapping` and
  `LeaseAsks` read the abstract state off the concrete one, `LeaseAnswer` takes a step of
  one response for a grant, a denial or a serve, and `LeaseCut` an operation that was cut
  short, and took nothing leased, for trouble. The deletions of an undisturbed cleanup
  are stutters (`LeaseStutter`), since they take only what has expired.
* `RateWindowRespected`, `RateRefusedOnlyWhenFull`, `RateTypeCorrect`: each bucket is
  a suffix of the history of its key, everything before it is outdated (`Tracks`),
  and the history is ordered. A hit is appended below the limit, so the hit that
  many places earlier was popped, hence is a window old.
* `EndpointIsLimited`: `EndpointSpec` implements the limiter's `Spec`, step by step, so
  the limiter's theorems hold of the endpoint. `ComparisonsSpacedCorrect` then needs
  one more fact, `ComparedAreHits`: what was compared for a client is embedded, in
  order, in the history of its hits (`Embeds`), so that as many comparisons lie at
  least as far apart as as many hits.
* `ConnectionCorrect`, `ApiTypeCorrect`, `RevocationCorrect`, `FullLifeCorrect`,
  `QueuedIsParsableCorrect` and `DocumentedIsQueuedCorrect`, for any callers, tokens,
  clocks and forms. `OneConnection` is inductive with the types, and they need it: that
  `opened` stays a natural number follows from there being one connection when one is
  closed. `RevocationCorrect` and `FullLifeCorrect` rest on
  `LivesInv`: what a token's claims say of the time it was issued (`Issued`), an entry
  of the time it was set (`Stored`), a refusal of the time it took place (`Refused`),
  and a caller's token of what was known when it was decoded (`Standing`). The last two
  rest on lemmas about `Submission` (`ValidParses`, `DocumentedIsValid`) and on forms
  having been checked before they are read (`Checked`).
* `GenerationProofs`, for any uploads, settings, tool sets and bounds.
  `InsertsKeepContract`, `ResultsKeepContract` and `EveryTypeAccounted` rest on
  `ResultInv` (from the answer on, so also while inserts are pending, the payload is
  within its contract and each requested type is missing with a warning, failed with
  a warning, inserted, or still planned), `JobInv` (what is planned is requested and
  present) and `RowsInv` (rows belong to jobs that have not failed, and none to a job
  that still waits for the model). None of the three properties is inductive alone.
  `ContextOfOneMaterial`, `StaleChunksExplained` and `ChunksReplacedById` follow from
  what one `BuildContext` does (`BuildFacts`): whatever it finds passed the filter; if
  it gives no warning, an older chunk it shows has a number the upload does not use;
  and what leaves the collection makes room for an own chunk with the same id. `WholeTextShown` rests on `ChunksCoverText`:
  the windows up to the first that reaches the end cover every position, for any
  chunk size and any smaller overlap.
* `ImplementsContract`: `Spec => ContractSpec`. `OneRunInv` adds to the invariants above
  that the job in hand is the only one running, exactly at the steps `ask`, `repair` and
  `insert`. There is one lemma per abstract step (`ContractEnds`, `ContractSettles`,
  `ContractInserts`), and what the RAG store and the MCP registry do in between stutters.

Where the pipeline theorems ask for ids of one submission each, and for no LPUSH sent
twice, it matters: with a shared id, or an id queued twice, a job is processed twice and
its record goes back from an outcome to processing. What does hold then is
`OutcomeRecordedCorrect`, `CallbackRowCorrect` and `UndeliveredMarkedWhenShared`. Assumed of the constants are only the named `ASSUME`s of the modules.
Every safety property that a passing run checks is stated by a theorem.
Liveness (`Served`, `QueuedIsProcessed`, `SavedIsRemoved`, `JobsEnd`, `Answered`) is
model-checked only; the prover does not handle fairness.

## Plan

In this order.

1. Answer keys of a quiz (`parsing.py:184-291`) as operators on small sets, checked
   against the meaning of a key.
2. `LkpdStorage` composed with the worker of `JobPipeline`.

## Not modelled

Text extraction, PDF layout, prompts, the response envelope, logging and the parsing
of environment variables are pure functions of formats, or wording: no state, and
nothing for a model checker. The HTTP client of `cmd/jwt_client.py` is a tool beside
the service. How often the keys of the limiter are dropped is not a question of a
model with a fixed set of keys.
