-------------------------- MODULE GenerationRuntime --------------------------
(***************************************************************************)
(* What the worker asks of AgentRuntime for one job after the other         *)
(* (src/src/agent/runtime.py and runtime_helpers/): read the upload, build  *)
(* its context (RagStore), ask the model, once more if the answer cannot be *)
(* read, enforce the contract, insert the parts through MCP tools           *)
(* (infra/mcp_registry.py) and remember the summary.                        *)
(*                                                                          *)
(* A part of an answer is its size: questions, words or activities.  Every  *)
(* await on the model or on a tool is one step.  The process may be stopped *)
(* between jobs or killed at any step; the collection of chunks, the rows   *)
(* that the tools inserted and the remembered facts outlive it.             *)
(***************************************************************************)
EXTENDS RagStore

CONSTANTS
    Wanted,        \* generate_types of a material upload, {"lkpd"} otherwise
    McpEnabled,    \* uploads with mcp_enabled
    Requested,     \* mcq_count, essay_count, summary_max_words or
                   \* activity_count of an upload: one number for all types
    MaxSize,       \* bound on the size of a part the model may return
    ToolSets,      \* the sets of tools that MCP servers may offer, {} if none
    MaxAttempts,   \* max_retries + 1 of call_mcp_tool
    MaxStops,      \* bound on the number of stops and kills
    MaxJobs,       \* bound on the number of jobs
    None           \* no upload

Types == {"mcq", "essay", "summary"}
Fields == Types \cup {"lkpd"}
\* The size of a part that is None in the payload.
Missing == -1
Sizes == {Missing} \cup 0 .. MaxSize

\* A tool is named by the type it inserts.
ASSUME UploadsAssumption ==
    /\ Wanted \in [Uploads -> (SUBSET Types) \cup {{"lkpd"}}]
    /\ McpEnabled \subseteq {u \in Uploads : Wanted[u] # {"lkpd"}}
    /\ None \notin Uploads

ASSUME LimitsAssumption ==
    /\ Requested \in [Uploads -> Nat \ {0}]
    /\ MaxSize \in Nat
    /\ MaxAttempts \in Nat \ {0}
    /\ MaxStops \in Nat /\ MaxJobs \in Nat
    /\ ToolSets \subseteq SUBSET Types

VARIABLES
    step,        \* what the process does or awaits next
    held,        \* the upload of the current job, or of the last one
    outcome,     \* how each job went
    tools,       \* MCPToolRegistry._tool_map
    payload,     \* the sizes of the parts of the answer
    plan,        \* the types still to be inserted
    attempt,     \* the attempt of the current insert
    calls,       \* the types in tool_calls
    warnings,    \* the warnings about types
    rows,        \* what the tools inserted
    remembered,  \* uploads whose summary is a remembered fact
    stops        \* number of stops and kills

answer == <<payload, plan, attempt, calls, warnings>>
kept == <<rows, remembered>>
vars == <<ragVars, step, held, outcome, tools, answer, kept, stops>>

Steps == {"down", "idle", "ask", "repair", "insert"}
Outcomes == {"waiting", "running", "succeeded", "failed", "cut"}
\* Rows that differ only in the call that inserted them are one row here.
Row == [upload : Uploads, type : Types, size : 0 .. MaxSize]
Warning == {"missing", "too_few", "insert_failed"} \X Types

TypeOK ==
    /\ RagTypeOK
    /\ step \in Steps
    /\ held \in Uploads \cup {None}
    /\ outcome \in [Uploads -> Outcomes]
    /\ tools \subseteq Types
    /\ payload \in [Fields -> Sizes]
    /\ plan \subseteq Types
    /\ attempt \in 1 .. MaxAttempts
    /\ calls \subseteq Types
    /\ warnings \subseteq Warning
    /\ rows \subseteq Row
    /\ remembered \subseteq Uploads
    /\ stops \in 0 .. MaxStops

NoPayload == [f \in Fields |-> Missing]

Blank ==
    /\ payload' = NoPayload
    /\ plan' = {} /\ attempt' = 1 /\ calls' = {} /\ warnings' = {}

Init ==
    /\ RagInit
    /\ step = "down"
    /\ held = None
    /\ outcome = [u \in Uploads |-> "waiting"]
    /\ tools = {}
    /\ payload = NoPayload
    /\ plan = {} /\ attempt = 1 /\ calls = {} /\ warnings = {}
    /\ rows = {} /\ remembered = {}
    /\ stops = 0

IsLkpd(u) == Wanted[u] = {"lkpd"}

-----------------------------------------------------------------------------
(***************************************************************************)
(* The process.  Tools are loaded once, before the worker starts: a failure *)
(* to load them, too, sets _loaded.                                         *)
(***************************************************************************)
Start ==
    /\ step = "down"
    /\ OpenRag
    /\ tools' \in ToolSets
    /\ step' = "idle"
    /\ UNCHANGED <<held, outcome, answer, kept, stops>>

Leave ==
    /\ stops < MaxStops /\ stops' = stops + 1
    /\ step' = "down" /\ held' = None /\ tools' = {}
    /\ CloseRag
    /\ Blank
    /\ UNCHANGED kept

\* The worker ends its job before the lifespan goes on to shut the runtime down.
Stop == step = "idle" /\ Leave /\ UNCHANGED outcome

Crash ==
    /\ step \in {"ask", "repair", "insert"}
    /\ outcome' = [outcome EXCEPT ![held] = "cut"]
    /\ Leave

-----------------------------------------------------------------------------
(***************************************************************************)
(* One job.                                                                *)
(***************************************************************************)
Fail(u) ==
    /\ step' = "idle"
    /\ outcome' = [outcome EXCEPT ![u] = "failed"]

\* The worker has the process to itself: one job after the other.
Take(u) ==
    /\ step = "idle" /\ outcome[u] = "waiting"
    /\ Cardinality({v \in Uploads : outcome[v] # "waiting"}) < MaxJobs
    /\ held' = u

\* The file is too large, or no text can be extracted from it.
Refuse(u) ==
    /\ Take(u)
    /\ Fail(u)
    /\ context' = {} /\ notes' = {}
    /\ Blank
    /\ UNCHANGED <<vectorstore, vector, memory, tools, kept, stops>>

Queries(u) == IF IsLkpd(u) THEN 3 ELSE 1 + Cardinality(Wanted[u])

Begin(u) ==
    /\ Take(u)
    /\ outcome' = [outcome EXCEPT ![u] = "running"]
    /\ BuildContext(u, Queries(u))
    /\ step' = "ask"
    /\ Blank
    /\ UNCHANGED <<tools, kept, stops>>

ModelRaises ==
    /\ step \in {"ask", "repair"}
    /\ Fail(held)
    /\ UNCHANGED <<ragVars, held, tools, answer, kept, stops>>

\* Mutant: a repaired answer that cannot be read is repaired again.
UnreadableRepairAgain ==
    /\ \/ step = "ask" /\ step' = "repair"
       \/ step = "repair" /\ step' = "ask"
    /\ UNCHANGED <<ragVars, held, outcome, tools, answer, kept, stops>>

\* try_parse_generated_payload and try_parse_lkpd_payload return None.
Unreadable ==
    /\ \/ step = "ask" /\ step' = "repair" /\ UNCHANGED outcome
       \/ step = "repair" /\ Fail(held)
    /\ UNCHANGED <<ragVars, held, tools, answer, kept, stops>>

\* What may be read from an answer: parts nobody asked for, too, for material;
\* at least one activity for an LKPD.
Answers(u) ==
    IF IsLkpd(u)
    THEN {[NoPayload EXCEPT !["lkpd"] = n] : n \in 1 .. MaxSize}
    ELSE {[f \in Fields |-> IF f \in Types THEN p[f] ELSE Missing] :
             p \in [Types -> Sizes]}

Trim(u, n) == IF n > Requested[u] THEN Requested[u] ELSE n

\* enforce_generation_contract: trimmed to what was requested, the rest dropped.
Enforced(u, p) ==
    [f \in Fields |-> IF f \in Wanted[u] THEN Trim(u, p[f]) ELSE Missing]

\* A summary may be shorter than it was allowed to be.
ContractWarnings(u, p) ==
    ({"missing"} \X {t \in Wanted[u] : p[t] = Missing})
    \cup
    ({"too_few"} \X {t \in Wanted[u] \ {"summary"} : p[t] \in 0 .. Requested[u] - 1})

\* Mutant: mcp_enabled is not looked at.
PlannedWithoutFlag(u, p) == {t \in Wanted[u] : p[t] # Missing}

\* build_mcp_insert_plan, if the request enables MCP.
Planned(u, p) == {t \in Wanted[u] : u \in McpEnabled /\ p[t] # Missing}

\* remember_fact keeps no fact without a word.
Succeed ==
    /\ step' = "idle"
    /\ outcome' = [outcome EXCEPT ![held] = "succeeded"]
    /\ remembered' = IF payload'["summary"] > 0
                     THEN remembered \cup {held} ELSE remembered

\* A type without a tool is warned about before the first await.
AnswerMaterial ==
    /\ step \in {"ask", "repair"} /\ ~IsLkpd(held)
    /\ \E p \in Answers(held) :
        LET planned == Planned(held, p) IN
        /\ payload' = Enforced(held, p)
        /\ plan' = planned \cap tools
        /\ warnings' = ContractWarnings(held, p)
                         \cup ({"insert_failed"} \X (planned \ tools))
    /\ \/ plan' = {} /\ Succeed
       \/ plan' # {} /\ step' = "insert" /\ UNCHANGED <<outcome, remembered>>
    /\ UNCHANGED <<ragVars, held, tools, attempt, calls, rows, stops>>

\* Mutant: an LKPD with too few activities passes.
TooFewNever(u, p) == FALSE

TooFewActivities(u, p) == p["lkpd"] < Requested[u]

AnswerLkpd ==
    /\ step \in {"ask", "repair"} /\ IsLkpd(held)
    /\ \E p \in Answers(held) :
        \/ /\ TooFewActivities(held, p)
           /\ Fail(held)
           /\ UNCHANGED <<payload, remembered>>
        \/ /\ ~TooFewActivities(held, p)
           /\ payload' = Enforced(held, p)
           /\ Succeed
    /\ UNCHANGED <<ragVars, held, tools, plan, attempt, calls, warnings, rows,
                   stops>>

-----------------------------------------------------------------------------
(***************************************************************************)
(* insert_material_payload_via_mcp: the planned types in the order of       *)
(* _INSERT_SPECS, each with at most MaxAttempts calls of its tool.  A call  *)
(* that raises may have inserted its row.                                   *)
(***************************************************************************)
Rank == [t \in Types |-> CASE t = "mcq" -> 1 [] t = "essay" -> 2
                           [] t = "summary" -> 3]

Turn(t) ==
    /\ step = "insert" /\ t \in plan
    /\ \A o \in plan : Rank[t] <= Rank[o]

NewRow(t) == [upload |-> held, type |-> t, size |-> payload[t]]

\* Mutant: the first insert ends the loop.
AfterInsertStop(t) == plan' = {} /\ attempt' = 1 /\ Succeed

AfterInsert(t) ==
    /\ plan' = plan \ {t}
    /\ attempt' = 1
    /\ \/ plan' = {} /\ Succeed
       \/ plan' # {} /\ UNCHANGED <<step, outcome, remembered>>

CallReturns(t) ==
    /\ Turn(t)
    /\ rows' = rows \cup {NewRow(t)}
    /\ calls' = calls \cup {t}
    /\ UNCHANGED <<payload, warnings>>
    /\ AfterInsert(t)
    /\ UNCHANGED <<ragVars, held, tools, stops>>

\* Mutant: one retry too many.
GivesUpLate == attempt > MaxAttempts

GivesUp == attempt >= MaxAttempts

\* Mutant: a call that raises fails the job.
CallRaisesFailsJob(t) ==
    /\ Turn(t)
    /\ Fail(held)
    /\ UNCHANGED <<ragVars, held, tools, answer, kept, stops>>

CallRaises(t) ==
    /\ Turn(t)
    /\ rows' \in {rows, rows \cup {NewRow(t)}}
    /\ UNCHANGED <<payload, calls>>
    /\ \/ /\ ~GivesUp /\ attempt' = attempt + 1
          /\ UNCHANGED <<plan, warnings, step, outcome, remembered>>
       \/ /\ GivesUp
          /\ warnings' = warnings \cup {<<"insert_failed", t>>}
          /\ AfterInsert(t)
    /\ UNCHANGED <<ragVars, held, tools, stops>>

JobStep ==
    \/ ModelRaises \/ Unreadable \/ AnswerMaterial \/ AnswerLkpd
    \/ \E t \in Types : CallReturns(t) \/ CallRaises(t)

Next ==
    \/ Start \/ Stop \/ Crash
    \/ \E u \in Uploads : Refuse(u) \/ Begin(u)
    \/ JobStep

Spec == Init /\ [][Next]_vars

\* The model and the tools answer in the end, the container restarts.
FairSpec == Spec /\ WF_vars(JobStep) /\ WF_vars(Start)

-----------------------------------------------------------------------------
(***************************************************************************)
(* Properties.  `Shown`: the process is up and has had a job.               *)
(***************************************************************************)
Shown == held # None

\* The context of a prompt holds chunks of the user and the document of the job
\* only, whoever else uses the same document id (rag.py:272, the filter that
\* retrieval gives to either store).
ContextOfSameMaterial ==
    Shown => \A c \in context : UserOf[c.upload] = UserOf[held]
                               /\ DocOf[c.upload] = DocOf[held]

\* Where a chunk of this upload should be, a chunk of an earlier one is shown
\* only with a warning that indexing or the search failed (rag.py:206 replaces
\* chunks by id, rag.py:243-270).
StaleChunkExplained ==
    Shown => \A c \in context :
        \/ c.upload = held
        \/ c.index \notin Chunks(held)
        \/ notes # {}

\* A text of at most TopK chunks is in the prompt as a whole, if nothing failed
\* and no chunk of an earlier upload took a place (rag.py:38-67, 243-257).
WholeTextInContext ==
    /\ Shown /\ context # {} /\ notes = {}
    /\ Cardinality(Chunks(held)) <= TopK
    /\ \A c \in context : c.upload = held
    => \A p \in 0 .. TextLength[held] - 1 : \E c \in context : Covers(c, held, p)

\* Indexing an upload takes a chunk out of the collection only to put its own
\* under the same id (rag.py:188, 206).
ReplacedById ==
    \A c \in vector \ vector' :
        \E d \in vector' : /\ DocOf[d.upload] = DocOf[c.upload]
                         /\ d.index = c.index
                         /\ d.upload = held'

OnlyOwnIdsReplaced == [][ReplacedById]_vars

\* Whatever tools were called for holds only what the request asked for, no more
\* than it asked for, and belongs to a job that did not fail; the same for
\* remembered facts (runtime.py:179-231, contracts.py:84-145).
RowsKeepContract ==
    /\ \A r \in rows :
        /\ r.upload \in McpEnabled /\ r.type \in Wanted[r.upload]
        /\ r.size <= Requested[r.upload]
        /\ outcome[r.upload] # "failed"
    /\ \A u \in remembered :
        "summary" \in Wanted[u] /\ outcome[u] = "succeeded"

\* A job that succeeded accounts for every type it was asked for: the part is
\* there, or its absence is a warning; with MCP it is in tool_calls and a row of
\* that size was inserted, or a warning says that it was not (mcp_insert.py:33-56,
\* contracts.py:64-81).
NothingLostSilently ==
    Shown /\ outcome[held] = "succeeded" /\ ~IsLkpd(held) =>
        \A t \in Wanted[held] :
            \/ <<"missing", t>> \in warnings
            \/ /\ payload[t] # Missing
               /\ held \in McpEnabled =>
                    \/ <<"insert_failed", t>> \in warnings
                    \/ /\ t \in calls
                       /\ \E r \in rows : /\ r.upload = held /\ r.type = t
                                          /\ r.size = payload[t]

\* A job that succeeded returns no part that was not requested, none larger than
\* requested, a short quiz only with a warning, and an LKPD with all its
\* activities (contracts.py:84-213).
ResultKeepsContract ==
    Shown /\ outcome[held] = "succeeded" =>
        /\ \A f \in Fields : payload[f] # Missing =>
                f \in Wanted[held] /\ payload[f] <= Requested[held]
        /\ \A t \in {"mcq", "essay"} :
                payload[t] \in 0 .. Requested[held] - 1 => <<"too_few", t>> \in warnings
        /\ IsLkpd(held) => payload["lkpd"] = Requested[held]

\* Every job that was begun is over some day, if the model and the tools answer: parse errors
\* are repaired once, calls are retried a bounded number of times
\* (runtime.py:159-187, mcp_registry.py:86-106).
JobsEnd == step \in {"ask", "repair", "insert"} ~> step \in {"idle", "down"}

\* The runtime implements the contract of a job.  Its answer is settled from
\* the first insert on, and remains the result of a job that succeeded.
Answered == held \in Uploads /\ (step = "insert" \/ outcome[held] = "succeeded")

Contract == INSTANCE GenerationContract WITH
    settled <- Answered,
    result <- IF Answered THEN payload ELSE NoPayload

ContractSpec == Contract!Spec

\* Stated by README.md:110: the context is built for this upload only.  Here it
\* is asked for only where nothing failed and no warning was given.
ContextOfThisUpload ==
    Shown /\ notes = {} => \A c \in context : c.upload = held
=============================================================================
