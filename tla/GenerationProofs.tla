--------------------------- MODULE GenerationProofs ---------------------------
(***************************************************************************)
(* Proofs about GenerationRuntime.  What a context is made of follows from  *)
(* the step that builds it (BuildFacts); the rest of a job never touches    *)
(* it.  What the tools inserted follows from JobInv, which says what is     *)
(* true of the job in hand while it waits for the model and for the tools.  *)
(***************************************************************************)
EXTENDS GenerationRuntime, FiniteSetTheorems, TLAPS

USE DEF Types, Fields, Missing

(***************************************************************************)
(* The context.                                                            *)
(***************************************************************************)
LEMMA OwnChunksType ==
    ASSUME NEW u \in Uploads
    PROVE  OwnChunks(u) \subseteq Chunk
<1>1. Chunks(u) \subseteq Nat
    BY TextAssumption DEF Chunks
<1> QED BY <1>1 DEF OwnChunks, Chunk

LEMMA FoundMatches ==
    ASSUME NEW u \in Uploads, NEW store, NEW q, NEW S \in Found(store, u, q)
    PROVE  \A c \in S : /\ c \in store
                        /\ UserOf[c.upload] = UserOf[u]
                        /\ DocOf[c.upload] = DocOf[u]
BY DEF Found, Matching

\* A chunk that is kept although the collection took those of u has another
\* number than each of them, or belongs to another document.
LEMMA UpsertedChunk ==
    ASSUME NEW u \in Uploads, NEW c \in Upserted(u), DocOf[c.upload] = DocOf[u]
    PROVE  c.upload = u \/ c.index \notin Chunks(u)
<1>1. CASE c \in OwnChunks(u)
    BY <1>1 DEF OwnChunks
<1>2. CASE c \notin OwnChunks(u)
    <2>1. \A d \in OwnChunks(u) : ~SameId(c, d)
        BY <1>2 DEF Upserted
    <2>2. SUFFICES ASSUME c.index \in Chunks(u)
                   PROVE  FALSE
        OBVIOUS
    <2> DEFINE d == [upload |-> u, index |-> c.index]
    <2>3. d \in OwnChunks(u)
        BY <2>2 DEF OwnChunks
    <2>4. SameId(c, d)
        BY DEF SameId
    <2> QED BY <2>1, <2>3, <2>4
<1> QED BY <1>1, <1>2

LEMMA BuildFacts ==
    ASSUME NEW u \in Uploads, NEW q, RagTypeOK, BuildContext(u, q)
    PROVE  /\ RagTypeOK'
           /\ \A c \in context' : /\ UserOf[c.upload] = UserOf[u]
                                  /\ DocOf[c.upload] = DocOf[u]
           /\ notes' = {} => \A c \in context' :
                                c.upload = u \/ c.index \notin Chunks(u)
           /\ \A c \in vector \ vector' :
                \E d \in vector' : /\ DocOf[d.upload] = DocOf[c.upload]
                                   /\ d.index = c.index
                                   /\ d.upload = u
<1>1. PICK indexed \in BOOLEAN, searched \in BOOLEAN :
        /\ indexed \/ searched => vectorstore
        /\ memory' = memory \cup OwnChunks(u)
        /\ \/ indexed /\ vector' = Upserted(u)
           \/ ~indexed /\ vector' = vector
           \/ vectorstore /\ ~indexed /\ vector' = Upserted(u)
        /\ \/ searched /\ context' \in Found(vector', u, q)
           \/ ~searched /\ context' \in Found(memory', u, 1)
        /\ notes' = {n \in Notes :
                        \/ n = "not_indexed" /\ ~indexed
                        \/ n = "not_searched" /\ vectorstore /\ ~searched
                        \/ n = "no_chunks" /\ context' = {}}
        /\ vectorstore' = vectorstore
    BY DEF BuildContext
<1>2. vector' = vector \/ vector' = Upserted(u)
    BY <1>1
<1>3. /\ vector' \subseteq Chunk
      /\ memory' \subseteq Chunk
    BY <1>1, <1>2, OwnChunksType DEF RagTypeOK, Upserted
<1>4. /\ context' \subseteq Chunk
      /\ \A c \in context' : /\ UserOf[c.upload] = UserOf[u]
                             /\ DocOf[c.upload] = DocOf[u]
    <2>1. CASE searched
        BY <2>1, <1>1, <1>3, FoundMatches
    <2>2. CASE ~searched
        BY <2>2, <1>1, <1>3, FoundMatches
    <2> QED BY <2>1, <2>2
<1>5. RagTypeOK'
    BY <1>1, <1>3, <1>4 DEF RagTypeOK, Notes
<1>6. ASSUME notes' = {}, NEW c \in context'
      PROVE  c.upload = u \/ c.index \notin Chunks(u)
    <2>1. indexed
        BY <1>1, <1>6 DEF Notes
    <2>2. searched
        BY <1>1, <1>6, <2>1 DEF Notes
    <2>3. c \in Upserted(u)
        BY <1>1, <2>1, <2>2, FoundMatches
    <2> QED BY <1>4, <2>3, UpsertedChunk
<1>7. ASSUME NEW c \in vector \ vector'
      PROVE  \E d \in vector' : /\ DocOf[d.upload] = DocOf[c.upload]
                                /\ d.index = c.index
                                /\ d.upload = u
    <2>1. vector' = Upserted(u)
        BY <1>2, <1>7
    <2>2. PICK d \in OwnChunks(u) : SameId(c, d)
        BY <1>7, <2>1 DEF Upserted
    <2>3. d \in vector' /\ d.upload = u
        BY <2>1, <2>2 DEF Upserted, OwnChunks
    <2> QED BY <2>2, <2>3 DEF SameId
<1> QED BY <1>4, <1>5, <1>6, <1>7

-----------------------------------------------------------------------------
(***************************************************************************)
(* The invariant.                                                          *)
(***************************************************************************)
Busy == step \in {"ask", "repair", "insert"}

JobInv ==
    /\ Busy => held \in Uploads /\ outcome[held] = "running"
    /\ step = "insert" => held \in McpEnabled /\ plan \subseteq Wanted[held]
    /\ step # "insert" => plan = {}
    /\ \A t \in plan : payload[t] # Missing

RowsInv ==
    /\ \A r \in rows :
        /\ r.upload \in McpEnabled /\ r.type \in Wanted[r.upload]
        /\ r.size <= Requested[r.upload]
        /\ outcome[r.upload] \in {"running", "succeeded", "cut"}
    /\ step \in {"ask", "repair"} => \A r \in rows : r.upload # held
    /\ \A u \in remembered : "summary" \in Wanted[u] /\ outcome[u] = "succeeded"

PayloadKept ==
    /\ \A f \in Fields : payload[f] # Missing =>
            f \in Wanted[held] /\ payload[f] <= Requested[held]
    /\ \A t \in {"mcq", "essay"} :
            payload[t] \in 0 .. Requested[held] - 1 => <<"too_few", t>> \in warnings
    /\ IsLkpd(held) => payload["lkpd"] = Requested[held]

Inserted(t) ==
    /\ t \in calls
    /\ [upload |-> held, type |-> t, size |-> payload[t]] \in rows

TypesAccounted ==
    \A t \in Wanted[held] :
        \/ <<"missing", t>> \in warnings
        \/ /\ payload[t] # Missing
           /\ held \in McpEnabled => \/ <<"insert_failed", t>> \in warnings
                                     \/ t \in plan
                                     \/ Inserted(t)

ResultInv == Answered => PayloadKept /\ (~IsLkpd(held) => TypesAccounted)

IInv == TypeOK /\ JobInv /\ RowsInv /\ ResultInv

(***************************************************************************)
(* What the contract makes of an answer.                                   *)
(***************************************************************************)
LEMMA AnswersType ==
    ASSUME NEW u \in Uploads, NEW p \in Answers(u)
    PROVE  p \in [Fields -> Sizes]
<1>1. CASE IsLkpd(u)
    BY <1>1, LimitsAssumption DEF Answers, NoPayload, Sizes
<1>2. CASE ~IsLkpd(u)
    BY <1>2, LimitsAssumption DEF Answers, Sizes
<1> QED BY <1>1, <1>2

LEMMA TrimFacts ==
    ASSUME NEW u \in Uploads, NEW n \in Sizes
    PROVE  /\ Trim(u, n) \in Sizes
           /\ Trim(u, n) <= Requested[u]
           /\ Trim(u, n) = Missing <=> n = Missing
           /\ Trim(u, n) < Requested[u] => Trim(u, n) = n
BY LimitsAssumption DEF Trim, Sizes

LEMMA EnforcedFacts ==
    ASSUME NEW u \in Uploads, NEW p \in Answers(u)
    PROVE  /\ Enforced(u, p) \in [Fields -> Sizes]
           /\ \A f \in Fields : Enforced(u, p)[f] # Missing =>
                /\ f \in Wanted[u]
                /\ p[f] # Missing
                /\ Enforced(u, p)[f] <= Requested[u]
                /\ Enforced(u, p)[f] < Requested[u] => Enforced(u, p)[f] = p[f]
           /\ \A f \in Fields : f \in Wanted[u] /\ p[f] # Missing
                                => Enforced(u, p)[f] # Missing
           /\ IsLkpd(u) /\ ~TooFewActivities(u, p)
                => Enforced(u, p)["lkpd"] = Requested[u]
<1>1. p \in [Fields -> Sizes]
    BY AnswersType
<1>2. Missing \in Sizes
    BY DEF Sizes
<1>3. Enforced(u, p) \in [Fields -> Sizes]
    BY <1>1, <1>2, TrimFacts DEF Enforced
<1>4. ASSUME NEW f \in Fields, Enforced(u, p)[f] # Missing
      PROVE  /\ f \in Wanted[u]
             /\ p[f] # Missing
             /\ Enforced(u, p)[f] <= Requested[u]
             /\ Enforced(u, p)[f] < Requested[u] => Enforced(u, p)[f] = p[f]
    <2>1. f \in Wanted[u] /\ Enforced(u, p)[f] = Trim(u, p[f])
        BY <1>4 DEF Enforced
    <2>2. p[f] \in Sizes
        BY <1>1
    <2> QED BY <2>1, <2>2, <1>4, TrimFacts
<1>5. ASSUME NEW f \in Fields, f \in Wanted[u], p[f] # Missing
      PROVE  Enforced(u, p)[f] # Missing
    <2>1. Enforced(u, p)[f] = Trim(u, p[f])
        BY <1>5 DEF Enforced
    <2>2. p[f] \in Sizes
        BY <1>1
    <2> QED BY <2>1, <2>2, <1>5, TrimFacts
<1>6. ASSUME IsLkpd(u), ~TooFewActivities(u, p)
      PROVE  Enforced(u, p)["lkpd"] = Requested[u]
    <2>1. Enforced(u, p)["lkpd"] = Trim(u, p["lkpd"])
        BY <1>6 DEF Enforced, IsLkpd
    <2>2. p["lkpd"] \in Sizes
        BY <1>1
    <2>3. p["lkpd"] >= Requested[u]
        BY <1>6, <2>2, LimitsAssumption DEF TooFewActivities, Sizes
    <2> QED BY <2>1, <2>2, <2>3, LimitsAssumption DEF Trim, Sizes
<1> QED BY <1>3, <1>4, <1>5, <1>6

-----------------------------------------------------------------------------
(***************************************************************************)
(* The invariant is inductive: one lemma per action.                       *)
(***************************************************************************)
USE DEF ragVars, answer, kept

LEMMA InitInv == Init => IInv
<1> SUFFICES ASSUME Init PROVE IInv
    OBVIOUS
<1>1. TypeOK
    <2>1. RagTypeOK
        BY DEF Init, RagInit, RagTypeOK
    <2>2. stops \in 0 .. MaxStops /\ attempt \in 1 .. MaxAttempts
        BY LimitsAssumption DEF Init
    <2> QED BY <2>1, <2>2 DEF Init, TypeOK, Steps, Outcomes, NoPayload, Sizes
<1>2. JobInv /\ RowsInv
    BY DEF Init, JobInv, RowsInv, Busy
<1>3. ResultInv
    BY UploadsAssumption DEF Init, ResultInv, Answered
<1> QED BY <1>1, <1>2, <1>3 DEF IInv

LEMMA StartInv ==
    ASSUME IInv, Start
    PROVE  IInv'
<1>1. TypeOK'
    BY LimitsAssumption DEF IInv, TypeOK, RagTypeOK, Start, OpenRag, Steps
<1>2. JobInv' /\ RowsInv'
    BY DEF IInv, JobInv, RowsInv, Busy, Start
<1>3. ResultInv'
    BY DEF IInv, ResultInv, Answered, PayloadKept, TypesAccounted, Inserted, Start
<1> QED BY <1>1, <1>2, <1>3 DEF IInv

LEMMA LeaveType ==
    ASSUME TypeOK, Leave, outcome' \in [Uploads -> Outcomes]
    PROVE  TypeOK'
<1>1. RagTypeOK'
    BY DEF TypeOK, RagTypeOK, Leave, CloseRag
<1>2. stops' \in 0 .. MaxStops /\ attempt' \in 1 .. MaxAttempts
    BY LimitsAssumption DEF TypeOK, Leave, Blank
<1> QED BY <1>1, <1>2 DEF TypeOK, Leave, Blank, NoPayload, Sizes, Steps

LEMMA StopInv ==
    ASSUME IInv, Stop
    PROVE  IInv'
<1>1. TypeOK'
    BY LeaveType DEF IInv, TypeOK, Stop
<1>2. JobInv' /\ RowsInv'
    BY DEF IInv, JobInv, RowsInv, Busy, Stop, Leave, Blank
<1>3. ResultInv'
    BY UploadsAssumption DEF ResultInv, Answered, Stop, Leave
<1> QED BY <1>1, <1>2, <1>3 DEF IInv

LEMMA CrashInv ==
    ASSUME IInv, Crash
    PROVE  IInv'
<1>1. held \in Uploads /\ outcome[held] = "running"
    BY DEF IInv, JobInv, Busy, Crash
<1>2. TypeOK'
    <2>1. outcome' \in [Uploads -> Outcomes]
        BY <1>1 DEF IInv, TypeOK, Crash, Outcomes
    <2> QED BY <2>1, LeaveType DEF IInv, Crash
<1>3. JobInv' /\ RowsInv'
    BY <1>1 DEF IInv, TypeOK, Row, JobInv, RowsInv, Busy, Crash, Leave, Blank
<1>4. ResultInv'
    BY UploadsAssumption DEF ResultInv, Answered, Crash, Leave
<1> QED BY <1>2, <1>3, <1>4 DEF IInv

LEMMA RefuseInv ==
    ASSUME IInv, NEW u \in Uploads, Refuse(u)
    PROVE  IInv'
<1>1. TypeOK'
    BY LimitsAssumption
    DEF IInv, TypeOK, RagTypeOK, Refuse, Take, Fail, Blank, NoPayload, Sizes, Steps,
        Outcomes
<1>2. JobInv' /\ RowsInv'
    BY DEF IInv, TypeOK, Row, JobInv, RowsInv, Busy, Refuse, Take, Fail, Blank
<1>3. ResultInv'
    BY DEF IInv, TypeOK, ResultInv, Answered, Refuse, Take, Fail
<1> QED BY <1>1, <1>2, <1>3 DEF IInv

LEMMA BeginInv ==
    ASSUME IInv, NEW u \in Uploads, Begin(u)
    PROVE  IInv'
<1>1. RagTypeOK'
    BY BuildFacts DEF IInv, TypeOK, Begin
<1>2. TypeOK'
    BY <1>1, LimitsAssumption
    DEF IInv, TypeOK, Begin, Take, Blank, NoPayload, Sizes, Steps, Outcomes
<1>3. JobInv' /\ RowsInv'
    BY DEF IInv, TypeOK, Row, JobInv, RowsInv, Busy, Begin, Take, Blank
<1>4. ResultInv'
    BY DEF IInv, TypeOK, ResultInv, Answered, Begin, Take
<1> QED BY <1>2, <1>3, <1>4 DEF IInv

\* The two steps that leave the job waiting for the model, or fail it.
LEMMA NoAnswerInv ==
    ASSUME IInv, ModelRaises \/ Unreadable
    PROVE  IInv'
<1>1. held \in Uploads /\ outcome[held] = "running"
    BY DEF IInv, JobInv, Busy, ModelRaises, Unreadable
<1>2. TypeOK'
    BY <1>1
    DEF IInv, TypeOK, RagTypeOK, ModelRaises, Unreadable, Fail, Steps, Outcomes
<1>3. JobInv' /\ RowsInv'
    BY <1>1
    DEF IInv, TypeOK, Row, JobInv, RowsInv, Busy, ModelRaises, Unreadable, Fail
<1>4. ResultInv'
    BY <1>1 DEF IInv, TypeOK, ResultInv, Answered, ModelRaises, Unreadable, Fail
<1> QED BY <1>2, <1>3, <1>4 DEF IInv

-----------------------------------------------------------------------------
(***************************************************************************)
(* An answer that can be read.                                             *)
(***************************************************************************)
LEMMA AnswerMaterialInv ==
    ASSUME IInv, AnswerMaterial
    PROVE  IInv'
<1>1. /\ held \in Uploads /\ outcome[held] = "running"
      /\ ~IsLkpd(held) /\ Wanted[held] \subseteq Types
    BY UploadsAssumption DEF IInv, JobInv, Busy, AnswerMaterial, IsLkpd
<1>2. PICK p \in Answers(held) :
        /\ payload' = Enforced(held, p)
        /\ plan' = Planned(held, p) \cap tools
        /\ warnings' = ContractWarnings(held, p)
                         \cup ({"insert_failed"} \X (Planned(held, p) \ tools))
    BY DEF AnswerMaterial
<1>3. /\ payload' \in [Fields -> Sizes]
      /\ \A f \in Fields : payload'[f] # Missing =>
            /\ f \in Wanted[held]
            /\ p[f] # Missing
            /\ payload'[f] <= Requested[held]
            /\ payload'[f] < Requested[held] => payload'[f] = p[f]
      /\ \A f \in Fields : f \in Wanted[held] /\ p[f] # Missing
                            => payload'[f] # Missing
    BY <1>1, <1>2, EnforcedFacts
<1>4. Planned(held, p) \subseteq Wanted[held]
      /\ \A t \in Planned(held, p) : held \in McpEnabled /\ payload'[t] # Missing
    BY <1>1, <1>3 DEF Planned
<1>5. warnings' \subseteq Warning
    BY <1>1, <1>2, <1>4 DEF ContractWarnings, Warning
<1>6. /\ \/ /\ plan' = {} /\ step' = "idle"
            /\ outcome' = [outcome EXCEPT ![held] = "succeeded"]
            /\ remembered' = IF payload'["summary"] > 0
                             THEN remembered \cup {held} ELSE remembered
         \/ /\ plan' # {} /\ step' = "insert"
            /\ outcome' = outcome /\ remembered' = remembered
      /\ UNCHANGED <<ragVars, held, tools, attempt, calls, rows, stops>>
      /\ step \in {"ask", "repair"}
    BY DEF AnswerMaterial, Succeed
<1>7. TypeOK'
    BY <1>1, <1>2, <1>3, <1>4, <1>5, <1>6
    DEF IInv, TypeOK, RagTypeOK, Steps, Outcomes
<1>8. JobInv'
    BY <1>1, <1>2, <1>4, <1>6 DEF JobInv, Busy
<1>9. RowsInv'
    <2>1. \A r \in rows' :
            /\ r.upload \in McpEnabled /\ r.type \in Wanted[r.upload]
            /\ r.size <= Requested[r.upload]
            /\ outcome'[r.upload] \in {"running", "succeeded", "cut"}
        BY <1>1, <1>6 DEF IInv, TypeOK, Row, RowsInv
    <2>2. payload'["summary"] > 0 => "summary" \in Wanted[held]
        BY <1>3
    <2>3. \A u \in remembered' :
            "summary" \in Wanted[u] /\ outcome'[u] = "succeeded"
        BY <1>1, <1>6, <2>2 DEF IInv, TypeOK, RowsInv
    <2> QED BY <1>6, <2>1, <2>3 DEF RowsInv
<1>10. ResultInv'
    <2>1. ASSUME NEW t \in {"mcq", "essay"}, payload'[t] \in 0 .. Requested[held] - 1
          PROVE  <<"too_few", t>> \in warnings'
        <3>1. payload'[t] # Missing /\ payload'[t] < Requested[held]
            BY <1>1, <2>1, LimitsAssumption
        <3>2. p[t] = payload'[t] /\ t \in Wanted[held]
            BY <1>3, <3>1
        <3> QED BY <1>2, <2>1, <3>2 DEF ContractWarnings
    <2>2. PayloadKept'
        BY <1>1, <1>3, <1>6, <2>1 DEF PayloadKept, IsLkpd
    <2>3. ASSUME NEW t \in Wanted[held]
          PROVE  \/ <<"missing", t>> \in warnings'
                 \/ /\ payload'[t] # Missing
                    /\ held \in McpEnabled => \/ <<"insert_failed", t>> \in warnings'
                                              \/ t \in plan'
        <3>1. CASE p[t] = Missing
            BY <1>2, <3>1 DEF ContractWarnings
        <3>2. CASE p[t] # Missing
            BY <1>1, <1>2, <1>3, <3>2 DEF Planned
        <3> QED BY <3>1, <3>2
    <2>4. TypesAccounted'
        BY <1>6, <2>3 DEF TypesAccounted
    <2> QED BY <2>2, <2>4 DEF ResultInv
<1> QED BY <1>7, <1>8, <1>9, <1>10 DEF IInv

LEMMA AnswerLkpdInv ==
    ASSUME IInv, AnswerLkpd
    PROVE  IInv'
<1>1. /\ held \in Uploads /\ outcome[held] = "running" /\ IsLkpd(held)
      /\ held \notin McpEnabled /\ plan = {}
    BY UploadsAssumption DEF IInv, JobInv, Busy, AnswerLkpd, IsLkpd
<1>2. PICK p \in Answers(held) :
        \/ /\ TooFewActivities(held, p)
           /\ Fail(held)
           /\ UNCHANGED <<payload, remembered>>
        \/ /\ ~TooFewActivities(held, p)
           /\ payload' = Enforced(held, p)
           /\ Succeed
    BY DEF AnswerLkpd
<1>3. UNCHANGED <<ragVars, held, tools, plan, attempt, calls, warnings, rows, stops>>
    BY DEF AnswerLkpd
<1>4. CASE TooFewActivities(held, p)
    <2>1. Fail(held) /\ UNCHANGED <<payload, remembered>>
        BY <1>2, <1>4
    <2>2. TypeOK'
        BY <1>1, <1>3, <2>1 DEF IInv, TypeOK, RagTypeOK, Fail, Steps, Outcomes
    <2>3. JobInv' /\ RowsInv'
        BY <1>1, <1>3, <2>1
        DEF IInv, TypeOK, Row, JobInv, RowsInv, Busy, Fail, AnswerLkpd
    <2>4. ResultInv'
        BY <1>1, <1>3, <2>1 DEF IInv, TypeOK, ResultInv, Answered, Fail
    <2> QED BY <2>2, <2>3, <2>4 DEF IInv
<1>5. CASE ~TooFewActivities(held, p)
    <2>1. payload' = Enforced(held, p) /\ Succeed
        BY <1>2, <1>5
    <2>2. /\ payload' \in [Fields -> Sizes]
          /\ \A f \in Fields : payload'[f] # Missing =>
                f \in Wanted[held] /\ payload'[f] <= Requested[held]
          /\ payload'["lkpd"] = Requested[held]
        BY <1>1, <1>5, <2>1, EnforcedFacts
    <2>3. \A t \in Types : payload'[t] = Missing
        BY <1>1, <2>2 DEF IsLkpd
    <2>4. remembered' = remembered
        BY <2>1, <2>3 DEF Succeed
    <2>5. TypeOK'
        BY <1>1, <1>3, <2>1, <2>2, <2>4
        DEF IInv, TypeOK, RagTypeOK, Succeed, Steps, Outcomes
    <2>6. JobInv' /\ RowsInv'
        BY <1>1, <1>3, <2>1, <2>4
        DEF IInv, TypeOK, Row, JobInv, RowsInv, Busy, Succeed
    <2>7. PayloadKept'
        BY <1>1, <1>3, <2>2, <2>3, LimitsAssumption DEF PayloadKept
    <2>8. IsLkpd(held)'
        BY <1>1, <1>3 DEF IsLkpd
    <2> QED BY <2>5, <2>6, <2>7, <2>8 DEF IInv, ResultInv
<1> QED BY <1>4, <1>5

-----------------------------------------------------------------------------
(***************************************************************************)
(* An insert, and the end of the job after the last one.                   *)
(***************************************************************************)
LEMMA TurnFacts ==
    ASSUME IInv, NEW t \in Types, Turn(t)
    PROVE  /\ held \in McpEnabled /\ held \in Uploads
           /\ outcome[held] = "running" /\ ~IsLkpd(held)
           /\ plan \subseteq Wanted[held]
           /\ step = "insert" /\ t \in plan /\ t \in Wanted[held]
           /\ payload[t] \in 0 .. MaxSize /\ payload[t] <= Requested[held]
           /\ NewRow(t) \in Row
           /\ PayloadKept /\ TypesAccounted
<1>1. /\ step = "insert" /\ t \in plan
      /\ held \in Uploads /\ outcome[held] = "running"
      /\ held \in McpEnabled /\ plan \subseteq Wanted[held]
      /\ payload[t] # Missing
    BY DEF IInv, JobInv, Busy, Turn
<1>2. ~IsLkpd(held)
    BY <1>1, UploadsAssumption DEF IsLkpd
<1>3. PayloadKept /\ TypesAccounted
    BY <1>1, <1>2 DEF IInv, ResultInv, Answered
<1>4. payload[t] \in 0 .. MaxSize
    BY <1>1 DEF IInv, TypeOK, Sizes
<1>5. payload[t] <= Requested[held]
    BY <1>1, <1>3 DEF PayloadKept
<1>6. NewRow(t) \in Row
    BY <1>1, <1>4 DEF NewRow, Row
<1> QED BY <1>1, <1>2, <1>3, <1>4, <1>5, <1>6

\* What both ends of an insert have in common.  The row of the insert may be
\* there; the type is in tool_calls with it, or there is a warning.
LEMMA AfterInsertInv ==
    ASSUME IInv, NEW t \in Types, Turn(t), AfterInsert(t),
           UNCHANGED <<ragVars, held, tools, payload, stops>>,
           \/ /\ rows' = rows \cup {NewRow(t)}
              /\ calls' = calls \cup {t} /\ warnings' = warnings
           \/ /\ rows' \in {rows, rows \cup {NewRow(t)}} /\ calls' = calls
              /\ warnings' = warnings \cup {<<"insert_failed", t>>}
    PROVE  IInv'
<1>1. /\ held \in McpEnabled /\ held \in Uploads
      /\ outcome[held] = "running" /\ ~IsLkpd(held)
      /\ plan \subseteq Wanted[held]
      /\ step = "insert" /\ t \in plan /\ t \in Wanted[held]
      /\ payload[t] \in 0 .. MaxSize /\ payload[t] <= Requested[held]
      /\ NewRow(t) \in Row
      /\ PayloadKept /\ TypesAccounted
    BY TurnFacts
<1>2. /\ plan' = plan \ {t} /\ attempt' = 1
      /\ \/ /\ plan' = {} /\ step' = "idle"
            /\ outcome' = [outcome EXCEPT ![held] = "succeeded"]
            /\ remembered' = IF payload'["summary"] > 0
                             THEN remembered \cup {held} ELSE remembered
         \/ /\ plan' # {} /\ step' = step
            /\ outcome' = outcome /\ remembered' = remembered
    BY DEF AfterInsert, Succeed
<1>3. rows \subseteq rows' /\ rows' \subseteq rows \cup {NewRow(t)}
    OBVIOUS
<1>4. calls \subseteq calls' /\ warnings \subseteq warnings'
    OBVIOUS
<1>5. TypeOK'
    <2>1. RagTypeOK'
        BY DEF IInv, TypeOK, RagTypeOK
    <2>2. calls' \subseteq Types /\ rows' \subseteq Row
        BY <1>1 DEF IInv, TypeOK
    <2>3. <<"insert_failed", t>> \in Warning
        BY DEF Warning
    <2>4. warnings' \subseteq Warning
        BY <2>3 DEF IInv, TypeOK
    <2>5. attempt' \in 1 .. MaxAttempts
        BY <1>2, LimitsAssumption
    <2>6. /\ outcome' \in [Uploads -> Outcomes] /\ step' \in Steps
          /\ remembered' \subseteq Uploads
        BY <1>1, <1>2 DEF IInv, TypeOK, Outcomes, Steps
    <2> QED BY <1>2, <2>1, <2>2, <2>5, <2>6, <2>4 DEF IInv, TypeOK
<1>6. JobInv'
    BY <1>1, <1>2 DEF IInv, JobInv, Busy
<1>7. RowsInv'
    <2>1. \A r \in rows' :
            /\ r.upload \in McpEnabled /\ r.type \in Wanted[r.upload]
            /\ r.size <= Requested[r.upload]
            /\ outcome'[r.upload] \in {"running", "succeeded", "cut"}
        <3>1. \A r \in rows :
                outcome'[r.upload] \in {"running", "succeeded", "cut"}
            BY <1>1, <1>2 DEF IInv, TypeOK, Row, RowsInv
        <3>2. /\ NewRow(t).upload = held /\ NewRow(t).type = t
              /\ NewRow(t).size = payload[t]
            BY DEF NewRow
        <3>3. outcome'[held] \in {"running", "succeeded", "cut"}
            BY <1>1, <1>2 DEF IInv, TypeOK
        <3> QED BY <1>1, <1>3, <3>1, <3>2, <3>3 DEF IInv, RowsInv
    <2>2. payload'["summary"] > 0 => "summary" \in Wanted[held]
        BY <1>1 DEF PayloadKept
    <2>3. \A u \in remembered' :
            "summary" \in Wanted[u] /\ outcome'[u] = "succeeded"
        BY <1>1, <1>2, <2>2 DEF IInv, TypeOK, RowsInv
    <2> QED BY <1>1, <1>2, <2>1, <2>3 DEF RowsInv
<1>8. ResultInv'
    <2>1. PayloadKept'
        BY <1>1, <1>4 DEF PayloadKept, IsLkpd
    <2>2. ASSUME NEW o \in Wanted[held]
          PROVE  \/ <<"missing", o>> \in warnings'
                 \/ /\ payload'[o] # Missing
                    /\ held \in McpEnabled => \/ <<"insert_failed", o>> \in warnings'
                                              \/ o \in plan'
                                              \/ Inserted(o)'
        <3>1. CASE o = t
            <4>1. payload'[t] # Missing
                BY <1>1
            <4>2. <<"insert_failed", t>> \in warnings' \/ Inserted(t)'
                BY DEF Inserted, NewRow
            <4> QED BY <3>1, <4>1, <4>2
        <3>2. CASE o # t
            BY <1>1, <1>2, <1>3, <1>4, <3>2 DEF TypesAccounted, Inserted
        <3> QED BY <3>1, <3>2
    <2>3. TypesAccounted'
        BY <2>2 DEF TypesAccounted
    <2> QED BY <2>1, <2>3 DEF ResultInv
<1> QED BY <1>5, <1>6, <1>7, <1>8 DEF IInv

LEMMA CallReturnsInv ==
    ASSUME IInv, NEW t \in Types, CallReturns(t)
    PROVE  IInv'
BY AfterInsertInv DEF CallReturns

LEMMA CallRaisesInv ==
    ASSUME IInv, NEW t \in Types, CallRaises(t)
    PROVE  IInv'
<1>1. CASE GivesUp
    BY <1>1, AfterInsertInv DEF CallRaises
<1>2. CASE ~GivesUp
    <2>1. /\ Turn(t) /\ rows' \in {rows, rows \cup {NewRow(t)}}
          /\ attempt' = attempt + 1
          /\ UNCHANGED <<payload, calls, plan, warnings, step, outcome, remembered,
                         ragVars, held, tools, stops>>
        BY <1>2 DEF CallRaises
    <2>2. /\ held \in McpEnabled /\ held \in Uploads
          /\ outcome[held] = "running" /\ ~IsLkpd(held)
          /\ step = "insert" /\ t \in Wanted[held]
          /\ payload[t] <= Requested[held]
          /\ NewRow(t) \in Row
          /\ PayloadKept /\ TypesAccounted
        BY <2>1, TurnFacts
    <2>3. attempt' \in 1 .. MaxAttempts
        BY <1>2, <2>1, LimitsAssumption DEF IInv, TypeOK, GivesUp
    <2>4. TypeOK'
        BY <2>1, <2>2, <2>3 DEF IInv, TypeOK, RagTypeOK
    <2>5. JobInv'
        BY <2>1 DEF IInv, JobInv, Busy
    <2>6. RowsInv'
        <3>1. /\ NewRow(t).upload = held /\ NewRow(t).type = t
              /\ NewRow(t).size = payload[t]
            BY DEF NewRow
        <3> QED BY <2>1, <2>2, <3>1 DEF IInv, RowsInv
    <2>7. ResultInv'
        BY <2>1, <2>2 DEF ResultInv, PayloadKept, TypesAccounted, Inserted, IsLkpd
    <2> QED BY <2>4, <2>5, <2>6, <2>7 DEF IInv
<1> QED BY <1>1, <1>2

LEMMA NextInv == IInv /\ [Next]_vars => IInv'
<1> SUFFICES ASSUME IInv, [Next]_vars PROVE IInv'
    OBVIOUS
<1>1. CASE Next
    BY <1>1, StartInv, StopInv, CrashInv, RefuseInv, BeginInv, NoAnswerInv,
       AnswerMaterialInv, AnswerLkpdInv, CallReturnsInv, CallRaisesInv
    DEF Next, JobStep
<1>2. CASE UNCHANGED vars
    BY <1>2 DEF vars, IInv, TypeOK, RagTypeOK, JobInv, Busy, RowsInv, ResultInv,
                Answered, PayloadKept, TypesAccounted, Inserted, IsLkpd
<1> QED BY <1>1, <1>2

LEMMA Invariance == Spec => []IInv
BY InitInv, NextInv, PTL DEF Spec

-----------------------------------------------------------------------------
(***************************************************************************)
(* The theorems.                                                           *)
(***************************************************************************)
\* Every variable keeps its type, in particular no insert is called for more
\* than MaxAttempts times (mcp_registry.py:86-106).
THEOREM GenerationTypeCorrect == Spec => []TypeOK
BY Invariance, PTL DEF IInv

\* Whatever was inserted through a tool, or remembered, was requested, is not
\* larger than requested, and belongs to no job that failed.
THEOREM InsertsKeepContract == Spec => []RowsKeepContract
<1>1. IInv => RowsKeepContract
    BY DEF IInv, RowsInv, RowsKeepContract
<1> QED BY <1>1, Invariance, PTL

\* A job that succeeded kept the contract of its request.
THEOREM ResultsKeepContract == Spec => []ResultKeepsContract
<1>1. IInv => ResultKeepsContract
    <2> SUFFICES ASSUME IInv, Shown, outcome[held] = "succeeded"
                 PROVE  PayloadKept
        BY DEF ResultKeepsContract, PayloadKept
    <2> QED BY DEF IInv, TypeOK, Shown, ResultInv, Answered
<1> QED BY <1>1, Invariance, PTL

\* A job that succeeded accounts for every type it was asked for: in the result
\* and among the inserted rows, or among the warnings.
THEOREM EveryTypeAccounted == Spec => []NothingLostSilently
<1>1. IInv => NothingLostSilently
    <2> SUFFICES ASSUME IInv, Shown, outcome[held] = "succeeded", ~IsLkpd(held),
                        NEW t \in Wanted[held], <<"missing", t>> \notin warnings
                 PROVE  /\ payload[t] # Missing
                        /\ held \in McpEnabled =>
                            \/ <<"insert_failed", t>> \in warnings
                            \/ /\ t \in calls
                               /\ \E r \in rows : /\ r.upload = held /\ r.type = t
                                                  /\ r.size = payload[t]
        BY DEF NothingLostSilently
    <2>1. TypesAccounted
        BY DEF IInv, TypeOK, Shown, ResultInv, Answered
    <2>2. plan = {}
        <3>1. step # "insert"
            BY DEF IInv, JobInv, Busy
        <3> QED BY <3>1 DEF IInv, JobInv
    <2>3. Inserted(t) => \E r \in rows : /\ r.upload = held /\ r.type = t
                                       /\ r.size = payload[t]
        BY DEF Inserted
    <2> QED BY <2>1, <2>2, <2>3 DEF TypesAccounted, Inserted
<1> QED BY <1>1, Invariance, PTL

\* Every step but Begin keeps the context of the job, or shows none.
LEMMA ContextKept ==
    ASSUME Next, \A u \in Uploads : ~Begin(u)
    PROVE  \/ held' = None
           \/ context' = {}
           \/ UNCHANGED <<context, notes, held>>
BY DEF Next, JobStep, Start, Stop, Crash, Leave, Refuse, ModelRaises, Unreadable,
       AnswerMaterial, AnswerLkpd, CallReturns, CallRaises, OpenRag

\* The context of a prompt is of one user and one document.
THEOREM ContextOfOneMaterial == Spec => []ContextOfSameMaterial
<1>1. Init => ContextOfSameMaterial
    BY DEF Init, RagInit, ContextOfSameMaterial
<1>2. IInv /\ ContextOfSameMaterial /\ [Next]_vars => ContextOfSameMaterial'
    <2> SUFFICES ASSUME IInv, ContextOfSameMaterial, [Next]_vars
                 PROVE  ContextOfSameMaterial'
        OBVIOUS
    <2>1. ASSUME NEW u \in Uploads, Begin(u)
          PROVE  ContextOfSameMaterial'
        <3>1. held' = u
            BY <2>1 DEF Begin, Take
        <3>2. \A c \in context' : /\ UserOf[c.upload] = UserOf[u]
                                  /\ DocOf[c.upload] = DocOf[u]
            BY <2>1, BuildFacts DEF IInv, TypeOK, Begin
        <3> QED BY <3>1, <3>2 DEF ContextOfSameMaterial
    <2>2. CASE Next /\ \A u \in Uploads : ~Begin(u)
        BY <2>2, ContextKept DEF ContextOfSameMaterial, Shown
    <2>3. CASE UNCHANGED vars
        BY <2>3 DEF vars, ContextOfSameMaterial, Shown
    <2> QED BY <2>1, <2>2, <2>3
<1> QED BY <1>1, <1>2, Invariance, PTL DEF Spec

\* Without a warning, a chunk of an earlier upload is shown only under a number
\* that this upload has no chunk for.
THEOREM StaleChunksExplained == Spec => []StaleChunkExplained
<1>1. Init => StaleChunkExplained
    BY DEF Init, RagInit, StaleChunkExplained
<1>2. IInv /\ StaleChunkExplained /\ [Next]_vars => StaleChunkExplained'
    <2> SUFFICES ASSUME IInv, StaleChunkExplained, [Next]_vars
                 PROVE  StaleChunkExplained'
        OBVIOUS
    <2>1. ASSUME NEW u \in Uploads, Begin(u)
          PROVE  StaleChunkExplained'
        <3>1. held' = u
            BY <2>1 DEF Begin, Take
        <3>2. notes' = {} => \A c \in context' :
                                c.upload = u \/ c.index \notin Chunks(u)
            BY <2>1, BuildFacts DEF IInv, TypeOK, Begin
        <3> QED BY <3>1, <3>2 DEF StaleChunkExplained, Chunks, Reaches
    <2>2. CASE Next /\ \A u \in Uploads : ~Begin(u)
        BY <2>2, ContextKept DEF StaleChunkExplained, Shown, Chunks, Reaches
    <2>3. CASE UNCHANGED vars
        BY <2>3 DEF vars, StaleChunkExplained, Shown, Chunks, Reaches
    <2> QED BY <2>1, <2>2, <2>3
<1> QED BY <1>1, <1>2, Invariance, PTL DEF Spec

\* The collection loses a chunk only to a new one under the same id.
THEOREM ChunksReplacedById == Spec => OnlyOwnIdsReplaced
<1>1. IInv /\ [Next]_vars => [ReplacedById]_vars
    <2> SUFFICES ASSUME IInv, Next
                 PROVE  ReplacedById
        OBVIOUS
    <2>1. ASSUME NEW u \in Uploads, Begin(u)
          PROVE  ReplacedById
        <3>1. held' = u
            BY <2>1 DEF Begin, Take
        <3>2. \A c \in vector \ vector' :
                \E d \in vector' : /\ DocOf[d.upload] = DocOf[c.upload]
                                   /\ d.index = c.index
                                   /\ d.upload = u
            BY <2>1, BuildFacts DEF IInv, TypeOK, Begin
        <3> QED BY <3>1, <3>2 DEF ReplacedById
    <2>2. CASE \A u \in Uploads : ~Begin(u)
        <3>1. vector' = vector
            BY <2>2
            DEF Next, JobStep, Start, Stop, Crash, Leave, Refuse, ModelRaises,
                Unreadable, AnswerMaterial, AnswerLkpd, CallReturns, CallRaises,
                OpenRag, CloseRag
        <3> QED BY <3>1 DEF ReplacedById
    <2> QED BY <2>1, <2>2
<1> QED BY <1>1, Invariance, PTL DEF Spec, OnlyOwnIdsReplaced

-----------------------------------------------------------------------------
(***************************************************************************)
(* The splitter leaves no gap, and what fits into TopK chunks is shown as a *)
(* whole.                                                                  *)
(***************************************************************************)
LEMMA StepFacts == Step \in Nat \ {0} /\ Step <= ChunkSize /\ ChunkSize \in Nat
BY SettingsAssumption DEF Step

LEMMA StepTimes ==
    ASSUME NEW k \in Nat
    PROVE  /\ k * Step \in Nat
           /\ k <= k * Step
           /\ (k + 1) * Step = k * Step + Step
BY StepFacts

LEMMA DivisionFacts ==
    ASSUME NEW x \in Nat, NEW s \in Nat \ {0}
    PROVE  /\ x \div s \in Nat
           /\ (x \div s) * s <= x
           /\ x < (x \div s) * s + s
OBVIOUS

\* Position p is in the first window that ends behind it.
LEMMA ChunksCoverText ==
    ASSUME NEW u \in Uploads, NEW p \in 0 .. TextLength[u] - 1
    PROVE  \E c \in OwnChunks(u) : Covers(c, u, p)
<1>1. p \in Nat /\ TextLength[u] \in Nat /\ p < TextLength[u]
    BY TextAssumption
<1>2. PICK k \in Nat : /\ k * Step <= p /\ p < k * Step + ChunkSize
                       /\ k = 0 \/ ~Reaches(TextLength[u], k - 1)
    <2>1. CASE p < ChunkSize
        <3>1. 0 * Step <= p /\ p < 0 * Step + ChunkSize
            BY <1>1, <2>1, StepFacts
        <3> QED BY <3>1
    <2>2. CASE p >= ChunkSize
        <3> DEFINE j == (p - ChunkSize) \div Step
        <3>1. /\ j \in Nat
              /\ j * Step <= p - ChunkSize
              /\ p - ChunkSize < j * Step + Step
            <4>1. p - ChunkSize \in Nat
                BY <1>1, <2>2, StepFacts
            <4> QED BY <4>1, StepFacts, DivisionFacts
        <3>2. j * Step \in Nat /\ (j + 1) * Step = j * Step + Step
            BY <3>1, StepTimes
        <3> HIDE DEF j
        <3>3. (j + 1) * Step <= p /\ p < (j + 1) * Step + ChunkSize
            BY <1>1, <3>1, <3>2, StepFacts
        <3>4. ~Reaches(TextLength[u], j)
            BY <1>1, <3>1, <3>2, StepFacts DEF Reaches
        <3>5. j + 1 \in Nat /\ (j + 1) - 1 = j
            BY <3>1
        <3> QED BY <3>3, <3>4, <3>5
    <2> QED BY <1>1, <2>1, <2>2, StepFacts
<1>3. k * Step \in Nat /\ k <= k * Step
    BY StepTimes
<1>4. k * Step < TextLength[u] /\ k \in 0 .. TextLength[u] - 1
    BY <1>1, <1>2, <1>3
<1>5. k \in Chunks(u)
    BY <1>2, <1>4 DEF Chunks
<1> DEFINE c == [upload |-> u, index |-> k]
<1>6. c \in OwnChunks(u)
    BY <1>5 DEF OwnChunks
<1>7. p \in k * Step .. k * Step + ChunkSize - 1
    BY <1>1, <1>2, <1>3, StepFacts
<1>8. Covers(c, u, p)
    BY <1>7 DEF Covers
<1> QED BY <1>6, <1>8

LEMMA OwnChunksFinite ==
    ASSUME NEW u \in Uploads
    PROVE  /\ IsFiniteSet(OwnChunks(u))
           /\ Cardinality(OwnChunks(u)) <= Cardinality(Chunks(u))
           /\ Cardinality(Chunks(u)) \in Nat
<1>1. IsFiniteSet(Chunks(u))
    <2>1. IsFiniteSet(0 .. TextLength[u] - 1)
        BY TextAssumption, FS_Interval
    <2>2. Chunks(u) \subseteq 0 .. TextLength[u] - 1
        BY DEF Chunks
    <2> QED BY <2>1, <2>2, FS_Subset
<1> DEFINE f == [k \in Chunks(u) |-> [upload |-> u, index |-> k]]
<1>2. f \in Surjection(Chunks(u), OwnChunks(u))
    BY DEF Surjection, OwnChunks
<1> QED BY <1>1, <1>2, FS_Surjection, FS_CardinalityType

\* Among own chunks only, TopK of them at least are all of them.
LEMMA AllOwnFound ==
    ASSUME NEW u \in Uploads, NEW store, OwnChunks(u) \subseteq store,
           NEW q, NEW S \in Found(store, u, q),
           Cardinality(Chunks(u)) <= TopK,
           \A c \in S : c \in OwnChunks(u)
    PROVE  S = OwnChunks(u)
<1>1. OwnChunks(u) \subseteq Matching(store, u)
    BY DEF Matching, OwnChunks
<1>2. S = Matching(store, u) \/ Cardinality(S) >= TopK
    BY DEF Found
<1>3. CASE S = Matching(store, u)
    BY <1>1, <1>3
<1>4. CASE Cardinality(S) >= TopK
    <2>1. /\ IsFiniteSet(S) /\ Cardinality(S) <= Cardinality(OwnChunks(u))
          /\ Cardinality(OwnChunks(u)) = Cardinality(S) => OwnChunks(u) = S
        BY OwnChunksFinite, FS_Subset
    <2>2. Cardinality(S) \in Nat /\ Cardinality(OwnChunks(u)) \in Nat
        BY <2>1, OwnChunksFinite, FS_CardinalityType
    <2> QED BY <1>4, <2>1, <2>2, OwnChunksFinite, SettingsAssumption
<1> QED BY <1>2, <1>3, <1>4

\* The collection holds nothing but chunks of their uploads.
VectorInv == \A c \in vector : c \in OwnChunks(c.upload)

LEMMA BuildVector ==
    ASSUME NEW u \in Uploads, NEW q, BuildContext(u, q), VectorInv
    PROVE  VectorInv'
<1>1. vector' = vector \/ vector' = Upserted(u)
    BY DEF BuildContext
<1>2. \A c \in OwnChunks(u) : c.upload = u
    BY DEF OwnChunks
<1>3. \A c \in vector' : c \in OwnChunks(c.upload)
    BY <1>1, <1>2 DEF VectorInv, Upserted
<1> QED BY <1>3 DEF VectorInv, OwnChunks, Chunks, Reaches

LEMMA BuildWhole ==
    ASSUME NEW u \in Uploads, NEW q, BuildContext(u, q), VectorInv, notes' = {},
           Cardinality(Chunks(u)) <= TopK, \A c \in context' : c.upload = u
    PROVE  context' = OwnChunks(u)
<1>1. vector' = Upserted(u) /\ context' \in Found(vector', u, q)
    BY DEF BuildContext, Notes
<1>2. OwnChunks(u) \subseteq vector'
    BY <1>1 DEF Upserted
<1>3. \A c \in context' : c \in OwnChunks(u)
    BY <1>1, FoundMatches DEF Upserted, VectorInv
<1> QED BY <1>1, <1>2, <1>3, AllOwnFound

\* A context that was searched without a warning and holds no stale chunk is all
\* of a text of at most TopK chunks.
WholeInv ==
    /\ VectorInv
    /\ Shown /\ context # {} /\ notes = {} /\ Cardinality(Chunks(held)) <= TopK
        /\ (\A c \in context : c.upload = held)
        => context = OwnChunks(held)

LEMMA WholeInvKept == WholeInv /\ IInv /\ [Next]_vars => WholeInv'
<1> SUFFICES ASSUME WholeInv, IInv, [Next]_vars PROVE WholeInv'
    OBVIOUS
<1>1. ASSUME NEW u \in Uploads, Begin(u)
      PROVE  WholeInv'
    <2>1. held' = u /\ BuildContext(u, Queries(u))
        BY <1>1 DEF Begin, Take
    <2>2. VectorInv'
        BY <2>1, BuildVector DEF WholeInv
    <2>3. ASSUME notes' = {}, Cardinality(Chunks(u)) <= TopK,
                 \A c \in context' : c.upload = u
          PROVE  context' = OwnChunks(u)
        BY <2>1, <2>3, BuildWhole DEF WholeInv
    <2> QED BY <2>1, <2>2, <2>3 DEF WholeInv, OwnChunks, Chunks, Reaches
<1>2. CASE Next /\ \A u \in Uploads : ~Begin(u)
    <2>1. vector' = vector
        BY <1>2
        DEF Next, JobStep, Start, Stop, Crash, Leave, Refuse, ModelRaises, Unreadable,
            AnswerMaterial, AnswerLkpd, CallReturns, CallRaises, OpenRag, CloseRag
    <2>2. VectorInv'
        BY <2>1 DEF WholeInv, VectorInv, OwnChunks, Chunks, Reaches
    <2> QED BY <1>2, <2>2, ContextKept
            DEF WholeInv, Shown, OwnChunks, Chunks, Reaches
<1>3. CASE UNCHANGED vars
    BY <1>3 DEF vars, WholeInv, VectorInv, Shown, OwnChunks, Chunks, Reaches
<1> QED BY <1>1, <1>2, <1>3

\* A text of at most TopK chunks is in the prompt from its first to its last
\* position, unless something failed or an earlier upload got in.
THEOREM WholeTextShown == Spec => []WholeTextInContext
<1>1. Init => WholeInv
    BY DEF Init, RagInit, WholeInv, VectorInv
<1>2. WholeInv /\ IInv => WholeTextInContext
    <2> SUFFICES ASSUME WholeInv, IInv, Shown, context # {}, notes = {},
                        Cardinality(Chunks(held)) <= TopK,
                        \A c \in context : c.upload = held,
                        NEW p \in 0 .. TextLength[held] - 1
                 PROVE  \E c \in context : Covers(c, held, p)
        BY DEF WholeTextInContext
    <2>1. held \in Uploads
        BY DEF IInv, TypeOK, Shown
    <2>2. context = OwnChunks(held)
        BY DEF WholeInv
    <2> QED BY <2>1, <2>2, ChunksCoverText
<1> QED BY <1>1, <1>2, WholeInvKept, Invariance, PTL DEF Spec

-----------------------------------------------------------------------------
(***************************************************************************)
(* Every step of the runtime is a step of GenerationContract, or a stutter. *)
(***************************************************************************)
\* Only the job in hand runs, and only while the process is busy with it.
OneRunInv == \A u \in Uploads : outcome[u] = "running" => Busy /\ held = u

LEMMA OneRunKept == IInv /\ OneRunInv /\ [Next]_vars => OneRunInv'
<1> SUFFICES ASSUME IInv, OneRunInv, [Next]_vars PROVE OneRunInv'
    OBVIOUS
<1> USE DEF OneRunInv, Busy
<1>0. outcome \in [Uploads -> Outcomes] /\ (Busy => held \in Uploads)
    BY DEF IInv, TypeOK, JobInv
<1>1. CASE Start \/ Stop \/ UNCHANGED vars
    BY <1>1 DEF Start, Stop, Leave, vars
<1>2. CASE Crash
    BY <1>0, <1>2 DEF Crash, Leave
<1>3. ASSUME NEW u \in Uploads, Refuse(u) \/ Begin(u)
      PROVE  OneRunInv'
    BY <1>0, <1>3 DEF Refuse, Begin, Take, Fail
<1>4. CASE ModelRaises \/ Unreadable
    BY <1>0, <1>4 DEF ModelRaises, Unreadable, Fail
<1>5. CASE AnswerMaterial \/ AnswerLkpd
    BY <1>0, <1>5 DEF AnswerMaterial, AnswerLkpd, Succeed, Fail
<1>6. ASSUME NEW t \in Types, CallReturns(t) \/ CallRaises(t)
      PROVE  OneRunInv'
    BY <1>0, <1>6 DEF CallReturns, CallRaises, AfterInsert, Succeed, Turn
<1> QED BY <1>1, <1>2, <1>3, <1>4, <1>5, <1>6 DEF Next, JobStep

\* The states the contract tells apart.
LEMMA ContractStates ==
    ASSUME IInv, OneRunInv
    PROVE  /\ Contract!Running <=> Busy
           /\ step \in {"ask", "repair"} => ~Answered
           /\ step = "insert" => Answered
           /\ ~Busy => Contract!Idle
<1>1. Busy => held \in Uploads /\ outcome[held] = "running" /\ held # None
    BY UploadsAssumption DEF IInv, JobInv
<1>2. Contract!Running <=> held # None /\ outcome[held] = "running"
    BY DEF Contract!Running
<1>3. held # None => held \in Uploads
    BY DEF IInv, TypeOK
<1>4. Contract!Running <=> Busy
    BY <1>1, <1>2, <1>3 DEF OneRunInv
<1>5. step \in {"ask", "repair"} => ~Answered
    BY <1>1 DEF Answered, Busy
<1>6. step = "insert" => Answered
    BY <1>1 DEF Answered, Busy
<1>7. ~Busy => Contract!Idle
    BY DEF Contract!Idle, OneRunInv
<1> QED BY <1>4, <1>5, <1>6, <1>7

LEMMA ContractUnsettles ==
    ASSUME ~Answered'
    PROVE  Contract!Unsettled
BY DEF Contract!Unsettled, Contract!NoResult, NoPayload

\* The job ends with its answer, or goes on to the tools.
LEMMA ContractEnds ==
    ASSUME IInv, Busy, UNCHANGED held, Answered',
           \/ Succeed
           \/ held \in McpEnabled /\ UNCHANGED <<outcome, remembered>>
    PROVE  Contract!Succeed \/ Contract!GoOn
<1>1. CASE Succeed
    <2>1. Contract!Succeed
        BY <1>1 DEF Succeed, Contract!Succeed
    <2> QED BY <2>1
<1>2. CASE held \in McpEnabled /\ UNCHANGED <<outcome, remembered>>
    <2>1. Contract!GoOn
        BY <1>2 DEF Contract!GoOn
    <2> QED BY <2>1
<1> QED BY <1>1, <1>2

\* An answer of the model that can be read, and is complete enough, settles it.
LEMMA ContractSettles ==
    ASSUME IInv, IInv', OneRunInv, step \in {"ask", "repair"}, UNCHANGED <<held, rows>>,
           Answered',
           \/ Succeed
           \/ held \in McpEnabled /\ UNCHANGED <<outcome, remembered>>
    PROVE  Contract!Settle
<1>1. Contract!Running /\ ~Answered /\ Busy
    BY ContractStates DEF Busy
<1>2. Contract!WithinContract'
    <2>1. PayloadKept'
        BY DEF IInv, ResultInv
    <2>2. Contract!WithinContract' <=>
            /\ \A f \in Fields : payload'[f] # Missing =>
                  f \in Wanted[held'] /\ payload'[f] <= Requested[held']
            /\ Wanted[held'] = {"lkpd"} => payload'["lkpd"] = Requested[held']
        BY DEF Contract!WithinContract
    <2> QED BY <2>1, <2>2 DEF PayloadKept, IsLkpd
<1>3. Contract!Succeed \/ Contract!GoOn
    BY <1>1, ContractEnds
<1> QED BY <1>1, <1>2, <1>3 DEF Contract!Settle

\* A call of a tool inserts a part of the answer, or nothing.
LEMMA ContractInserts ==
    ASSUME IInv, OneRunInv, NEW t \in Types, Turn(t), UNCHANGED <<held, payload>>,
           rows' \in {rows, rows \cup {NewRow(t)}},
           \/ Succeed
           \/ UNCHANGED <<step, outcome, remembered>>
    PROVE  Contract!Insert(t)
<1>1. /\ held \in McpEnabled /\ held \in Uploads /\ step = "insert" /\ payload[t] # Missing
    BY TurnFacts
<1>2. Contract!Running /\ Answered /\ Busy
    BY <1>1, ContractStates DEF Busy
<1>3. Answered'
    <2>1. CASE Succeed
        BY <1>1, <2>1 DEF Succeed, Answered, IInv, TypeOK
    <2>2. CASE UNCHANGED <<step, outcome, remembered>>
        BY <1>1, <2>2 DEF Answered
    <2> QED BY <2>1, <2>2
<1>4. Contract!Succeed \/ Contract!GoOn
    BY <1>1, <1>2, <1>3, ContractEnds
<1> QED BY <1>1, <1>2, <1>3, <1>4 DEF Contract!Insert, NewRow

LEMMA ContractStep ==
    ASSUME IInv, OneRunInv, [Next]_vars
    PROVE  Contract!Next \/ UNCHANGED Contract!vars
<1>0. IInv'
    BY NextInv
<1>1. CASE Start
    <2>1. ~Busy /\ UNCHANGED <<held, outcome, payload, rows, remembered>> /\ step' # "insert"
        BY <1>1 DEF Start, Busy
    <2>2. Answered' = Answered
        BY <2>1 DEF Answered, Busy
    <2> QED BY <2>1, <2>2 DEF Contract!vars, NoPayload
<1>2. CASE Stop
    <2>1. Contract!Idle
        BY <1>2, ContractStates DEF Stop, Busy
    <2>2. Contract!Leave
        <3>1. held' = None /\ UNCHANGED <<rows, remembered, outcome>>
            BY <1>2 DEF Stop, Leave
        <3>2. ~Answered'
            BY <3>1, UploadsAssumption DEF Answered
        <3> QED BY <2>1, <3>1, <3>2, ContractUnsettles DEF Contract!Leave
    <2> QED BY <2>2 DEF Contract!Next
<1>3. CASE Crash
    <2>1. Contract!Running
        BY <1>3, ContractStates DEF Crash, Busy
    <2>2. Contract!Leave
        <3>1. /\ held' = None /\ UNCHANGED <<rows, remembered>>
              /\ outcome' = [outcome EXCEPT ![held] = "cut"]
            BY <1>3 DEF Crash, Leave
        <3>2. ~Answered'
            BY <3>1, UploadsAssumption DEF Answered
        <3> QED BY <2>1, <3>1, <3>2, ContractUnsettles DEF Contract!Leave
    <2> QED BY <2>2 DEF Contract!Next
<1>4. ASSUME NEW u \in Uploads, Refuse(u) \/ Begin(u)
      PROVE  Contract!Next
    <2>1. /\ step = "idle" /\ outcome[u] = "waiting" /\ held' = u /\ step' # "insert"
          /\ \E how \in {"running", "failed"} : outcome' = [outcome EXCEPT ![u] = how]
          /\ UNCHANGED <<rows, remembered>>
        BY <1>4 DEF Refuse, Begin, Take, Fail
    <2>2. ~Answered'
        BY <2>1 DEF Answered, IInv, TypeOK
    <2>3. Contract!Idle
        BY <2>1, ContractStates DEF Busy
    <2>4. Contract!Take(u)
        BY <2>1, <2>2, <2>3, ContractUnsettles DEF Contract!Take
    <2> QED BY <2>4 DEF Contract!Next
<1>5. ASSUME step \in {"ask", "repair"}, Fail(held), UNCHANGED <<held, rows, remembered>>
      PROVE  Contract!Next
    <2>1. Contract!Running /\ ~Answered
        BY <1>5, ContractStates
        DEF Busy
    <2>2. ~Answered'
        BY <1>0, <1>5, <2>1 DEF Fail, Answered, IInv, TypeOK, JobInv, Busy
    <2>3. Answered' = Answered
        BY <2>1, <2>2 DEF Answered
    <2>4. (IF Answered THEN payload ELSE NoPayload)' = IF Answered THEN payload ELSE NoPayload
        BY <2>1, <2>2 DEF NoPayload
    <2>5. Contract!Fail
        BY <1>5, <2>1, <2>3, <2>4 DEF Fail, Contract!Fail
    <2> QED BY <2>5 DEF Contract!Next
<1>6. CASE ModelRaises
    BY <1>5, <1>6 DEF ModelRaises
<1>7. CASE Unreadable
    <2>1. CASE step = "ask"
        <3>1. UNCHANGED <<held, outcome, payload, rows, remembered>> /\ step' = "repair"
            BY <1>7, <2>1 DEF Unreadable
        <3>2. Answered' = Answered
            BY <2>1, <3>1 DEF Answered
        <3> QED BY <3>1, <3>2 DEF Contract!vars, NoPayload
    <2>2. CASE step # "ask"
        BY <1>5, <1>7, <2>2 DEF Unreadable
    <2> QED BY <2>1, <2>2
<1>8. CASE AnswerMaterial
    <2>1. /\ step \in {"ask", "repair"} /\ UNCHANGED <<held, rows>>
          /\ \/ plan' = {} /\ Succeed
             \/ plan' # {} /\ step' = "insert" /\ UNCHANGED <<outcome, remembered>>
        BY <1>8 DEF AnswerMaterial
    <2>2. held \in Uploads
        BY <2>1 DEF IInv, JobInv, Busy
    <2>3. Answered'
        BY <2>1, <2>2 DEF Answered, Succeed, IInv, TypeOK
    <2>4. step' = "insert" => held \in McpEnabled
        BY <1>0, <2>1 DEF IInv, JobInv
    <2>5. Contract!Settle
        BY <1>0, <2>1, <2>3, <2>4, ContractSettles
    <2> QED BY <2>5 DEF Contract!Next
<1>9. CASE AnswerLkpd
    <2>1. /\ step \in {"ask", "repair"} /\ UNCHANGED <<held, rows>>
          /\ (Fail(held) /\ UNCHANGED remembered) \/ Succeed
        BY <1>9 DEF AnswerLkpd
    <2>2. CASE Fail(held) /\ UNCHANGED remembered
        BY <1>5, <2>1, <2>2
    <2>3. CASE Succeed
        <3>1. Answered'
            BY <2>1, <2>3 DEF Answered, Succeed, IInv, TypeOK, JobInv, Busy
        <3>2. Contract!Settle
            BY <1>0, <2>1, <2>3, <3>1, ContractSettles
        <3> QED BY <3>2 DEF Contract!Next
    <2> QED BY <2>1, <2>2, <2>3
<1>10. ASSUME NEW t \in Types, CallReturns(t) \/ CallRaises(t)
       PROVE  Contract!Next
    <2>1. /\ Turn(t) /\ UNCHANGED <<held, payload>>
          /\ rows' \in {rows, rows \cup {NewRow(t)}}
          /\ Succeed \/ UNCHANGED <<step, outcome, remembered>>
        BY <1>10 DEF CallReturns, CallRaises, AfterInsert
    <2>2. Contract!Insert(t)
        BY <2>1, ContractInserts
    <2> QED BY <2>2 DEF Contract!Next
<1>11. CASE UNCHANGED vars
    <2>1. UNCHANGED <<held, outcome, payload, rows, remembered, step>>
        BY <1>11 DEF vars
    <2> QED BY <2>1 DEF Contract!vars, Answered, NoPayload
<1> QED BY <1>1, <1>2, <1>3, <1>4, <1>6, <1>7, <1>8, <1>9, <1>10, <1>11
    DEF Next, JobStep

\* The runtime implements GenerationContract: a job's answer is settled once, within
\* the request; afterwards trouble with a tool neither fails the job nor changes the
\* answer, and the tools insert parts of it only (runtime.py:150-231, mcp_insert.py).
THEOREM ImplementsContract == Spec => ContractSpec
<1>1. Init => Contract!Init /\ OneRunInv
    BY UploadsAssumption
    DEF Init, Contract!Init, Contract!NoResult, NoPayload, OneRunInv, Answered
<1>2. IInv /\ OneRunInv /\ [Next]_vars => [Contract!Next]_(Contract!vars)
    BY ContractStep
<1> QED BY <1>1, <1>2, OneRunKept, Invariance, PTL DEF Spec, ContractSpec, Contract!Spec
=============================================================================
