------------------------------- MODULE RagStore -------------------------------
(***************************************************************************)
(* Retrieval of material chunks (src/src/agent/rag.py and                   *)
(* runtime_helpers/rag_context.py): an upload is split, its chunks go to a  *)
(* list in memory and to a vector collection on disk, and the context of    *)
(* the prompt is searched in one of the two.                                *)
(*                                                                          *)
(* A chunk is the upload it was cut from and its number.  Its id in the     *)
(* collection is made of the document id and the number only.  A text is    *)
(* the length of what is left of it after whitespace is normalised.         *)
(***************************************************************************)
EXTENDS Integers, FiniteSets

CONSTANTS
    Uploads,       \* jobs: one uploaded file each
    UserOf,        \* the user_id of an upload
    DocOf,         \* its document id: the client's material_id, or a uuid
    TextLength,    \* the length of its text
    ChunkSize,     \* settings.rag_chunk_size
    ChunkOverlap,  \* settings.rag_chunk_overlap
    TopK           \* settings.rag_top_k

ASSUME TextAssumption == TextLength \in [Uploads -> Nat \ {0}]

\* What split_material_text demands; retrieval of no chunk makes no sense.
ASSUME SettingsAssumption ==
    /\ ChunkSize \in Nat \ {0}
    /\ ChunkOverlap \in 0 .. ChunkSize - 1
    /\ TopK \in Nat \ {0}

VARIABLES
    vectorstore,  \* has this process opened the collection?
    vector,       \* the chunks in the collection, on disk
    memory,       \* the chunks in _fallback_docs
    context,      \* the chunks in the prompt; {} is the extracted text
    notes         \* warnings of the last context

ragVars == <<vectorstore, vector, memory, context, notes>>

-----------------------------------------------------------------------------
(***************************************************************************)
(* split_material_text: windows of ChunkSize, one every Step positions, up  *)
(* to the first that reaches the end of the text.                           *)
(***************************************************************************)
Step == ChunkSize - ChunkOverlap

Reaches(n, k) == k * Step + ChunkSize >= n

\* Mutant: the loop stops one window early.
ChunksTooFew(u) ==
    {k \in 0 .. TextLength[u] - 1 :
        k * Step < TextLength[u] /\ (k = 0 \/ ~Reaches(TextLength[u], k))}

\* The numbers of the chunks of an upload.
Chunks(u) ==
    {k \in 0 .. TextLength[u] - 1 :
        k * Step < TextLength[u] /\ (k = 0 \/ ~Reaches(TextLength[u], k - 1))}

Chunk == [upload : Uploads, index : Nat]

OwnChunks(u) == {[upload |-> u, index |-> k] : k \in Chunks(u)}

\* Is position p of the text of upload u inside chunk c?
Covers(c, u, p) ==
    /\ c.upload = u
    /\ p \in c.index * Step .. c.index * Step + ChunkSize - 1

-----------------------------------------------------------------------------
(***************************************************************************)
(* index_material and retrieve_for_generation.                             *)
(***************************************************************************)
\* Mutant: an id made of the number only.
SameIdAnyDocument(c, d) == c.index = d.index

SameId(c, d) ==
    /\ DocOf[c.upload] = DocOf[d.upload]
    /\ c.index = d.index

\* Mutant: the new chunks do not replace those that are there.
UpsertedIfNew(u) ==
    vector \cup {d \in OwnChunks(u) : \A c \in vector : ~SameId(c, d)}

\* add_documents replaces the chunks whose ids it brings.
Upserted(u) ==
    {c \in vector : \A d \in OwnChunks(u) : ~SameId(c, d)} \cup OwnChunks(u)

\* Mutant: the filter forgets the user.
MatchingAnyUser(store, u) ==
    {c \in store : DocOf[c.upload] = DocOf[u]}

\* The user_id and document_id filter.
Matching(store, u) ==
    {c \in store : UserOf[c.upload] = UserOf[u] /\ DocOf[c.upload] = DocOf[u]}

\* What `queries` searches for TopK chunks each may find together.  Which
\* chunks a query likes best is left open.
Found(store, u, queries) ==
    {S \in SUBSET Matching(store, u) :
        /\ Cardinality(S) <= queries * TopK
        /\ S = Matching(store, u) \/ Cardinality(S) >= TopK}

Notes == {"not_indexed", "not_searched", "no_chunks"}

\* _build_context_from_queries.  add_documents and the searches may raise, the
\* former before or after the collection took the chunks.
BuildContext(u, queries) ==
    \E indexed, searched \in BOOLEAN :
        /\ indexed \/ searched => vectorstore
        /\ memory' = memory \cup OwnChunks(u)
        /\ \/ indexed /\ vector' = Upserted(u)
           \/ ~indexed /\ vector' = vector
           \/ vectorstore /\ ~indexed /\ vector' = Upserted(u)
        /\ \/ searched /\ context' \in Found(vector', u, queries)
           \/ ~searched /\ context' \in Found(memory', u, 1)
        /\ notes' = {n \in Notes :
                        \/ n = "not_indexed" /\ ~indexed
                        \/ n = "not_searched" /\ vectorstore /\ ~searched
                        \/ n = "no_chunks" /\ context' = {}}
        /\ UNCHANGED vectorstore

\* MaterialRAGStore.__init__: Chroma may be missing or fail to open.
OpenRag ==
    /\ vectorstore' \in BOOLEAN
    /\ UNCHANGED <<vector, memory, context, notes>>

\* The process ends: the collection stays, the rest is gone.
CloseRag ==
    /\ vectorstore' = FALSE
    /\ memory' = {} /\ context' = {} /\ notes' = {}
    /\ UNCHANGED vector

RagInit ==
    /\ vectorstore = FALSE
    /\ vector = {}
    /\ memory = {}
    /\ context = {}
    /\ notes = {}

RagTypeOK ==
    /\ vectorstore \in BOOLEAN
    /\ vector \subseteq Chunk
    /\ memory \subseteq Chunk
    /\ context \subseteq Chunk
    /\ notes \subseteq Notes
=============================================================================
