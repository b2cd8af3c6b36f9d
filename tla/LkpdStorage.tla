----------------------------- MODULE LkpdStorage -----------------------------
(***************************************************************************)
(* The store of generated LKPD files (src/src/agent/lkpd_storage.py), the   *)
(* worker's periodic cleanup (worker.py:70-80) and the route that serves a  *)
(* file (api/lkpd_routes.py:62-74).                                         *)
(*                                                                          *)
(* A file is a PDF and a JSON with its expiry, written and deleted one      *)
(* after the other.  save_pdf, get_pdf_path and cleanup_expired_files run   *)
(* on the event loop without an await, so each is one step, unless an       *)
(* OSError or a kill cuts it short between two file operations.  The        *)
(* response opens the path later, after other tasks ran.                    *)
(*                                                                          *)
(* Time is kept relative, so behaviours need no horizon: left[f] is         *)
(* max(0, expires_at - now), and since is min(Interval, now - last          *)
(* cleanup).  Time passes while the process is down, and never goes back.   *)
(***************************************************************************)
EXTENDS Integers, FiniteSets

CONSTANTS
    Files,         \* file ids: each promised one is a fresh uuid4
    Requests,      \* concurrent GET /api/lkpd/files/{file_id} requests
    TTL,           \* settings.lkpd_pdf_ttl_seconds
    Interval,      \* the 60 seconds between two cleanups
    Incidents,     \* the kinds of incident that may happen
    MaxIncidents   \* bound on the number of incidents

ASSUME TimesAssumption == TTL \in Nat \ {0} /\ Interval \in Nat \ {0}

ASSUME BoundsAssumption ==
    /\ MaxIncidents \in Nat
    /\ Incidents \subseteq {"io_error", "read_error", "crash"}

VARIABLES
    pdf,        \* <file_id>.pdf on disk: "none", "partial" or "full"
    meta,       \* <file_id>.json on disk: "none", "broken" or "ok"
    left,       \* time before the file expires
    since,      \* time since the last cleanup
    up,         \* is the process running?
    response,   \* where each request stands
    target,     \* the file each request asks for
    promised,   \* history: files whose save_pdf returned a URL and an expiry
    misread,    \* history: files whose metadata a cleanup failed to read
    incidents   \* number of incidents so far

disk == <<pdf, meta>>
requests == <<response, target>>
vars == <<disk, left, since, up, requests, promised, misread, incidents>>

TypeOK ==
    /\ pdf \in [Files -> {"none", "partial", "full"}]
    /\ meta \in [Files -> {"none", "broken", "ok"}]
    /\ left \in [Files -> 0 .. TTL]
    /\ since \in 0 .. Interval
    /\ up \in BOOLEAN
    /\ response \in [Requests -> {"idle", "opening", "not_found", "whole",
                                  "truncated", "error"}]
    /\ target \in [Requests -> Files]
    /\ promised \subseteq Files
    /\ misread \subseteq Files
    /\ incidents \in 0 .. MaxIncidents

Init ==
    /\ pdf = [f \in Files |-> "none"]
    /\ meta = [f \in Files |-> "none"]
    /\ left = [f \in Files |-> 0]
    /\ since = 0
    /\ up = TRUE
    /\ response = [q \in Requests |-> "idle"]
    /\ target \in [Requests -> Files]
    /\ promised = {}
    /\ misread = {}
    /\ incidents = 0

Incident(kind) ==
    /\ kind \in Incidents
    /\ incidents < MaxIncidents
    /\ incidents' = incidents + 1

\* What an operation that did not reach its end leaves in the process: an
\* OSError is raised, or the process is gone, and its open responses with it.
CutShort ==
    \/ /\ Incident("io_error")
       /\ UNCHANGED up
    \/ /\ Incident("crash")
       /\ up' = FALSE

Survivors(q) == IF up' THEN response[q] ELSE "idle"

-----------------------------------------------------------------------------
(* Saving *)

\* Mutant: the metadata is written first.
SaveStagesMetaFirst == {<<"none", "broken">>, <<"none", "ok">>, <<"partial", "ok">>}

\* What the disk may hold of a file while save_pdf runs: the PDF first.
SaveStages == {<<"partial", "none">>, <<"full", "none">>, <<"full", "broken">>}

Fresh(f) == pdf[f] = "none" /\ meta[f] = "none" /\ f \notin promised

\* Mutant: the expiry is one unit late.
LifetimeLate == TTL + 1

\* expires_at - now, when save_pdf computes expires_at.
Lifetime == TTL

StartSave(f) ==
    /\ up
    /\ Fresh(f)
    /\ left' = [left EXCEPT ![f] = Lifetime]
    /\ UNCHANGED <<since, target, misread>>

SavePdf(f) ==
    /\ StartSave(f)
    /\ pdf' = [pdf EXCEPT ![f] = "full"]
    /\ meta' = [meta EXCEPT ![f] = "ok"]
    /\ promised' = promised \cup {f}
    /\ UNCHANGED <<up, response, incidents>>

\* The job fails (job_handlers.py:128-146), or dies with the process; what was
\* written stays.
SavePdfCutShort(f) ==
    /\ StartSave(f)
    /\ CutShort
    /\ \E stage \in SaveStages :
        /\ pdf' = [pdf EXCEPT ![f] = stage[1]]
        /\ meta' = [meta EXCEPT ![f] = stage[2]]
    /\ response' = [q \in Requests |-> Survivors(q)]
    /\ UNCHANGED promised

-----------------------------------------------------------------------------
(* Deleting a pair: the PDF, then its metadata *)

\* Mutant: a file expires early.
ExpiredEarly(f) == left[f] <= 1

\* now >= expires_at.
Expired(f) == left[f] = 0

DeletePairs(F) ==
    /\ pdf' = [f \in Files |-> IF f \in F THEN "none" ELSE pdf[f]]
    /\ meta' = [f \in Files |-> IF f \in F THEN "none" ELSE meta[f]]

\* Mutant: the metadata is deleted first.
DeleteFirstOnlyMeta(f) == <<pdf[f], "none">>

\* The pair after the first of the two unlinks.
DeleteFirstOnly(f) == <<"none", meta[f]>>

-----------------------------------------------------------------------------
(* The cleanup, which the worker starts between two jobs *)

\* Mutant: what expires before the next cleanup goes with this one.
DueBeforeNextCleanup(unreadable) ==
    {f \in Files : \/ meta[f] = "broken"
                   \/ meta[f] = "ok" /\ (f \in unreadable \/ left[f] < Interval)}

\* Pairs the cleanup deletes: metadata that _load_meta cannot make sense of,
\* or an expiry in the past.  It finds files by their metadata.
Due(unreadable) ==
    {f \in Files : \/ meta[f] = "broken"
                   \/ meta[f] = "ok" /\ (f \in unreadable \/ Expired(f))}

\* The time of the cleanup is noted before it runs, also when it raises.
StartCleanup ==
    /\ up
    /\ since >= Interval
    /\ since' = 0
    /\ UNCHANGED <<left, target, promised>>

Cleanup ==
    /\ StartCleanup
    /\ DeletePairs(Due({}))
    /\ UNCHANGED <<up, response, misread, incidents>>

\* _load_meta swallows an OSError and reports no metadata, as if it were broken:
\* the pair is deleted, expired or not.
CleanupReadError ==
    /\ StartCleanup
    /\ Incident("read_error")
    /\ \E unreadable \in SUBSET Files :
        /\ DeletePairs(Due(unreadable))
        /\ misread' = misread \cup unreadable
    /\ UNCHANGED <<up, response>>

\* Some pairs are gone, one perhaps half, the rest is left for later.
CleanupCutShort ==
    /\ StartCleanup
    /\ CutShort
    /\ \E gone \in SUBSET Due({}) : \E f \in Due({}) \ gone :
        \/ DeletePairs(gone)
        \/ /\ pdf' = [g \in Files |-> IF g = f THEN DeleteFirstOnly(f)[1]
                                      ELSE IF g \in gone THEN "none" ELSE pdf[g]]
           /\ meta' = [g \in Files |-> IF g = f THEN DeleteFirstOnly(f)[2]
                                       ELSE IF g \in gone THEN "none" ELSE meta[g]]
    /\ response' = [q \in Requests |-> Survivors(q)]
    /\ UNCHANGED misread

-----------------------------------------------------------------------------
(* Serving *)

Ask(q, f) ==
    /\ up
    /\ response[q] # "opening"
    /\ target' = [target EXCEPT ![q] = f]
    /\ UNCHANGED <<left, since, promised, misread>>

\* get_pdf_path finds a file and the route returns a FileResponse for its path.
GetFound(q, f) ==
    /\ Ask(q, f)
    /\ meta[f] = "ok" /\ ~Expired(f) /\ pdf[f] # "none"
    /\ response' = [response EXCEPT ![q] = "opening"]
    /\ UNCHANGED <<disk, up, incidents>>

\* 404: no readable metadata, or a pair to delete.
GetNothing(q, f) ==
    /\ Ask(q, f)
    /\ response' = [response EXCEPT ![q] = "not_found"]
    /\ \/ /\ meta[f] # "ok"
          /\ UNCHANGED <<disk, incidents>>
       \/ /\ meta[f] = "ok" /\ Incident("read_error")
          /\ UNCHANGED disk
       \/ /\ meta[f] = "ok" /\ (Expired(f) \/ pdf[f] = "none")
          /\ DeletePairs({f})
          /\ UNCHANGED incidents
    /\ UNCHANGED up

\* An unlink raises, a 500, or the process dies; the PDF may be gone.
GetCutShort(q, f) ==
    /\ Ask(q, f)
    /\ meta[f] = "ok" /\ (Expired(f) \/ pdf[f] = "none")
    /\ CutShort
    /\ \/ UNCHANGED disk
       \/ /\ pdf' = [pdf EXCEPT ![f] = DeleteFirstOnly(f)[1]]
          /\ meta' = [meta EXCEPT ![f] = DeleteFirstOnly(f)[2]]
    /\ response' = [p \in Requests |-> IF p = q /\ up' THEN "error" ELSE Survivors(p)]

\* The response opens the path; once open, an unlink no longer matters.
Open(q) ==
    /\ up
    /\ response[q] = "opening"
    /\ response' = [response EXCEPT ![q] =
            CASE pdf[target[q]] = "full" -> "whole"
              [] pdf[target[q]] = "partial" -> "truncated"
              [] pdf[target[q]] = "none" -> "error"]
    /\ UNCHANGED <<disk, left, since, up, target, promised, misread, incidents>>

-----------------------------------------------------------------------------
(* Time and the process *)

Tick ==
    /\ left' = [f \in Files |-> IF left[f] = 0 THEN 0 ELSE left[f] - 1]
    /\ since' = IF since < Interval THEN since + 1 ELSE Interval
    /\ UNCHANGED <<disk, up, requests, promised, misread, incidents>>

Crash ==
    /\ up
    /\ Incident("crash")
    /\ up' = FALSE
    /\ response' = [q \in Requests |-> "idle"]
    /\ UNCHANGED <<disk, left, since, target, promised, misread>>

\* A new process counts its cleanup interval from its start (worker.py:37).
Restart ==
    /\ ~up
    /\ up' = TRUE
    /\ since' = 0
    /\ UNCHANGED <<disk, left, requests, promised, misread, incidents>>

Next ==
    \/ \E f \in Files : SavePdf(f) \/ SavePdfCutShort(f)
    \/ Cleanup \/ CleanupReadError \/ CleanupCutShort
    \/ \E q \in Requests : \/ Open(q)
                           \/ \E f \in Files : \/ GetFound(q, f)
                                               \/ GetNothing(q, f)
                                               \/ GetCutShort(q, f)
    \/ Tick \/ Crash \/ Restart

Spec == Init /\ [][Next]_vars

\* Time passes, the worker comes back to its loop after every job, and the
\* process is restarted (docker-compose.yml: restart: unless-stopped).
FairSpec == Spec /\ WF_vars(Tick) /\ WF_vars(Cleanup) /\ WF_vars(Restart)

-----------------------------------------------------------------------------
(* Properties *)

\* The URL of a finished LKPD job works until pdf_expires_at: no other request,
\* no crash, no failed deletion and no cleanup takes the file away before, unless
\* that cleanup could not read the file's metadata (lkpd_storage.py:41-87).
AvailableUntilExpiry ==
    \A f \in promised \ misread : left[f] > 0 => pdf[f] = "full" /\ meta[f] = "ok"

\* A response that found its file and then cannot open it was overtaken by the
\* expiry, or by that cleanup, never by one that deleted too much
\* (lkpd_routes.py:66-74).
OpenFailsOnlyAfterExpiry ==
    [][\A q \in Requests :
        response[q] = "opening" /\ response'[q] = "error" =>
            left[target[q]] = 0 \/ target[q] \in misread]_vars

\* Nobody is served the first part of a PDF whose save was cut short: metadata
\* is only written once the PDF is complete (lkpd_storage.py:34-38).
NoTruncatedFile == \A q \in Requests : response[q] # "truncated"

\* A saved file disappears from disk, whole, some time after it was saved, also
\* when a deletion was cut short in between (lkpd_storage.py:57-95).
SavedIsRemoved ==
    \A f \in Files : meta[f] = "ok" ~> pdf[f] = "none" /\ meta[f] = "none"

\* A PDF on disk is not kept forever (README.md:352).
PdfIsRemoved == \A f \in Files : pdf[f] # "none" ~> pdf[f] = "none"

\* The store implements the lease of a file: what its metadata says counts, and
\* a response that found its file has it granted.
Lease == INSTANCE FileLease WITH
    lease <- [f \in Files |-> IF meta[f] = "ok" THEN left[f] ELSE 0],
    answer <- [q \in Requests |->
        CASE response[q] = "idle" -> << >>
          [] response[q] = "opening" -> <<"granted", target[q]>>
          [] response[q] \in {"not_found", "error"} -> <<"denied", target[q]>>
          [] OTHER -> <<response[q], target[q]>>],
    trouble <- incidents

LeaseSpec == Lease!Spec
=============================================================================
