----------------------------- MODULE Submission -----------------------------
(***************************************************************************)
(* What a submitted form asks for and what becomes of it: the routes of     *)
(* src/src/api/material_routes.py and lkpd_routes.py, the checks of          *)
(* job_submission.py, the request models of src/src/agent/types, and the     *)
(* payload that the worker parses.  /api/mcq, /api/essay and /api/summary    *)
(* are aliases of /api/material for one generate type.                       *)
(*                                                                          *)
(* A form is a record: its route, its generate types, its counts (Absent     *)
(* where the field is left out), whether the ids it must carry are filled    *)
(* in, its callback URL and the size of its file.                            *)
(***************************************************************************)
EXTENDS Integers, Sequences, Functions

CONSTANTS
    RequiredScopes,  \* settings.jwt_required_scopes: from some routes to scopes
    Defaults,        \* settings.default_* and lkpd_default_activity_count
    ActivityRange,   \* lkpd_min_activity_count .. lkpd_max_activity_count
    MaxBytes,        \* material_max_file_mb
    Absent           \* a field that is left out

Types == {"mcq", "essay", "summary"}
Counts == Types \cup {"activity"}

\* The count of words of a summary is counted in words.
Ranges == [kind \in Counts |->
    CASE kind = "mcq"      -> 1 .. 20
      [] kind = "essay"    -> 1 .. 10
      [] kind = "summary"  -> 80 .. 400
      [] kind = "activity" -> ActivityRange]

\* Nothing in the code makes sure of this: with a default out of its range every
\* alias route answers 422 to every form.
ASSUME DefaultsInRange ==
    /\ DOMAIN Defaults = Counts
    /\ \A kind \in Counts : Defaults[kind] \in Ranges[kind]

Alias == [r \in {"/api/mcq", "/api/essay", "/api/summary"} |->
    CASE r = "/api/mcq" -> "mcq" [] r = "/api/essay" -> "essay" [] OTHER -> "summary"]
MaterialRoutes == {"/api/material"} \cup DOMAIN Alias
Routes == MaterialRoutes \cup {"/api/lkpd"}

ASSUME SubmissionAssumption ==
    /\ Absent \notin Int
    /\ MaxBytes \in Nat \ {0}
    /\ ActivityRange \subseteq Int

\* The scopes a route requires: an alias falls back to those of /api/material,
\* and a route that has none to no scope.
ScopesFor(route, otherwise) ==
    IF route \in DOMAIN RequiredScopes THEN RequiredScopes[route] ELSE otherwise
Needed(route) ==
    IF route \in DOMAIN Alias
    THEN ScopesFor(route, ScopesFor("/api/material", {}))
    ELSE ScopesFor(route, {})

-----------------------------------------------------------------------------
(* From the form to the request that is submitted. *)

\* The counts a route's handler takes from the form.
Reads(route) ==
    CASE route = "/api/material" -> Types
      [] route = "/api/lkpd"     -> {"activity"}
      [] OTHER                   -> {Alias[route]}

\* Mutant: the counts an alias does not take from the form stay empty.
CountUnfilled(f, kind) ==
    IF kind \in Reads(f.route)
    THEN IF f.counts[kind] # Absent THEN f.counts[kind] ELSE Defaults[kind]
    ELSE Absent

\* A count that is left out, or that the route does not take, is the default.
Count(f, kind) ==
    IF kind \in Reads(f.route) /\ f.counts[kind] # Absent
    THEN f.counts[kind]
    ELSE Defaults[kind]

Submitted(f) ==
    IF f.route = "/api/lkpd"
    THEN [user |-> f.ids, callback |-> f.callback, activity |-> Count(f, "activity")]
    ELSE [user |-> f.ids, tracking |-> f.ids, callback |-> f.callback,
          types |-> IF f.route = "/api/material" THEN f.types ELSE <<Alias[f.route]>>,
          mcq |-> Count(f, "mcq"), essay |-> Count(f, "essay"),
          summary |-> Count(f, "summary")]

\* The fields of the request models; extra ones are forbidden.
UploadFields(kind) ==
    IF kind = "lkpd" THEN {"user", "activity"}
    ELSE {"user", "types"} \cup Types

Kind(route) == IF route = "/api/lkpd" THEN "lkpd" ELSE "material"

\* What both models of a kind check of the fields they share.
FieldsValid(s) ==
    /\ s.user
    /\ \A kind \in Counts \cap DOMAIN s : s[kind] \in Ranges[kind]
    /\ "types" \in DOMAIN s =>
        /\ s.types # <<>>
        /\ Range(s.types) \subseteq Types
        /\ IsInjective(s.types)

\* MaterialUploadRequest and LkpdUploadRequest.
Parses(kind, p) == DOMAIN p = UploadFields(kind) /\ FieldsValid(p)

\* Mutant: the ids that track the job go to the worker.
PayloadTracking(s) == Restrict(s, DOMAIN s \ {"callback"})

\* to_material_upload_request, to_lkpd_upload_request: what the worker needs.
Payload(s) == Restrict(s, DOMAIN s \ {"tracking", "callback"})

\* MaterialAsyncSubmitRequest and LkpdAsyncSubmitRequest, or 422.
Valid(f) ==
    LET s == Submitted(f) IN
    /\ FieldsValid(s)
    /\ "tracking" \in DOMAIN s => s.tracking
    /\ s.callback \in IF f.route = "/api/lkpd" THEN {"url"} ELSE {"url", Absent}

-----------------------------------------------------------------------------
(* The file. *)

\* Mutant: only an empty file is refused.
AcceptsAnySize(bytes) == bytes > 0

\* read_and_validate_upload: 422 for an empty file, 413 for one that is too large.
AcceptsSize(bytes) == bytes > 0 /\ bytes <= MaxBytes

\* The worker's own check of the size.
Fits(bytes) == bytes <= MaxBytes
=============================================================================
