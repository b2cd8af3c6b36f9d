--------------------------- MODULE MC_ApiRequests ---------------------------
(***************************************************************************)
(* A small instance of ApiRequests: a request and two revocations about one  *)
(* token, and forms that differ in what the checks tell apart.              *)
(***************************************************************************)
EXTENDS ApiRequests

CONSTANTS q1,       \* the request
          r1, r2,   \* the revocations
          t1        \* the token

MCScopes == {"material:write", "lkpd:write"}
MCScopeForms == {{}, {"material:write"}, {"admin"}}

\* The aliases are left to fall back to /api/material.
MCRequiredScopes ==
    [route \in {"/api/material", "/api/lkpd"} |->
        IF route = "/api/lkpd" THEN {"lkpd:write"} ELSE {"material:write"}]

MCDefaults == [kind \in Counts |->
    CASE kind = "mcq" -> 10 [] kind = "essay" -> 3
      [] kind = "summary" -> 200 [] OTHER -> 5]
MCActivityRange == 1 .. 15

LeftOut == [kind \in Counts |-> Absent]

\* A form with every id filled in.
Filled(route, types, counts, callback, bytes) ==
    [route |-> route, types |-> types, counts |-> counts, ids |-> TRUE,
     callback |-> callback, bytes |-> bytes]

\* Forms that keep to the documentation, at the ends of the ranges too, and for
\* each check one that it refuses.
MCForms == {
    Filled("/api/mcq", <<>>, LeftOut, Absent, 1),
    Filled("/api/essay", <<>>, [LeftOut EXCEPT !["essay"] = 10], "url", 2),
    Filled("/api/summary", <<>>, [LeftOut EXCEPT !["summary"] = 80], Absent, 3),
    Filled("/api/summary", <<>>, [LeftOut EXCEPT !["summary"] = 401], Absent, 1),
    Filled("/api/material", <<"summary", "mcq">>,
           [LeftOut EXCEPT !["summary"] = 400, !["mcq"] = 20], "url", 1),
    Filled("/api/material", <<"mcq", "mcq">>, LeftOut, "url", 1),
    Filled("/api/material", <<"essay">>, [LeftOut EXCEPT !["mcq"] = 0], "url", 1),
    Filled("/api/mcq", <<>>, LeftOut, "bad", 1),
    Filled("/api/mcq", <<>>, LeftOut, Absent, 0),
    Filled("/api/lkpd", <<>>, LeftOut, "url", 2),
    Filled("/api/lkpd", <<>>, [LeftOut EXCEPT !["activity"] = 16], "url", 1),
    Filled("/api/lkpd", <<>>, LeftOut, Absent, 1),
    [Filled("/api/essay", <<>>, LeftOut, "url", 1) EXCEPT !.ids = FALSE]}
=============================================================================
