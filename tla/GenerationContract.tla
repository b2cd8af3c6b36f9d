-------------------------- MODULE GenerationContract --------------------------
(***************************************************************************)
(* What a generation job promises, whatever the model, the collection and   *)
(* the tools do.  One job runs at a time and ends once: it fails before its *)
(* answer is settled, or is cut off, or succeeds.  The answer is settled    *)
(* once, within what the request asked for; afterwards trouble with a tool  *)
(* neither changes it nor fails the job, and every row a tool inserts is a  *)
(* part of it.  A fact is remembered only of a job that succeeded.          *)
(***************************************************************************)
EXTENDS Integers

CONSTANTS
    Uploads, Types, Fields, Wanted, McpEnabled, Requested,
    Missing,   \* the size of a part that is not there
    None       \* no job

VARIABLES
    outcome,     \* how each job stands
    held,        \* the current job, or the last one
    settled,     \* is there an answer to it?
    result,      \* the sizes of its parts
    rows,        \* what was inserted
    remembered   \* uploads with a remembered fact

vars == <<outcome, held, settled, result, rows, remembered>>

NoResult == [f \in Fields |-> Missing]

Init ==
    /\ outcome = [u \in Uploads |-> "waiting"]
    /\ held = None
    /\ settled = FALSE /\ result = NoResult
    /\ rows = {} /\ remembered = {}

Idle == \A u \in Uploads : outcome[u] # "running"

Running == held # None /\ outcome[held] = "running"

Unsettled == settled' = FALSE /\ result' = NoResult

\* A job begins, or is refused.
Take(u) ==
    /\ Idle
    /\ outcome[u] = "waiting"
    /\ held' = u
    /\ \E how \in {"running", "failed"} : outcome' = [outcome EXCEPT ![u] = how]
    /\ Unsettled
    /\ UNCHANGED <<rows, remembered>>

Fail ==
    /\ Running /\ ~settled
    /\ outcome' = [outcome EXCEPT ![held] = "failed"]
    /\ UNCHANGED <<held, settled, result, rows, remembered>>

WithinContract ==
    /\ \A f \in Fields : result[f] # Missing =>
            f \in Wanted[held] /\ result[f] <= Requested[held]
    /\ Wanted[held] = {"lkpd"} => result["lkpd"] = Requested[held]

Succeed ==
    /\ outcome' = [outcome EXCEPT ![held] = "succeeded"]
    /\ remembered' = IF result'["summary"] > 0 THEN remembered \cup {held} ELSE remembered

GoOn == held \in McpEnabled /\ UNCHANGED <<outcome, remembered>>

Settle ==
    /\ Running /\ ~settled
    /\ settled' = TRUE
    /\ UNCHANGED <<held, rows>>
    /\ WithinContract'
    /\ Succeed \/ GoOn

\* The tool of a part is called, and may insert it.
Insert(t) ==
    /\ Running /\ settled
    /\ held \in McpEnabled /\ result[t] # Missing
    /\ \/ UNCHANGED rows
       \/ rows' = rows \cup {[upload |-> held, type |-> t, size |-> result[t]]}
    /\ UNCHANGED <<held, settled, result>>
    /\ Succeed \/ GoOn

\* The process ends, with the job it runs.
Leave ==
    /\ held' = None
    /\ Unsettled
    /\ \/ Idle /\ UNCHANGED outcome
       \/ Running /\ outcome' = [outcome EXCEPT ![held] = "cut"]
    /\ UNCHANGED <<rows, remembered>>

Next ==
    \/ \E u \in Uploads : Take(u)
    \/ Fail
    \/ Settle
    \/ \E t \in Types : Insert(t)
    \/ Leave

Spec == Init /\ [][Next]_vars
=============================================================================
