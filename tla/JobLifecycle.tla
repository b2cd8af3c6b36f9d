---------------------------- MODULE JobLifecycle ----------------------------
(***************************************************************************)
(* What the pipeline promises about one submission, seen from outside: the  *)
(* status its record shows and the outcomes its callback was told.  Statuses*)
(* only go forward; once an outcome has been told, no other one is told, and *)
(* a record shows that outcome or failed_delivery.  A record may expire, and *)
(* an update that read it before comes too late to notice: it brings the    *)
(* record back, which must then agree with what was told.                   *)
(***************************************************************************)
CONSTANT Subs

VARIABLES
    status,    \* status of each submission's record, "none" without one
    told       \* outcomes sent to each submission's callback_url

vars == <<status, told>>

Outcomes == {"succeeded", "failed_processing"}

Init ==
    /\ status = [s \in Subs |-> "none"]
    /\ told = [s \in Subs |-> {}]

Show(s, to) ==
    /\ status' = [status EXCEPT ![s] = to]
    /\ UNCHANGED told

Move(s, from, to) == status[s] = from /\ Show(s, to)

Accept(s) == told[s] = {} /\ Move(s, "none", "accepted")

Begin(s) == Move(s, "accepted", "processing")

Finish(s) == \E o \in Outcomes : Move(s, "processing", o)

\* Recording a success may fail after Redis took it; the job then counts as
\* failed, and nobody has been told otherwise.
Revise(s) == told[s] = {} /\ Move(s, "succeeded", "failed_processing")

\* An outcome is told while the record shows it or has expired.
Tell(s) ==
    \E o \in Outcomes :
        /\ status[s] \in {o, "none"}
        /\ told[s] \subseteq {o}
        /\ told' = [told EXCEPT ![s] = {o}]
        /\ UNCHANGED status

GiveUp(s) == \E o \in Outcomes : Move(s, o, "failed_delivery")

Expire(s) == Show(s, "none")

Return(s) ==
    /\ status[s] = "none"
    /\ \/ told[s] = {} /\ Show(s, "processing")
       \/ \E o \in Outcomes : told[s] \subseteq {o} /\ Show(s, o)
       \/ Show(s, "failed_delivery")

Next ==
    \E s \in Subs :
        \/ Accept(s) \/ Begin(s) \/ Finish(s) \/ Revise(s) \/ Tell(s) \/ GiveUp(s)
        \/ Expire(s) \/ Return(s)

Spec == Init /\ [][Next]_vars
=============================================================================
