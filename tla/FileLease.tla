------------------------------ MODULE FileLease ------------------------------
(***************************************************************************)
(* What the file store promises, seen by those who ask it for a file: a     *)
(* saved file is leased for TTL, and only time ends a lease; who asks for a *)
(* leased file is granted it and then served all of it, unless the lease    *)
(* ends in between.  The exceptions are paid for: a lease is lost, a leased *)
(* file refused, or a request forgotten only in a step that adds to trouble.*)
(***************************************************************************)
EXTENDS Integers

CONSTANTS Files, Requests, TTL

VARIABLES
    promised,   \* files whose saver got a URL
    lease,      \* how long each file can still be had
    answer,     \* of each request: << >>, or what became of it and its file
    trouble     \* how many things have gone wrong

vars == <<promised, lease, answer, trouble>>

Init ==
    /\ promised = {}
    /\ lease = [f \in Files |-> 0]
    /\ answer = [q \in Requests |-> << >>]
    /\ trouble = 0

Trouble == trouble' = trouble + 1

Promise(f) ==
    /\ f \notin promised
    /\ promised' = promised \cup {f}
    /\ lease' = [lease EXCEPT ![f] = TTL]
    /\ UNCHANGED <<answer, trouble>>

Tick ==
    /\ lease' = [f \in Files |-> IF lease[f] = 0 THEN 0 ELSE lease[f] - 1]
    /\ UNCHANGED <<promised, answer, trouble>>

Answer(q, what, f) ==
    /\ answer' = [answer EXCEPT ![q] = <<what, f>>]
    /\ UNCHANGED <<promised, lease>>

Granted(q, f) == answer[q] = <<"granted", f>>

Asks(q) == \A f \in Files : ~Granted(q, f)

Grant(q, f) ==
    /\ Asks(q)
    /\ lease[f] > 0
    /\ Answer(q, "granted", f)
    /\ UNCHANGED trouble

Deny(q, f) ==
    /\ Asks(q)
    /\ \/ lease[f] = 0 /\ UNCHANGED trouble
       \/ Trouble
    /\ Answer(q, "denied", f)

\* All of the file, also when its lease has just ended.
Serve(q, f) ==
    /\ Granted(q, f)
    /\ Answer(q, "whole", f)
    /\ UNCHANGED trouble

\* The lease has ended between the grant and the answer.
Overtake(q, f) ==
    /\ Granted(q, f)
    /\ lease[f] = 0
    /\ Answer(q, "denied", f)
    /\ UNCHANGED trouble

\* Some leases are lost, perhaps none.
Lose(F) ==
    /\ Trouble
    /\ lease' = [f \in Files |-> IF f \in F THEN 0 ELSE lease[f]]
    /\ UNCHANGED <<promised, answer>>

\* The requests are forgotten; the leases stay.
Forget ==
    /\ Trouble
    /\ answer' = [q \in Requests |-> << >>]
    /\ UNCHANGED <<promised, lease>>

Next ==
    \/ \E f \in Files : Promise(f)
    \/ \E q \in Requests, f \in Files :
          Grant(q, f) \/ Deny(q, f) \/ Serve(q, f) \/ Overtake(q, f)
    \/ \E F \in SUBSET Files : Lose(F)
    \/ Tick
    \/ Forget

Spec == Init /\ [][Next]_vars
=============================================================================
