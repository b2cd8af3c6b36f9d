--------------------------- MODULE MC_JobPipeline ---------------------------
(***************************************************************************)
(* Small instances of JobPipeline: which submission carries which id, is of *)
(* which kind and names a callback.                                         *)
(***************************************************************************)
EXTENDS JobPipeline

CONSTANTS m1, m2, l1,   \* submissions: two material jobs and an LKPD job
          i1, i2, i3    \* job ids

\* Every submission has an id of its own.
UniqueIdOf == [s \in Subs |-> CASE s = m1 -> i1 [] s = m2 -> i2 [] s = l1 -> i3]

\* m2 resubmits the job id of m1.
SharedIdOf == [s \in Subs |-> IF s \in {m1, m2} THEN i1 ELSE i3]

MCKindOf == [s \in Subs |-> IF s = l1 THEN "lkpd" ELSE "material"]

\* m2 leaves callback_url out.
MCHasCallback == [s \in Subs |-> s # m2]

AllCallback == [s \in Subs |-> TRUE]
=============================================================================
