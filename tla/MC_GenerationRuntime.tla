------------------------ MODULE MC_GenerationRuntime ------------------------
(***************************************************************************)
(* Instances of GenerationRuntime.  a1 and a2 are two uploads of one user   *)
(* under one material_id, the second one shorter; b is another user's under *)
(* the same id, w an LKPD.  The chunks are 4 long and overlap by 1.         *)
(***************************************************************************)
EXTENDS GenerationRuntime

MCUploads == {"a1", "a2", "b", "w"}
MCUserOf == [u \in MCUploads |-> IF u \in {"a1", "a2"} THEN "a" ELSE u]
MCDocOf == [u \in MCUploads |-> IF u = "w" THEN "uuid" ELSE "m"]
MCTextLength ==
    [u \in MCUploads |-> CASE u = "a1" -> 7 [] OTHER -> 4]
MCWanted ==
    [u \in MCUploads |-> CASE u = "a1" -> {"mcq", "summary"} [] u = "a2" -> {"mcq"}
                           [] u = "b" -> {"essay"} [] u = "w" -> {"lkpd"}]
MCRequested == [u \in MCUploads |-> IF u = "w" THEN 2 ELSE 1]
MCToolSets == {{"mcq"}, {"mcq", "summary"}}
=============================================================================
