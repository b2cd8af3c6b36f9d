-------------------------- MODULE LkpdStorageProofs --------------------------
(***************************************************************************)
(* Proofs about LkpdStorage, for any files, requests, times and bounds.     *)
(***************************************************************************)
EXTENDS LkpdStorage, TLAPS

\* Disk operations of a deletion, whole or cut short, keep the types.
LEMMA DeletePairsType ==
  ASSUME TypeOK, NEW F, DeletePairs(F)
  PROVE  /\ pdf' \in [Files -> {"none", "partial", "full"}]
         /\ meta' \in [Files -> {"none", "broken", "ok"}]
  BY DEF TypeOK, DeletePairs

\* An incident stays within its bound, and a cut leaves up a Boolean.
LEMMA IncidentType ==
  ASSUME TypeOK, NEW kind, Incident(kind)
  PROVE  incidents' \in 0 .. MaxIncidents
  BY BoundsAssumption DEF TypeOK, Incident

LEMMA CutShortType ==
  ASSUME TypeOK, CutShort
  PROVE  incidents' \in 0 .. MaxIncidents /\ up' \in BOOLEAN
  <1>1. CASE Incident("io_error") /\ UNCHANGED up
    BY <1>1, IncidentType DEF TypeOK
  <1>2. CASE Incident("crash") /\ up' = FALSE
    BY <1>2, IncidentType
  <1> QED BY <1>1, <1>2 DEF CutShort

LEMMA SurvivorsType ==
  ASSUME TypeOK, NEW q \in Requests
  PROVE  Survivors(q) \in {"idle", "opening", "not_found", "whole",
                           "truncated", "error"}
  BY DEF TypeOK, Survivors

LEMMA StagesType ==
  ASSUME NEW stage \in SaveStages
  PROVE  /\ stage[1] \in {"partial", "full"}
         /\ stage[2] \in {"none", "broken"}
  BY DEF SaveStages

-----------------------------------------------------------------------------
LEMMA TypeInit == Init => TypeOK
  BY TimesAssumption, BoundsAssumption DEF Init, TypeOK

LEMMA TypeStep == TypeOK /\ [Next]_vars => TypeOK'
  <1> SUFFICES ASSUME TypeOK, [Next]_vars PROVE TypeOK'
    OBVIOUS
  <1> USE TimesAssumption
  <1>1. ASSUME NEW f \in Files, SavePdf(f) PROVE TypeOK'
    BY <1>1 DEF SavePdf, StartSave, Lifetime, TypeOK
  <1>2. ASSUME NEW f \in Files, SavePdfCutShort(f) PROVE TypeOK'
    <2>1. /\ pdf' \in [Files -> {"none", "partial", "full"}]
          /\ meta' \in [Files -> {"none", "broken", "ok"}]
      BY <1>2, StagesType DEF SavePdfCutShort, TypeOK
    <2>2. response' \in [Requests -> {"idle", "opening", "not_found", "whole",
                                      "truncated", "error"}]
      BY <1>2, SurvivorsType DEF SavePdfCutShort
    <2>3. left' \in [Files -> 0 .. TTL] /\ since' \in 0 .. Interval
          /\ target' \in [Requests -> Files] /\ promised' \subseteq Files
          /\ misread' \subseteq Files
      BY <1>2 DEF SavePdfCutShort, StartSave, Lifetime, TypeOK
    <2> QED BY <1>2, <2>1, <2>2, <2>3, CutShortType DEF SavePdfCutShort, TypeOK
  <1>3. ASSUME Cleanup PROVE TypeOK'
    BY <1>3, DeletePairsType DEF Cleanup, StartCleanup, TypeOK
  <1>4. ASSUME CleanupReadError PROVE TypeOK'
    BY <1>4, DeletePairsType, IncidentType DEF CleanupReadError, StartCleanup, TypeOK
  <1>5. ASSUME CleanupCutShort PROVE TypeOK'
    <2>1. /\ pdf' \in [Files -> {"none", "partial", "full"}]
          /\ meta' \in [Files -> {"none", "broken", "ok"}]
      BY <1>5, DeletePairsType DEF CleanupCutShort, DeleteFirstOnly, TypeOK
    <2>2. response' \in [Requests -> {"idle", "opening", "not_found", "whole",
                                      "truncated", "error"}]
      BY <1>5, SurvivorsType DEF CleanupCutShort
    <2>3. since' \in 0 .. Interval /\ UNCHANGED <<left, target, promised, misread>>
      BY <1>5 DEF CleanupCutShort, StartCleanup
    <2>4. incidents' \in 0 .. MaxIncidents /\ up' \in BOOLEAN
      BY <1>5, CutShortType DEF CleanupCutShort
    <2> QED BY <2>1, <2>2, <2>3, <2>4 DEF TypeOK
  <1>6. ASSUME NEW q \in Requests, Open(q) PROVE TypeOK'
    BY <1>6 DEF Open, disk, TypeOK
  <1>7. ASSUME NEW q \in Requests, NEW f \in Files, GetFound(q, f) PROVE TypeOK'
    BY <1>7 DEF GetFound, Ask, disk, TypeOK
  <1>8. ASSUME NEW q \in Requests, NEW f \in Files, GetNothing(q, f) PROVE TypeOK'
    BY <1>8, DeletePairsType, IncidentType DEF GetNothing, Ask, disk, TypeOK
  <1>9. ASSUME NEW q \in Requests, NEW f \in Files, GetCutShort(q, f) PROVE TypeOK'
    <2>1. /\ pdf' \in [Files -> {"none", "partial", "full"}]
          /\ meta' \in [Files -> {"none", "broken", "ok"}]
      BY <1>9 DEF GetCutShort, DeleteFirstOnly, disk, TypeOK
    <2>2. response' \in [Requests -> {"idle", "opening", "not_found", "whole",
                                      "truncated", "error"}]
      BY <1>9, SurvivorsType DEF GetCutShort
    <2> QED BY <1>9, <2>1, <2>2, CutShortType DEF GetCutShort, Ask, TypeOK
  <1>10. ASSUME Tick PROVE TypeOK'
    <2>1. left' \in [Files -> 0 .. TTL]
      BY <1>10 DEF Tick, TypeOK
    <2>2. since' \in 0 .. Interval
      BY <1>10 DEF Tick, TypeOK
    <2> QED BY <1>10, <2>1, <2>2 DEF Tick, disk, requests, TypeOK
  <1>11. ASSUME Crash PROVE TypeOK'
    BY <1>11, IncidentType DEF Crash, disk, TypeOK
  <1>12. ASSUME Restart PROVE TypeOK'
    BY <1>12 DEF Restart, disk, requests, TypeOK
  <1>13. ASSUME UNCHANGED vars PROVE TypeOK'
    BY <1>13 DEF vars, disk, requests, TypeOK
  <1> QED BY <1>1, <1>2, <1>3, <1>4, <1>5, <1>6, <1>7, <1>8, <1>9, <1>10, <1>11,
             <1>12, <1>13 DEF Next

\* Every variable keeps its type: no file outlives its TTL and no clock of the
\* model leaves its range (lkpd_storage.py:27-95, worker.py:70-80).
THEOREM LkpdTypeCorrect == Spec => []TypeOK
  BY TypeInit, TypeStep, PTL DEF Spec

-----------------------------------------------------------------------------
\* Metadata is on disk only of a PDF that was written to its end and whose
\* save_pdf returned; a response only opens such a file.
WholeInv ==
    /\ \A f \in Files : meta[f] = "ok" => f \in promised
    /\ \A f \in promised : pdf[f] # "partial"
    /\ \A q \in Requests : response[q] = "opening" => target[q] \in promised
    /\ NoTruncatedFile

LEMMA WholeStep == TypeOK /\ WholeInv /\ [Next]_vars => WholeInv'
  <1> SUFFICES ASSUME TypeOK, WholeInv, [Next]_vars PROVE WholeInv'
    OBVIOUS
  <1> USE DEF TypeOK, WholeInv, NoTruncatedFile
  <1>1. ASSUME NEW f \in Files, SavePdf(f) PROVE WholeInv'
    BY <1>1 DEF SavePdf, StartSave
  <1>2. ASSUME NEW f \in Files, SavePdfCutShort(f) PROVE WholeInv'
    <2>1. f \notin promised /\ pdf' \in [Files -> {"none", "partial", "full"}]
      BY <1>2, TypeStep DEF SavePdfCutShort, StartSave, Fresh
    <2>2. \A g \in Files : meta'[g] = "ok" => meta[g] = "ok"
      BY <1>2, StagesType DEF SavePdfCutShort
    <2>3. \A g \in Files : g # f => pdf'[g] = pdf[g]
      BY <1>2 DEF SavePdfCutShort
    <2>4. \A q \in Requests : response'[q] \in {response[q], "idle"}
      BY <1>2 DEF SavePdfCutShort, Survivors
    <2> QED BY <1>2, <2>1, <2>2, <2>3, <2>4 DEF SavePdfCutShort, StartSave
  <1>3. ASSUME Cleanup PROVE WholeInv'
    BY <1>3 DEF Cleanup, StartCleanup, DeletePairs
  <1>4. ASSUME CleanupReadError PROVE WholeInv'
    BY <1>4 DEF CleanupReadError, StartCleanup, DeletePairs
  <1>5. ASSUME CleanupCutShort PROVE WholeInv'
    <2>1. \A g \in Files : /\ meta'[g] \in {meta[g], "none"}
                          /\ pdf'[g] \in {pdf[g], "none"}
      BY <1>5 DEF CleanupCutShort, DeletePairs, DeleteFirstOnly
    <2>2. \A q \in Requests : response'[q] \in {response[q], "idle"}
      BY <1>5 DEF CleanupCutShort, Survivors
    <2> QED BY <1>5, <2>1, <2>2 DEF CleanupCutShort, StartCleanup
  <1>6. ASSUME NEW q \in Requests, Open(q) PROVE WholeInv'
    BY <1>6 DEF Open, disk
  <1>7. ASSUME NEW q \in Requests, NEW f \in Files, GetFound(q, f) PROVE WholeInv'
    BY <1>7 DEF GetFound, Ask, disk
  <1>8. ASSUME NEW q \in Requests, NEW f \in Files, GetNothing(q, f) PROVE WholeInv'
    BY <1>8 DEF GetNothing, Ask, disk, DeletePairs
  <1>9. ASSUME NEW q \in Requests, NEW f \in Files, GetCutShort(q, f) PROVE WholeInv'
    <2>1. \A g \in Files : /\ meta'[g] = meta[g]
                          /\ pdf'[g] \in {pdf[g], "none"}
      BY <1>9 DEF GetCutShort, DeleteFirstOnly, disk
    <2>2. \A p \in Requests : response'[p] \in {response[p], "idle", "error"}
      BY <1>9 DEF GetCutShort, Survivors
    <2>3. \A p \in Requests : response'[p] = "opening" => p # q
      BY <1>9 DEF GetCutShort, Ask, Survivors
    <2> QED BY <1>9, <2>1, <2>2, <2>3 DEF GetCutShort, Ask
  <1>10. ASSUME Tick \/ Crash \/ Restart \/ UNCHANGED vars PROVE WholeInv'
    BY <1>10 DEF Tick, Crash, Restart, vars, disk, requests
  <1> QED BY <1>1, <1>2, <1>3, <1>4, <1>5, <1>6, <1>7, <1>8, <1>9, <1>10 DEF Next

\* No response carries the first part of a PDF, whatever fails and whenever the
\* process dies (lkpd_storage.py:34-38).
THEOREM WholeFilesServed == Spec => []NoTruncatedFile
  <1>1. Init => WholeInv
    BY DEF Init, WholeInv, NoTruncatedFile
  <1>2. WholeInv => NoTruncatedFile
    BY DEF WholeInv
  <1> QED BY <1>1, <1>2, WholeStep, LkpdTypeCorrect, PTL DEF Spec

-----------------------------------------------------------------------------
\* What was promised, or is about to be opened, is untouched until it expires or
\* a cleanup fails to read its metadata.
IntactInv ==
    /\ AvailableUntilExpiry
    /\ \A q \in Requests :
            response[q] = "opening" /\ left[target[q]] > 0 /\ target[q] \notin misread =>
                pdf[target[q]] = "full" /\ meta[target[q]] = "ok"

\* A deletion that only takes expired or broken pairs leaves the others alone.
LEMMA IntactFrame ==
  ASSUME TypeOK, IntactInv, NEW F,
         \A f \in F : f \in Files => meta[f] # "ok" \/ left[f] = 0 \/ f \in misread',
         \A f \in Files : f \notin F => pdf'[f] = pdf[f] /\ meta'[f] = meta[f],
         UNCHANGED <<left, promised>>, misread \subseteq misread',
         \A q \in Requests : response'[q] = "opening" =>
                response[q] = "opening" /\ target'[q] = target[q]
  PROVE  IntactInv'
  <1> USE DEF TypeOK, IntactInv, AvailableUntilExpiry
  <1>1. AvailableUntilExpiry'
    OBVIOUS
  <1>2. ASSUME NEW q \in Requests, response'[q] = "opening", left'[target'[q]] > 0,
               target'[q] \notin misread'
        PROVE  pdf'[target'[q]] = "full" /\ meta'[target'[q]] = "ok"
    BY <1>2
  <1> QED BY <1>1, <1>2

LEMMA IntactFrameOne ==
  ASSUME TypeOK, IntactInv, NEW f \in Files, left[f] = 0 \/ f \in misread,
         \A g \in Files : g # f => pdf'[g] = pdf[g] /\ meta'[g] = meta[g],
         UNCHANGED <<left, promised>>, misread \subseteq misread',
         \A q \in Requests : response'[q] = "opening" =>
                response[q] = "opening" /\ target'[q] = target[q]
  PROVE  IntactInv'
  <1>1. \A g \in {f} : g \in Files => meta[g] # "ok" \/ left[g] = 0 \/ g \in misread'
    OBVIOUS
  <1>2. \A g \in Files : g \notin {f} => pdf'[g] = pdf[g] /\ meta'[g] = meta[g]
    OBVIOUS
  <1> QED BY <1>1, <1>2, IntactFrame

\* Due only names such pairs.
LEMMA DueIsExpired ==
  ASSUME NEW unreadable, NEW f \in Due(unreadable)
  PROVE  f \in Files /\ (meta[f] # "ok" \/ left[f] = 0 \/ f \in unreadable)
  BY DEF Due, Expired

LEMMA IntactStep ==
  ASSUME TypeOK, WholeInv, IntactInv, [Next]_vars
  PROVE  IntactInv'
  <1>1. ASSUME NEW f \in Files, SavePdf(f) PROVE IntactInv'
    BY <1>1 DEF SavePdf, StartSave, Lifetime, TypeOK, IntactInv, AvailableUntilExpiry
  <1>2. ASSUME NEW f \in Files, SavePdfCutShort(f) PROVE IntactInv'
    <2>1. f \notin promised
      BY <1>2 DEF SavePdfCutShort, StartSave, Fresh
    <2>2. \A g \in Files : g # f => /\ pdf'[g] = pdf[g] /\ meta'[g] = meta[g]
                                   /\ left'[g] = left[g]
      BY <1>2 DEF SavePdfCutShort, StartSave, Lifetime, TypeOK
    <2>3. \A q \in Requests : response'[q] \in {response[q], "idle"}
      BY <1>2 DEF SavePdfCutShort, Survivors
    <2>4. UNCHANGED <<target, promised, misread>>
      BY <1>2 DEF SavePdfCutShort, StartSave
    <2> QED BY <2>1, <2>2, <2>3, <2>4 DEF WholeInv, TypeOK, IntactInv, AvailableUntilExpiry
  <1>3. ASSUME Cleanup PROVE IntactInv'
    BY <1>3, DueIsExpired, IntactFrame DEF Cleanup, StartCleanup, DeletePairs
  <1>4. ASSUME CleanupReadError PROVE IntactInv'
    <2>1. PICK unreadable \in SUBSET Files :
            DeletePairs(Due(unreadable)) /\ misread' = misread \cup unreadable
      BY <1>4 DEF CleanupReadError
    <2> QED BY <1>4, <2>1, DueIsExpired, IntactFrame
            DEF CleanupReadError, StartCleanup, DeletePairs
  <1>5. ASSUME CleanupCutShort PROVE IntactInv'
    <2>1. \A g \in Files : g \notin Due({}) => pdf'[g] = pdf[g] /\ meta'[g] = meta[g]
      BY <1>5 DEF CleanupCutShort, DeletePairs
    <2>2. \A q \in Requests : response'[q] \in {response[q], "idle"}
      BY <1>5 DEF CleanupCutShort, Survivors
    <2> QED BY <1>5, <2>1, <2>2, DueIsExpired, IntactFrame DEF CleanupCutShort, StartCleanup
  <1>6. ASSUME NEW q \in Requests, Open(q) PROVE IntactInv'
    <2>1. \A p \in Requests : response'[p] = "opening" => response[p] = "opening"
      BY <1>6 DEF Open, TypeOK
    <2> QED BY <1>6, <2>1 DEF Open, disk, IntactInv, AvailableUntilExpiry
  <1>7. ASSUME NEW q \in Requests, NEW f \in Files, GetFound(q, f) PROVE IntactInv'
    <2>1. pdf[f] = "full"
      BY <1>7 DEF GetFound, WholeInv, TypeOK
    <2>2. AvailableUntilExpiry'
      BY <1>7 DEF GetFound, Ask, disk, IntactInv, AvailableUntilExpiry
    <2>3. ASSUME NEW p \in Requests, response'[p] = "opening"
          PROVE  IF p = q THEN target'[p] = f
                 ELSE response[p] = "opening" /\ target'[p] = target[p]
      <3>1. CASE p = q
        BY <1>7, <3>1 DEF GetFound, Ask, TypeOK
      <3>2. CASE p # q
        BY <1>7, <2>3, <3>2 DEF GetFound, Ask, TypeOK
      <3> QED BY <3>1, <3>2
    <2>4. meta[f] = "ok" /\ UNCHANGED <<pdf, meta, left, misread>>
      BY <1>7 DEF GetFound, Ask, disk
    <2>5. ASSUME NEW p \in Requests, response'[p] = "opening", left'[target'[p]] > 0,
                 target'[p] \notin misread'
          PROVE  pdf'[target'[p]] = "full" /\ meta'[target'[p]] = "ok"
      <3>1. CASE p = q
        BY <2>1, <2>3, <2>4, <2>5, <3>1
      <3>2. CASE p # q
        BY <2>3, <2>4, <2>5, <3>2 DEF IntactInv
      <3> QED BY <3>1, <3>2
    <2> QED BY <2>2, <2>5 DEF IntactInv
  <1>8. ASSUME NEW q \in Requests, NEW f \in Files, GetNothing(q, f) PROVE IntactInv'
    <2>1. \A p \in Requests : response'[p] = "opening" =>
              response[p] = "opening" /\ target'[p] = target[p]
      BY <1>8 DEF GetNothing, Ask, TypeOK
    <2>2. CASE UNCHANGED disk
      BY <1>8, <2>1, <2>2 DEF GetNothing, Ask, disk, IntactInv, AvailableUntilExpiry
    <2>3. CASE (Expired(f) \/ pdf[f] = "none") /\ DeletePairs({f})
      <3>1. left[f] = 0 \/ f \in misread \/ (meta[f] # "ok" /\ UNCHANGED disk)
        BY <1>8, <2>3
           DEF GetNothing, Expired, IntactInv, AvailableUntilExpiry, WholeInv, TypeOK
      <3>2. \A g \in Files : g # f => pdf'[g] = pdf[g] /\ meta'[g] = meta[g]
        BY <2>3 DEF DeletePairs
      <3> QED BY <1>8, <2>1, <2>2, <3>1, <3>2, IntactFrameOne DEF GetNothing, Ask
    <2> QED BY <1>8, <2>2, <2>3 DEF GetNothing
  <1>9. ASSUME NEW q \in Requests, NEW f \in Files, GetCutShort(q, f) PROVE IntactInv'
    <2>1. \A p \in Requests : response'[p] = "opening" =>
              response[p] = "opening" /\ target'[p] = target[p]
      BY <1>9 DEF GetCutShort, Ask, Survivors, TypeOK
    <2>2. \A g \in Files : g # f => pdf'[g] = pdf[g] /\ meta'[g] = meta[g]
      BY <1>9 DEF GetCutShort, disk, TypeOK
    <2>3. meta[f] = "ok" /\ f \in promised /\ (left[f] = 0 \/ pdf[f] = "none")
      BY <1>9 DEF GetCutShort, Expired, WholeInv
    <2>4. left[f] = 0 \/ f \in misread
      BY <2>3 DEF IntactInv, AvailableUntilExpiry, TypeOK
    <2> QED BY <1>9, <2>1, <2>2, <2>4, IntactFrameOne DEF GetCutShort, Ask
  <1>10. ASSUME Tick PROVE IntactInv'
    <2>1. \A f \in Files : left'[f] > 0 => left[f] > 0
      BY <1>10 DEF Tick, TypeOK
    <2>2. UNCHANGED <<pdf, meta, response, target, promised, misread>>
      BY <1>10 DEF Tick, disk, requests
    <2>3. AvailableUntilExpiry'
      BY <2>1, <2>2 DEF TypeOK, IntactInv, AvailableUntilExpiry
    <2>4. ASSUME NEW q \in Requests, response'[q] = "opening", left'[target'[q]] > 0,
               target'[q] \notin misread'
          PROVE  pdf'[target'[q]] = "full" /\ meta'[target'[q]] = "ok"
      <3>1. left[target[q]] > 0
        BY <2>1, <2>2, <2>4 DEF TypeOK
      <3> QED BY <2>2, <2>4, <3>1 DEF IntactInv
    <2> QED BY <2>3, <2>4 DEF IntactInv
  <1>11. ASSUME Crash PROVE IntactInv'
    BY <1>11 DEF Crash, disk, TypeOK, IntactInv, AvailableUntilExpiry
  <1>12. ASSUME Restart \/ UNCHANGED vars PROVE IntactInv'
    BY <1>12 DEF Restart, vars, disk, requests, IntactInv, AvailableUntilExpiry
  <1> QED BY <1>1, <1>2, <1>3, <1>4, <1>5, <1>6, <1>7, <1>8, <1>9, <1>10, <1>11,
             <1>12 DEF Next

LEMMA IntactInvariant == Spec => [](TypeOK /\ WholeInv /\ IntactInv)
  <1>1. Init => TypeOK /\ WholeInv /\ IntactInv
    BY TypeInit DEF Init, WholeInv, NoTruncatedFile, IntactInv, AvailableUntilExpiry
  <1> QED BY <1>1, TypeStep, WholeStep, IntactStep, PTL DEF Spec

\* A promised file stays until it expires, unless a cleanup fails to read its
\* metadata (lkpd_storage.py:41-87).
THEOREM LkpdAvailable == Spec => []AvailableUntilExpiry
  <1>1. IntactInv => AvailableUntilExpiry
    BY DEF IntactInv
  <1> QED BY <1>1, IntactInvariant, PTL

\* Only the expiry, or that cleanup, overtakes a response (lkpd_routes.py:66-74).
THEOREM LkpdOpens == Spec => OpenFailsOnlyAfterExpiry
  <1> DEFINE OnlyAfterExpiry ==
        \A q \in Requests :
            response[q] = "opening" /\ response'[q] = "error" =>
                left[target[q]] = 0 \/ target[q] \in misread
  <1>1. ASSUME TypeOK, IntactInv, Next, NEW q \in Requests,
               response[q] = "opening", response'[q] = "error"
        PROVE  Open(q)
    <2>1. response'[q] \notin {response[q], "idle"}
      BY <1>1
    <2>2. \A f \in Files : ~SavePdf(f) /\ ~SavePdfCutShort(f)
      BY <1>1, <2>1 DEF SavePdf, SavePdfCutShort, Survivors
    <2>3. ~Cleanup /\ ~CleanupReadError /\ ~CleanupCutShort
      BY <1>1, <2>1 DEF Cleanup, CleanupReadError, CleanupCutShort, Survivors
    <2>4. \A p \in Requests, f \in Files :
              ~GetFound(p, f) /\ ~GetNothing(p, f) /\ ~GetCutShort(p, f)
      BY <1>1, <2>1 DEF GetFound, GetNothing, GetCutShort, Ask, Survivors, TypeOK
    <2>5. ~Tick /\ ~Crash /\ ~Restart
      BY <1>1, <2>1 DEF Tick, Crash, Restart, requests
    <2>6. \A p \in Requests : Open(p) => p = q
      BY <1>1, <2>1 DEF Open, TypeOK
    <2> QED BY <1>1, <2>2, <2>3, <2>4, <2>5, <2>6 DEF Next
  <1>2. ASSUME TypeOK, IntactInv, NEW q \in Requests, Open(q), response'[q] = "error"
        PROVE  left[target[q]] = 0 \/ target[q] \in misread
    <2>1. pdf[target[q]] # "full"
      BY <1>2 DEF Open, TypeOK
    <2> QED BY <1>2, <2>1 DEF Open, IntactInv, TypeOK
  <1>3. TypeOK /\ IntactInv /\ [Next]_vars => [OnlyAfterExpiry]_vars
    BY <1>1, <1>2 DEF vars
  <1> QED BY <1>3, IntactInvariant, PTL DEF Spec, OpenFailsOnlyAfterExpiry

-----------------------------------------------------------------------------
(***************************************************************************)
(* Every step of the store is a step of FileLease, or a stutter.            *)
(***************************************************************************)
\* A file whose metadata is readable and not expired is whole.
LeasedInv == \A f \in Files : meta[f] = "ok" /\ left[f] > 0 => pdf[f] = "full"

LEMMA LeasedStep == TypeOK /\ LeasedInv /\ [Next]_vars => LeasedInv'
  <1> SUFFICES ASSUME TypeOK, LeasedInv, [Next]_vars PROVE LeasedInv'
    OBVIOUS
  <1> USE DEF TypeOK, LeasedInv
  <1>1. ASSUME NEW f \in Files, SavePdf(f) PROVE LeasedInv'
    BY <1>1 DEF SavePdf, StartSave
  <1>2. ASSUME NEW f \in Files, SavePdfCutShort(f) PROVE LeasedInv'
    <2>1. meta'[f] # "ok"
      BY <1>2, StagesType DEF SavePdfCutShort
    <2>2. \A g \in Files : g # f => /\ pdf'[g] = pdf[g] /\ meta'[g] = meta[g]
                                   /\ left'[g] = left[g]
      BY <1>2 DEF SavePdfCutShort, StartSave
    <2> QED BY <2>1, <2>2
  <1>3. ASSUME Cleanup \/ CleanupReadError PROVE LeasedInv'
    BY <1>3 DEF Cleanup, CleanupReadError, StartCleanup, DeletePairs
  <1>4. ASSUME CleanupCutShort PROVE LeasedInv'
    <2>1. UNCHANGED left
      BY <1>4 DEF CleanupCutShort, StartCleanup
    <2>2. PICK gone \in SUBSET Due({}), f \in Due({}) :
            \/ DeletePairs(gone)
            \/ \A g \in Files :
                 /\ pdf'[g] = (IF g = f THEN "none" ELSE IF g \in gone THEN "none" ELSE pdf[g])
                 /\ meta'[g] = (IF g = f THEN meta[f] ELSE IF g \in gone THEN "none"
                                ELSE meta[g])
      BY <1>4 DEF CleanupCutShort, DeleteFirstOnly
    <2>3. f \in Files /\ (meta[f] # "ok" \/ left[f] = 0)
      BY DueIsExpired
    <2> QED BY <2>1, <2>2, <2>3 DEF DeletePairs
  <1>5. ASSUME NEW q \in Requests, NEW f \in Files, GetFound(q, f) \/ GetNothing(q, f)
        PROVE  LeasedInv'
    BY <1>5 DEF GetFound, GetNothing, Ask, disk, DeletePairs
  <1>6. ASSUME NEW q \in Requests, NEW f \in Files, GetCutShort(q, f) PROVE LeasedInv'
    <2>1. left[f] = 0 \/ pdf[f] = "none"
      BY <1>6 DEF GetCutShort, Expired
    <2>2. UNCHANGED <<left, meta>> /\ \A g \in Files : g # f => pdf'[g] = pdf[g]
      BY <1>6 DEF GetCutShort, Ask, DeleteFirstOnly, disk
    <2> QED BY <1>6, <2>1, <2>2 DEF GetCutShort
  <1>7. ASSUME Tick PROVE LeasedInv'
    BY <1>7 DEF Tick, disk
  <1>8. ASSUME Crash \/ Restart \/ (\E q \in Requests : Open(q)) \/ UNCHANGED vars
        PROVE  LeasedInv'
    BY <1>8 DEF Crash, Restart, Open, vars, disk
  <1> QED BY <1>1, <1>2, <1>3, <1>4, <1>5, <1>6, <1>7, <1>8 DEF Next

\* The lease of a file and the answer to a request, as Lease maps them.
LeaseOf(f) == IF meta[f] = "ok" THEN left[f] ELSE 0

AnswerTo(q) ==
    CASE response[q] = "idle" -> << >>
      [] response[q] = "opening" -> <<"granted", target[q]>>
      [] response[q] \in {"not_found", "error"} -> <<"denied", target[q]>>
      [] OTHER -> <<response[q], target[q]>>

LEMMA LeaseMapping ==
  ASSUME TypeOK
  PROVE  \A q \in Requests, f \in Files :
           Lease!Granted(q, f) <=> response[q] = "opening" /\ target[q] = f
  <1>1. ASSUME NEW q \in Requests, NEW f \in Files
        PROVE  Lease!Granted(q, f) <=> response[q] = "opening" /\ target[q] = f
    <2>1. Lease!Granted(q, f) <=> AnswerTo(q) = <<"granted", f>>
      BY DEF Lease!Granted, AnswerTo
    <2>2. AnswerTo(q) = <<"granted", f>> <=> response[q] = "opening" /\ target[q] = f
      <3>1. << >> # <<"granted", f>>
        OBVIOUS
      <3> QED BY <3>1 DEF AnswerTo, TypeOK
    <2> QED BY <2>1, <2>2
  <1> QED BY <1>1

\* Who may ask here may ask there.
LEMMA LeaseAsks ==
  ASSUME TypeOK, NEW q \in Requests, response[q] # "opening"
  PROVE  Lease!Asks(q)
  BY LeaseMapping DEF Lease!Asks

\* Steps that nobody outside sees.
LEMMA LeaseStutter ==
  ASSUME UNCHANGED <<promised, incidents, response, target>>,
         \A f \in Files : LeaseOf(f)' = LeaseOf(f)
  PROVE  UNCHANGED Lease!vars
  BY DEF Lease!vars, LeaseOf

\* A step that answers one request.
LEMMA LeaseAnswer ==
  ASSUME TypeOK, NEW q \in Requests, NEW f \in Files, NEW what,
         UNCHANGED promised, \A g \in Files : LeaseOf(g)' = LeaseOf(g),
         \A p \in Requests : p # q => response'[p] = response[p] /\ target'[p] = target[p],
         AnswerTo(q)' = <<what, f>>
  PROVE  Lease!Answer(q, what, f)
  BY DEF Lease!Answer, LeaseOf, AnswerTo

\* An operation that was cut short, and took nothing that was leased.
LEMMA LeaseCut ==
  ASSUME TypeOK, CutShort, UNCHANGED <<promised, target>>,
         \A f \in Files : LeaseOf(f)' = LeaseOf(f),
         response' = [q \in Requests |-> Survivors(q)]
  PROVE  Lease!Next
  <1>1. Lease!Trouble
    BY DEF CutShort, Incident, Lease!Trouble
  <1>2. CASE up'
    <2>1. UNCHANGED response
      BY <1>2 DEF Survivors, TypeOK
    <2>2. Lease!Lose({})
      BY <1>1, <2>1 DEF Lease!Lose, LeaseOf
    <2> QED BY <2>2 DEF Lease!Next
  <1>3. CASE ~up'
    <2>1. \A q \in Requests : response'[q] = "idle"
      BY <1>3 DEF Survivors
    <2>2. Lease!Forget
      BY <1>1, <2>1 DEF Lease!Forget, LeaseOf
    <2> QED BY <2>2 DEF Lease!Next
  <1> QED BY <1>2, <1>3

LEMMA LeaseStep ==
  ASSUME TypeOK, WholeInv, LeasedInv, [Next]_vars
  PROVE  Lease!Next \/ UNCHANGED Lease!vars
  <1>1. ASSUME NEW f \in Files, SavePdf(f) PROVE Lease!Next
    <2>1. \A g \in Files : LeaseOf(g)' = IF g = f THEN TTL ELSE LeaseOf(g)
      BY <1>1 DEF SavePdf, StartSave, Lifetime, LeaseOf, TypeOK
    <2>2. Lease!Promise(f)
      BY <1>1, <2>1 DEF SavePdf, StartSave, Fresh, Lease!Promise, LeaseOf
    <2> QED BY <2>2 DEF Lease!Next
  <1>2. ASSUME NEW f \in Files, SavePdfCutShort(f) PROVE Lease!Next
    <2>1. meta[f] # "ok" /\ meta'[f] # "ok"
      BY <1>2, StagesType DEF SavePdfCutShort, StartSave, Fresh, TypeOK
    <2>2. \A g \in Files : g # f => meta'[g] = meta[g] /\ left'[g] = left[g]
      BY <1>2 DEF SavePdfCutShort, StartSave, TypeOK
    <2>3. \A g \in Files : LeaseOf(g)' = LeaseOf(g)
      BY <2>1, <2>2 DEF LeaseOf
    <2> QED BY <1>2, <2>3, LeaseCut DEF SavePdfCutShort, StartSave
  <1>3. ASSUME Cleanup PROVE UNCHANGED Lease!vars
    <2>1. \A g \in Files : LeaseOf(g)' = LeaseOf(g)
      BY <1>3, DueIsExpired DEF Cleanup, StartCleanup, DeletePairs, LeaseOf, TypeOK
    <2> QED BY <1>3, <2>1, LeaseStutter DEF Cleanup, StartCleanup
  <1>4. ASSUME CleanupReadError PROVE Lease!Next
    <2>1. PICK unreadable \in SUBSET Files : DeletePairs(Due(unreadable))
      BY <1>4 DEF CleanupReadError
    <2>2. \A g \in Files : LeaseOf(g)' = IF g \in unreadable THEN 0 ELSE LeaseOf(g)
      BY <1>4, <2>1
         DEF CleanupReadError, StartCleanup, DeletePairs, Due, Expired, LeaseOf, TypeOK
    <2>3. UNCHANGED <<promised, response, target>> /\ incidents' = incidents + 1
      BY <1>4 DEF CleanupReadError, StartCleanup, Incident
    <2>4. Lease!Lose(unreadable)
      BY <2>2, <2>3 DEF Lease!Lose, Lease!Trouble, LeaseOf
    <2> QED BY <2>4 DEF Lease!Next
  <1>5. ASSUME CleanupCutShort PROVE Lease!Next
    <2>1. UNCHANGED <<left, promised, target>> /\ CutShort
          /\ response' = [q \in Requests |-> Survivors(q)]
      BY <1>5 DEF CleanupCutShort, StartCleanup
    <2>2. PICK gone \in SUBSET Due({}), f \in Due({}) :
            \/ DeletePairs(gone)
            \/ \A g \in Files :
                  meta'[g] = IF g = f THEN meta[f] ELSE IF g \in gone THEN "none" ELSE meta[g]
      BY <1>5 DEF CleanupCutShort, DeleteFirstOnly
    <2>3. ASSUME NEW g \in Files, meta'[g] # meta[g]
          PROVE  g \in Due({}) /\ meta'[g] = "none"
      <3>1. gone \subseteq Due({})
        OBVIOUS
      <3>2. CASE DeletePairs(gone)
        BY <2>3, <3>1, <3>2 DEF DeletePairs
      <3>3. CASE ~DeletePairs(gone)
        BY <2>2, <2>3, <3>1, <3>3
      <3> QED BY <3>2, <3>3
    <2>4. \A g \in Files : LeaseOf(g)' = LeaseOf(g)
      BY <2>1, <2>3, DueIsExpired DEF LeaseOf, TypeOK
    <2> QED BY <2>1, <2>4, LeaseCut
  <1>6. ASSUME NEW q \in Requests, Open(q) PROVE Lease!Next
    <2>1. PICK f \in Files : f = target[q]
      BY DEF TypeOK
    <2>2. Lease!Granted(q, f)
      BY <1>6, <2>1, LeaseMapping DEF Open
    <2>3. /\ UNCHANGED <<meta, left, promised, target, incidents>>
          /\ \A g \in Files : LeaseOf(g)' = LeaseOf(g)
          /\ \A p \in Requests : p # q => response'[p] = response[p] /\ target'[p] = target[p]
      BY <1>6 DEF Open, disk, LeaseOf, TypeOK
    <2>4. pdf[f] # "partial"
      BY <1>6, <2>1 DEF Open, WholeInv
    <2>5. CASE pdf[f] = "full"
      <3>1. AnswerTo(q)' = <<"whole", f>>
        BY <1>6, <2>1, <2>3, <2>5 DEF Open, AnswerTo, TypeOK
      <3>2. Lease!Serve(q, f)
        BY <2>2, <2>3, <3>1, LeaseAnswer DEF Lease!Serve
      <3> QED BY <3>2 DEF Lease!Next
    <2>6. CASE pdf[f] = "none"
      <3>1. AnswerTo(q)' = <<"denied", f>>
        BY <1>6, <2>1, <2>3, <2>6 DEF Open, AnswerTo, TypeOK
      <3>2. LeaseOf(f) = 0
        BY <2>6 DEF LeasedInv, LeaseOf, TypeOK
      <3>3. Lease!Overtake(q, f)
        BY <2>2, <2>3, <3>1, <3>2, LeaseAnswer DEF Lease!Overtake, LeaseOf
      <3> QED BY <3>3 DEF Lease!Next
    <2> QED BY <2>4, <2>5, <2>6 DEF TypeOK
  <1>7. ASSUME NEW q \in Requests, NEW f \in Files, GetFound(q, f) PROVE Lease!Next
    <2>1. /\ UNCHANGED promised
          /\ \A g \in Files : LeaseOf(g)' = LeaseOf(g)
          /\ \A p \in Requests : p # q => response'[p] = response[p] /\ target'[p] = target[p]
      BY <1>7 DEF GetFound, Ask, disk, LeaseOf, TypeOK
    <2>2. AnswerTo(q)' = <<"granted", f>>
      BY <1>7 DEF GetFound, Ask, AnswerTo, TypeOK
    <2>3. LeaseOf(f) > 0
      BY <1>7 DEF GetFound, Expired, LeaseOf, TypeOK
    <2>4. Lease!Grant(q, f)
      BY <1>7, <2>1, <2>2, <2>3, LeaseAnswer, LeaseAsks
         DEF GetFound, Ask, Lease!Grant, LeaseOf
    <2> QED BY <2>4 DEF Lease!Next
  <1>8. ASSUME NEW q \in Requests, NEW f \in Files, GetNothing(q, f) PROVE Lease!Next
    <2>1. /\ UNCHANGED <<left, promised>> /\ response[q] # "opening"
          /\ \A p \in Requests : p # q => response'[p] = response[p] /\ target'[p] = target[p]
          /\ AnswerTo(q)' = <<"denied", f>>
      BY <1>8 DEF GetNothing, Ask, AnswerTo, TypeOK
    <2>2. CASE meta[f] = "ok" /\ Incident("read_error") /\ UNCHANGED disk
      <3>1. Lease!Trouble /\ \A g \in Files : LeaseOf(g)' = LeaseOf(g)
        BY <2>1, <2>2 DEF Incident, Lease!Trouble, disk, LeaseOf
      <3>2. Lease!Deny(q, f)
        BY <2>1, <3>1, LeaseAnswer, LeaseAsks DEF Lease!Deny
      <3> QED BY <3>2 DEF Lease!Next
    <2>3. CASE ~(meta[f] = "ok" /\ Incident("read_error") /\ UNCHANGED disk)
      <3>1. LeaseOf(f) = 0 /\ UNCHANGED incidents
        BY <1>8, <2>3 DEF GetNothing, Expired, LeaseOf, LeasedInv, TypeOK
      <3>2. \A g \in Files : meta'[g] = meta[g] \/ (g = f /\ meta'[g] = "none")
        BY <1>8 DEF GetNothing, disk, DeletePairs
      <3>3. \A g \in Files : LeaseOf(g)' = LeaseOf(g)
        BY <2>1, <3>1, <3>2 DEF LeaseOf
      <3>4. Lease!Deny(q, f)
        BY <2>1, <3>1, <3>3, LeaseAnswer, LeaseAsks DEF Lease!Deny, LeaseOf
      <3> QED BY <3>4 DEF Lease!Next
    <2> QED BY <2>2, <2>3
  <1>9. ASSUME NEW q \in Requests, NEW f \in Files, GetCutShort(q, f) PROVE Lease!Next
    <2>1. /\ UNCHANGED <<left, meta, promised>> /\ response[q] # "opening"
          /\ \A g \in Files : LeaseOf(g)' = LeaseOf(g)
      BY <1>9 DEF GetCutShort, Ask, DeleteFirstOnly, disk, LeaseOf, TypeOK
    <2>2. Lease!Trouble
      BY <1>9 DEF GetCutShort, CutShort, Incident, Lease!Trouble
    <2>3. CASE up'
      <3>1. /\ \A p \in Requests : p # q => /\ response'[p] = response[p]
                                         /\ target'[p] = target[p]
            /\ AnswerTo(q)' = <<"denied", f>>
        BY <1>9, <2>3 DEF GetCutShort, Ask, Survivors, AnswerTo, TypeOK
      <3>2. Lease!Deny(q, f)
        BY <2>1, <2>2, <3>1, LeaseAnswer, LeaseAsks DEF Lease!Deny
      <3> QED BY <3>2 DEF Lease!Next
    <2>4. CASE ~up'
      <3>1. \A p \in Requests : AnswerTo(p)' = << >>
        BY <1>9, <2>4 DEF GetCutShort, Survivors, AnswerTo
      <3>2. Lease!Forget
        BY <2>1, <2>2, <3>1 DEF Lease!Forget, LeaseOf, AnswerTo
      <3> QED BY <3>2 DEF Lease!Next
    <2> QED BY <2>3, <2>4
  <1>10. ASSUME Tick PROVE Lease!Next
    <2>1. \A g \in Files : LeaseOf(g)' = IF LeaseOf(g) = 0 THEN 0 ELSE LeaseOf(g) - 1
      BY <1>10 DEF Tick, disk, LeaseOf, TypeOK
    <2>2. Lease!Tick
      BY <1>10, <2>1 DEF Tick, requests, Lease!Tick, LeaseOf
    <2> QED BY <2>2 DEF Lease!Next
  <1>11. ASSUME Crash PROVE Lease!Next
    <2>1. Lease!Forget
      BY <1>11 DEF Crash, Incident, disk, Lease!Forget, Lease!Trouble
    <2> QED BY <2>1 DEF Lease!Next
  <1>12. ASSUME Restart \/ UNCHANGED vars PROVE UNCHANGED Lease!vars
    BY <1>12 DEF Restart, vars, disk, requests, Lease!vars
  <1> QED BY <1>1, <1>2, <1>3, <1>4, <1>5, <1>6, <1>7, <1>8, <1>9, <1>10, <1>11,
             <1>12 DEF Next

\* The store implements FileLease: a saved file is had for TTL, whatever else is
\* saved, deleted, read and killed, and every way a client can be worse off is an
\* incident (lkpd_storage.py, lkpd_routes.py:62-74, worker.py:70-80).
THEOREM ImplementsLease == Spec => LeaseSpec
  <1>1. Init => Lease!Init /\ LeasedInv
    BY DEF Init, Lease!Init, LeasedInv
  <1>2. TypeOK /\ WholeInv /\ LeasedInv /\ [Next]_vars => [Lease!Next]_(Lease!vars)
    BY LeaseStep
  <1> QED BY <1>1, <1>2, LeasedStep, IntactInvariant, PTL DEF Spec, LeaseSpec, Lease!Spec
=============================================================================
