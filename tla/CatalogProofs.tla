---------------------------- MODULE CatalogProofs ----------------------------
(***************************************************************************)
(* Proofs about Catalog, for every set of names, bodies, writers and       *)
(* collectors and every bound.                                             *)
(***************************************************************************)
EXTENDS Catalog, FiniteSetTheorems, NaturalsInduction, TLAPS

-----------------------------------------------------------------------------
(* Types *)

\* A writer that is not idle has a request.
WritersHaveRequests ==
    \A w \in Writer : wpc[w] # "idle" => req[w] # None

\* A collector at work on a candidate has it in hand.
CollectorsHaveCandidates ==
    \A g \in Collector : gpc[g] \in {"delete", "count", "blob"} => cur[g] # None

Typed == TypeOK /\ WritersHaveRequests /\ CollectorsHaveCandidates

LEMMA ZeroIsTime == 0 \in Time
BY NumbersAreNatural DEF Time

LEMMA InitTyped == Init => Typed
BY NumbersAreNatural
   DEF Init, Typed, TypeOK, WritersHaveRequests, CollectorsHaveCandidates, Time

LEMMA FilledType ==
    ASSUME NEW info \in Bundle, NEW body \in Content PROVE Filled(info, body) \in Bundle
BY DEF Filled, Bundle

LEMMA InsertType ==
    ASSUME TypeOK, NEW w \in Writer, req[w] # None, InsertRow(req[w])
    PROVE  rows' \in [Key -> Row \cup {None}]
BY NumbersAreNatural, NoneIsNew
   DEF TypeOK, InsertRow, Row, Request, Time

LEMMA RespondType ==
    ASSUME Typed, NEW w \in Writer, Respond(w)
    PROVE  /\ wpc' \in [Writer -> {"idle", "precheck", "put", "insert", "extract",
                                   "update", "copy"}]
           /\ req' \in [Writer -> Request \cup {None}]
           /\ WritersHaveRequests'
BY DEF Typed, TypeOK, Respond, WritersHaveRequests

LEMMA WriterTyped ==
    ASSUME Typed, NEW w \in Writer, WriterStep(w)
    PROVE  Typed'
<1> USE NoneIsNew, NumbersAreNatural
<1>1. CASE \E k \in Key, p \in Platform, body \in Content, id \in Given :
             PublishBegin(w, k, p, body, id)
  <2>1. PICK k \in Key, p \in Platform, body \in Content, id \in Given :
             PublishBegin(w, k, p, body, id)
    BY <1>1
  <2> DEFINE r == [key |-> k, src |-> None, platform |-> p, blob |-> body,
                   created |-> 0, info |-> [id |-> id, build |-> None]]
  <2>2. r \in Request /\ r # None
    BY DEF Request, Bundle, Time
  <2>3. k.app \in App
    BY DEF Key
  <2>4. QED
    BY <2>1, <2>2, <2>3
       DEF PublishBegin, Typed, TypeOK, WritersHaveRequests, CollectorsHaveCandidates, gcVars
<1>2. CASE PublishPrecheck(w)
  BY <1>2, RespondType
     DEF PublishPrecheck, Typed, TypeOK, WritersHaveRequests, CollectorsHaveCandidates, gcVars
<1>3. CASE PublishPut(w)
  BY <1>3 DEF PublishPut, Typed, TypeOK, WritersHaveRequests, CollectorsHaveCandidates,
              gcVars, Request
<1>4. CASE InsertConflict(w)
  BY <1>4, RespondType DEF InsertConflict, Typed, TypeOK, CollectorsHaveCandidates, gcVars
<1>5. CASE PublishInsert(w)
  BY <1>5, RespondType, InsertType
     DEF PublishInsert, Typed, TypeOK, WritersHaveRequests, CollectorsHaveCandidates, gcVars
<1>6. CASE PublishExtract(w)
  BY <1>6, RespondType
     DEF PublishExtract, Typed, TypeOK, WritersHaveRequests, CollectorsHaveCandidates, gcVars
<1>7. CASE PublishUpdateInfo(w)
  <2>1. req[w] \in Request
    BY <1>7 DEF PublishUpdateInfo, Typed, TypeOK, WritersHaveRequests
  <2>2. rows' \in [Key -> Row \cup {None}]
    <3>1. \A k \in Stored :
            [rows[k] EXCEPT !.info = Filled(rows[k].info, req[w].blob)] \in Row
      BY <2>1, FilledType DEF Typed, TypeOK, Row, Request, Stored
    <3>2. QED
      BY <1>7, <3>1 DEF PublishUpdateInfo, Typed, TypeOK, Stored
  <2>3. QED
    BY <1>7, <2>2, RespondType
       DEF PublishUpdateInfo, Typed, TypeOK, CollectorsHaveCandidates, gcVars
<1>8. CASE \E app \in App, version \in Version, from \in Channel \cup {None}, to \in Channel :
             PromoteRead(w, app, version, from, to)
  <2>1. PICK app \in App, version \in Version, from \in Channel \cup {None}, to \in Channel :
             PromoteRead(w, app, version, from, to)
    BY <1>8
  <2> DEFINE dst == [app |-> app, version |-> version, channel |-> to]
             r(k) == [key |-> dst, src |-> k, platform |-> rows[k].platform,
                      blob |-> rows[k].blob, created |-> now, info |-> rows[k].info]
  <2>2. PICK k \in Stored : req' = [req EXCEPT ![w] = r(k)]
    BY <2>1 DEF PromoteRead
  <2>3. rows[k] \in Row
    BY <2>2 DEF Typed, TypeOK, Stored
  <2>4. dst \in Key
    BY DEF Key
  <2>5. r(k) \in Request /\ r(k) # None
    BY <2>3, <2>4 DEF Request, Row, Typed, TypeOK, Stored
  <2> HIDE DEF r
  <2>6. QED
    BY <2>1, <2>2, <2>5
       DEF PromoteRead, Typed, TypeOK, WritersHaveRequests, CollectorsHaveCandidates, gcVars
<1>9. CASE PromoteInsert(w)
  BY <1>9, RespondType, InsertType
     DEF PromoteInsert, Typed, TypeOK, WritersHaveRequests, CollectorsHaveCandidates, gcVars
<1>10. CASE WriterFails(w)
  BY <1>10, RespondType DEF WriterFails, Typed, TypeOK, CollectorsHaveCandidates, gcVars
<1>11. QED
  BY <1>1, <1>2, <1>3, <1>4, <1>5, <1>6, <1>7, <1>8, <1>9, <1>10 DEF WriterStep

LEMMA CollectorTyped ==
    ASSUME Typed, NEW g \in Collector, CollectorStep(g)
    PROVE  Typed'
<1> USE NoneIsNew DEF Typed, TypeOK, WritersHaveRequests, CollectorsHaveCandidates, writerVars
<1>1. CASE GcStart(g)
  <2>1. {[key |-> k, yankedAt |-> rows[k].yankedAt] : k \in Candidates} \subseteq Candidate
    BY DEF Candidates, Candidate, Stored, Row
  <2>2. QED
    BY <1>1, <2>1 DEF GcStart
<1>2. CASE GcSelect(g)
  <2>1. PICK c \in OldestYanks(g) :
             /\ c.key \in Stored
             /\ cur' = [cur EXCEPT ![g] = [key |-> c.key, blob |-> rows[c.key].blob]]
    BY <1>2 DEF GcSelect
  <2>2. [key |-> c.key, blob |-> rows[c.key].blob] \in Doomed
    BY <2>1 DEF Stored, Row, Doomed
  <2>3. QED
    BY <1>2, <2>1, <2>2 DEF GcSelect
<1>3. CASE GcSkip(g)
  BY <1>3 DEF GcSkip, DropCandidate
<1>4. CASE GcDeleteRow(g)
  BY <1>4 DEF GcDeleteRow, DropCandidate
<1>5. CASE GcCount(g)
  BY <1>5 DEF GcCount, NextCandidate
<1>6. CASE GcDeleteBlob(g)
  BY <1>6 DEF GcDeleteBlob, NextCandidate
<1>7. CASE GcFails(g)
  BY <1>7 DEF GcFails, NextCandidate, DropCandidate
<1>8. CASE GcEnd(g)
  BY <1>8 DEF GcEnd
<1>9. QED
  BY <1>1, <1>2, <1>3, <1>4, <1>5, <1>6, <1>7, <1>8 DEF CollectorStep

LEMMA NextTyped == Typed /\ [Next]_vars => Typed'
<1> SUFFICES ASSUME Typed, [Next]_vars PROVE Typed'
  OBVIOUS
<1> USE DEF Typed, TypeOK, WritersHaveRequests, CollectorsHaveCandidates, writerVars, gcVars
<1>1. CASE Tick
  BY <1>1, NumbersAreNatural DEF Tick, Time
<1>2. ASSUME NEW w \in Writer, WriterStep(w) PROVE Typed'
  BY <1>2, WriterTyped
<1>3. ASSUME NEW k \in Key, Yank(k) \/ Unyank(k) PROVE Typed'
  <2>1. rows[k] \in Row
    BY <1>3 DEF Yank, Unyank, Stored
  <2>2. [rows[k] EXCEPT !.yanked = TRUE, !.yankedAt = now] \in Row
    BY <2>1 DEF Row
  <2>3. [rows[k] EXCEPT !.yanked = FALSE, !.yankedAt = 0] \in Row
    BY <2>1, ZeroIsTime DEF Row
  <2>4. rows' \in [Key -> Row \cup {None}]
    BY <1>3, <2>2, <2>3 DEF Yank, Unyank
  <2>5. QED
    BY <1>3, <2>4 DEF Yank, Unyank
<1>4. ASSUME NEW g \in Collector, CollectorStep(g) PROVE Typed'
  BY <1>4, CollectorTyped
<1>5. CASE UNCHANGED vars
  BY <1>5 DEF vars
<1>6. QED
  BY <1>1, <1>2, <1>3, <1>4, <1>5 DEF Next

\* Every variable of the catalogue keeps its type, through every interleaving
\* of handlers, collections and failures.
THEOREM TypeCorrect == Spec => []TypeOK
<1>1. Spec => []Typed
  BY InitTyped, NextTyped, PTL DEF Spec
<1>2. Typed => TypeOK
  BY DEF Typed
<1>3. QED
  BY <1>1, <1>2, PTL
-----------------------------------------------------------------------------
(* Safety of collections in a maintenance window *)

\* A collection and any other request exclude each other.
Exclusive ==
    \A w \in Writer, g \in Collector : wpc[w] = "idle" \/ gpc[g] = "idle"

\* What a writer is about to insert has its bytes.
BytesHeld ==
    \A w \in Writer : wpc[w] \in {"insert", "copy"} => req[w].blob \in blobs

\* A blob about to be deleted is no row's.
DoomedUnreferenced ==
    \A g \in Collector : gpc[g] = "blob" => \A k \in Stored : rows[k].blob # cur[g].blob

\* The bundle information a writer is about to insert, or the row it is about
\* to update, goes with the writer's bytes.
InfoHeld ==
    \A w \in Writer : req[w] # None => Fits(req[w].info, req[w].blob)

EnrichTarget ==
    \A w \in Writer : wpc[w] \in {"extract", "update"} =>
        req[w].key \in Stored /\ rows[req[w].key].blob = req[w].blob

\* A candidate not yet deleted is still what the listing saw.
OldYank(k) == rows[k].yanked /\ rows[k].yankedAt <= now - OlderThan

PendingOld ==
    \A g \in Collector :
        /\ \A c \in todo[g] : c.key \in Stored => OldYank(c.key)
        /\ gpc[g] = "delete" /\ cur[g].key \in Stored => OldYank(cur[g].key)
        /\ gpc[g] = "idle" => todo[g] = {}

\* The parts a writer can disturb.
BytesAndInfo == NoDangling /\ BytesHeld /\ InfoMatchesBlob /\ InfoHeld /\ EnrichTarget

WindowInv ==
    /\ Typed
    /\ Exclusive
    /\ BytesAndInfo
    /\ DoomedUnreferenced
    /\ PendingOld

\* What a request brings, and what the UPDATE makes of columns that fit, fits.
LEMMA GivenFits ==
    ASSUME NEW id \in Given, NEW body PROVE Fits([id |-> id, build |-> None], body)
BY DEF Fits

LEMMA FilledFits ==
    ASSUME NEW info, NEW body \in Content, Fits(info, body)
    PROVE  Fits(Filled(info, body), body)
BY DEF Fits, Filled

LEMMA InitWindowInv == Init => WindowInv
<1> SUFFICES ASSUME Init PROVE WindowInv
  OBVIOUS
<1>1. Typed
  BY InitTyped
<1>2. Stored = {}
  BY DEF Init, Stored
<1>3. QED
  BY <1>1, <1>2
     DEF Init, WindowInv, BytesAndInfo, Exclusive, NoDangling, BytesHeld, DoomedUnreferenced,
         InfoMatchesBlob, InfoHeld, EnrichTarget, PendingOld

\* What an INSERT does to the table.
LEMMA RowInserted ==
    ASSUME Typed, NEW w \in Writer, wpc[w] # "idle", InsertRow(req[w])
    PROVE  /\ req[w].key \in Key \ Stored
           /\ Stored' = Stored \cup {req[w].key}
           /\ \A k \in Stored : rows'[k] = rows[k]
           /\ rows'[req[w].key].blob = req[w].blob
           /\ rows'[req[w].key].info = req[w].info
           /\ rows'[req[w].key].platform = req[w].platform
<1>1. req[w] \in Request /\ req[w].key \in Key /\ req[w].key \notin Stored
  BY DEF Typed, TypeOK, WritersHaveRequests, InsertRow, Request
<1>2. PICK id \in Rowid :
        rows' = [rows EXCEPT ![req[w].key] =
                   [platform |-> req[w].platform, blob |-> req[w].blob,
                    created |-> req[w].created, rowid |-> id, yanked |-> FALSE,
                    yankedAt |-> 0, info |-> req[w].info]]
  BY DEF InsertRow
<1> DEFINE r == [platform |-> req[w].platform, blob |-> req[w].blob,
                 created |-> req[w].created, rowid |-> id, yanked |-> FALSE,
                 yankedAt |-> 0, info |-> req[w].info]
<1>3. r \in Row
  BY <1>1, ZeroIsTime DEF Request, Row
<1>4. r # None
  BY <1>3, NoneIsNew
<1>5. r.blob = req[w].blob /\ r.info = req[w].info /\ r.platform = req[w].platform
  OBVIOUS
<1>6. rows' = [rows EXCEPT ![req[w].key] = r]
  BY <1>2
<1> HIDE DEF r
<1>7. rows'[req[w].key] = r /\ \A k \in Key \ {req[w].key} : rows'[k] = rows[k]
  BY <1>1, <1>6 DEF Typed, TypeOK
<1>8. Stored' = Stored \cup {req[w].key}
  BY <1>1, <1>4, <1>7 DEF Stored
<1>9. QED
  BY <1>1, <1>5, <1>7, <1>8 DEF Stored

\* A step that only moves a writer on, and may add a blob.
LEMMA WriterMoves ==
    ASSUME Typed, BytesAndInfo, NEW w \in Writer, NEW r, NEW pc,
           rows' = rows, blobs \subseteq blobs',
           wpc' = [wpc EXCEPT ![w] = pc], req' = [req EXCEPT ![w] = r],
           pc \in {"insert", "copy"} => r.blob \in blobs',
           r # None => Fits(r.info, r.blob),
           pc \in {"extract", "update"} => r.key \in Stored /\ rows[r.key].blob = r.blob
    PROVE  BytesAndInfo'
<1>1. /\ wpc'[w] = pc /\ req'[w] = r
      /\ \A v \in Writer \ {w} : wpc'[v] = wpc[v] /\ req'[v] = req[v]
  BY DEF Typed, TypeOK
<1>2. Stored' = Stored
  BY DEF Stored
<1>3. NoDangling' /\ InfoMatchesBlob'
  BY <1>2 DEF BytesAndInfo, NoDangling, InfoMatchesBlob
<1>4. BytesHeld'
  BY <1>1 DEF BytesAndInfo, BytesHeld
<1>5. InfoHeld'
  BY <1>1 DEF BytesAndInfo, InfoHeld
<1>6. EnrichTarget'
  BY <1>1, <1>2 DEF BytesAndInfo, EnrichTarget
<1>7. QED
  BY <1>3, <1>4, <1>5, <1>6 DEF BytesAndInfo

LEMMA WriterAnswers ==
    ASSUME Typed, BytesAndInfo, NEW w \in Writer, Respond(w), UNCHANGED <<rows, blobs>>
    PROVE  BytesAndInfo'
<1>1. wpc' = [wpc EXCEPT ![w] = "idle"] /\ req' = [req EXCEPT ![w] = None]
  BY DEF Respond
<1>2. QED
  BY <1>1, WriterMoves

\* An INSERT, after which the writer answers or goes on to the extraction.
LEMMA WriterInserts ==
    ASSUME Typed, BytesAndInfo, NEW w \in Writer, InsertRow(req[w]), blobs' = blobs,
           wpc[w] \in {"insert", "copy"},
           \/ req' = req /\ wpc' = [wpc EXCEPT ![w] = "extract"]
           \/ Respond(w)
    PROVE  BytesAndInfo'
<1> DEFINE k0 == req[w].key
<1>1. /\ k0 \in Key \ Stored
      /\ Stored' = Stored \cup {k0}
      /\ \A k \in Stored : rows'[k] = rows[k]
      /\ rows'[k0].blob = req[w].blob
      /\ rows'[k0].info = req[w].info
  BY RowInserted
<1>2. req[w].blob \in blobs /\ Fits(req[w].info, req[w].blob)
  BY DEF BytesAndInfo, BytesHeld, InfoHeld, Typed, WritersHaveRequests
<1>3. \A v \in Writer : /\ wpc'[v] # "idle" => req'[v] = req[v]
                        /\ req'[v] # None => req'[v] = req[v]
                        /\ wpc'[v] = wpc[v] \/ (v = w /\ wpc'[v] \in {"idle", "extract"})
  <2>1. CASE req' = req /\ wpc' = [wpc EXCEPT ![w] = "extract"]
    BY <2>1 DEF Typed, TypeOK
  <2>2. CASE Respond(w)
    BY <2>2 DEF Respond, Typed, TypeOK
  <2>3. QED
    BY <2>1, <2>2
<1>4. NoDangling' /\ InfoMatchesBlob'
  BY <1>1, <1>2 DEF BytesAndInfo, NoDangling, InfoMatchesBlob
<1>5. BytesHeld' /\ InfoHeld'
  BY <1>3 DEF BytesAndInfo, BytesHeld, InfoHeld
<1>6. EnrichTarget'
  BY <1>1, <1>3 DEF BytesAndInfo, EnrichTarget
<1>7. QED
  BY <1>4, <1>5, <1>6 DEF BytesAndInfo

\* The UPDATE finds the row its writer inserted.
LEMMA WriterUpdatesInfo ==
    ASSUME Typed, BytesAndInfo, NEW w \in Writer, PublishUpdateInfo(w)
    PROVE  BytesAndInfo'
<1> DEFINE k0 == req[w].key
<1>1. k0 \in Stored /\ rows[k0].blob = req[w].blob /\ rows[k0] \in Row
  BY DEF PublishUpdateInfo, BytesAndInfo, EnrichTarget, Typed, TypeOK, Stored
<1>2. /\ \A k \in Key \ {k0} : rows'[k] = rows[k]
      /\ rows'[k0] = [rows[k0] EXCEPT !.info = Filled(rows[k0].info, req[w].blob)]
  BY <1>1 DEF PublishUpdateInfo, Stored
<1>3. req[w] \in Request
  BY DEF PublishUpdateInfo, Typed, TypeOK, WritersHaveRequests
<1>4. /\ rows'[k0] \in Row /\ rows'[k0].blob = req[w].blob
      /\ rows'[k0].info = Filled(rows[k0].info, req[w].blob)
  BY <1>1, <1>2, <1>3, FilledType DEF Row, Request
<1>5. Stored' = Stored
  BY <1>1, <1>2, <1>4, NoneIsNew DEF Stored
<1>6. \A k \in Stored : rows'[k].blob = rows[k].blob
  BY <1>1, <1>2, <1>4 DEF Stored
<1>7. blobs' = blobs /\ Respond(w)
  BY DEF PublishUpdateInfo
<1>8. \A v \in Writer : /\ wpc'[v] # "idle" => req'[v] = req[v] /\ wpc'[v] = wpc[v]
                        /\ req'[v] # None => req'[v] = req[v]
  BY <1>7 DEF Respond, Typed, TypeOK
<1>9. NoDangling'
  BY <1>5, <1>6, <1>7 DEF BytesAndInfo, NoDangling
<1>10. InfoMatchesBlob'
  <2>1. Fits(rows'[k0].info, rows'[k0].blob)
    BY <1>1, <1>3, <1>4, FilledFits DEF BytesAndInfo, InfoMatchesBlob, Request
  <2>2. QED
    BY <1>2, <1>5, <2>1 DEF BytesAndInfo, InfoMatchesBlob, Stored
<1>11. BytesHeld' /\ InfoHeld'
  BY <1>7, <1>8 DEF BytesAndInfo, BytesHeld, InfoHeld
<1>12. EnrichTarget'
  BY <1>5, <1>6, <1>8 DEF BytesAndInfo, EnrichTarget
<1>13. QED
  BY <1>9, <1>10, <1>11, <1>12 DEF BytesAndInfo

LEMMA WriterKeepsBytes ==
    ASSUME Typed, BytesAndInfo, NEW w \in Writer, WriterStep(w)
    PROVE  BytesAndInfo'
<1> USE NoneIsNew
<1>1. CASE \E k \in Key, p \in Platform, body \in Content, id \in Given :
             PublishBegin(w, k, p, body, id)
  <2>1. PICK k \in Key, p \in Platform, body \in Content, id \in Given :
             PublishBegin(w, k, p, body, id)
    BY <1>1
  <2> DEFINE r == [key |-> k, src |-> None, platform |-> p, blob |-> body,
                   created |-> 0, info |-> [id |-> id, build |-> None]]
  <2>2. /\ rows' = rows /\ blobs' = blobs
        /\ wpc' = [wpc EXCEPT ![w] = "precheck"] /\ req' = [req EXCEPT ![w] = r]
    BY <2>1 DEF PublishBegin
  <2>3. Fits(r.info, r.blob)
    BY GivenFits
  <2> HIDE DEF r
  <2>4. QED
    BY <2>2, <2>3, WriterMoves
<1>2. CASE PublishPrecheck(w)
  <2>1. rows' = rows /\ blobs' = blobs
    BY <1>2 DEF PublishPrecheck
  <2>2. CASE Respond(w)
    BY <2>1, <2>2, WriterAnswers
  <2>3. CASE wpc' = [wpc EXCEPT ![w] = "put"] /\ UNCHANGED req
    <3>1. req' = [req EXCEPT ![w] = req[w]]
      BY <2>3 DEF Typed, TypeOK
    <3>2. req[w] # None => Fits(req[w].info, req[w].blob)
      BY DEF BytesAndInfo, InfoHeld
    <3>3. QED
      BY <2>1, <2>3, <3>1, <3>2, WriterMoves
  <2>4. QED
    BY <1>2, <2>2, <2>3 DEF PublishPrecheck
<1>3. CASE PublishPut(w)
  <2> DEFINE r == [req[w] EXCEPT !.created = now]
  <2>1. req[w] \in Request /\ Fits(req[w].info, req[w].blob)
    BY <1>3 DEF PublishPut, Typed, TypeOK, WritersHaveRequests, BytesAndInfo, InfoHeld
  <2>2. r.blob = req[w].blob /\ r.info = req[w].info
    BY <2>1 DEF Request
  <2>3. /\ rows' = rows /\ blobs' = blobs \cup {req[w].blob}
        /\ wpc' = [wpc EXCEPT ![w] = "insert"] /\ req' = [req EXCEPT ![w] = r]
    BY <1>3 DEF PublishPut
  <2> HIDE DEF r
  <2>4. QED
    BY <2>1, <2>2, <2>3, WriterMoves
<1>4. CASE InsertConflict(w) \/ WriterFails(w)
  BY <1>4, WriterAnswers DEF InsertConflict, WriterFails
<1>5. CASE PublishInsert(w) \/ PromoteInsert(w)
  BY <1>5, WriterInserts DEF PublishInsert, PromoteInsert
<1>6. CASE PublishExtract(w)
  <2>1. rows' = rows /\ blobs' = blobs
    BY <1>6 DEF PublishExtract
  <2>2. CASE Respond(w)
    BY <2>1, <2>2, WriterAnswers
  <2>3. CASE wpc' = [wpc EXCEPT ![w] = "update"] /\ UNCHANGED req
    <3>1. req' = [req EXCEPT ![w] = req[w]]
      BY <2>3 DEF Typed, TypeOK
    <3>2. /\ req[w] # None => Fits(req[w].info, req[w].blob)
          /\ req[w].key \in Stored /\ rows[req[w].key].blob = req[w].blob
      BY <1>6 DEF PublishExtract, BytesAndInfo, InfoHeld, EnrichTarget
    <3>3. QED
      BY <2>1, <2>3, <3>1, <3>2, WriterMoves
  <2>4. QED
    BY <1>6, <2>2, <2>3 DEF PublishExtract
<1>7. CASE PublishUpdateInfo(w)
  BY <1>7, WriterUpdatesInfo
<1>8. CASE \E app \in App, version \in Version, from \in Channel \cup {None}, to \in Channel :
             PromoteRead(w, app, version, from, to)
  <2>1. PICK app \in App, version \in Version, from \in Channel \cup {None}, to \in Channel :
             PromoteRead(w, app, version, from, to)
    BY <1>8
  <2> DEFINE r(k) == [key |-> [app |-> app, version |-> version, channel |-> to], src |-> k,
                      platform |-> rows[k].platform, blob |-> rows[k].blob,
                      created |-> now, info |-> rows[k].info]
  <2>2. PICK k \in Stored : req' = [req EXCEPT ![w] = r(k)]
    BY <2>1 DEF PromoteRead
  <2>3. rows[k].blob \in blobs /\ Fits(rows[k].info, rows[k].blob)
    BY DEF BytesAndInfo, NoDangling, InfoMatchesBlob
  <2>4. r(k).blob = rows[k].blob /\ r(k).info = rows[k].info
    OBVIOUS
  <2>5. rows' = rows /\ blobs' = blobs /\ wpc' = [wpc EXCEPT ![w] = "copy"]
    BY <2>1 DEF PromoteRead
  <2> HIDE DEF r
  <2>6. QED
    BY <2>2, <2>3, <2>4, <2>5, WriterMoves
<1>9. QED
  BY <1>1, <1>2, <1>3, <1>4, <1>5, <1>6, <1>7, <1>8 DEF WriterStep

\* A publish or promote in a window: every collector is idle.
LEMMA WriterWindow ==
    ASSUME Window, WindowInv, NEW w \in Writer, WriterStep(w)
    PROVE  WindowInv'
<1>1. Typed' /\ BytesAndInfo'
  BY WriterTyped, WriterKeepsBytes DEF WindowInv
<1>2. \A g \in Collector : gpc[g] = "idle"
  BY DEF WindowInv, Exclusive, WriterStep, PublishBegin, PublishPrecheck, PublishPut,
         InsertConflict, PublishInsert, PublishExtract, PublishUpdateInfo, PromoteRead,
         PromoteInsert, WriterFails, MayWrite
<1>3. UNCHANGED gcVars
  BY DEF WriterStep, PublishBegin, PublishPrecheck, PublishPut,
         InsertConflict, PublishInsert, PublishExtract, PublishUpdateInfo, PromoteRead,
         PromoteInsert, WriterFails
<1>4. Exclusive' /\ DoomedUnreferenced' /\ PendingOld'
  BY <1>2, <1>3 DEF WindowInv, Exclusive, DoomedUnreferenced, PendingOld, gcVars
<1>5. QED
  BY <1>1, <1>4 DEF WindowInv

\* A collection in a window: every writer is idle.
LEMMA CollectorWindow ==
    ASSUME Window, WindowInv, NEW g \in Collector, CollectorStep(g)
    PROVE  WindowInv'
<1> USE NoneIsNew
<1>0. Typed'
  BY CollectorTyped DEF WindowInv
<1>1. \A w \in Writer : wpc[w] = "idle"
  BY DEF WindowInv, Exclusive, CollectorStep, GcStart, GcSelect, GcSkip, GcDeleteRow,
         GcCount, GcDeleteBlob, GcFails, GcEnd, MayCollect
<1>2. UNCHANGED writerVars /\ now' = now
  BY DEF CollectorStep, GcStart, GcSelect, GcSkip, GcDeleteRow, GcCount, GcDeleteBlob,
         GcFails, GcEnd
<1>3. Exclusive' /\ BytesHeld' /\ InfoHeld' /\ EnrichTarget'
  BY <1>1, <1>2 DEF WindowInv, BytesAndInfo, Exclusive, BytesHeld, InfoHeld, EnrichTarget, writerVars
<1>4. \A k \in Stored' : k \in Stored /\ rows'[k] = rows[k]
  <2>1. CASE GcDeleteRow(g)
    BY <2>1 DEF GcDeleteRow, Stored, WindowInv, Typed, TypeOK
  <2>2. CASE rows' = rows
    BY <2>2 DEF Stored
  <2>3. QED
    BY <2>1, <2>2 DEF CollectorStep, GcStart, GcSelect, GcSkip, GcCount, GcDeleteBlob,
                      GcFails, GcEnd
<1>5. InfoMatchesBlob'
  BY <1>4 DEF WindowInv, BytesAndInfo, InfoMatchesBlob
<1>6. NoDangling'
  <2>1. CASE GcDeleteBlob(g)
    BY <2>1, <1>4 DEF GcDeleteBlob, WindowInv, BytesAndInfo, NoDangling, DoomedUnreferenced
  <2>2. CASE blobs' = blobs
    BY <2>2, <1>4 DEF WindowInv, BytesAndInfo, NoDangling
  <2>3. QED
    BY <2>1, <2>2 DEF CollectorStep, GcStart, GcSelect, GcSkip, GcDeleteRow, GcCount,
                      GcFails, GcEnd
<1>7. DoomedUnreferenced'
  <2>1. ASSUME NEW h \in Collector, gpc'[h] = "blob", NEW k \in Stored'
        PROVE  rows'[k].blob # cur'[h].blob
    <3>1. CASE gpc[h] = "blob" /\ cur'[h] = cur[h]
      BY <1>4, <2>1, <3>1 DEF WindowInv, DoomedUnreferenced
    <3>2. CASE GcCount(g) /\ h = g
      BY <1>4, <2>1, <3>2
         DEF GcCount, NextCandidate, WindowInv, Typed, TypeOK
    <3>3. QED
      BY <2>1, <3>1, <3>2
         DEF CollectorStep, GcStart, GcSelect, GcSkip, GcDeleteRow, GcCount,
             GcDeleteBlob, GcFails, GcEnd, NextCandidate, WindowInv, Typed, TypeOK
  <2>2. QED
    BY <2>1 DEF DoomedUnreferenced
<1>8. PendingOld'
  <2>1. \A k \in Stored' : OldYank(k) => OldYank(k)'
    BY <1>2, <1>4 DEF OldYank
  <2>2. CASE GcStart(g)
    <3>1. \A c \in todo'[g] : c.key \in Stored => OldYank(c.key)
      BY <2>2 DEF GcStart, Candidates, OldYank, WindowInv, Typed, TypeOK
    <3>2. \A h \in Collector \ {g} : todo'[h] = todo[h] /\ gpc'[h] = gpc[h]
      BY <2>2 DEF GcStart, WindowInv, Typed, TypeOK
    <3>3. gpc'[g] = "next" /\ cur' = cur
      BY <2>2 DEF GcStart, WindowInv, Typed, TypeOK
    <3>4. QED
      BY <1>4, <2>1, <3>1, <3>2, <3>3 DEF WindowInv, PendingOld
  <2>3. CASE GcSelect(g)
    <3>1. PICK c \in todo[g] : cur'[g].key = c.key
      BY <2>3 DEF GcSelect, OldestYanks, WindowInv, Typed, TypeOK
    <3>2. OldYank(cur'[g].key) \/ cur'[g].key \notin Stored
      BY <3>1 DEF WindowInv, PendingOld
    <3>3. \A h \in Collector \ {g} : cur'[h] = cur[h] /\ gpc'[h] = gpc[h]
      BY <2>3 DEF GcSelect, WindowInv, Typed, TypeOK
    <3>4. todo' = todo /\ gpc'[g] = "delete"
      BY <2>3 DEF GcSelect, WindowInv, Typed, TypeOK
    <3>5. QED
      BY <1>4, <2>1, <3>2, <3>3, <3>4 DEF WindowInv, PendingOld
  <2>4. CASE \/ GcSkip(g) \/ GcDeleteRow(g) \/ GcCount(g) \/ GcDeleteBlob(g) \/ GcFails(g)
             \/ GcEnd(g)
    <3>1. \A h \in Collector : todo'[h] \subseteq todo[h]
      BY <2>4 DEF GcSkip, GcDeleteRow, GcCount, GcDeleteBlob, GcFails, GcEnd, DropCandidate,
                  WindowInv, Typed, TypeOK
    <3>2. \A h \in Collector : gpc'[h] = "delete" => gpc[h] = "delete" /\ cur'[h] = cur[h]
      BY <2>4 DEF GcSkip, GcDeleteRow, GcCount, GcDeleteBlob, GcFails, GcEnd, NextCandidate,
                  WindowInv, Typed, TypeOK
    <3>3. \A h \in Collector : gpc'[h] = "idle" => gpc[h] = "idle" \/ todo'[h] = {}
      BY <2>4 DEF GcSkip, GcDeleteRow, GcCount, GcDeleteBlob, GcFails, GcEnd, NextCandidate,
                  WindowInv, Typed, TypeOK
    <3>4. QED
      BY <1>4, <2>1, <3>1, <3>2, <3>3 DEF WindowInv, PendingOld
  <2>5. QED
    BY <2>2, <2>3, <2>4 DEF CollectorStep
<1>9. QED
  BY <1>0, <1>3, <1>5, <1>6, <1>7, <1>8 DEF WindowInv, BytesAndInfo

\* What a yank or an unyank leaves alone.
LEMMA YankEffect ==
    ASSUME Typed, NEW k \in Key, Yank(k) \/ Unyank(k)
    PROVE  /\ Stored' = Stored
           /\ \A j \in Stored :
                /\ rows'[j].blob = rows[j].blob /\ rows'[j].platform = rows[j].platform
                /\ rows'[j].created = rows[j].created /\ rows'[j].rowid = rows[j].rowid
                /\ rows'[j].info = rows[j].info
<1>1. k \in Stored /\ rows[k] \in Row /\ now \in Time
  BY DEF Yank, Unyank, Typed, TypeOK, Stored
<1>2. \A j \in Key \ {k} : rows'[j] = rows[j]
  BY DEF Yank, Unyank, Typed, TypeOK
<1> DEFINE up == [rows[k] EXCEPT !.yanked = TRUE, !.yankedAt = now]
           down == [rows[k] EXCEPT !.yanked = FALSE, !.yankedAt = 0]
<1>3. rows'[k] = up \/ rows'[k] = down
  BY DEF Yank, Unyank, Typed, TypeOK
<1>4. /\ up \in Row /\ up.blob = rows[k].blob /\ up.platform = rows[k].platform
      /\ up.created = rows[k].created /\ up.rowid = rows[k].rowid /\ up.info = rows[k].info
  BY <1>1 DEF Row
<1>5. /\ down \in Row /\ down.blob = rows[k].blob /\ down.platform = rows[k].platform
      /\ down.created = rows[k].created /\ down.rowid = rows[k].rowid
      /\ down.info = rows[k].info
  BY <1>1, ZeroIsTime DEF Row
<1> HIDE DEF up, down
<1>6. rows'[k] # None
  BY <1>3, <1>4, <1>5, NoneIsNew
<1>7. Stored' = Stored
  BY <1>1, <1>2, <1>6 DEF Stored
<1>8. QED
  BY <1>2, <1>3, <1>4, <1>5, <1>7 DEF Stored

LEMMA NextWindow ==
    ASSUME Window, WindowInv, [Next]_vars
    PROVE  WindowInv'
<1>1. ASSUME NEW w \in Writer, WriterStep(w) PROVE WindowInv'
  BY <1>1, WriterWindow
<1>2. ASSUME NEW g \in Collector, CollectorStep(g) PROVE WindowInv'
  BY <1>2, CollectorWindow
<1>3. Typed'
  BY NextTyped DEF WindowInv
<1>4. CASE Tick
  <2>1. UNCHANGED <<apps, rows, blobs, wpc, req, gpc, todo, cur>> /\ now' = now + 1
    BY <1>4 DEF Tick, writerVars, gcVars
  <2>2. \A k \in Stored : OldYank(k) => OldYank(k)'
    <3>1. ASSUME NEW k \in Stored, OldYank(k) PROVE OldYank(k)'
      <4>1. rows[k].yankedAt \in Int /\ now \in Int /\ OlderThan \in Int
        BY NumbersAreNatural DEF WindowInv, Typed, TypeOK, Stored, Row, Time
      <4>2. QED
        BY <2>1, <3>1, <4>1 DEF OldYank
    <3>2. QED
      BY <3>1
  <2>3. Stored' = Stored
    BY <2>1 DEF Stored
  <2>4. PendingOld'
    BY <2>1, <2>2, <2>3 DEF WindowInv, PendingOld
  <2>5. Exclusive' /\ BytesAndInfo' /\ DoomedUnreferenced'
    BY <2>1, <2>3
       DEF WindowInv, BytesAndInfo, Exclusive, NoDangling, BytesHeld, DoomedUnreferenced,
           InfoMatchesBlob, InfoHeld, EnrichTarget
  <2>6. QED
    BY <1>3, <2>4, <2>5 DEF WindowInv
<1>5. ASSUME NEW k \in Key, Yank(k) \/ Unyank(k) PROVE WindowInv'
  <2>1. \A g \in Collector : gpc[g] = "idle"
    BY <1>5 DEF Yank, Unyank, MayWrite
  <2>2. UNCHANGED <<blobs, now, wpc, req, gpc, todo, cur>>
    BY <1>5 DEF Yank, Unyank, writerVars, gcVars
  <2>3. /\ Stored' = Stored
        /\ \A j \in Stored : rows'[j].blob = rows[j].blob /\ rows'[j].info = rows[j].info
    BY <1>5, YankEffect DEF WindowInv
  <2>4. BytesAndInfo'
    BY <2>2, <2>3
       DEF WindowInv, BytesAndInfo, NoDangling, BytesHeld, InfoMatchesBlob, InfoHeld,
           EnrichTarget
  <2>5. Exclusive' /\ DoomedUnreferenced' /\ PendingOld'
    BY <2>1, <2>2 DEF WindowInv, Exclusive, DoomedUnreferenced, PendingOld
  <2>6. QED
    BY <1>3, <2>4, <2>5 DEF WindowInv
<1>6. CASE UNCHANGED vars
  BY <1>3, <1>6
     DEF vars, WindowInv, BytesAndInfo, Exclusive, NoDangling, BytesHeld, DoomedUnreferenced,
         InfoMatchesBlob, InfoHeld, EnrichTarget, PendingOld, OldYank, Stored
<1>7. QED
  BY <1>1, <1>2, <1>4, <1>5, <1>6 DEF Next

LEMMA WindowInvariant == Window => (Spec => []WindowInv)
<1> SUFFICES ASSUME Window PROVE Spec => []WindowInv
  OBVIOUS
<1>1. Init => WindowInv
  BY InitWindowInv
<1>2. WindowInv /\ [Next]_vars => WindowInv'
  BY NextWindow
<1>3. QED
  BY <1>1, <1>2, PTL DEF Spec

\* In a window, every listed release keeps its bytes: with any number of
\* overlapping collections, and handlers and collections that die anywhere.
THEOREM WindowNoDangling == Window => (Spec => []NoDangling)
<1> SUFFICES ASSUME Window PROVE Spec => []NoDangling
  OBVIOUS
<1>1. WindowInv => NoDangling
  BY DEF WindowInv, BytesAndInfo
<1>2. QED
  BY <1>1, WindowInvariant, PTL

\* In a window, what was extracted into a row's bundle columns is from its own
\* bytes, and a bundle_id the publisher gave is there only if they have none.
THEOREM WindowInfoMatchesBlob == Window => (Spec => []InfoMatchesBlob)
<1> SUFFICES ASSUME Window PROVE Spec => []InfoMatchesBlob
  OBVIOUS
<1>1. WindowInv => InfoMatchesBlob
  BY DEF WindowInv, BytesAndInfo
<1>2. QED
  BY <1>1, WindowInvariant, PTL

-----------------------------------------------------------------------------
(* What a step may do to the rows, window or not *)

\* A row keeps its bytes and place, and only gc's DELETE takes it away.
LEMMA RowsStep ==
    ASSUME Typed, [Next]_vars
    PROVE  /\ \A k \in Stored \cap Stored' :
                /\ rows'[k].blob = rows[k].blob /\ rows'[k].platform = rows[k].platform
                /\ rows'[k].created = rows[k].created /\ rows'[k].rowid = rows[k].rowid
           /\ \A k \in Stored \ Stored' :
                \E g \in Collector : GcDeleteRow(g) /\ k = cur[g].key
           /\ Stored' \ Stored # {} => \E w \in Writer : WriterStep(w)
<1>1. CASE rows' = rows
  BY <1>1 DEF Stored
<1>2. ASSUME NEW w \in Writer, WriterStep(w), PublishInsert(w) \/ PromoteInsert(w)
      PROVE  /\ Stored \subseteq Stored'
             /\ \A k \in Stored : rows'[k] = rows[k]
  BY <1>2, RowInserted DEF PublishInsert, PromoteInsert
<1>3. ASSUME NEW w \in Writer, PublishUpdateInfo(w)
      PROVE  /\ Stored' = Stored
             /\ \A k \in Stored :
                  /\ rows'[k].blob = rows[k].blob /\ rows'[k].platform = rows[k].platform
                  /\ rows'[k].created = rows[k].created /\ rows'[k].rowid = rows[k].rowid
  <2>1. req[w] \in Request
    BY <1>3 DEF PublishUpdateInfo, Typed, TypeOK, WritersHaveRequests
  <2>2. \A k \in Stored : rows[k] \in Row
    BY DEF Typed, TypeOK, Stored
  <2>3. \A k \in Key : \/ rows'[k] = rows[k]
                       \/ /\ k \in Stored
                          /\ rows'[k] = [rows[k] EXCEPT
                                           !.info = Filled(rows[k].info, req[w].blob)]
    BY <1>3 DEF PublishUpdateInfo
  <2>4. \A k \in Stored : [rows[k] EXCEPT !.info = Filled(rows[k].info, req[w].blob)] \in Row
    BY <2>1, <2>2, FilledType DEF Row, Request
  <2>5. Stored' = Stored
    BY <2>3, <2>4, NoneIsNew DEF Stored
  <2>6. QED
    BY <2>2, <2>3, <2>5 DEF Row, Stored
<1>4. ASSUME NEW k \in Key, Yank(k) \/ Unyank(k)
      PROVE  /\ Stored' = Stored
             /\ \A j \in Stored :
                  /\ rows'[j].blob = rows[j].blob /\ rows'[j].platform = rows[j].platform
                  /\ rows'[j].created = rows[j].created /\ rows'[j].rowid = rows[j].rowid
  BY <1>4, YankEffect
<1>5. ASSUME NEW g \in Collector, GcDeleteRow(g)
      PROVE  /\ Stored' \subseteq Stored /\ Stored \ Stored' \subseteq {cur[g].key}
             /\ \A k \in Stored' : rows'[k] = rows[k]
  BY <1>5 DEF GcDeleteRow, Stored, Typed, TypeOK
<1>6. QED
  <2>1. CASE Tick \/ UNCHANGED vars
    BY <1>1, <2>1 DEF Tick, vars
  <2>2. ASSUME NEW w \in Writer, WriterStep(w)
        PROVE  \/ rows' = rows \/ PublishInsert(w) \/ PromoteInsert(w) \/ PublishUpdateInfo(w)
    BY <2>2 DEF WriterStep, PublishBegin, PublishPrecheck, PublishPut, InsertConflict,
                PublishExtract, PromoteRead, WriterFails
  <2>3. ASSUME NEW g \in Collector, CollectorStep(g)
        PROVE  rows' = rows \/ GcDeleteRow(g)
    BY <2>3 DEF CollectorStep, GcStart, GcSelect, GcSkip, GcCount, GcDeleteBlob, GcFails, GcEnd
  <2>4. CASE \E w \in Writer : WriterStep(w)
    BY <1>1, <1>2, <1>3, <2>2, <2>4
  <2>5. CASE \E k \in Key : Yank(k) \/ Unyank(k)
    BY <1>4, <2>5
  <2>6. CASE \E g \in Collector : CollectorStep(g)
    BY <1>1, <1>5, <2>3, <2>6
  <2>7. QED
    BY <2>1, <2>4, <2>5, <2>6 DEF Next

\* No release ever changes its bytes, platform or place under its name, window
\* or not: the second of two publishes of one name never overwrites the first.
THEOREM ReleasesNeverChange == Spec => ReleaseImmutable
<1>1. Spec => []Typed
  BY InitTyped, NextTyped, PTL DEF Spec
<1>2. Typed /\ [Next]_vars =>
        [\A k \in Stored \cap Stored' :
           /\ rows'[k].blob = rows[k].blob
           /\ rows'[k].platform = rows[k].platform
           /\ rows'[k].created = rows[k].created
           /\ rows'[k].rowid = rows[k].rowid]_vars
  BY RowsStep
<1>3. QED
  BY <1>1, <1>2, PTL DEF Spec, ReleaseImmutable

\* In a window, what gc deletes is yanked, for long enough, when it is deleted.
THEOREM WindowOnlyOldYanksDeleted == Window => (Spec => OnlyOldYanksDeleted)
<1> SUFFICES ASSUME Window PROVE Spec => OnlyOldYanksDeleted
  OBVIOUS
<1>1. WindowInv /\ [Next]_vars =>
        [\A k \in Stored \ Stored' :
           rows[k].yanked /\ rows[k].yankedAt <= now - OlderThan]_vars
  BY RowsStep DEF WindowInv, PendingOld, OldYank, GcDeleteRow
<1>2. QED
  BY <1>1, WindowInvariant, PTL DEF Spec, OnlyOldYanksDeleted

-----------------------------------------------------------------------------
(* What can go wrong without a window, and the only ways it can             *)

\* The steps that need not leave the rest alone, one part of the state at a
\* time.  A row appears through the INSERT of a writer, with what it carries.
LEMMA RowsAppear ==
    ASSUME Typed, [Next]_vars, NEW k \in Stored' \ Stored
    PROVE  \E w \in Writer :
             /\ WriterStep(w) /\ wpc[w] \in {"insert", "copy"} /\ req[w].key = k
             /\ rows'[k].blob = req[w].blob /\ rows'[k].info = req[w].info
             /\ blobs' = blobs
<1>1. PICK w \in Writer : WriterStep(w)
  BY RowsStep
<1>2. CASE PublishInsert(w) \/ PromoteInsert(w)
  <2>1. InsertRow(req[w]) /\ wpc[w] \in {"insert", "copy"} /\ blobs' = blobs
    BY <1>2 DEF PublishInsert, PromoteInsert
  <2>2. k = req[w].key
    BY <2>1, RowInserted
  <2>3. QED
    BY <1>1, <2>1, <2>2, RowInserted
<1>3. CASE PublishUpdateInfo(w)
  <2>1. \A j \in Key : rows'[j] = rows[j] \/ j \in Stored
    BY <1>3 DEF PublishUpdateInfo
  <2>2. QED
    BY <2>1 DEF Stored
<1>4. CASE rows' = rows
  BY <1>4 DEF Stored
<1>5. QED
  BY <1>1, <1>2, <1>3, <1>4
     DEF WriterStep, PublishBegin, PublishPrecheck, PublishPut, InsertConflict,
         PublishExtract, PromoteRead, WriterFails

\* A blob disappears by the BlobStore.Delete of a collection.
LEMMA BlobsGo ==
    ASSUME Typed, [Next]_vars
    PROVE  \/ blobs \subseteq blobs'
           \/ \E g \in Collector :
                /\ gpc[g] = "blob" /\ blobs' = blobs \ {cur[g].blob}
                /\ UNCHANGED <<rows, wpc, req>>
<1>1. ASSUME NEW w \in Writer, WriterStep(w) PROVE blobs \subseteq blobs'
  BY <1>1 DEF WriterStep, PublishBegin, PublishPrecheck, PublishPut, InsertConflict,
              PublishInsert, PublishExtract, PublishUpdateInfo, PromoteRead,
              PromoteInsert, WriterFails
<1>2. ASSUME NEW g \in Collector, CollectorStep(g)
      PROVE  \/ blobs' = blobs
             \/ /\ gpc[g] = "blob" /\ blobs' = blobs \ {cur[g].blob}
                /\ UNCHANGED <<rows, wpc, req>>
  BY <1>2 DEF CollectorStep, GcStart, GcSelect, GcSkip, GcDeleteRow, GcCount, GcDeleteBlob,
              GcFails, GcEnd, writerVars
<1>3. CASE Tick \/ (\E k \in Key : Yank(k) \/ Unyank(k)) \/ UNCHANGED vars
  BY <1>3 DEF Tick, Yank, Unyank, vars
<1>4. QED
  BY <1>1, <1>2, <1>3 DEF Next

\* A writer comes to its INSERT with a blob it has put or a row has.
LEMMA WritersReachInsert ==
    ASSUME Typed, [Next]_vars, NEW w \in Writer, wpc'[w] \in {"insert", "copy"}
    PROVE  \/ wpc[w] = wpc'[w] /\ req'[w] = req[w]
           \/ req'[w].blob \in blobs'
           \/ blobs' = blobs /\ \E k \in Stored : req'[w].blob = rows[k].blob
<1>1. CASE wpc'[w] = wpc[w] /\ req'[w] = req[w]
  BY <1>1
<1>2. ASSUME NEW v \in Writer, WriterStep(v), v # w
      PROVE  wpc'[w] = wpc[w] /\ req'[w] = req[w]
  BY <1>2 DEF WriterStep, PublishBegin, PublishPrecheck, PublishPut, InsertConflict,
              PublishInsert, PublishExtract, PublishUpdateInfo, PromoteRead,
              PromoteInsert, WriterFails, Respond, Typed, TypeOK
<1>3. CASE PublishPut(w)
  <2>1. req[w] \in Request
    BY <1>3 DEF PublishPut, Typed, TypeOK, WritersHaveRequests
  <2>2. req'[w] = [req[w] EXCEPT !.created = now] /\ blobs' = blobs \cup {req[w].blob}
    BY <1>3 DEF PublishPut, Typed, TypeOK
  <2>3. req'[w].blob = req[w].blob
    BY <2>1, <2>2 DEF Request
  <2>4. QED
    BY <2>2, <2>3
<1>4. CASE \E app \in App, version \in Version, from \in Channel \cup {None}, to \in Channel :
             PromoteRead(w, app, version, from, to)
  <2>1. PICK app \in App, version \in Version, from \in Channel \cup {None}, to \in Channel :
             PromoteRead(w, app, version, from, to)
    BY <1>4
  <2>2. blobs' = blobs /\ \E k \in Stored : req'[w].blob = rows[k].blob
    BY <2>1 DEF PromoteRead, Typed, TypeOK
  <2>3. QED
    BY <2>2
<1>5. CASE WriterStep(w) /\ ~PublishPut(w)
           /\ ~\E app \in App, version \in Version, from \in Channel \cup {None}, to \in Channel :
                 PromoteRead(w, app, version, from, to)
  BY <1>5 DEF WriterStep, PublishBegin, PublishPrecheck, InsertConflict,
              PublishInsert, PublishExtract, PublishUpdateInfo,
              PromoteInsert, WriterFails, Respond, Typed, TypeOK
<1>6. ASSUME NEW g \in Collector, CollectorStep(g) PROVE UNCHANGED <<wpc, req>>
  BY <1>6 DEF CollectorStep, GcStart, GcSelect, GcSkip, GcDeleteRow, GcCount, GcDeleteBlob,
              GcFails, GcEnd, writerVars
<1>7. CASE Tick \/ (\E k \in Key : Yank(k) \/ Unyank(k)) \/ UNCHANGED vars
  BY <1>7, <1>1 DEF Tick, Yank, Unyank, vars, writerVars
<1>8. QED
  BY <1>1, <1>2, <1>3, <1>4, <1>5, <1>6, <1>7 DEF Next

\* A collector comes to BlobStore.Delete when it has counted no row.
LEMMA CollectorsReachDelete ==
    ASSUME Typed, [Next]_vars, NEW g \in Collector, gpc'[g] = "blob"
    PROVE  \/ gpc[g] = "blob" /\ cur'[g] = cur[g]
           \/ rows' = rows /\ \A k \in Stored : rows[k].blob # cur'[g].blob
<1>1. ASSUME NEW w \in Writer, WriterStep(w) PROVE UNCHANGED gcVars
  BY <1>1 DEF WriterStep, PublishBegin, PublishPrecheck, PublishPut, InsertConflict,
              PublishInsert, PublishExtract, PublishUpdateInfo, PromoteRead,
              PromoteInsert, WriterFails
<1>2. ASSUME NEW h \in Collector, CollectorStep(h), h # g
      PROVE  gpc'[g] = gpc[g] /\ cur'[g] = cur[g]
  BY <1>2 DEF CollectorStep, GcStart, GcSelect, GcSkip, GcDeleteRow, GcCount, GcDeleteBlob,
              GcFails, GcEnd, NextCandidate, Typed, TypeOK
<1>3. CASE CollectorStep(g)
  BY <1>3 DEF CollectorStep, GcStart, GcSelect, GcSkip, GcDeleteRow, GcCount, GcDeleteBlob,
              GcFails, GcEnd, NextCandidate, Typed, TypeOK
<1>4. CASE Tick \/ (\E k \in Key : Yank(k) \/ Unyank(k)) \/ UNCHANGED vars
  BY <1>4 DEF Tick, Yank, Unyank, vars, gcVars
<1>5. QED
  BY <1>1, <1>2, <1>3, <1>4 DEF Next, gcVars

\* A collection has counted no row with its candidate's blob and is about to
\* delete that blob, while a writer that already has it, put by a publish or
\* read from a row by a promote, is about to insert its row.
Race ==
    \E g \in Collector, w \in Writer :
        gpc[g] = "blob" /\ wpc[w] \in {"insert", "copy"} /\ req[w].blob = cur[g].blob

BytesInv == Typed /\ NoDangling /\ BytesHeld /\ DoomedUnreferenced

LEMMA NextBytes == BytesInv /\ ~Race /\ [Next]_vars => BytesInv'
<1> SUFFICES ASSUME BytesInv, ~Race, [Next]_vars PROVE BytesInv'
  OBVIOUS
<1>1. Typed /\ Typed'
  BY NextTyped DEF BytesInv
<1>2. \A k \in Stored \cap Stored' : rows'[k].blob = rows[k].blob
  BY <1>1, RowsStep
<1>3. BytesHeld'
  <2>1. ASSUME NEW w \in Writer, wpc'[w] \in {"insert", "copy"}
        PROVE  req'[w].blob \in blobs'
    <3>1. CASE wpc[w] = wpc'[w] /\ req'[w] = req[w]
      <4>1. req[w].blob \in blobs
        BY <2>1, <3>1 DEF BytesInv, BytesHeld
      <4>2. \A g \in Collector : gpc[g] = "blob" => req[w].blob # cur[g].blob
        BY <2>1, <3>1 DEF Race
      <4>3. QED
        BY <1>1, <3>1, <4>1, <4>2, BlobsGo
    <3>2. CASE blobs' = blobs /\ \E k \in Stored : req'[w].blob = rows[k].blob
      BY <3>2 DEF BytesInv, NoDangling
    <3>3. QED
      BY <1>1, <2>1, <3>1, <3>2, WritersReachInsert
  <2>2. QED
    BY <2>1 DEF BytesHeld
<1>4. NoDangling'
  <2>1. ASSUME NEW k \in Stored', k \in Stored PROVE rows'[k].blob \in blobs'
    <3>1. rows'[k].blob = rows[k].blob /\ rows[k].blob \in blobs
      BY <1>2, <2>1 DEF BytesInv, NoDangling
    <3>2. \A g \in Collector : gpc[g] = "blob" => rows[k].blob # cur[g].blob
      BY <2>1 DEF BytesInv, DoomedUnreferenced
    <3>3. QED
      BY <1>1, <3>1, <3>2, BlobsGo
  <2>2. ASSUME NEW k \in Stored', k \notin Stored PROVE rows'[k].blob \in blobs'
    <3>1. PICK w \in Writer :
            wpc[w] \in {"insert", "copy"} /\ rows'[k].blob = req[w].blob /\ blobs' = blobs
      BY <1>1, <2>2, RowsAppear
    <3>2. QED
      BY <3>1 DEF BytesInv, BytesHeld
  <2>3. QED
    BY <2>1, <2>2 DEF NoDangling
<1>5. DoomedUnreferenced'
  <2>1. ASSUME NEW g \in Collector, gpc'[g] = "blob", NEW k \in Stored'
        PROVE  rows'[k].blob # cur'[g].blob
    <3>1. CASE rows' = rows /\ \A j \in Stored : rows[j].blob # cur'[g].blob
      BY <2>1, <3>1 DEF Stored
    <3>2. CASE gpc[g] = "blob" /\ cur'[g] = cur[g] /\ k \in Stored
      BY <1>2, <2>1, <3>2 DEF BytesInv, DoomedUnreferenced
    <3>3. CASE gpc[g] = "blob" /\ cur'[g] = cur[g] /\ k \notin Stored
      <4>1. PICK w \in Writer : wpc[w] \in {"insert", "copy"} /\ rows'[k].blob = req[w].blob
        BY <1>1, <2>1, <3>3, RowsAppear
      <4>2. QED
        BY <3>3, <4>1 DEF Race
    <3>4. QED
      BY <1>1, <2>1, <3>1, <3>2, <3>3, CollectorsReachDelete
  <2>2. QED
    BY <2>1 DEF DoomedUnreferenced
<1>6. QED
  BY <1>1, <1>3, <1>4, <1>5 DEF BytesInv

\* Window or not, bytes are lost in one way only: a behaviour in which no
\* collection ever stands before BlobStore.Delete while a writer that holds the
\* same blob stands before its INSERT keeps the bytes of every release.
THEOREM OnlyTheRaceDangles == Spec /\ []~Race => []NoDangling
<1>1. Init => BytesInv
  BY InitWindowInv DEF WindowInv, BytesAndInfo, BytesInv
<1>2. BytesInv /\ ~Race /\ [Next]_vars => BytesInv'
  BY NextBytes
<1>3. BytesInv => NoDangling
  BY DEF BytesInv
<1>4. QED
  BY <1>1, <1>2, <1>3, PTL DEF Spec

\* What becomes of the bundle columns of a row that stays.
LEMMA InfoStep ==
    ASSUME Typed, [Next]_vars, NEW k \in Stored \cap Stored'
    PROVE  \/ rows'[k].info = rows[k].info
           \/ \E w \in Writer : /\ wpc[w] = "update" /\ req[w].key = k
                                /\ rows'[k].info = Filled(rows[k].info, req[w].blob)
<1>1. CASE rows' = rows
  BY <1>1
<1>2. ASSUME NEW w \in Writer, PublishInsert(w) \/ PromoteInsert(w)
      PROVE  rows'[k] = rows[k]
  BY <1>2, RowInserted DEF PublishInsert, PromoteInsert
<1>3. ASSUME NEW w \in Writer, PublishUpdateInfo(w)
      PROVE  \/ rows'[k] = rows[k]
             \/ /\ wpc[w] = "update" /\ req[w].key = k
                /\ rows'[k].info = Filled(rows[k].info, req[w].blob)
  <2>1. req[w] \in Request /\ rows[k] \in Row /\ k \in Key
    BY <1>3 DEF PublishUpdateInfo, Typed, TypeOK, WritersHaveRequests, Stored
  <2>2. [rows[k] EXCEPT !.info = Filled(rows[k].info, req[w].blob)].info
          = Filled(rows[k].info, req[w].blob)
    BY <2>1 DEF Row
  <2>3. QED
    BY <1>3, <2>1, <2>2 DEF PublishUpdateInfo
<1>4. ASSUME NEW j \in Key, Yank(j) \/ Unyank(j) PROVE rows'[k].info = rows[k].info
  BY <1>4, YankEffect
<1>5. ASSUME NEW g \in Collector, GcDeleteRow(g) PROVE rows'[k] = rows[k]
  BY <1>5 DEF GcDeleteRow, Stored, Typed, TypeOK
<1>6. ASSUME NEW w \in Writer, WriterStep(w)
      PROVE  \/ rows' = rows \/ PublishInsert(w) \/ PromoteInsert(w) \/ PublishUpdateInfo(w)
  BY <1>6 DEF WriterStep, PublishBegin, PublishPrecheck, PublishPut, InsertConflict,
              PublishExtract, PromoteRead, WriterFails
<1>7. ASSUME NEW g \in Collector, CollectorStep(g)
      PROVE  rows' = rows \/ GcDeleteRow(g)
  BY <1>7 DEF CollectorStep, GcStart, GcSelect, GcSkip, GcCount, GcDeleteBlob, GcFails, GcEnd
<1>8. QED
  BY <1>1, <1>2, <1>3, <1>4, <1>5, <1>6, <1>7 DEF Next, Tick, vars

\* What a writer carries: what it carried, nothing yet, or what a row has.
LEMMA RequestStep ==
    ASSUME Typed, [Next]_vars, NEW w \in Writer, req'[w] # None
    PROVE  \/ /\ req[w] # None
              /\ req'[w].key = req[w].key /\ req'[w].blob = req[w].blob
              /\ req'[w].info = req[w].info
           \/ \E id \in Given : req'[w].info = [id |-> id, build |-> None]
           \/ \E k \in Stored : req'[w].blob = rows[k].blob /\ req'[w].info = rows[k].info
<1>1. ASSUME NEW v \in Writer, WriterStep(v), v # w PROVE req'[w] = req[w]
  BY <1>1 DEF WriterStep, PublishBegin, PublishPrecheck, PublishPut, InsertConflict,
              PublishInsert, PublishExtract, PublishUpdateInfo, PromoteRead,
              PromoteInsert, WriterFails, Respond, Typed, TypeOK
<1>2. CASE PublishPut(w)
  <2>1. req[w] \in Request /\ req[w] # None
    BY <1>2 DEF PublishPut, Typed, TypeOK, WritersHaveRequests
  <2>2. req'[w] = [req[w] EXCEPT !.created = now]
    BY <1>2 DEF PublishPut, Typed, TypeOK
  <2>3. QED
    BY <2>1, <2>2 DEF Request
<1>3. CASE \E app \in App, version \in Version, from \in Channel \cup {None}, to \in Channel :
             PromoteRead(w, app, version, from, to)
  BY <1>3 DEF PromoteRead, Typed, TypeOK
<1>4. CASE \E k \in Key, p \in Platform, body \in Content, id \in Given :
             PublishBegin(w, k, p, body, id)
  BY <1>4 DEF PublishBegin, Typed, TypeOK
<1>5. CASE \/ PublishPrecheck(w) \/ InsertConflict(w) \/ PublishInsert(w) \/ PublishExtract(w)
           \/ PublishUpdateInfo(w) \/ PromoteInsert(w) \/ WriterFails(w)
  <2>1. req'[w] = req[w]
    BY <1>5 DEF PublishPrecheck, InsertConflict, PublishInsert, PublishExtract,
                PublishUpdateInfo, PromoteInsert, WriterFails, Respond, Typed, TypeOK
  <2>2. QED
    BY <2>1
<1>6. ASSUME NEW g \in Collector, CollectorStep(g) PROVE req'[w] = req[w]
  BY <1>6 DEF CollectorStep, GcStart, GcSelect, GcSkip, GcDeleteRow, GcCount, GcDeleteBlob,
              GcFails, GcEnd, writerVars
<1>7. CASE Tick \/ (\E k \in Key : Yank(k) \/ Unyank(k)) \/ UNCHANGED vars
  BY <1>7 DEF Tick, Yank, Unyank, vars, writerVars
<1>8. QED
  BY <1>1, <1>2, <1>3, <1>4, <1>5, <1>6, <1>7 DEF Next, WriterStep

\* A writer at the extraction or the UPDATE was there before, or has inserted.
LEMMA WritersReachUpdate ==
    ASSUME Typed, [Next]_vars, NEW w \in Writer, wpc'[w] \in {"extract", "update"}
    PROVE  /\ req'[w] = req[w]
           /\ \/ wpc[w] \in {"extract", "update"}
              \/ req[w].key \in Stored' /\ rows'[req[w].key].blob = req[w].blob
<1>1. ASSUME NEW v \in Writer, WriterStep(v), v # w
      PROVE  wpc'[w] = wpc[w] /\ req'[w] = req[w]
  BY <1>1 DEF WriterStep, PublishBegin, PublishPrecheck, PublishPut, InsertConflict,
              PublishInsert, PublishExtract, PublishUpdateInfo, PromoteRead,
              PromoteInsert, WriterFails, Respond, Typed, TypeOK
<1>2. CASE PublishInsert(w)
  <2>1. req[w].key \in Stored' /\ rows'[req[w].key].blob = req[w].blob
    BY <1>2, RowInserted DEF PublishInsert
  <2>2. req'[w] = req[w]
    BY <1>2 DEF PublishInsert, Respond, Typed, TypeOK
  <2>3. QED
    BY <2>1, <2>2
<1>3. CASE WriterStep(w) /\ ~PublishInsert(w)
  BY <1>3 DEF WriterStep, PublishBegin, PublishPrecheck, PublishPut, InsertConflict,
              PublishExtract, PublishUpdateInfo, PromoteRead,
              PromoteInsert, WriterFails, Respond, Typed, TypeOK
<1>4. ASSUME NEW g \in Collector, CollectorStep(g) PROVE UNCHANGED <<wpc, req>>
  BY <1>4 DEF CollectorStep, GcStart, GcSelect, GcSkip, GcDeleteRow, GcCount, GcDeleteBlob,
              GcFails, GcEnd, writerVars
<1>5. CASE Tick \/ (\E k \in Key : Yank(k) \/ Unyank(k)) \/ UNCHANGED vars
  BY <1>5 DEF Tick, Yank, Unyank, vars, writerVars
<1>6. QED
  BY <1>1, <1>2, <1>3, <1>4, <1>5 DEF Next

\* A collection is about to delete the row a publish has inserted and will still
\* write bundle columns to, by name.
RowTaken ==
    \E g \in Collector, w \in Writer :
        /\ gpc[g] = "delete" /\ wpc[w] \in {"extract", "update"}
        /\ cur[g].key = req[w].key

InfoInv == Typed /\ InfoMatchesBlob /\ InfoHeld /\ EnrichTarget

LEMMA NextInfo == InfoInv /\ ~RowTaken /\ [Next]_vars => InfoInv'
<1> SUFFICES ASSUME InfoInv, ~RowTaken, [Next]_vars PROVE InfoInv'
  OBVIOUS
<1>1. Typed /\ Typed'
  BY NextTyped DEF InfoInv
<1>2. \A k \in Stored \cap Stored' : rows'[k].blob = rows[k].blob
  BY <1>1, RowsStep
<1>3. InfoMatchesBlob'
  <2>1. ASSUME NEW k \in Stored', k \in Stored
        PROVE  Fits(rows'[k].info, rows'[k].blob)
    <3>1. rows'[k].blob = rows[k].blob /\ Fits(rows[k].info, rows[k].blob)
      BY <1>2, <2>1 DEF InfoInv, InfoMatchesBlob
    <3>2. \A w \in Writer : wpc[w] = "update" /\ req[w].key = k => rows[k].blob = req[w].blob
      BY DEF InfoInv, EnrichTarget
    <3>3. rows[k].blob \in Content
      BY <1>1, <2>1 DEF Typed, TypeOK, Stored, Row
    <3>4. Fits(Filled(rows[k].info, rows[k].blob), rows[k].blob)
      BY <3>1, <3>3, FilledFits
    <3>5. QED
      BY <1>1, <2>1, <3>1, <3>2, <3>4, InfoStep
  <2>2. ASSUME NEW k \in Stored', k \notin Stored
        PROVE  Fits(rows'[k].info, rows'[k].blob)
    <3>1. PICK w \in Writer : /\ wpc[w] \in {"insert", "copy"}
                              /\ rows'[k].blob = req[w].blob /\ rows'[k].info = req[w].info
      BY <1>1, <2>2, RowsAppear
    <3>2. req[w] # None
      BY <1>1, <3>1 DEF Typed, WritersHaveRequests
    <3>3. QED
      BY <3>1, <3>2 DEF InfoInv, InfoHeld
  <2>3. QED
    BY <2>1, <2>2 DEF InfoMatchesBlob
<1>4. InfoHeld'
  <2>1. ASSUME NEW w \in Writer, req'[w] # None
        PROVE  Fits(req'[w].info, req'[w].blob)
    BY <1>1, <2>1, RequestStep, GivenFits DEF InfoInv, InfoHeld, InfoMatchesBlob
  <2>2. QED
    BY <2>1 DEF InfoHeld
<1>5. EnrichTarget'
  <2>1. ASSUME NEW w \in Writer, wpc'[w] \in {"extract", "update"}
        PROVE  req'[w].key \in Stored' /\ rows'[req'[w].key].blob = req'[w].blob
    <3> DEFINE k == req[w].key
    <3>1. req'[w] = req[w]
      BY <1>1, <2>1, WritersReachUpdate
    <3>2. CASE wpc[w] \in {"extract", "update"}
      <4>1. k \in Stored /\ rows[k].blob = req[w].blob
        BY <3>2 DEF InfoInv, EnrichTarget
      <4>2. \A g \in Collector : GcDeleteRow(g) => cur[g].key # k
        BY <3>2 DEF RowTaken, GcDeleteRow
      <4>3. k \in Stored'
        BY <1>1, <4>1, <4>2, RowsStep
      <4>4. QED
        BY <1>2, <3>1, <4>1, <4>3
    <3>3. QED
      BY <1>1, <2>1, <3>1, <3>2, WritersReachUpdate
  <2>2. QED
    BY <2>1 DEF EnrichTarget
<1>6. QED
  BY <1>1, <1>3, <1>4, <1>5 DEF InfoInv

\* Window or not, the bundle columns of a row come from other bytes in one way
\* only: a behaviour in which no collection ever stands before the DELETE of a
\* row whose publish has its bundle UPDATE still to come keeps them right.
THEOREM OnlyATakenRowIsMixed == Spec /\ []~RowTaken => []InfoMatchesBlob
<1>1. Init => InfoInv
  BY InitWindowInv DEF WindowInv, BytesAndInfo, InfoInv
<1>2. InfoInv /\ ~RowTaken /\ [Next]_vars => InfoInv'
  BY NextInfo
<1>3. InfoInv => InfoMatchesBlob
  BY DEF InfoInv
<1>4. QED
  BY <1>1, <1>2, <1>3, PTL DEF Spec

\* The releases a collection has listed and not yet dealt with.
Listed(k) ==
    \E g \in Collector : \/ \E c \in todo[g] : c.key = k
                         \/ gpc[g] = "delete" /\ cur[g].key = k

\* A step that yanks or unyanks a listed release, or publishes or promotes one
\* anew under its name.
Meddles ==
    \E k \in Key : Listed(k) /\ (Yank(k) \/ Unyank(k) \/ k \in Stored' \ Stored)

PendingInv == Typed /\ PendingOld

\* An old yank gets older.
LEMMA OldYanksAge ==
    ASSUME Typed, Typed', [Next]_vars, NEW k \in Stored \cap Stored', OldYank(k),
           rows'[k].yanked = rows[k].yanked, rows'[k].yankedAt = rows[k].yankedAt
    PROVE  OldYank(k)'
<1>1. now' = now \/ now' = now + 1
  BY DEF Next, Tick, WriterStep, CollectorStep, PublishBegin, PublishPrecheck, PublishPut,
         InsertConflict, PublishInsert, PublishExtract, PublishUpdateInfo, PromoteRead,
         PromoteInsert, WriterFails, Yank, Unyank, GcStart, GcSelect, GcSkip, GcDeleteRow,
         GcCount, GcDeleteBlob, GcFails, GcEnd, vars
<1>2. rows[k].yankedAt \in Int /\ now \in Int /\ OlderThan \in Int
  BY NumbersAreNatural DEF Typed, TypeOK, Stored, Row, Time
<1>3. QED
  BY <1>1, <1>2 DEF OldYank

\* Only Yank and Unyank touch the yank of a row that stays.
LEMMA YanksStay ==
    ASSUME Typed, [Next]_vars, NEW k \in Stored \cap Stored', ~Yank(k), ~Unyank(k)
    PROVE  rows'[k].yanked = rows[k].yanked /\ rows'[k].yankedAt = rows[k].yankedAt
<1>1. CASE rows' = rows
  BY <1>1
<1>2. ASSUME NEW w \in Writer, PublishInsert(w) \/ PromoteInsert(w)
      PROVE  rows'[k] = rows[k]
  BY <1>2, RowInserted DEF PublishInsert, PromoteInsert
<1>3. ASSUME NEW w \in Writer, PublishUpdateInfo(w)
      PROVE  rows'[k].yanked = rows[k].yanked /\ rows'[k].yankedAt = rows[k].yankedAt
  <2>1. k \in Key /\ rows[k] \in Row
    BY DEF Typed, TypeOK, Stored
  <2>2. rows'[k] = rows[k] \/ rows'[k] = [rows[k] EXCEPT !.info = Filled(rows[k].info, req[w].blob)]
    BY <1>3, <2>1 DEF PublishUpdateInfo
  <2>3. QED
    BY <2>1, <2>2 DEF Row
<1>4. ASSUME NEW j \in Key, Yank(j) \/ Unyank(j) PROVE rows'[k] = rows[k]
  BY <1>4 DEF Yank, Unyank, Typed, TypeOK, Stored
<1>5. ASSUME NEW g \in Collector, GcDeleteRow(g) PROVE rows'[k] = rows[k]
  BY <1>5 DEF GcDeleteRow, Stored, Typed, TypeOK
<1>6. ASSUME NEW w \in Writer, WriterStep(w)
      PROVE  \/ rows' = rows \/ PublishInsert(w) \/ PromoteInsert(w) \/ PublishUpdateInfo(w)
  BY <1>6 DEF WriterStep, PublishBegin, PublishPrecheck, PublishPut, InsertConflict,
              PublishExtract, PromoteRead, WriterFails
<1>7. ASSUME NEW g \in Collector, CollectorStep(g)
      PROVE  rows' = rows \/ GcDeleteRow(g)
  BY <1>7 DEF CollectorStep, GcStart, GcSelect, GcSkip, GcCount, GcDeleteBlob, GcFails, GcEnd
<1>8. QED
  BY <1>1, <1>2, <1>3, <1>4, <1>5, <1>6, <1>7 DEF Next, Tick, vars

\* Where a collection's list comes from.
LEMMA ListStep ==
    ASSUME Typed, [Next]_vars, NEW g \in Collector
    PROVE  /\ \/ todo'[g] \subseteq todo[g]
              \/ /\ \A c \in todo'[g] : c.key \in Stored /\ OldYank(c.key)
                 /\ rows' = rows /\ now' = now
           /\ gpc'[g] = "delete" =>
                \/ gpc[g] = "delete" /\ cur'[g] = cur[g]
                \/ \E c \in todo[g] : cur'[g].key = c.key
           /\ gpc'[g] = "idle" =>
                \/ gpc[g] = "idle" /\ todo'[g] = todo[g]
                \/ todo'[g] = {}
<1>1. ASSUME NEW w \in Writer, WriterStep(w) PROVE UNCHANGED gcVars
  BY <1>1 DEF WriterStep, PublishBegin, PublishPrecheck, PublishPut, InsertConflict,
              PublishInsert, PublishExtract, PublishUpdateInfo, PromoteRead,
              PromoteInsert, WriterFails
<1>2. ASSUME NEW h \in Collector, CollectorStep(h), h # g
      PROVE  todo'[g] = todo[g] /\ gpc'[g] = gpc[g] /\ cur'[g] = cur[g]
  BY <1>2 DEF CollectorStep, GcStart, GcSelect, GcSkip, GcDeleteRow, GcCount, GcDeleteBlob,
              GcFails, GcEnd, NextCandidate, DropCandidate, Typed, TypeOK
<1>3. CASE GcStart(g)
  <2>1. todo'[g] = {[key |-> k, yankedAt |-> rows[k].yankedAt] : k \in Candidates}
    BY <1>3 DEF GcStart, Typed, TypeOK
  <2>2. \A c \in todo'[g] : c.key \in Stored /\ OldYank(c.key)
    BY <2>1 DEF Candidates, OldYank
  <2>3. gpc'[g] = "next" /\ rows' = rows /\ now' = now
    BY <1>3 DEF GcStart, Typed, TypeOK
  <2>4. QED
    BY <2>2, <2>3
<1>4. CASE GcSelect(g)
  <2>1. gpc'[g] = "delete" /\ todo' = todo
    BY <1>4 DEF GcSelect, Typed, TypeOK
  <2>2. \E c \in todo[g] : cur'[g].key = c.key
    BY <1>4 DEF GcSelect, OldestYanks, Typed, TypeOK
  <2>3. QED
    BY <2>1, <2>2
<1>5. CASE GcSkip(g) \/ GcDeleteRow(g) \/ GcCount(g) \/ GcDeleteBlob(g) \/ GcFails(g) \/ GcEnd(g)
  BY <1>5 DEF GcSkip, GcDeleteRow, GcCount, GcDeleteBlob, GcFails, GcEnd, NextCandidate,
              DropCandidate, Typed, TypeOK
<1>6. CASE Tick \/ (\E k \in Key : Yank(k) \/ Unyank(k)) \/ UNCHANGED vars
  BY <1>6 DEF Tick, Yank, Unyank, vars, gcVars
<1>7. QED
  BY <1>1, <1>2, <1>3, <1>4, <1>5, <1>6 DEF Next, gcVars, CollectorStep

LEMMA NextPending == PendingInv /\ [Next /\ ~Meddles]_vars => PendingInv'
<1> SUFFICES ASSUME PendingInv, [Next /\ ~Meddles]_vars PROVE PendingInv'
  OBVIOUS
<1>1. Typed /\ Typed' /\ [Next]_vars
  BY NextTyped DEF PendingInv
<1>2. ASSUME NEW k \in Key, Listed(k), k \in Stored => OldYank(k), k \in Stored'
      PROVE  OldYank(k)'
  <2>1. CASE UNCHANGED vars
    BY <1>2, <2>1 DEF vars, OldYank, Stored
  <2>2. CASE Next /\ ~Meddles
    <3>1. k \in Stored /\ ~Yank(k) /\ ~Unyank(k)
      BY <1>2, <2>2 DEF Meddles
    <3>2. QED
      BY <1>1, <1>2, <3>1, OldYanksAge, YanksStay
  <2>3. QED
    BY <2>1, <2>2
<1>3. ASSUME NEW g \in Collector, NEW c \in todo'[g], c.key \in Stored'
      PROVE  OldYank(c.key)'
  <2>1. c.key \in Key
    BY <1>1 DEF Typed, TypeOK, Candidate
  <2>2. CASE c \in todo[g]
    BY <1>2, <1>3, <2>1, <2>2 DEF Listed, PendingInv, PendingOld
  <2>3. CASE OldYank(c.key) /\ rows' = rows /\ now' = now
    BY <2>3 DEF OldYank
  <2>4. QED
    BY <1>1, <1>3, <2>2, <2>3, ListStep
<1>4. ASSUME NEW g \in Collector, gpc'[g] = "delete", NEW k \in Key, k = cur'[g].key,
             k \in Stored'
      PROVE  OldYank(k)'
  <2>1. Listed(k) /\ (k \in Stored => OldYank(k))
    <3>1. CASE gpc[g] = "delete" /\ cur'[g] = cur[g]
      BY <1>4, <3>1 DEF Listed, PendingInv, PendingOld
    <3>2. CASE \E c \in todo[g] : cur'[g].key = c.key
      BY <1>4, <3>2 DEF Listed, PendingInv, PendingOld
    <3>3. QED
      BY <1>1, <1>4, <3>1, <3>2, ListStep
  <2>2. QED
    BY <1>2, <1>4, <2>1
<1>5. \A g \in Collector : gpc'[g] = "idle" => todo'[g] = {}
  BY <1>1, ListStep DEF PendingInv, PendingOld
<1>6. PendingOld'
  <2>1. \A g \in Collector : gpc'[g] = "delete" => cur'[g].key \in Key
    BY <1>1 DEF Typed, TypeOK, CollectorsHaveCandidates, Doomed
  <2>2. QED
    BY <1>3, <1>4, <1>5, <2>1 DEF PendingOld, OldYank
<1>7. QED
  BY <1>1, <1>6 DEF PendingInv

\* Window or not, a collection takes a release that is not yanked, or not for
\* long enough, in one way only: someone yanks, unyanks or publishes anew a
\* release it has listed, before it comes to it.
THEOREM OnlyMeddlingSpoilsGc ==
    Spec /\ [][~Meddles]_vars => OnlyOldYanksDeleted
<1>1. Init => PendingInv
  BY InitWindowInv DEF WindowInv, PendingInv
<1>2. PendingInv /\ [Next /\ ~Meddles]_vars => PendingInv'
  BY NextPending
<1>3. PendingInv /\ [Next]_vars =>
        [\A k \in Stored \ Stored' :
           rows[k].yanked /\ rows[k].yankedAt <= now - OlderThan]_vars
  BY RowsStep DEF PendingInv, PendingOld, OldYank, GcDeleteRow
<1>4. [Next]_vars /\ [~Meddles]_vars => [Next /\ ~Meddles]_vars
  OBVIOUS
<1>5. QED
  BY <1>1, <1>2, <1>3, <1>4, PTL DEF Spec, OnlyOldYanksDeleted
=============================================================================
