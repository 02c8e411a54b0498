------------------------------- MODULE Catalog -------------------------------
(***************************************************************************)
(* The release catalogue of shipd: SQLite rows (internal/storage/store.go) *)
(* over a content-addressed blob store (internal/storage/blob.go, s3.go),  *)
(* changed by concurrent HTTP handlers (internal/server/server.go) and by  *)
(* garbage-collection runs, in the server or as `shipd gc` in a process of *)
(* its own.                                                                *)
(*                                                                         *)
(* No operation runs in a transaction: each SQL statement and each call on *)
(* the blob store is atomic alone, so each is an action here, and the      *)
(* locals a handler carries from one to the next are state.                *)
(***************************************************************************)
EXTENDS Integers, FiniteSets

CONSTANTS
    App, Version, Channel,  \* names that identify a release row
    Platform,               \* platforms a publish may declare
    Ios,                    \* the platform whose Info.plist is extracted
    Content,                \* uploaded bodies; a blob's key is its content's hash
    Readable, Named,        \* bodies ExtractIPAInfo can parse, with a bundle identifier
    Given,                  \* what publishers send as bundle_id, None among it if nothing
    Writer,                 \* publish and promote requests in flight
    Collector,              \* garbage collections in flight
    KeepLast, OlderThan,    \* parameters of every collection
    MaxTime, MaxRowid,      \* bounds of the clock and of SQLite's rowid
    Faults,                 \* may statements fail, requests and processes die?
    Window,                 \* is gc only run while no other write is in flight?
    None                    \* SQL's "no row", Go's nil

Key == [app : App, version : Version, channel : Channel]
Time == 0..MaxTime
Rowid == 1..MaxRowid

ASSUME KeyIsFinite == IsFiniteSet(Key)
ASSUME NumbersAreNatural == {KeepLast, OlderThan, MaxTime, MaxRowid} \subseteq Nat
ASSUME SwitchesAreBoolean == {Faults, Window} \subseteq BOOLEAN
ASSUME BodiesAreNested == Named \subseteq Readable /\ Readable \subseteq Content

\* The bundle columns, each as where its value is from: bundle_id from the
\* publisher or from a body's Info.plist, bundle_short_version and bundle_build
\* from a body's. None is empty.
Bundle == [id : Content \cup Given, build : Content \cup {None}]

\* A row of table releases. `blob` stands for blob_key, size and sha256; notes,
\* filename and display_name, which are kept and shown as given, are left out.
Row == [platform : Platform, blob : Content, created : Time, rowid : Rowid,
        yanked : BOOLEAN, yankedAt : Time, info : Bundle]

\* What a publish or promote handler carries between its statements.
Request == [key : Key, src : Key \cup {None}, platform : Platform,
            blob : Content, created : Time, info : Bundle]

\* An entry of the slice GCCandidates returns, and the candidate whose row
\* and blob DeleteReleaseAndBlob is working on.
Candidate == [key : Key, yankedAt : Time]
Doomed == [key : Key, blob : Content]

ASSUME NoneIsNew ==
    None \notin Row \cup Request \cup Doomed \cup Key \cup Content
ASSUME GivenIsNoBody == Given \cap Content = {}

VARIABLES
    apps,       \* names in table apps
    rows,       \* table releases: Key -> Row or None
    blobs,      \* keys present in the blob store
    now,        \* the wall clock, in the unit of created_at and yanked_at
    wpc, req,   \* per writer: next statement, request
    gpc, todo,  \* per collector: next statement, candidates not yet dealt with
    cur         \* per collector: the candidate in hand, or None

vars == <<apps, rows, blobs, now, wpc, req, gpc, todo, cur>>
writerVars == <<wpc, req>>
gcVars == <<gpc, todo, cur>>

Stored == {k \in Key : rows[k] # None}

-----------------------------------------------------------------------------
(* Queries *)

\* ORDER BY app_name, channel, platform: the groups keep-last counts in.
SameGroup(j, k) ==
    /\ j.app = k.app /\ j.channel = k.channel
    /\ rows[j].platform = rows[k].platform

\* Mutant of After: no second key, for rows of one second.
AfterByTime(j, k) == rows[j].created > rows[k].created

\* ORDER BY created_at DESC, rowid DESC.
After(j, k) ==
    \/ rows[j].created > rows[k].created
    \/ rows[j].created = rows[k].created /\ rows[j].rowid > rows[k].rowid

\* The rows listed before k in its group; k's rank is one more than their number.
Newer(k) == {j \in Stored : SameGroup(j, k) /\ After(j, k)}

\* Mutant of Candidates: one row too few is protected.
CandidatesOffByOne ==
    {k \in Stored : /\ Cardinality(Newer(k)) + 1 >= KeepLast
                    /\ rows[k].yanked
                    /\ rows[k].yankedAt <= now - OlderThan}

\* Mutant of Candidates: the platform is left out of the group.
CandidatesPerChannel ==
    {k \in Stored :
       /\ Cardinality({j \in Stored : j.app = k.app /\ j.channel = k.channel /\ After(j, k)})
            >= KeepLast
       /\ rows[k].yanked
       /\ rows[k].yankedAt <= now - OlderThan}

\* Mutant of Candidates: the oldest rows are protected.
CandidatesOldestKept ==
    {k \in Stored :
       /\ Cardinality({j \in Stored : SameGroup(j, k) /\ After(k, j)}) >= KeepLast
       /\ rows[k].yanked
       /\ rows[k].yankedAt <= now - OlderThan}

\* Mutant of Candidates: the age of the yank is not looked at.
CandidatesAnyAge ==
    {k \in Stored : Cardinality(Newer(k)) >= KeepLast /\ rows[k].yanked}

Candidates ==
    {k \in Stored : /\ Cardinality(Newer(k)) >= KeepLast
                    /\ rows[k].yanked
                    /\ rows[k].yankedAt <= now - OlderThan}

\* A rowid table without AUTOINCREMENT numbers a new row max(rowid) + 1.
NewRowid(id) ==
    /\ \A k \in Stored : rows[k].rowid < id
    /\ id = 1 \/ \E k \in Stored : rows[k].rowid = id - 1

\* The rows PromoteRelease may copy: channel `from`, or any when from is empty.
Sources(app, version, from) ==
    {k \in Stored : /\ k.app = app /\ k.version = version
                    /\ from \in {None, k.channel}}

-----------------------------------------------------------------------------
(* The environment. With Window, a collection and any other write exclude   *)
(* each other: an operating rule, nothing in the code enforces it.          *)

MayWrite == Window => \A g \in Collector : gpc[g] = "idle"
MayCollect == Window => \A w \in Writer : wpc[w] = "idle"

Tick == now < MaxTime /\ now' = now + 1
        /\ UNCHANGED <<apps, rows, blobs, writerVars, gcVars>>

-----------------------------------------------------------------------------
(* Publish and promote *)

Respond(w) ==
    /\ wpc' = [wpc EXCEPT ![w] = "idle"]
    /\ req' = [req EXCEPT ![w] = None]

\* The request is accepted and UpsertApp run. `id` is its bundle_id parameter.
PublishBegin(w, k, p, body, id) ==
    /\ MayWrite
    /\ wpc[w] = "idle"
    /\ apps' = apps \cup {k.app}
    /\ req' = [req EXCEPT ![w] = [key |-> k, src |-> None, platform |-> p, blob |-> body,
                                  created |-> 0, info |-> [id |-> id, build |-> None]]]
    /\ wpc' = [wpc EXCEPT ![w] = "precheck"]
    /\ UNCHANGED <<rows, blobs, now, gcVars>>

\* The existence check PutRelease makes before it reads the body.
PublishPrecheck(w) ==
    /\ wpc[w] = "precheck"
    /\ \/ req[w].key \in Stored /\ Respond(w)
       \/ /\ req[w].key \notin Stored
          /\ wpc' = [wpc EXCEPT ![w] = "put"]
          /\ UNCHANGED req
    /\ UNCHANGED <<apps, rows, blobs, now, gcVars>>

\* BlobStore.Put, then the read of the clock. A rename (FS) replaces an equal
\* file, and S3 skips an object it finds: either way the key is there after.
PublishPut(w) ==
    /\ wpc[w] = "put"
    /\ blobs' = blobs \cup {req[w].blob}
    /\ req' = [req EXCEPT ![w].created = now]
    /\ wpc' = [wpc EXCEPT ![w] = "insert"]
    /\ UNCHANGED <<apps, rows, now, gcVars>>

\* The UNIQUE constraint refuses the INSERT of a publish or a promote; a blob
\* already put stays.
InsertConflict(w) ==
    /\ wpc[w] \in {"insert", "copy"}
    /\ req[w].key \in Stored
    /\ Respond(w)
    /\ UNCHANGED <<apps, rows, blobs, now, gcVars>>

\* Mutant of InsertRow: INSERT OR REPLACE.
InsertOrReplaceRow(r) ==
    \E id \in Rowid :
      /\ NewRowid(id)
      /\ rows' = [rows EXCEPT ![r.key] =
                    [platform |-> r.platform, blob |-> r.blob, created |-> r.created,
                     rowid |-> id, yanked |-> FALSE, yankedAt |-> 0, info |-> r.info]]

InsertRow(r) ==
    /\ r.key \notin Stored
    /\ \E id \in Rowid :
         /\ NewRowid(id)
         /\ rows' = [rows EXCEPT ![r.key] =
                       [platform |-> r.platform, blob |-> r.blob, created |-> r.created,
                        rowid |-> id, yanked |-> FALSE, yankedAt |-> 0, info |-> r.info]]

PublishInsert(w) ==
    /\ wpc[w] = "insert"
    /\ InsertRow(req[w])
    /\ \/ /\ req[w].platform = Ios
          /\ wpc' = [wpc EXCEPT ![w] = "extract"]
          /\ UNCHANGED req
       \/ req[w].platform # Ios /\ Respond(w)
    /\ UNCHANGED <<apps, blobs, now, gcVars>>

\* enrichIPAInfo opens the blob by its key and parses it; a failure is logged
\* and the publish answers all the same.
PublishExtract(w) ==
    /\ wpc[w] = "extract"
    /\ \/ /\ req[w].blob \in blobs \cap Readable
          /\ wpc' = [wpc EXCEPT ![w] = "update"]
          /\ UNCHANGED req
       \/ req[w].blob \notin blobs \cap Readable /\ Respond(w)
    /\ UNCHANGED <<apps, rows, blobs, now, gcVars>>

\* Mutant of Filled: a bundle_id the publisher gave stays, as it does in the
\* response to the publish.
FilledIfEmpty(info, body) ==
    [id |-> IF body \in Named /\ info.id = None THEN body ELSE info.id, build |-> body]

\* The columns after the UPDATE: a bundle_id stays unless the body has one.
Filled(info, body) ==
    [id |-> IF body \in Named THEN body ELSE info.id, build |-> body]

\* Mutant of PublishUpdateInfo: the channel is missing from the WHERE clause.
UpdateInfoAnyChannel(w) ==
    /\ wpc[w] = "update"
    /\ rows' = [k \in Key |-> IF /\ k.app = req[w].key.app
                                 /\ k.version = req[w].key.version
                                 /\ k \in Stored
                              THEN [rows[k] EXCEPT !.info = Filled(@, req[w].blob)]
                              ELSE rows[k]]
    /\ Respond(w)
    /\ UNCHANGED <<apps, blobs, now, gcVars>>

\* UpdateBundleInfo: an UPDATE by (app, version, channel), whatever row that is.
PublishUpdateInfo(w) ==
    /\ wpc[w] = "update"
    /\ rows' = [k \in Key |-> IF k = req[w].key /\ k \in Stored
                              THEN [rows[k] EXCEPT !.info = Filled(@, req[w].blob)]
                              ELSE rows[k]]
    /\ Respond(w)
    /\ UNCHANGED <<apps, blobs, now, gcVars>>

\* PromoteRelease up to its INSERT: one source row, not yanked, on another
\* channel. The refusals change nothing.
PromoteRead(w, app, version, from, to) ==
    /\ MayWrite
    /\ wpc[w] = "idle"
    /\ \E k \in Stored :
         /\ Sources(app, version, from) = {k}
         /\ k.channel # to
         /\ ~rows[k].yanked
         /\ req' = [req EXCEPT ![w] =
                      [key |-> [app |-> app, version |-> version, channel |-> to], src |-> k,
                       platform |-> rows[k].platform, blob |-> rows[k].blob,
                       created |-> now, info |-> rows[k].info]]
    /\ wpc' = [wpc EXCEPT ![w] = "copy"]
    /\ UNCHANGED <<apps, rows, blobs, now, gcVars>>

PromoteInsert(w) ==
    /\ wpc[w] = "copy"
    /\ InsertRow(req[w])
    /\ Respond(w)
    /\ UNCHANGED <<apps, blobs, now, gcVars>>

\* A statement or a blob call returns an error, the client goes away and the
\* context is cancelled, or the server dies: what was done stays done.
WriterFails(w) ==
    /\ Faults
    /\ wpc[w] # "idle"
    /\ Respond(w)
    /\ UNCHANGED <<apps, rows, blobs, now, gcVars>>

-----------------------------------------------------------------------------
(* Yank and unyank: one UPDATE each *)

Yank(k) ==
    /\ MayWrite
    /\ k \in Stored
    /\ rows' = [rows EXCEPT ![k].yanked = TRUE, ![k].yankedAt = now]
    /\ UNCHANGED <<apps, blobs, now, writerVars, gcVars>>

\* Mutant of Unyank: yanked_at is set to NULL.
UnyankToNull(k) ==
    /\ MayWrite
    /\ k \in Stored
    /\ rows' = [rows EXCEPT ![k].yanked = FALSE, ![k].yankedAt = None]
    /\ UNCHANGED <<apps, blobs, now, writerVars, gcVars>>

Unyank(k) ==
    /\ MayWrite
    /\ k \in Stored
    /\ rows' = [rows EXCEPT ![k].yanked = FALSE, ![k].yankedAt = 0]
    /\ UNCHANGED <<apps, blobs, now, writerVars, gcVars>>

-----------------------------------------------------------------------------
(* Garbage collection *)

\* GCCandidates lists the rows once, for the whole run.
GcStart(g) ==
    /\ MayCollect
    /\ gpc[g] = "idle"
    /\ Candidates # {}
    /\ todo' = [todo EXCEPT ![g] =
                  {[key |-> k, yankedAt |-> rows[k].yankedAt] : k \in Candidates}]
    /\ gpc' = [gpc EXCEPT ![g] = "next"]
    /\ UNCHANGED <<apps, rows, blobs, now, writerVars, cur>>

\* The candidates are taken by yanked_at; ties go by names, here by choice.
OldestYanks(g) == {c \in todo[g] : \A d \in todo[g] : c.yankedAt <= d.yankedAt}

DropCandidate(g, k) == todo' = [todo EXCEPT ![g] = {c \in todo[g] : c.key # k}]

\* Mutant of GcSelect: the blob is deleted first, whoever shares it.
GcSelectBlobFirst(g) ==
    /\ gpc[g] = "next"
    /\ \E c \in OldestYanks(g) :
         /\ c.key \in Stored
         /\ cur' = [cur EXCEPT ![g] = [key |-> c.key, blob |-> rows[c.key].blob]]
         /\ blobs' = blobs \ {rows[c.key].blob}
    /\ gpc' = [gpc EXCEPT ![g] = "delete"]
    /\ UNCHANGED <<apps, rows, now, writerVars, todo>>

\* DeleteReleaseAndBlob: SELECT blob_key.
GcSelect(g) ==
    /\ gpc[g] = "next"
    /\ \E c \in OldestYanks(g) :
         /\ c.key \in Stored
         /\ cur' = [cur EXCEPT ![g] = [key |-> c.key, blob |-> rows[c.key].blob]]
    /\ gpc' = [gpc EXCEPT ![g] = "delete"]
    /\ UNCHANGED <<apps, rows, blobs, now, writerVars, todo>>

\* ErrNotFound, or the SELECT fails: the loop counts an error and goes on.
GcSkip(g) ==
    /\ gpc[g] = "next"
    /\ \E c \in OldestYanks(g) :
         /\ Faults \/ c.key \notin Stored
         /\ DropCandidate(g, c.key)
    /\ UNCHANGED <<apps, rows, blobs, now, writerVars, gpc, cur>>

\* DELETE FROM releases, by name and whatever the row is by now.
GcDeleteRow(g) ==
    /\ gpc[g] = "delete"
    /\ rows' = [rows EXCEPT ![cur[g].key] = None]
    /\ DropCandidate(g, cur[g].key)
    /\ gpc' = [gpc EXCEPT ![g] = "count"]
    /\ UNCHANGED <<apps, blobs, now, writerVars, cur>>

NextCandidate(g) ==
    /\ gpc' = [gpc EXCEPT ![g] = "next"]
    /\ cur' = [cur EXCEPT ![g] = None]

\* Mutant of GcCount: deduplication forgotten, the blob goes with the row.
GcCountNothing(g) ==
    /\ gpc[g] = "count"
    /\ gpc' = [gpc EXCEPT ![g] = "blob"]
    /\ UNCHANGED <<apps, rows, blobs, now, writerVars, todo, cur>>

\* SELECT COUNT(*) of the rows that share the blob.
GcCount(g) ==
    /\ gpc[g] = "count"
    /\ \/ (\E k \in Stored : rows[k].blob = cur[g].blob) /\ NextCandidate(g)
       \/ /\ \A k \in Stored : rows[k].blob # cur[g].blob
          /\ gpc' = [gpc EXCEPT ![g] = "blob"]
          /\ UNCHANGED cur
    /\ UNCHANGED <<apps, rows, blobs, now, writerVars, todo>>

\* BlobStore.Delete, idempotent.
GcDeleteBlob(g) ==
    /\ gpc[g] = "blob"
    /\ blobs' = blobs \ {cur[g].blob}
    /\ NextCandidate(g)
    /\ UNCHANGED <<apps, rows, now, writerVars, todo>>

\* A statement or the blob delete fails: on to the next candidate.
GcFails(g) ==
    /\ Faults
    /\ gpc[g] \in {"delete", "count", "blob"}
    /\ DropCandidate(g, cur[g].key)
    /\ NextCandidate(g)
    /\ UNCHANGED <<apps, rows, blobs, now, writerVars>>

\* The loop is done; or the process dies, with the rest of its list.
GcEnd(g) ==
    /\ \/ gpc[g] = "next" /\ todo[g] = {}
       \/ Faults /\ gpc[g] # "idle"
    /\ todo' = [todo EXCEPT ![g] = {}]
    /\ gpc' = [gpc EXCEPT ![g] = "idle"]
    /\ cur' = [cur EXCEPT ![g] = None]
    /\ UNCHANGED <<apps, rows, blobs, now, writerVars>>

-----------------------------------------------------------------------------
(* The specification *)

Init ==
    /\ apps = {}
    /\ rows = [k \in Key |-> None]
    /\ blobs = {}
    /\ now = 0
    /\ wpc = [w \in Writer |-> "idle"]
    /\ req = [w \in Writer |-> None]
    /\ gpc = [g \in Collector |-> "idle"]
    /\ todo = [g \in Collector |-> {}]
    /\ cur = [g \in Collector |-> None]

WriterStep(w) ==
    \/ \E k \in Key, p \in Platform, body \in Content, id \in Given :
         PublishBegin(w, k, p, body, id)
    \/ PublishPrecheck(w)
    \/ PublishPut(w)
    \/ InsertConflict(w)
    \/ PublishInsert(w)
    \/ PublishExtract(w)
    \/ PublishUpdateInfo(w)
    \/ \E app \in App, version \in Version, from \in Channel \cup {None}, to \in Channel :
         PromoteRead(w, app, version, from, to)
    \/ PromoteInsert(w)
    \/ WriterFails(w)

CollectorStep(g) ==
    \/ GcStart(g)
    \/ GcSelect(g)
    \/ GcSkip(g)
    \/ GcDeleteRow(g)
    \/ GcCount(g)
    \/ GcDeleteBlob(g)
    \/ GcFails(g)
    \/ GcEnd(g)

Next ==
    \/ Tick
    \/ \E w \in Writer : WriterStep(w)
    \/ \E k \in Key : Yank(k) \/ Unyank(k)
    \/ \E g \in Collector : CollectorStep(g)

Spec == Init /\ [][Next]_vars

-----------------------------------------------------------------------------
(* Properties *)

TypeOK ==
    /\ apps \subseteq App
    /\ rows \in [Key -> Row \cup {None}]
    /\ blobs \subseteq Content
    /\ now \in Time
    /\ wpc \in [Writer -> {"idle", "precheck", "put", "insert", "extract", "update", "copy"}]
    /\ req \in [Writer -> Request \cup {None}]
    /\ gpc \in [Collector -> {"idle", "next", "delete", "count", "blob"}]
    /\ todo \in [Collector -> SUBSET Candidate]
    /\ cur \in [Collector -> Doomed \cup {None}]

\* Every row's bytes are in the blob store, the state DeleteReleaseAndBlob
\* orders its statements to keep: no download of a listed release fails.
NoDangling == \A k \in Stored : rows[k].blob \in blobs

\* Bundle columns that go with a body: nothing was extracted and bundle_id is
\* the publisher's or empty; or the versions are the body's, and the identifier
\* too if the body has one.
Fits(info, body) ==
    \/ info.build = None /\ info.id \in Given
    \/ info.build = body /\ info.id \in IF body \in Named THEN {body} ELSE Given

\* No row has bundle columns taken from other bytes than its own, so that an
\* OTA manifest built after the extraction matches the binary: a publish fills
\* in the row it inserted, not one that took its name since.
InfoMatchesBlob == \A k \in Stored : Fits(rows[k].info, rows[k].blob)

\* A row leaves the table only while at least KeepLast newer rows of its
\* (app, channel, platform) group stay: gc never takes a protected release.
KeepLastRespected ==
    [][\A k \in Stored \ Stored' : Cardinality(Newer(k)) >= KeepLast]_vars

\* The rows of k's group that their rank keeps from every collection.
Shielded(k) == {j \in Stored : SameGroup(j, k) /\ Cardinality(Newer(j)) < KeepLast}

\* "The N most recent rows per (app, channel, platform)" are that many, also among rows
\* of one second: a row past the first KeepLast has exactly KeepLast shielded ones
\* before it, so gc can reclaim everything else.
ShieldIsExact ==
    \A k \in Stored :
        /\ Cardinality(Shielded(k)) <= KeepLast
        /\ k \in Shielded(k) \/ Cardinality(Shielded(k)) = KeepLast

\* While a row exists, its bytes, platform and position in the history never
\* change: of two publishes of one (app, version, channel) one is refused.
ReleaseImmutable ==
    [][\A k \in Stored \cap Stored' :
         /\ rows'[k].blob = rows[k].blob
         /\ rows'[k].platform = rows[k].platform
         /\ rows'[k].created = rows[k].created
         /\ rows'[k].rowid = rows[k].rowid]_vars

\* gc removes only rows that are yanked, and were at least OlderThan ago, when
\* the row goes, not just when the candidates were listed.
OnlyOldYanksDeleted ==
    [][\A k \in Stored \ Stored' :
         rows[k].yanked /\ rows[k].yankedAt <= now - OlderThan]_vars

-----------------------------------------------------------------------------
(* The catalogue implements ReleaseSpec: a row together with its blob is a  *)
(* release; what handlers and collections carry, table apps and the bundle  *)
(* columns are hidden.                                                      *)

ReleaseOf(k) ==
    [platform |-> rows[k].platform,
     body |-> IF rows[k].blob \in blobs THEN rows[k].blob ELSE None,
     created |-> rows[k].created, place |-> rows[k].rowid,
     yanked |-> rows[k].yanked, yankedAt |-> rows[k].yankedAt]

Promise == INSTANCE ReleaseSpec WITH
    releases <- [k \in Key |-> IF k \in Stored THEN ReleaseOf(k) ELSE None],
    SameLine <- LAMBDA j, k : j.app = k.app /\ j.channel = k.channel

\* "No release" is told from every release.
ASSUME NoneIsNoRelease == None \notin Promise!Release

\* Seen through that mapping, every interleaving of statements is a sequence of
\* atomic operations on releases that keep their bytes.
ImplementsReleaseSpec == Promise!Spec
=============================================================================
