---------------------------- MODULE KeepLastProofs ----------------------------
(***************************************************************************)
(* gc's keep-last rule, proved: a collection works from a list it made at  *)
(* its start, and yet every row it deletes leaves KeepLast newer rows of   *)
(* its group behind, when collections run in a window or one at a time.    *)
(* With that, in a window, the catalogue implements ReleaseSpec.           *)
(***************************************************************************)
EXTENDS CatalogProofs, WellFoundedInduction

\* At most one collection runs.
Solo == \A g, h \in Collector : g = h

\* The rows on some collection's list.
Pending == {k \in Key : \E g \in Collector : \E c \in todo[g] : c.key = k}

\* The newer rows of k's group that no collection is going to delete.
Survivors(k) == Newer(k) \ Pending

\* The strengthening of the keep-last rule. "KeepLast newer rows" alone is not
\* inductive: the deletion of one candidate takes a newer row from another.
Protected == \A k \in Pending \cap Stored : Cardinality(Survivors(k)) >= KeepLast

\* The candidate being deleted is still on its collection's list.
DeletingPending ==
    \A g \in Collector : gpc[g] = "delete" => \E c \in todo[g] : c.key = cur[g].key

IdleHasNoList == \A g \in Collector : gpc[g] = "idle" => todo[g] = {}

KeepInv ==
    /\ Typed
    /\ DeletingPending
    /\ IdleHasNoList
    /\ Solo => Pending \subseteq Stored
    /\ Protected

-----------------------------------------------------------------------------
(* The order of a group *)

LEMMA NewerFinite ==
    ASSUME NEW S \in SUBSET Key
    PROVE  /\ IsFiniteSet(S) /\ Cardinality(S) \in Nat
           /\ \A T \in SUBSET S : Cardinality(T) <= Cardinality(S)
<1>1. IsFiniteSet(S)
  BY KeyIsFinite, FS_Subset
<1>2. QED
  BY <1>1, FS_Subset, FS_CardinalityType

LEMMA NewerTransitive ==
    ASSUME Typed, NEW k \in Stored, NEW m \in Newer(k)
    PROVE  Newer(m) \subseteq Newer(k)
<1>1. m \in Stored /\ SameGroup(m, k) /\ After(m, k)
  BY DEF Newer
<1>2. SUFFICES ASSUME NEW x \in Stored, SameGroup(x, m), After(x, m)
               PROVE  SameGroup(x, k) /\ After(x, k)
  BY DEF Newer
<1>3. SameGroup(x, k)
  BY <1>1, <1>2 DEF SameGroup
<1>4. \A j \in {x, m, k} : rows[j].created \in Int /\ rows[j].rowid \in Int
  BY <1>1, <1>2 DEF Typed, TypeOK, Stored, Row, Time, Rowid
<1>5. After(x, k)
  BY <1>1, <1>2, <1>4 DEF After
<1>6. QED
  BY <1>3, <1>5

LEMMA NewerIrreflexive ==
    ASSUME Typed, NEW k \in Stored
    PROVE  k \notin Newer(k)
<1>1. rows[k].created \in Int /\ rows[k].rowid \in Int
  BY DEF Typed, TypeOK, Stored, Row, Time, Rowid
<1>2. QED
  BY <1>1 DEF Newer, After

\* A set of rows with a member has one that no other member is newer than.
LEMMA NewestMember ==
    ASSUME Typed, NEW D, D \subseteq Stored, D # {}
    PROVE  \E m \in D : Newer(m) \cap D = {}
<1> DEFINE T == {Newer(x) : x \in D}
<1>1. T \subseteq SUBSET Key /\ T # {}
  BY DEF Newer, Stored
<1>2. IsWellFoundedOn(StrictSubsetOrdering(Key), SUBSET Key)
  BY KeyIsFinite, FS_FiniteSubsetsOfFinite, FS_StrictSubsetOrderingWellFounded
<1> HIDE DEF T
<1>3. PICK N \in T : \A M \in T : <<M, N>> \notin StrictSubsetOrdering(Key)
  BY <1>1, <1>2, WFMin
<1>4. PICK m \in D : N = Newer(m)
  BY DEF T
<1>5. ASSUME NEW x \in Newer(m), x \in D PROVE FALSE
  <2>1. Newer(x) \subseteq Newer(m) /\ x \notin Newer(x)
    BY <1>5, NewerTransitive, NewerIrreflexive
  <2>2. Newer(x) \in T
    BY <1>5 DEF T
  <2>3. <<Newer(x), Newer(m)>> \in (SUBSET Key) \X (SUBSET Key)
    BY <1>1, <1>4, <2>2
  <2>4. <<Newer(x), Newer(m)>> \in StrictSubsetOrdering(Key)
    BY <1>5, <2>1, <2>3 DEF StrictSubsetOrdering
  <2>5. QED
    BY <1>3, <1>4, <2>2, <2>4
<1>6. QED
  BY <1>5

-----------------------------------------------------------------------------
(* Steps *)

LEMMA InitKeepInv == Init => KeepInv
<1> SUFFICES ASSUME Init PROVE KeepInv
  OBVIOUS
<1>1. Typed
  BY InitTyped
<1>2. Pending = {}
  BY DEF Init, Pending
<1>3. QED
  BY <1>1, <1>2 DEF Init, KeepInv, DeletingPending, IdleHasNoList, Protected

\* Listing the candidates. The newest row that is now on a list, among those of
\* k's group from k on, has KeepLast rows before it, and they are on no list.
LEMMA ListingProtects ==
    ASSUME Typed, Protected, rows' = rows, Pending' \subseteq Pending \cup Candidates
    PROVE  Protected'
<1> SUFFICES ASSUME NEW k \in Pending' \cap Stored'
             PROVE  Cardinality(Survivors(k)') >= KeepLast
  BY DEF Protected
<1>1. Stored' = Stored /\ \A j \in Key : Newer(j)' = Newer(j)
  BY DEF Stored, Newer, SameGroup, After
<1> DEFINE D == {x \in Pending' \cap Stored : x = k \/ x \in Newer(k)}
<1>2. PICK m \in D : Newer(m) \cap D = {}
  <2>1. D \subseteq Stored /\ D # {}
    BY <1>1
  <2> HIDE DEF D
  <2>2. QED
    BY <2>1, NewestMember
<1>3. m \in Stored /\ k \in Stored /\ Newer(m) \subseteq Newer(k)
  BY <1>1, NewerTransitive
<1>4. Newer(m) \cap Pending' = {}
  BY <1>2, <1>3 DEF Newer
<1>5. /\ Newer(m) \subseteq Survivors(k)' /\ Survivors(k)' \subseteq Key
      /\ Survivors(m) \subseteq Newer(m) /\ Newer(m) \subseteq Key
  BY <1>1, <1>3, <1>4 DEF Survivors, Newer, Stored
<1>6. Cardinality(Newer(m)) >= KeepLast
  <2>1. CASE m \in Candidates
    BY <2>1 DEF Candidates
  <2>2. CASE m \in Pending
    <3>1. Cardinality(Survivors(m)) >= KeepLast
      BY <1>3, <2>2 DEF Protected
    <3>2. Cardinality(Survivors(m)) <= Cardinality(Newer(m))
      BY <1>5, NewerFinite
    <3>3. Cardinality(Survivors(m)) \in Nat /\ Cardinality(Newer(m)) \in Nat
      BY <1>5, NewerFinite
    <3>4. QED
      BY <3>1, <3>2, <3>3, NumbersAreNatural
  <2>3. QED
    BY <2>1, <2>2
<1>7. Cardinality(Newer(m)) <= Cardinality(Survivors(k)')
  BY <1>5, NewerFinite
<1>8. Cardinality(Newer(m)) \in Nat /\ Cardinality(Survivors(k)') \in Nat
  BY <1>5, NewerFinite
<1>9. QED
  BY <1>6, <1>7, <1>8, NumbersAreNatural

\* Any other step: no list grows, no row on a list appears, rows that stay keep
\* their places, and rows that go were on a list.
LEMMA OthersProtect ==
    ASSUME Typed, Protected,
           Pending' \subseteq Pending,
           Pending \cap Stored' \subseteq Stored,
           Stored \ Stored' \subseteq Pending,
           \A k \in Stored \cap Stored' :
             /\ rows'[k].platform = rows[k].platform
             /\ rows'[k].created = rows[k].created /\ rows'[k].rowid = rows[k].rowid
    PROVE  Protected'
<1> SUFFICES ASSUME NEW k \in Pending' \cap Stored'
             PROVE  Cardinality(Survivors(k)') >= KeepLast
  BY DEF Protected
<1>1. k \in Pending \cap Stored
  OBVIOUS
<1>2. Survivors(k) \subseteq Survivors(k)'
  <2>1. ASSUME NEW j \in Newer(k), j \notin Pending PROVE j \in Newer(k)' /\ j \notin Pending'
    <3>1. j \in Stored \cap Stored'
      BY <2>1 DEF Newer
    <3>2. QED
      BY <1>1, <2>1, <3>1 DEF Newer, SameGroup, After
  <2>2. QED
    BY <2>1 DEF Survivors
<1>3. Survivors(k)' \subseteq Key
  BY DEF Survivors, Newer, Stored
<1>4. Cardinality(Survivors(k)) <= Cardinality(Survivors(k)')
  BY <1>2, <1>3, NewerFinite
<1>5. Cardinality(Survivors(k)) \in Nat /\ Cardinality(Survivors(k)') \in Nat
  BY <1>2, <1>3, NewerFinite
<1>6. Cardinality(Survivors(k)) >= KeepLast
  BY <1>1 DEF Protected
<1>7. QED
  BY <1>4, <1>5, <1>6, NumbersAreNatural

\* What a step does to the lists.
LEMMA ListsStep ==
    ASSUME KeepInv, [Next]_vars
    PROVE  /\ DeletingPending' /\ IdleHasNoList'
           /\ \/ Pending' \subseteq Pending
              \/ rows' = rows /\ Pending' \subseteq Pending \cup Candidates
<1> USE DEF KeepInv, Typed, TypeOK, DeletingPending, IdleHasNoList
<1>1. CASE UNCHANGED <<gpc, todo, cur>>
  BY <1>1 DEF Pending
<1>2. ASSUME NEW g \in Collector, GcStart(g)
      PROVE  /\ DeletingPending' /\ IdleHasNoList'
             /\ rows' = rows /\ Pending' \subseteq Pending \cup Candidates
  BY <1>2 DEF GcStart, Pending, Candidates
<1>3. ASSUME NEW g \in Collector, CollectorStep(g), ~GcStart(g)
      PROVE  DeletingPending' /\ IdleHasNoList' /\ Pending' \subseteq Pending
  <2>1. \A h \in Collector : todo'[h] \subseteq todo[h]
    BY <1>3 DEF CollectorStep, GcSelect, GcSkip, GcDeleteRow, GcCount, GcDeleteBlob, GcFails,
                GcEnd, DropCandidate
  <2>2. Pending' \subseteq Pending
    BY <2>1 DEF Pending
  <2>3. \A h \in Collector \ {g} : todo'[h] = todo[h] /\ gpc'[h] = gpc[h] /\ cur'[h] = cur[h]
    BY <1>3 DEF CollectorStep, GcSelect, GcSkip, GcDeleteRow, GcCount, GcDeleteBlob, GcFails,
                GcEnd, DropCandidate, NextCandidate
  <2>4. gpc'[g] = "idle" => todo'[g] = {}
    BY <1>3 DEF CollectorStep, GcSelect, GcSkip, GcDeleteRow, GcCount, GcDeleteBlob, GcFails,
                GcEnd, NextCandidate
  <2>5. gpc'[g] = "delete" => \E c \in todo'[g] : c.key = cur'[g].key
    BY <1>3 DEF CollectorStep, GcSelect, GcSkip, GcDeleteRow, GcCount, GcDeleteBlob, GcFails,
                GcEnd, NextCandidate, OldestYanks
  <2>6. QED
    BY <2>2, <2>3, <2>4, <2>5
<1>4. QED
  <2>1. CASE Tick \/ UNCHANGED vars
    BY <1>1, <2>1 DEF Tick, vars, gcVars
  <2>2. ASSUME NEW w \in Writer, WriterStep(w) PROVE UNCHANGED <<gpc, todo, cur>>
    BY <2>2 DEF WriterStep, PublishBegin, PublishPrecheck, PublishPut, InsertConflict,
                PublishInsert, PublishExtract, PublishUpdateInfo, PromoteRead, PromoteInsert,
                WriterFails, gcVars
  <2>3. ASSUME NEW k \in Key, Yank(k) \/ Unyank(k) PROVE UNCHANGED <<gpc, todo, cur>>
    BY <2>3 DEF Yank, Unyank, gcVars
  <2>4. QED
    BY <1>1, <1>2, <1>3, <2>1, <2>2, <2>3 DEF Next

\* A row that goes was on a list.
LEMMA DeletedWasPending ==
    ASSUME KeepInv, [Next]_vars
    PROVE  Stored \ Stored' \subseteq Pending
<1> SUFFICES ASSUME NEW k \in Stored \ Stored' PROVE k \in Pending
  OBVIOUS
<1>1. PICK g \in Collector : GcDeleteRow(g) /\ k = cur[g].key
  BY RowsStep DEF KeepInv
<1>2. QED
  BY <1>1 DEF GcDeleteRow, KeepInv, DeletingPending, Pending, Stored

\* The invariant only needs that no row on a list appears anew.
LEMMA KeepInvUnlessRevived ==
    ASSUME KeepInv, [Next]_vars, Pending \cap Stored' \subseteq Stored
    PROVE  KeepInv'
<1>1. Typed'
  BY NextTyped DEF KeepInv
<1>2. DeletingPending' /\ IdleHasNoList'
  BY ListsStep
<1>3. Protected'
  <2>1. CASE Pending' \subseteq Pending
    BY <2>1, DeletedWasPending, RowsStep, OthersProtect DEF KeepInv
  <2>2. CASE rows' = rows /\ Pending' \subseteq Pending \cup Candidates
    BY <2>2, ListingProtects DEF KeepInv
  <2>3. QED
    BY <2>1, <2>2, ListsStep
<1>4. Solo => Pending' \subseteq Stored'
  <2> SUFFICES ASSUME Solo, NEW k \in Pending' PROVE k \in Stored'
    OBVIOUS
  <2>1. k \in Stored
    BY ListsStep DEF KeepInv, Candidates
  <2>2. ASSUME k \notin Stored' PROVE FALSE
    <3>1. PICK g \in Collector : GcDeleteRow(g) /\ k = cur[g].key
      BY <2>1, <2>2, RowsStep DEF KeepInv
    <3>2. todo' = [todo EXCEPT ![g] = {c \in todo[g] : c.key # k}]
      BY <3>1 DEF GcDeleteRow, DropCandidate
    <3>3. PICK h \in Collector : \E c \in todo'[h] : c.key = k
      BY DEF Pending
    <3>4. h = g
      BY DEF Solo
    <3>5. QED
      BY <3>2, <3>3, <3>4 DEF KeepInv, Typed, TypeOK
  <2>3. QED
    BY <2>2
<1>5. QED
  BY <1>1, <1>2, <1>3, <1>4 DEF KeepInv

LEMMA NextKeepInv ==
    ASSUME Window \/ Solo, Window => WindowInv, KeepInv, [Next]_vars
    PROVE  KeepInv'
<1>1. Pending \cap Stored' \subseteq Stored
  <2>1. CASE Solo
    BY <2>1 DEF KeepInv
  <2>2. CASE Window /\ Stored' \ Stored # {}
    <3>1. PICK w \in Writer : WriterStep(w)
      BY <2>2, RowsStep DEF KeepInv
    <3>2. \A g \in Collector : gpc[g] = "idle"
      BY <2>2, <3>1
         DEF WindowInv, Exclusive, WriterStep, PublishBegin, PublishPrecheck, PublishPut,
             InsertConflict, PublishInsert, PublishExtract, PublishUpdateInfo, PromoteRead,
             PromoteInsert, WriterFails, MayWrite
    <3>3. Pending = {}
      BY <3>2 DEF KeepInv, IdleHasNoList, Pending
    <3>4. QED
      BY <3>3
  <2>3. QED
    BY <2>1, <2>2
<1>2. QED
  BY <1>1, KeepInvUnlessRevived

\* A row that goes leaves KeepLast newer ones.
LEMMA RowGoesBehind ==
    ASSUME KeepInv, [Next]_vars, NEW k \in Stored \ Stored'
    PROVE  Cardinality(Newer(k)) >= KeepLast
<1>1. Cardinality(Survivors(k)) >= KeepLast
  BY DeletedWasPending DEF KeepInv, Protected
<1>2. Survivors(k) \subseteq Newer(k) /\ Newer(k) \subseteq Key
  BY DEF Survivors, Newer, Stored
<1>3. /\ Cardinality(Survivors(k)) <= Cardinality(Newer(k))
      /\ Cardinality(Survivors(k)) \in Nat /\ Cardinality(Newer(k)) \in Nat
  BY <1>2, NewerFinite
<1>4. QED
  BY <1>1, <1>3, NumbersAreNatural

\* Whatever collections listed and whatever happened since, a row goes only
\* while KeepLast newer rows of its group stay: when no other write runs
\* during a collection, or when collections do not overlap.
THEOREM KeepLastHolds == Window \/ Solo => (Spec => KeepLastRespected)
<1> SUFFICES ASSUME Window \/ Solo PROVE Spec => KeepLastRespected
  OBVIOUS
<1>1. Spec => [](Window => WindowInv)
  <2>1. CASE Window
    BY <2>1, WindowInvariant, PTL
  <2>2. CASE ~Window
    <3>1. Window => WindowInv
      BY <2>2
    <3>2. QED
      BY <2>2, PTL
  <2>3. QED
    BY <2>1, <2>2
<1>2. Init => KeepInv
  BY InitKeepInv
<1>3. (Window => WindowInv) /\ KeepInv /\ [Next]_vars => KeepInv'
  BY NextKeepInv
<1>4. KeepInv /\ [Next]_vars =>
        [\A k \in Stored \ Stored' : Cardinality(Newer(k)) >= KeepLast]_vars
  BY RowGoesBehind
<1>5. QED
  BY <1>1, <1>2, <1>3, <1>4, PTL DEF Spec, KeepLastRespected

\* A publish or a promote inserts a release that a collection has listed, which
\* another has deleted meanwhile.
Revives == Pending \cap (Stored' \ Stored) # {}

\* Window or not, and with any number of collections, keep-last fails in one way
\* only: a name that one collection has listed is deleted by another and
\* published anew.  Yanks and unyanks in between do it no harm.
THEOREM OnlyRevivalsSpoilKeepLast ==
    Spec /\ [][~Revives]_vars => KeepLastRespected
<1>1. Init => KeepInv
  BY InitKeepInv
<1>2. KeepInv /\ [Next]_vars /\ [~Revives]_vars => KeepInv'
  <2> SUFFICES ASSUME KeepInv, [Next]_vars, [~Revives]_vars PROVE KeepInv'
    OBVIOUS
  <2>1. Pending \cap Stored' \subseteq Stored
    BY DEF Revives, vars, Stored
  <2>2. QED
    BY <2>1, KeepInvUnlessRevived
<1>3. KeepInv /\ [Next]_vars =>
        [\A k \in Stored \ Stored' : Cardinality(Newer(k)) >= KeepLast]_vars
  BY RowGoesBehind
<1>4. QED
  BY <1>1, <1>2, <1>3, PTL DEF Spec, KeepLastRespected

-----------------------------------------------------------------------------
(* How many rows the rule shields *)

\* SQLite never gives two rows that are there at once the same rowid.
RowidsDiffer == \A j, k \in Stored : rows[j].rowid = rows[k].rowid => j = k

LEMMA InsertIsLast ==
    ASSUME Typed, NEW w \in Writer, wpc[w] # "idle", InsertRow(req[w])
    PROVE  \A k \in Stored : rows[k].rowid < rows'[req[w].key].rowid
<1>1. req[w] \in Request /\ req[w].key \in Key
  BY DEF Typed, TypeOK, WritersHaveRequests, Request
<1>2. PICK id \in Rowid :
        /\ NewRowid(id)
        /\ rows' = [rows EXCEPT ![req[w].key] =
                      [platform |-> req[w].platform, blob |-> req[w].blob,
                       created |-> req[w].created, rowid |-> id, yanked |-> FALSE,
                       yankedAt |-> 0, info |-> req[w].info]]
  BY DEF InsertRow
<1>3. rows'[req[w].key].rowid = id
  BY <1>1, <1>2 DEF Typed, TypeOK
<1>4. QED
  BY <1>2, <1>3 DEF NewRowid

LEMMA NextRowids == Typed /\ RowidsDiffer /\ [Next]_vars => RowidsDiffer'
<1> SUFFICES ASSUME Typed, RowidsDiffer, [Next]_vars PROVE RowidsDiffer'
  OBVIOUS
<1>1. \A k \in Stored \cap Stored' : rows'[k].rowid = rows[k].rowid
  BY RowsStep
<1>2. CASE Stored' \subseteq Stored
  BY <1>1, <1>2 DEF RowidsDiffer
<1>3. CASE ~(Stored' \subseteq Stored)
  <2>1. PICK k \in Stored' \ Stored : TRUE
    BY <1>3
  <2>2. PICK w \in Writer : WriterStep(w) /\ wpc[w] \in {"insert", "copy"}
    BY <2>1, RowsAppear
  <2>3. CASE InsertRow(req[w])
    <3>1. Stored' = Stored \cup {req[w].key} /\ req[w].key \notin Stored
      BY <2>2, <2>3, RowInserted
    <3>2. \A j \in Stored : rows[j].rowid < rows'[req[w].key].rowid
      BY <2>2, <2>3, InsertIsLast
    <3>3. \A j \in Stored : rows'[j].rowid # rows'[req[w].key].rowid
      <4>1. \A j \in Stored : rows[j].rowid \in Int /\ rows'[j].rowid = rows[j].rowid
        BY <1>1, <3>1 DEF Typed, TypeOK, Stored, Row, Rowid
      <4>2. rows'[req[w].key].rowid \in Int
        <5>1. Typed'
          BY NextTyped
        <5>2. req[w].key \in Stored'
          BY <3>1
        <5>3. QED
          BY <5>1, <5>2 DEF Typed, TypeOK, Stored, Row, Rowid
      <4>3. QED
        BY <3>2, <4>1, <4>2
    <3>4. QED
      BY <1>1, <3>1, <3>3 DEF RowidsDiffer
  <2>4. CASE rows' = rows
    BY <1>3, <2>4 DEF Stored
  <2>5. QED
    BY <2>2, <2>3, <2>4
       DEF WriterStep, PublishBegin, PublishPrecheck, PublishPut, InsertConflict,
           PublishInsert, PublishExtract, PublishUpdateInfo, PromoteRead, PromoteInsert,
           WriterFails
<1>4. QED
  BY <1>2, <1>3

\* Of two rows of a group one is listed before the other.
LEMMA GroupIsOrdered ==
    ASSUME Typed, RowidsDiffer, NEW j \in Stored, NEW k \in Stored, SameGroup(j, k), j # k
    PROVE  j \in Newer(k) \/ k \in Newer(j)
<1>1. \A x \in {j, k} : rows[x].created \in Int /\ rows[x].rowid \in Int
  BY DEF Typed, TypeOK, Stored, Row, Time, Rowid
<1>2. rows[j].rowid # rows[k].rowid
  BY DEF RowidsDiffer
<1>3. SameGroup(k, j)
  BY DEF SameGroup
<1>4. QED
  BY <1>1, <1>2, <1>3 DEF Newer, After

\* A set of rows of one group with a member has one that all the others are
\* listed before.
LEMMA OldestMember ==
    ASSUME Typed, RowidsDiffer, NEW D, D \subseteq Stored, D # {},
           \A x, y \in D : SameGroup(x, y)
    PROVE  \E m \in D : D \ {m} \subseteq Newer(m)
<1> DEFINE T == {Key \ Newer(x) : x \in D}
<1>1. T \subseteq SUBSET Key /\ T # {}
  OBVIOUS
<1>2. IsWellFoundedOn(StrictSubsetOrdering(Key), SUBSET Key)
  BY KeyIsFinite, FS_FiniteSubsetsOfFinite, FS_StrictSubsetOrderingWellFounded
<1> HIDE DEF T
<1>3. PICK N \in T : \A M \in T : <<M, N>> \notin StrictSubsetOrdering(Key)
  BY <1>1, <1>2, WFMin
<1>4. PICK m \in D : N = Key \ Newer(m)
  BY DEF T
<1>5. ASSUME NEW x \in D \ {m}, x \notin Newer(m) PROVE FALSE
  <2>1. m \in Newer(x)
    BY <1>5, GroupIsOrdered
  <2>2. Newer(m) \subseteq Newer(x) /\ m \notin Newer(m) /\ m \in Key
    BY <1>5, <2>1, NewerTransitive, NewerIrreflexive DEF Stored
  <2>3. Key \ Newer(x) \in T
    BY <1>5 DEF T
  <2>4. <<Key \ Newer(x), Key \ Newer(m)>> \in StrictSubsetOrdering(Key)
    BY <2>1, <2>2 DEF StrictSubsetOrdering
  <2>5. QED
    BY <1>3, <1>4, <2>3, <2>4
<1>6. QED
  BY <1>5

\* All but the oldest shielded row are newer than that one, which has fewer than
\* KeepLast newer ones.
LEMMA ShieldIsSmall ==
    ASSUME Typed, RowidsDiffer, NEW k \in Stored
    PROVE  Cardinality(Shielded(k)) <= KeepLast
<1> DEFINE D == Shielded(k)
<1>1. D \subseteq Stored /\ D \subseteq Key /\ \A x, y \in D : SameGroup(x, y)
  BY DEF Shielded, Stored, SameGroup
<1>2. CASE D = {}
  BY <1>2, FS_EmptySet, NumbersAreNatural
<1>3. CASE D # {}
  <2>1. PICK m \in D : D \ {m} \subseteq Newer(m)
    BY <1>1, <1>3, OldestMember
  <2>2. Cardinality(Newer(m)) < KeepLast
    BY <2>1 DEF Shielded
  <2>3. Newer(m) \subseteq Key
    BY DEF Newer, Stored
  <2>4. Cardinality(D \ {m}) <= Cardinality(Newer(m)) /\ Cardinality(Newer(m)) \in Nat
    BY <2>1, <2>3, NewerFinite
  <2>5. IsFiniteSet(D) /\ Cardinality(D) \in Nat
    BY <1>1, NewerFinite
  <2>6. Cardinality(D \ {m}) = Cardinality(D) - 1
    BY <2>1, <2>5, FS_RemoveElement
  <2>7. QED
    BY <2>2, <2>4, <2>5, <2>6, NumbersAreNatural
<1>4. QED
  BY <1>2, <1>3

\* The newest row of a group that is not shielded has KeepLast shielded ones
\* before it.
LEMMA ShieldIsFull ==
    ASSUME Typed, NEW k \in Stored, k \notin Shielded(k)
    PROVE  Cardinality(Shielded(k)) >= KeepLast
<1> DEFINE D == {x \in Stored : SameGroup(x, k) /\ ~(Cardinality(Newer(x)) < KeepLast)}
<1>1. SameGroup(k, k)
  BY DEF SameGroup
<1>2. D \subseteq Stored /\ D # {}
  BY <1>1 DEF Shielded
<1>3. PICK m \in D : Newer(m) \cap D = {}
  <2> HIDE DEF D
  <2>1. QED
    BY <1>2, NewestMember
<1>4. Newer(m) \subseteq Shielded(k)
  BY <1>3 DEF Newer, Shielded, SameGroup
<1>5. Newer(m) \subseteq Key /\ Shielded(k) \subseteq Key
  BY DEF Newer, Shielded, Stored
<1>6. /\ Cardinality(Newer(m)) \in Nat /\ Cardinality(Shielded(k)) \in Nat
      /\ Cardinality(Newer(m)) <= Cardinality(Shielded(k))
  BY <1>4, <1>5, NewerFinite
<1>7. ~(Cardinality(Newer(m)) < KeepLast) /\ KeepLast \in Nat
  BY <1>3, NumbersAreNatural
<1>8. QED
  BY <1>6, <1>7

\* keep-last shields exactly the KeepLast newest rows of a group, no more and no
\* fewer, also when rows share a second: of what is older, nothing is kept back.
THEOREM ShieldExact == Spec => []ShieldIsExact
<1>1. Init => Typed /\ RowidsDiffer
  <2>1. Init => Stored = {}
    BY DEF Init, Stored
  <2>2. QED
    BY <2>1, InitTyped DEF RowidsDiffer
<1>2. (Typed /\ RowidsDiffer) /\ [Next]_vars => (Typed /\ RowidsDiffer)'
  BY NextTyped, NextRowids
<1>3. Typed /\ RowidsDiffer => ShieldIsExact
  <2> SUFFICES ASSUME Typed, RowidsDiffer, NEW k \in Stored
               PROVE  /\ Cardinality(Shielded(k)) <= KeepLast
                      /\ k \in Shielded(k) \/ Cardinality(Shielded(k)) = KeepLast
    BY DEF ShieldIsExact
  <2>1. Cardinality(Shielded(k)) \in Nat
    <3>1. Shielded(k) \subseteq Key
      BY DEF Shielded, Stored
    <3>2. QED
      BY <3>1, NewerFinite
  <2>2. QED
    BY <2>1, ShieldIsSmall, ShieldIsFull, NumbersAreNatural
<1>4. QED
  BY <1>1, <1>2, <1>3, PTL DEF Spec

-----------------------------------------------------------------------------
(* The catalogue implements ReleaseSpec, in a window or while no two actors *)
(* meet on one release                                                     *)

Releases == [k \in Key |-> IF k \in Stored THEN ReleaseOf(k) ELSE None]

\* What the mapping shows of a row that has its bytes.
RowSeen(k) ==
    [platform |-> rows[k].platform, body |-> rows[k].blob, created |-> rows[k].created,
     place |-> rows[k].rowid, yanked |-> rows[k].yanked, yankedAt |-> rows[k].yankedAt]

Shown ==
    /\ Releases \in [Key -> Promise!Release \cup {None}]
    /\ \A k \in Key \ Stored : Releases[k] = None
    /\ \A k \in Stored : Releases[k] \in Promise!Release /\ Releases[k] = RowSeen(k)

\* A request's time is not ahead of the clock.
Stamped == \A w \in Writer : req[w] # None => req[w].created <= now

ImplInv == Typed /\ NoDangling /\ PendingOld /\ KeepInv /\ Stamped

LEMMA StampedInit == Init => Stamped
BY DEF Init, Stamped

LEMMA StampedNext ==
    ASSUME Typed, Stamped, [Next]_vars
    PROVE  Stamped'
<1> USE NumbersAreNatural DEF Time
<1>1. now \in Int /\ now >= 0 /\ now' \in Int /\ now' >= now
  <2>1. now' = now \/ now' = now + 1
    BY DEF Next, Tick, WriterStep, PublishBegin, PublishPrecheck, PublishPut, InsertConflict,
           PublishInsert, PublishExtract, PublishUpdateInfo, PromoteRead, PromoteInsert,
           WriterFails, Yank, Unyank, CollectorStep, GcStart, GcSelect, GcSkip, GcDeleteRow,
           GcCount, GcDeleteBlob, GcFails, GcEnd, vars
  <2>2. now \in Int /\ now >= 0
    BY DEF Typed, TypeOK
  <2>3. QED
    BY <2>1, <2>2
<1>2. \A w \in Writer : req[w] # None => req[w] \in Request /\ req[w].created \in Int
  BY DEF Typed, TypeOK, Request
<1>3. CASE req' = req
  BY <1>1, <1>2, <1>3 DEF Stamped
<1>4. ASSUME NEW w \in Writer, WriterStep(w) PROVE Stamped'
  <2>1. ASSUME NEW r, req' = [req EXCEPT ![w] = r], r # None => r.created <= now'
        PROVE  Stamped'
    BY <1>1, <1>2, <2>1 DEF Stamped, Typed, TypeOK
  <2>2. CASE Respond(w)
    BY <2>1, <2>2 DEF Respond
  <2>3. CASE \E k \in Key, p \in Platform, body \in Content, id \in Given :
               PublishBegin(w, k, p, body, id)
    BY <1>1, <2>1, <2>3 DEF PublishBegin
  <2>4. CASE PublishPut(w)
    <3>1. req[w] \in Request /\ req' = [req EXCEPT ![w] = [req[w] EXCEPT !.created = now]]
      BY <2>4 DEF PublishPut, Typed, TypeOK, WritersHaveRequests
    <3>2. [req[w] EXCEPT !.created = now].created = now
      BY <3>1 DEF Request
    <3>3. QED
      BY <1>1, <2>1, <3>1, <3>2
  <2>5. CASE \E app \in App, version \in Version, from \in Channel \cup {None}, to \in Channel :
               PromoteRead(w, app, version, from, to)
    BY <1>1, <2>1, <2>5 DEF PromoteRead
  <2>6. QED
    BY <1>3, <1>4, <2>2, <2>3, <2>4, <2>5
       DEF WriterStep, PublishPrecheck, InsertConflict, PublishInsert, PublishExtract,
           PublishUpdateInfo, PromoteInsert, WriterFails
<1>5. QED
  BY <1>3, <1>4
     DEF Next, Tick, Yank, Unyank, CollectorStep, GcStart, GcSelect, GcSkip, GcDeleteRow,
         GcCount, GcDeleteBlob, GcFails, GcEnd, vars, writerVars

LEMMA SeenRows == Typed /\ NoDangling => Shown
<1> SUFFICES ASSUME Typed, NoDangling, NEW k \in Stored
             PROVE  Releases[k] \in Promise!Release /\ Releases[k] = RowSeen(k)
  BY DEF Shown, Releases, Stored
<1>1. rows[k] \in Row /\ rows[k].blob \in blobs /\ k \in Key
  BY DEF Typed, TypeOK, Stored, NoDangling
<1>2. Releases[k] = RowSeen(k)
  BY <1>1 DEF Releases, ReleaseOf, RowSeen
<1>3. rows[k].rowid \in Nat \ {0}
  BY <1>1, NumbersAreNatural DEF Row, Rowid
<1>4. QED
  BY <1>1, <1>2, <1>3 DEF Promise!Release, Row, Time, RowSeen

LEMMA SeenPresent == Typed /\ NoDangling => Promise!Present = Stored
<1> SUFFICES ASSUME Typed, NoDangling PROVE Promise!Present = Stored
  OBVIOUS
<1>1. Promise!Present = {k \in Key : Releases[k] # None}
  BY DEF Promise!Present, Releases
<1>2. \A k \in Key : Releases[k] # None <=> k \in Stored
  BY SeenRows, NoneIsNoRelease DEF Shown
<1>3. QED
  BY <1>1, <1>2 DEF Stored

LEMMA SeenNewer ==
    ASSUME Typed, NoDangling, NEW k \in Stored
    PROVE  Promise!Newer(k) = Newer(k)
<1>1. Promise!Present = Stored
  BY SeenPresent
<1>2. \A j \in Stored :
        /\ Releases[j].platform = rows[j].platform
        /\ Releases[j].created = rows[j].created
        /\ Releases[j].place = rows[j].rowid
  <2> SUFFICES ASSUME NEW j \in Stored
               PROVE  /\ Releases[j].platform = rows[j].platform
                      /\ Releases[j].created = rows[j].created
                      /\ Releases[j].place = rows[j].rowid
    OBVIOUS
  <2>1. Releases[j] = RowSeen(j)
    BY SeenRows DEF Shown
  <2>2. QED
    BY <2>1 DEF RowSeen
<1>3. QED
  BY <1>1, <1>2 DEF Promise!Newer, Newer, SameGroup, After, Releases

\* Rows that show the same are the same releases.
LEMMA SeenSame ==
    ASSUME Typed, NoDangling, Typed', NoDangling', Stored' = Stored,
           \A k \in Stored :
             /\ rows'[k].blob = rows[k].blob /\ rows'[k].platform = rows[k].platform
             /\ rows'[k].created = rows[k].created /\ rows'[k].rowid = rows[k].rowid
             /\ rows'[k].yanked = rows[k].yanked /\ rows'[k].yankedAt = rows[k].yankedAt
    PROVE  Releases' = Releases
<1>1. Releases' = [k \in Key |-> Releases'[k]] /\ Releases = [k \in Key |-> Releases[k]]
  BY DEF Releases
<1>2. \A k \in Stored : Releases'[k] = Releases[k]
  BY DEF Releases, ReleaseOf, NoDangling
<1>3. \A k \in Key \ Stored : Releases'[k] = Releases[k]
  BY DEF Releases
<1>4. QED
  BY <1>1, <1>2, <1>3


\* An INSERT adds the release its writer holds the bytes of.
LEMMA InsertAdds ==
    ASSUME Typed, NoDangling, Typed', NoDangling', Stamped, now' = now,
           NEW w \in Writer, wpc[w] # "idle", InsertRow(req[w]),
           NEW k, k = req[w].key
    PROVE  k \in Key /\ Promise!Add(k)
<1>1. /\ k \in Key \ Stored /\ Stored' = Stored \cup {k}
      /\ \A j \in Stored : rows'[j] = rows[j]
  BY RowInserted
<1>2. req[w] \in Request /\ req[w].created <= now
  BY DEF Typed, TypeOK, WritersHaveRequests, Stamped
<1>3. PICK id \in Rowid :
        /\ NewRowid(id)
        /\ rows' = [rows EXCEPT ![k] =
                      [platform |-> req[w].platform, blob |-> req[w].blob,
                       created |-> req[w].created, rowid |-> id, yanked |-> FALSE,
                       yankedAt |-> 0, info |-> req[w].info]]
  BY DEF InsertRow
<1>4. /\ rows'[k].rowid = id /\ rows'[k].created = req[w].created
      /\ rows'[k].yanked = FALSE /\ rows'[k].yankedAt = 0
  BY <1>1, <1>3 DEF Typed, TypeOK
<1>5. Promise!Present = Stored /\ Shown /\ Shown'
  BY SeenPresent, SeenRows, PTL
<1>6. Releases'[k] \in Promise!Release /\ Releases'[k] = RowSeen(k)'
  BY <1>1, <1>5 DEF Shown
<1>7. /\ Releases'[k].created = req[w].created /\ Releases'[k].place = id
      /\ Releases'[k].yanked = FALSE /\ Releases'[k].yankedAt = 0
  BY <1>4, <1>6 DEF RowSeen
<1>8. \A j \in Stored : Releases[j].place < id
  <2> SUFFICES ASSUME NEW j \in Stored PROVE Releases[j].place < id
    OBVIOUS
  <2>1. Releases[j] = RowSeen(j)
    BY <1>5 DEF Shown
  <2>2. QED
    BY <1>3, <2>1 DEF NewRowid, RowSeen
<1>9. \A j \in Key \ {k} : Releases'[j] = Releases[j]
  BY <1>1, <1>5 DEF Shown, RowSeen
<1>10. Releases' = [Releases EXCEPT ![k] = Releases'[k]]
  BY <1>1, <1>5, <1>9 DEF Shown
<1>11. QED
  BY <1>1, <1>2, <1>5, <1>6, <1>7, <1>8, <1>10 DEF Promise!Add, Releases

\* Of a yank and an unyank everyone sees what the handler did.
LEMMA YankSeen ==
    ASSUME Typed, NoDangling, Typed', NoDangling', NEW k \in Key, Yank(k) \/ Unyank(k)
    PROVE  Promise!Yank(k) \/ Promise!Unyank(k)
<1>1. k \in Stored /\ k \in Promise!Present /\ rows[k] \in Row /\ now' = now
  BY SeenPresent DEF Yank, Unyank, Typed, TypeOK, Stored
<1>2. /\ Stored' = Stored
      /\ \A j \in Stored :
           /\ rows'[j].blob = rows[j].blob /\ rows'[j].platform = rows[j].platform
           /\ rows'[j].created = rows[j].created /\ rows'[j].rowid = rows[j].rowid
  BY YankEffect
<1>3. \A j \in Key \ {k} : rows'[j] = rows[j] /\ Releases'[j] = Releases[j]
  BY <1>2 DEF Yank, Unyank, Typed, TypeOK, Releases, ReleaseOf, NoDangling
<1>4. \/ Yank(k) /\ rows'[k].yanked = TRUE /\ rows'[k].yankedAt = now
      \/ Unyank(k) /\ rows'[k].yanked = FALSE /\ rows'[k].yankedAt = 0
  BY <1>1 DEF Yank, Unyank, Typed, TypeOK, Row
<1>5. /\ Shown /\ Shown' /\ Releases[k] = RowSeen(k)
      /\ Releases'[k] = [RowSeen(k) EXCEPT !.yanked = rows'[k].yanked,
                                           !.yankedAt = rows'[k].yankedAt]
  <2>1. Shown /\ Shown'
    BY SeenRows, PTL
  <2>2. Releases[k] = RowSeen(k) /\ Releases'[k] = RowSeen(k)'
    BY <1>1, <1>2, <2>1 DEF Shown
  <2>3. /\ rows'[k].blob = rows[k].blob /\ rows'[k].platform = rows[k].platform
        /\ rows'[k].created = rows[k].created /\ rows'[k].rowid = rows[k].rowid
    BY <1>1, <1>2
  <2>4. RowSeen(k)' = [RowSeen(k) EXCEPT !.yanked = rows'[k].yanked,
                                         !.yankedAt = rows'[k].yankedAt]
    <3> DEFINE seen(y, at) ==
          [platform |-> rows[k].platform, body |-> rows[k].blob, created |-> rows[k].created,
           place |-> rows[k].rowid, yanked |-> y, yankedAt |-> at]
    <3>1. RowSeen(k)' = seen(rows'[k].yanked, rows'[k].yankedAt)
      BY <2>3 DEF RowSeen
    <3> DEFINE half == [RowSeen(k) EXCEPT !.yanked = rows'[k].yanked]
    <3>2. half = seen(rows'[k].yanked, rows[k].yankedAt)
      BY DEF RowSeen
    <3> HIDE DEF half
    <3>3. [half EXCEPT !.yankedAt = rows'[k].yankedAt] = seen(rows'[k].yanked, rows'[k].yankedAt)
      BY <3>2
    <3> HIDE DEF seen
    <3>4. QED
      BY <3>1, <3>3 DEF half
  <2>5. QED
    BY <2>1, <2>2, <2>4
<1>6. Releases' = [Releases EXCEPT ![k] = Releases'[k]]
  BY <1>1, <1>3, <1>5 DEF Shown
<1>7. CASE Yank(k) /\ rows'[k].yanked = TRUE /\ rows'[k].yankedAt = now
  <2>1. Releases' = [Releases EXCEPT ![k] = [Releases[k] EXCEPT !.yanked = TRUE, !.yankedAt = now]]
    BY <1>5, <1>6, <1>7
  <2>2. QED
    BY <1>1, <2>1 DEF Promise!Yank, Releases
<1>8. CASE Unyank(k) /\ rows'[k].yanked = FALSE /\ rows'[k].yankedAt = 0
  <2>1. Releases' = [Releases EXCEPT ![k] = [Releases[k] EXCEPT !.yanked = FALSE, !.yankedAt = 0]]
    BY <1>5, <1>6, <1>8
  <2>2. QED
    BY <1>1, <2>1 DEF Promise!Unyank, Releases
<1>9. QED
  BY <1>4, <1>7, <1>8

\* gc's DELETE takes away a release that may go, or one that is gone already.
LEMMA DeleteCollects ==
    ASSUME ImplInv, Typed', NoDangling', NEW g \in Collector, GcDeleteRow(g),
           [Next]_vars, NEW k \in Key, k = cur[g].key
    PROVE  Promise!Collect(k) \/ Releases' = Releases
<1>1. /\ Typed /\ NoDangling /\ now' = now /\ blobs' = blobs
      /\ Stored' = Stored \ {k} /\ \A j \in Key \ {k} : rows'[j] = rows[j]
  BY DEF ImplInv, GcDeleteRow, Typed, TypeOK, Stored
<1>2. \A j \in Key \ {k} : Releases'[j] = Releases[j]
  BY <1>1 DEF Releases, ReleaseOf
<1>3. Shown /\ Shown'
  BY <1>1, SeenRows, PTL
<1>4. CASE k \notin Stored
  <2>1. \A j \in Key : Releases'[j] = Releases[j]
    BY <1>1, <1>2, <1>4 DEF Releases
  <2>2. QED
    BY <1>3, <2>1 DEF Shown
<1>5. CASE k \in Stored
  <2>1. k \in Key /\ Releases'[k] = None
    BY <1>1, <1>5 DEF Releases, Stored
  <2>2. Releases' = [Releases EXCEPT ![k] = None]
    BY <1>2, <1>3, <2>1 DEF Shown
  <2>3. Releases[k].yanked /\ Releases[k].yankedAt <= now - OlderThan
    <3>1. rows[k].yanked /\ rows[k].yankedAt <= now - OlderThan
      BY <1>5 DEF ImplInv, PendingOld, OldYank, GcDeleteRow
    <3>2. Releases[k] = RowSeen(k)
      BY <1>3, <1>5 DEF Shown
    <3>3. QED
      BY <3>1, <3>2 DEF RowSeen
  <2>4. Cardinality(Promise!Newer(k)) >= KeepLast
    BY <1>1, <1>5, SeenNewer, RowGoesBehind DEF ImplInv
  <2>5. k \in Promise!Present
    BY <1>1, <1>5, SeenPresent
  <2>6. QED
    <3>1. Promise!Collect(k) <=> /\ k \in Promise!Present
                                 /\ Releases[k].yanked
                                 /\ Releases[k].yankedAt <= now - OlderThan
                                 /\ Cardinality(Promise!Newer(k)) >= KeepLast
                                 /\ Releases' = [Releases EXCEPT ![k] = None]
                                 /\ UNCHANGED now
      BY DEF Promise!Collect, Releases, Promise!Cardinality, Cardinality
    <3>2. QED
      BY <1>1, <2>2, <2>3, <2>4, <2>5, <3>1
<1>6. QED
  BY <1>4, <1>5

LEMMA StepSeen ==
    ASSUME ImplInv, ImplInv', [Next]_vars
    PROVE  Promise!Next \/ UNCHANGED <<Releases, now>>
<1>1. Typed /\ NoDangling /\ Typed' /\ NoDangling' /\ Stamped
  BY DEF ImplInv
<1>2. CASE rows' = rows /\ now' = now
  <2>1. Releases' = Releases
    BY <1>1, <1>2, SeenSame DEF Stored
  <2>2. QED
    BY <1>2, <2>1
<1>3. CASE Tick
  <2>1. Releases' = Releases
    BY <1>1, <1>3, SeenSame DEF Stored, Tick
  <2>2. now' \in {t \in 0..MaxTime : t > now}
    BY <1>1, <1>3, NumbersAreNatural DEF Tick, Typed, TypeOK, Time
  <2>3. QED
    BY <2>1, <2>2 DEF Promise!Next, Promise!Tick, Releases
<1>4. ASSUME NEW w \in Writer, PublishInsert(w) \/ PromoteInsert(w)
      PROVE  Promise!Next
  <2>1. wpc[w] # "idle" /\ InsertRow(req[w]) /\ now' = now
    BY <1>4 DEF PublishInsert, PromoteInsert
  <2>2. PICK k : k = req[w].key
    OBVIOUS
  <2>3. k \in Key /\ Promise!Add(k)
    BY <1>1, <2>1, <2>2, InsertAdds
  <2>4. QED
    BY <2>3 DEF Promise!Next
<1>5. ASSUME NEW w \in Writer, PublishUpdateInfo(w)
      PROVE  UNCHANGED <<Releases, now>>
  <2>1. req[w] \in Request /\ now' = now
    BY <1>1, <1>5 DEF PublishUpdateInfo, Typed, TypeOK, WritersHaveRequests
  <2>2. \A k \in Stored : rows[k] \in Row
    BY <1>1 DEF Typed, TypeOK, Stored
  <2>3. \A k \in Key : \/ rows'[k] = rows[k]
                       \/ /\ k \in Stored
                          /\ rows'[k] = [rows[k] EXCEPT
                                           !.info = Filled(rows[k].info, req[w].blob)]
    BY <1>5 DEF PublishUpdateInfo
  <2>4. \A k \in Stored : [rows[k] EXCEPT !.info = Filled(rows[k].info, req[w].blob)] \in Row
    BY <2>1, <2>2, FilledType DEF Row, Request
  <2>5. Stored' = Stored
    BY <2>3, <2>4, NoneIsNew DEF Stored
  <2>6. \A k \in Stored :
             /\ rows'[k].blob = rows[k].blob /\ rows'[k].platform = rows[k].platform
             /\ rows'[k].created = rows[k].created /\ rows'[k].rowid = rows[k].rowid
             /\ rows'[k].yanked = rows[k].yanked /\ rows'[k].yankedAt = rows[k].yankedAt
    BY <2>2, <2>3 DEF Row, Stored
  <2>7. QED
    BY <1>1, <2>1, <2>5, <2>6, SeenSame
<1>6. ASSUME NEW k \in Key, Yank(k) \/ Unyank(k) PROVE Promise!Next
  BY <1>1, <1>6, YankSeen DEF Promise!Next
<1>7. ASSUME NEW g \in Collector, GcDeleteRow(g)
      PROVE  Promise!Next \/ UNCHANGED <<Releases, now>>
  <2>1. PICK k \in Key : k = cur[g].key
    BY <1>1, <1>7 DEF GcDeleteRow, Typed, TypeOK, CollectorsHaveCandidates, Doomed
  <2>2. now' = now /\ (Promise!Collect(k) \/ Releases' = Releases)
    BY <1>1, <1>7, <2>1, DeleteCollects DEF GcDeleteRow
  <2>3. QED
    BY <2>1, <2>2 DEF Promise!Next
<1>8. QED
  <2>1. ASSUME NEW w \in Writer, WriterStep(w)
        PROVE  Promise!Next \/ UNCHANGED <<Releases, now>>
    BY <1>2, <1>4, <1>5, <2>1
       DEF WriterStep, PublishBegin, PublishPrecheck, PublishPut, InsertConflict,
           PublishExtract, PromoteRead, WriterFails
  <2>2. ASSUME NEW g \in Collector, CollectorStep(g)
        PROVE  Promise!Next \/ UNCHANGED <<Releases, now>>
    BY <1>2, <1>7, <2>2
       DEF CollectorStep, GcStart, GcSelect, GcSkip, GcCount, GcDeleteBlob, GcFails, GcEnd
  <2>3. CASE UNCHANGED vars
    BY <1>2, <2>3 DEF vars
  <2>4. QED
    BY <1>3, <1>6, <2>1, <2>2, <2>3 DEF Next

\* A behaviour whose states satisfy ImplInv is one of ReleaseSpec.
LEMMA InvImplements == Spec /\ []ImplInv => ImplementsReleaseSpec
<1>1. Init => Promise!Init
  BY DEF Init, Promise!Init, Stored
<1>2. ImplInv /\ ImplInv' /\ [Next]_vars => Promise!Next \/ UNCHANGED <<Releases, now>>
  BY StepSeen
<1>3. QED
  BY <1>1, <1>2, PTL DEF Spec, ImplementsReleaseSpec, Promise!Spec, Releases

\* In a window, whatever the handlers and collections interleave, fail or die,
\* clients see a sequence of atomic operations on releases that own their bytes.
THEOREM WindowImplements == Window => (Spec => ImplementsReleaseSpec)
<1> SUFFICES ASSUME Window PROVE Spec => ImplementsReleaseSpec
  OBVIOUS
<1> DEFINE Inv == WindowInv /\ KeepInv /\ Stamped
<1>1. Init => Inv
  BY InitWindowInv, InitKeepInv, StampedInit
<1>2. Inv /\ [Next]_vars => Inv'
  BY NextWindow, NextKeepInv, StampedNext DEF WindowInv
<1>3. Inv => ImplInv
  BY DEF WindowInv, BytesAndInfo, ImplInv
<1> HIDE DEF Inv
<1>4. QED
  BY <1>1, <1>2, <1>3, InvImplements, PTL DEF Spec

\* Window or not, clients see that sequence of atomic operations as long as no
\* writer races a deletion for one blob and nobody touches a release between
\* its listing and its deletion: those are the only ways out of ReleaseSpec.
THEOREM ImplementsUnlessTheyMeet ==
    Spec /\ []~Race /\ [][~Meddles]_vars => ImplementsReleaseSpec
<1> DEFINE Inv == BytesInv /\ PendingInv /\ KeepInv /\ Stamped
<1>1. Init => Inv
  BY InitWindowInv, InitKeepInv, StampedInit
     DEF WindowInv, BytesAndInfo, BytesInv, PendingInv
<1>2. Inv /\ ~Race /\ [Next]_vars /\ [~Meddles]_vars => Inv'
  <2> SUFFICES ASSUME Inv, ~Race, [Next]_vars, [~Meddles]_vars PROVE Inv'
    OBVIOUS
  <2>1. Pending \cap Stored' \subseteq Stored
    BY DEF Meddles, Listed, Pending, vars, Stored
  <2>2. [Next /\ ~Meddles]_vars
    OBVIOUS
  <2>3. Typed
    BY DEF BytesInv
  <2>4. KeepInv' /\ Stamped'
    BY <2>1, <2>3, KeepInvUnlessRevived, StampedNext
  <2>5. BytesInv' /\ PendingInv'
    BY <2>2, NextBytes, NextPending
  <2>6. QED
    BY <2>4, <2>5
<1>3. Inv => ImplInv
  BY DEF BytesInv, PendingInv, ImplInv
<1> HIDE DEF Inv
<1>4. QED
  BY <1>1, <1>2, <1>3, InvImplements, PTL DEF Spec
=============================================================================
