----------------------------- MODULE BlobProofs ------------------------------
(***************************************************************************)
(* Both blob stores keep objects whole and readers in place, and implement *)
(* BlobSpec, for every set of callers, contents and sizes.                 *)
(***************************************************************************)
EXTENDS Blob, TLAPS

\* What a Put has staged: all of the content when it is renamed or uploaded.
StagedWell ==
    \A p \in Procs :
        /\ put[p].at # "idle" => put[p].file \in Files
        /\ put[p].at = "copy" => Bytes(p) \in 0..Size[put[p].key]
        /\ put[p].at \in {"rename", "head", "upload"} => Bytes(p) = Size[put[p].key]

\* A file stays open with its reader.
FilesOpen == backend = "fs" => \A p \in Procs : reader[p].open => reader[p].src # NoSrc

\* What is left behind stays.
LeftThere == \A f \in left : temp[f] # Absent

IInv == TypeOK /\ WholeObjects /\ InPlace /\ NoLitter /\ LeftThere /\ StagedWell /\ FilesOpen

LEMMA AnyKeyType == AnyKey \in Contents
BY BlobConstants DEF AnyKey

LEMMA InitIInv == Init => IInv
BY AnyKeyType DEF Init, IInv, TypeOK, WholeObjects, InPlace, NoLitter, Owns, LeftThere, StagedWell, Bytes, FilesOpen,
    NoPut, NoReader, NoSrc, Quiet, Said, Absent, PutType, ReaderType, Source, Answer

\* A Put's own file is there and no other's.
LEMMA OwnFile ==
    ASSUME IInv, NEW p \in Procs, put[p].at # "idle"
    PROVE  /\ put[p].file \in Files /\ temp[put[p].file] \in Nat /\ put[p].file \notin left
           /\ \A q \in Procs \ {p} : put[q].at # "idle" => put[q].file # put[p].file
BY DEF IInv, TypeOK, NoLitter, StagedWell, Owns

\* Steps that leave the readers alone.
LEMMA ReadersKept ==
    ASSUME IInv, UNCHANGED <<backend, reader>>
    PROVE  /\ InPlace' /\ FilesOpen'
           /\ reader' \in [Procs -> ReaderType] /\ backend' \in Backends
BY DEF IInv, InPlace, FilesOpen, TypeOK

\* A Put that ends with its file removed or left behind.
LEMMA PutEnds ==
    ASSUME IInv, NEW p \in Procs, put[p].at # "idle", NEW what \in {"put", "error"},
           PutAnswers(p, what),
           Removed(put[p].file) \/ (left' = left \cup {put[p].file} /\ UNCHANGED temp)
    PROVE  /\ put' \in [Procs -> PutType] /\ temp' \in [Files -> Nat \cup {Absent}]
           /\ left' \subseteq Files /\ said' \in Answer /\ NoLitter' /\ LeftThere' /\ StagedWell'
PROOF
<1> USE BlobConstants DEF IInv, Absent
<1>1. /\ put[p].file \in Files /\ temp[put[p].file] \in Nat /\ put[p].file \notin left
      /\ \A q \in Procs \ {p} : put[q].at # "idle" => put[q].file # put[p].file
  BY OwnFile
<1>2. NoPut \in PutType /\ NoPut.at = "idle"
  BY AnyKeyType DEF NoPut, PutType
<1>3. /\ put' \in [Procs -> PutType] /\ put'[p].at = "idle"
      /\ \A q \in Procs \ {p} : put'[q] = put[q]
  BY <1>2 DEF PutAnswers, TypeOK
<1>4. said' \in Answer
  BY DEF PutAnswers, TypeOK, PutType, Says, Said, Answer
<1>5. /\ temp' \in [Files -> Nat \cup {Absent}] /\ left' \subseteq Files
      /\ \A f \in Files : f # put[p].file => temp'[f] = temp[f] /\ (f \in left' <=> f \in left)
      /\ temp'[put[p].file] = Absent \/ put[p].file \in left'
  BY <1>1 DEF Removed, TypeOK
<1>6. NoLitter'
  BY <1>1, <1>3, <1>5 DEF NoLitter, Owns
<1>7. StagedWell'
  BY <1>1, <1>3, <1>5 DEF StagedWell, Bytes
<1>8. LeftThere'
  BY <1>1, <1>5 DEF LeftThere, Removed, TypeOK
<1> QED BY <1>3, <1>4, <1>5, <1>6, <1>7, <1>8

\* The object of a Put's key becomes what it has staged.
LEMMA WholeStored ==
    ASSUME IInv, NEW p \in Procs, put[p].at \in {"rename", "upload"},
           objects' = [objects EXCEPT ![put[p].key] = Bytes(p)]
    PROVE  objects' \in [Contents -> Nat \cup {Absent}] /\ WholeObjects'
BY BlobConstants DEF IInv, TypeOK, PutType, StagedWell, WholeObjects, Absent

\* The steps of a Put and Delete.
LEMMA PuttingKeeps ==
    ASSUME IInv, NEW p \in Procs,
           Putting(p) \/ \E k \in Contents : Delete(p, k)
    PROVE  IInv'
PROOF
<1> USE BlobConstants DEF IInv, Absent
<1>k. put[p].key \in Contents /\ Size[put[p].key] \in Nat
  BY DEF TypeOK, PutType
<1>e. ASSUME NEW what \in {"put", "error"}, PutReturns(p, what), put[p].at # "idle",
             UNCHANGED <<backend, reader>>,
             objects' \in [Contents -> Nat \cup {Absent}], WholeObjects'
      PROVE  IInv'
  BY <1>e, PutEnds, ReadersKept DEF PutReturns, TypeOK
<1>o. UNCHANGED objects => objects' \in [Contents -> Nat \cup {Absent}] /\ WholeObjects'
  BY DEF TypeOK, WholeObjects
<1>1. CASE \E k \in Contents : Stage(p, k)
  <2> PICK k \in Contents, f \in Files :
          /\ temp[f] = Absent /\ temp' = [temp EXCEPT ![f] = 0]
          /\ put' = [put EXCEPT ![p] = [at |-> "copy", key |-> k, file |-> f]]
    BY <1>1 DEF Stage
  <2>1. put[p].at = "idle" /\ UNCHANGED <<backend, objects, reader, said, left>>
    BY <1>1 DEF Stage
  <2>2. f \notin left /\ \A q \in Procs : put[q].at # "idle" => put[q].file # f
    BY OwnFile DEF LeftThere
  <2>3. /\ put'[p].at = "copy" /\ put'[p].key = k /\ put'[p].file = f
        /\ \A q \in Procs \ {p} : put'[q] = put[q]
        /\ temp'[f] = 0 /\ \A g \in Files : g # f => temp'[g] = temp[g]
    BY DEF TypeOK
  <2>4. TypeOK'
    BY <2>1, <1>o, ReadersKept DEF TypeOK, PutType
  <2>5. NoLitter'
    BY <2>1, <2>2, <2>3 DEF NoLitter, Owns
  <2>6. StagedWell'
    BY <2>1, <2>2, <2>3 DEF StagedWell, Bytes
  <2>7. LeftThere'
    BY <2>1, <2>2, <2>3 DEF LeftThere, TypeOK
  <2> QED BY <2>1, <2>4, <2>5, <2>6, <2>7, <1>o, ReadersKept
<1>2. CASE Copy(p)
  <2> DEFINE f == put[p].file
  <2>1. /\ put[p].at = "copy" /\ temp[f] < Size[put[p].key] /\ put' = put /\ left' = left
        /\ temp' = [temp EXCEPT ![f] = @ + 1]
    BY <1>2 DEF Copy, Bytes
  <2>2. /\ f \in Files /\ temp[f] \in Nat /\ f \notin left
        /\ \A q \in Procs \ {p} : put[q].at # "idle" => put[q].file # f
    BY <2>1, OwnFile
  <2>3. temp'[f] = temp[f] + 1 /\ \A g \in Files : g # f => temp'[g] = temp[g]
    BY <2>1, <2>2 DEF TypeOK
  <2> HIDE DEF f
  <2>4. NoLitter' /\ LeftThere'
    BY <2>1, <2>2, <2>3 DEF NoLitter, Owns, LeftThere, TypeOK
  <2>5. \A q \in Procs \ {p} : put[q].at # "idle" => put[q].file \in Files /\ temp'[put[q].file] = temp[put[q].file]
    BY <2>2, <2>3 DEF StagedWell
  <2>6. StagedWell'
    BY <2>1, <2>2, <2>3, <2>5, <1>k DEF StagedWell, Bytes, f
  <2>7. temp' \in [Files -> Nat \cup {Absent}]
    BY <2>1, <2>2, <2>3 DEF TypeOK
  <2> QED BY <2>1, <2>4, <2>6, <2>7, <1>2, <1>o, ReadersKept DEF Copy, TypeOK
<1>3. CASE Staged(p)
  <2>1. /\ put[p].at = "copy" /\ UNCHANGED <<backend, objects, temp, reader, said, left>>
        /\ Bytes(p) = Size[put[p].key]
    BY <1>3 DEF Staged
  <2>2. PICK at \in {"rename", "head"} : put' = [put EXCEPT ![p].at = at]
    BY <1>3 DEF Staged
  <2>3. /\ put' \in [Procs -> PutType] /\ put'[p].at = at
        /\ put'[p].key = put[p].key /\ put'[p].file = put[p].file
        /\ \A q \in Procs \ {p} : put'[q] = put[q]
    BY <2>2 DEF TypeOK, PutType
  <2>4. NoLitter' /\ StagedWell' /\ LeftThere'
    BY <2>1, <2>3 DEF NoLitter, Owns, StagedWell, Bytes, LeftThere
  <2> QED BY <2>1, <2>3, <2>4, <1>o, ReadersKept DEF TypeOK
<1>4. CASE PutFails(p)
  BY <1>4, <1>e, <1>o DEF PutFails
<1>5. CASE Rename(p)
  <2>1. objects' \in [Contents -> Nat \cup {Absent}] /\ WholeObjects'
    BY <1>5, WholeStored DEF Rename
  <2> QED BY <1>5, <2>1, PutEnds, ReadersKept DEF Rename, TypeOK
<1>6. CASE HeadObject(p)
  <2>1. CASE objects[put[p].key] # Absent
    BY <1>6, <2>1, <1>e, <1>o DEF HeadObject
  <2>2. CASE objects[put[p].key] = Absent
    <3>1. /\ put[p].at = "head" /\ UNCHANGED <<backend, objects, temp, reader, said, left>>
          /\ put' = [put EXCEPT ![p].at = "upload"]
      BY <1>6, <2>2 DEF HeadObject
    <3>2. /\ put' \in [Procs -> PutType] /\ put'[p].at = "upload"
          /\ put'[p].key = put[p].key /\ put'[p].file = put[p].file
          /\ \A q \in Procs \ {p} : put'[q] = put[q]
      BY <3>1 DEF TypeOK, PutType
    <3>3. NoLitter' /\ StagedWell' /\ LeftThere'
      BY <3>1, <3>2 DEF NoLitter, Owns, StagedWell, Bytes, LeftThere
    <3> QED BY <3>1, <3>2, <3>3, <1>o, ReadersKept DEF TypeOK
  <2> QED BY <2>1, <2>2
<1>7. CASE PutObject(p)
  <2>1. objects' \in [Contents -> Nat \cup {Absent}] /\ WholeObjects'
    BY <1>7, WholeStored DEF PutObject
  <2> QED BY <1>7, <2>1, <1>e DEF PutObject
<1>8. CASE \E k \in Contents : Delete(p, k)
  <2> PICK k \in Contents : Delete(p, k)
    BY <1>8
  <2>1. objects' \in [Contents -> Nat \cup {Absent}] /\ WholeObjects'
    BY DEF Delete, TypeOK, WholeObjects
  <2>2. said' \in Answer
    BY DEF Delete, Says, Said, Answer
  <2> QED BY <2>1, <2>2, ReadersKept DEF Delete, TypeOK, NoLitter, Owns, StagedWell, Bytes, LeftThere
<1> QED BY <1>1, <1>2, <1>3, <1>4, <1>5, <1>6, <1>7, <1>8 DEF Putting

\* The readers' steps leave the objects and the Puts alone; what is left to show is the
\* part about the readers.
LEMMA ReaderPart ==
    ASSUME IInv, NEW p \in Procs, UNCHANGED <<backend, objects, put, temp, left>>,
           NEW r \in ReaderType, reader' \in {reader, [reader EXCEPT ![p] = r]}, said' \in Answer,
           r.src # NoSrc => r.src.at = r.pos /\ r.src.len = Size[r.key],
           backend = "fs" /\ r.open => r.src # NoSrc
    PROVE  IInv'
BY DEF IInv, TypeOK, WholeObjects, InPlace, NoLitter, Owns, LeftThere, StagedWell, Bytes, FilesOpen

LEMMA ReadingKeeps ==
    ASSUME IInv, NEW p \in Procs, Reading(p)
    PROVE  IInv'
PROOF
<1> USE BlobConstants DEF Absent, Says, Said, Answer
<1>u. UNCHANGED <<backend, objects, put, temp, left>>
  BY DEF Reading, OpenSeekable, Read, Seek, Close
<1>t. /\ reader[p] \in ReaderType /\ Size[reader[p].key] \in Nat
      /\ \A k \in Contents : objects[k] \in {Absent, Size[k]} /\ Size[k] \in Nat
  BY DEF IInv, TypeOK, ReaderType, WholeObjects
<1>n. ASSUME said' \in Answer, UNCHANGED reader
      PROVE  IInv'
  BY <1>n, <1>u DEF IInv, TypeOK, WholeObjects, InPlace, NoLitter, Owns, LeftThere, StagedWell, Bytes, FilesOpen
<1>r. ASSUME NEW src \in Source, src # NoSrc, src.at = reader[p].pos, src.len = Size[reader[p].key],
             Reads(p, src)
      PROVE  IInv'
  <2>1. PICK n \in 0..(src.len - src.at), what \in {"read", "eof", "error"} :
            /\ reader' = [reader EXCEPT ![p].pos = @ + n, ![p].src = Src(src.at + n, src.len)]
            /\ Says(what, reader[p].key, src.at, n)
    BY <1>r DEF Reads
  <2>2. n \in Nat /\ src.at \in Nat /\ src.len \in Nat
    BY <1>r, <1>t DEF ReaderType
  <2> DEFINE r == [reader[p] EXCEPT !.pos = @ + n, !.src = Src(src.at + n, src.len)]
  <2>3. r \in ReaderType /\ r.src.at = r.pos /\ r.src.len = Size[r.key] /\ r.src # NoSrc
    <3>1. Src(src.at + n, src.len) \in Source /\ Src(src.at + n, src.len) # NoSrc
      BY <2>2 DEF Source, Src, NoSrc
    <3>2. Src(src.at + n, src.len).at = src.at + n /\ Src(src.at + n, src.len).len = src.len
      BY DEF Src
    <3>3. r.pos = reader[p].pos + n /\ r.src = Src(src.at + n, src.len) /\ r.key = reader[p].key
          /\ r.open = reader[p].open
      BY <1>t DEF ReaderType
    <3>4. reader[p].pos + n \in Nat
      BY <1>t, <2>2 DEF ReaderType
    <3>5. r \in ReaderType
      BY <1>t, <3>1, <3>4 DEF ReaderType
    <3> QED BY <1>r, <3>1, <3>2, <3>3, <3>5
  <2>4. reader' = [reader EXCEPT ![p] = r]
    BY <2>1 DEF IInv, TypeOK
  <2>5. said' \in Answer
    BY <2>1, <2>2, <1>t DEF ReaderType
  <2> HIDE DEF r
  <2> QED BY <2>3, <2>4, <2>5, <1>u, ReaderPart
<1>1. CASE \E k \in Contents : OpenSeekable(p, k)
  <2> PICK k \in Contents : OpenSeekable(p, k)
    BY <1>1
  <2>1. said' \in Answer
    BY DEF OpenSeekable, Opens
  <2>2. ASSUME NEW src \in Source, Opens(p, k, src), src # NoSrc \/ backend = "s3",
               src # NoSrc => src = Src(0, Size[k])
        PROVE  IInv'
    <3> DEFINE r == [open |-> TRUE, key |-> k, pos |-> 0, src |-> src]
    <3>1. r \in ReaderType /\ reader' = [reader EXCEPT ![p] = r]
      BY <2>2 DEF ReaderType, Opens
    <3>2. /\ r.src # NoSrc => r.src.at = r.pos /\ r.src.len = Size[r.key]
          /\ backend = "fs" => r.src # NoSrc
      BY <2>2 DEF Src
    <3> HIDE DEF r
    <3> QED BY <3>1, <3>2, <2>1, <1>u, ReaderPart
  <2>3. NoSrc \in Source /\ Src(0, Size[k]) \in Source /\ Src(0, Size[k]) # NoSrc
    BY <1>t DEF NoSrc, Src, Source
  <2>4. \/ backend = "s3" /\ Opens(p, k, NoSrc)
        \/ Opens(p, k, Src(0, Size[k]))
        \/ UNCHANGED reader
    BY <1>t DEF OpenSeekable
  <2> QED BY <2>1, <2>2, <2>3, <2>4, <1>n
<1>2. CASE Read(p)
  <2>1. ASSUME NEW what \in {"eof", "missing", "error"}, ReadFails(p, what)
        PROVE  IInv'
    BY <2>1, <1>n, <1>t DEF ReadFails, ReaderType
  <2>2. CASE Reads(p, reader[p].src) /\ reader[p].src # NoSrc
    <3>1. reader[p].src \in Source /\ reader[p].src.at = reader[p].pos
          /\ reader[p].src.len = Size[reader[p].key]
      BY <2>2, <1>t DEF IInv, InPlace, ReaderType
    <3> QED BY <2>2, <3>1, <1>r
  <2>3. CASE objects[reader[p].key] # Absent /\ Reads(p, Src(reader[p].pos, objects[reader[p].key]))
    <3> DEFINE src == Src(reader[p].pos, Size[reader[p].key])
    <3>1. src \in Source /\ src # NoSrc /\ src.at = reader[p].pos /\ src.len = Size[reader[p].key]
      BY <1>t DEF Src, Source, NoSrc, ReaderType
    <3>2. Reads(p, src)
      BY <2>3, <1>t DEF ReaderType
    <3> HIDE DEF src
    <3> QED BY <3>1, <3>2, <1>r
  <2> QED BY <1>2, <2>1, <2>2, <2>3 DEF Read
<1>3. CASE Seek(p)
  <2>1. CASE Says("error", reader[p].key, 0, 0) /\ UNCHANGED reader
    BY <2>1, <1>n, <1>t DEF ReaderType
  <2>2. ASSUME NEW to \in Offsets,
               reader' = [reader EXCEPT ![p].pos = to,
                            ![p].src = IF backend = "fs" THEN Src(to, reader[p].src.len)
                                       ELSE IF to # reader[p].pos THEN NoSrc ELSE @],
               Says("sought", reader[p].key, to, 0)
        PROVE  IInv'
    <3> DEFINE src == IF backend = "fs" THEN Src(to, reader[p].src.len)
                      ELSE IF to # reader[p].pos THEN NoSrc ELSE reader[p].src
               r == [reader[p] EXCEPT !.pos = to, !.src = src]
    <3>1. to \in Nat /\ reader[p].open /\ said' \in Answer
      BY <2>2, <1>3, <1>t DEF Seek, ReaderType
    <3>2. /\ backend = "fs" => reader[p].src # NoSrc
          /\ reader[p].src # NoSrc => /\ reader[p].src.at = reader[p].pos
                                      /\ reader[p].src.len = Size[reader[p].key]
      BY <3>1 DEF IInv, FilesOpen, InPlace
    <3>3. src \in Source /\ (backend = "fs" => src # NoSrc)
          /\ (src # NoSrc => src.at = to /\ src.len = Size[reader[p].key])
      BY <3>1, <3>2, <1>t DEF Src, Source, NoSrc, ReaderType
    <3>4. reader' = [reader EXCEPT ![p] = r]
      BY <2>2 DEF IInv, TypeOK
    <3> HIDE DEF src
    <3>5. r \in ReaderType /\ r.src = src /\ r.pos = to /\ r.key = reader[p].key
      BY <3>1, <3>3, <1>t DEF ReaderType
    <3> HIDE DEF r
    <3> QED BY <3>1, <3>3, <3>4, <3>5, <1>u, ReaderPart
  <2> QED BY <1>3, <2>1, <2>2 DEF Seek
<1>4. CASE Close(p)
  <2>1. NoReader \in ReaderType /\ NoReader.src = NoSrc /\ ~NoReader.open
    BY AnyKeyType DEF NoReader, ReaderType, NoSrc, Source
  <2>2. reader' = [reader EXCEPT ![p] = NoReader] /\ said' \in Answer
    BY <1>4, <1>t DEF Close, ReaderType
  <2> QED BY <2>1, <2>2, <1>u, ReaderPart
<1> QED BY <1>1, <1>2, <1>3, <1>4 DEF Reading

LEMMA NextKeeps == IInv /\ [Next]_vars => IInv'
PROOF
<1> SUFFICES ASSUME IInv, [Next]_vars
             PROVE  IInv'
  OBVIOUS
<1>1. CASE Crash
  <2>1. TypeOK'
    BY <1>1, OwnFile, AnyKeyType DEF Crash, IInv, TypeOK, NoPut, NoReader, NoSrc, Quiet, Said, Absent,
       PutType, ReaderType, Source, Answer
  <2>2. NoLitter' /\ LeftThere' /\ StagedWell'
    BY <1>1, OwnFile DEF Crash, IInv, NoLitter, Owns, LeftThere, StagedWell, NoPut, Absent
  <2>3. WholeObjects' /\ InPlace' /\ FilesOpen'
    BY <1>1 DEF Crash, IInv, WholeObjects, InPlace, FilesOpen, NoReader
  <2> QED BY <2>1, <2>2, <2>3 DEF IInv
<1>2. CASE UNCHANGED vars
  BY <1>2 DEF vars, IInv, TypeOK, WholeObjects, InPlace, NoLitter, Owns, LeftThere, StagedWell, Bytes, FilesOpen
<1> QED BY <1>1, <1>2, PuttingKeeps, ReadingKeeps DEF Next

\* TypeOK, for every instance.
THEOREM BlobTypeCorrect == Spec => []TypeOK
<1>1. IInv => TypeOK
  BY DEF IInv
<1> QED BY <1>1, InitIInv, NextKeeps, PTL DEF Spec

\* Neither store ever holds part of a content (stagedBlob, Rename, PutObject).
THEOREM ObjectsAreWhole == Spec => []WholeObjects
<1>1. IInv => WholeObjects
  BY DEF IInv
<1> QED BY <1>1, InitIInv, NextKeeps, PTL DEF Spec

\* s3SeekReader never reads from a body that is somewhere else (Read, Seek).
THEOREM ReadersAreInPlace == Spec => []InPlace
<1>1. IInv => InPlace
  BY DEF IInv
<1> QED BY <1>1, InitIInv, NextKeeps, PTL DEF Spec

\* A temporary file outlives its Put in no other way than by a kill or a removal that fails
\* (cleanup), and no two Puts write to one.
THEOREM PutsCleanUp == Spec => []NoLitter
<1>1. IInv => NoLitter
  BY DEF IInv
<1> QED BY <1>1, InitIInv, NextKeeps, PTL DEF Spec

-----------------------------------------------------------------------------
(* The refinement *)

LEMMA InitImplements == Init => B!Init
BY DEF Init, B!Init, Stored, File, B!NoFile, B!Quiet, B!Said, Quiet, Said, NoReader, AnyKey, Absent

\* What is stored after an object was written, removed or left alone.
LEMMA StoredSteps ==
    ASSUME IInv
    PROVE  /\ objects' = objects => Stored' = Stored
           /\ \A k \in Contents : objects' = [objects EXCEPT ![k] = Size[k]]
                => Stored' = Stored \cup {k}
           /\ \A k \in Contents : objects' = [objects EXCEPT ![k] = Absent]
                => Stored' = Stored \ {k}
BY BlobConstants DEF IInv, TypeOK, Stored, Absent

LEMMA FileKept == reader' = reader => File' = File
BY DEF File

LEMMA PutImplements ==
    ASSUME IInv, NEW p \in Procs, Putting(p)
    PROVE  [B!Next]_(B!vars)
PROOF
<1> USE DEF B!Says, B!Said, Says, Said
<1> DEFINE k == put[p].key
<1>k. k \in Contents
  BY DEF IInv, TypeOK, PutType
<1>f. File' = File
  BY FileKept DEF Putting, Stage, Copy, Staged, PutFails, Rename, HeadObject, PutObject
<1>n. ASSUME B!Put(p, k)
      PROVE  B!Next
  BY <1>n, <1>k DEF B!Next
<1>r. /\ PutReturns(p, "put") => said' = Said("put", k, 0, Size[k])
      /\ PutReturns(p, "error") => said' = Said("error", k, 0, 0)
      /\ PutAnswers(p, "put") => said' = Said("put", k, 0, Size[k])
  BY DEF PutReturns, PutAnswers
<1>1. CASE (\E j \in Contents : Stage(p, j)) \/ Copy(p) \/ Staged(p)
  BY <1>1, <1>f, StoredSteps DEF Stage, Copy, Staged, B!vars
<1>2. CASE PutFails(p)
  BY <1>2, <1>f, <1>n, <1>r, StoredSteps DEF PutFails, B!Put
<1>3. CASE Rename(p) \/ PutObject(p)
  <2>1. objects' = [objects EXCEPT ![k] = Size[k]]
    BY <1>3 DEF Rename, PutObject, IInv, StagedWell
  <2> QED BY <2>1, <1>3, <1>f, <1>k, <1>n, <1>r, StoredSteps DEF Rename, PutObject, B!Put
<1>4. CASE HeadObject(p)
  <2>1. CASE objects[k] # Absent
    <3>1. Stored' = Stored /\ Stored = Stored \cup {k}
      BY <1>4, <2>1, <1>k, StoredSteps DEF HeadObject, Stored
    <3> QED BY <1>4, <2>1, <3>1, <1>f, <1>n, <1>r DEF HeadObject, B!Put
  <2>2. CASE objects[k] = Absent
    BY <1>4, <2>2, <1>f, StoredSteps DEF HeadObject, B!vars
  <2> QED BY <2>1, <2>2
<1> QED BY <1>1, <1>2, <1>3, <1>4 DEF Putting

LEMMA DeleteImplements ==
    ASSUME IInv, NEW p \in Procs, NEW k \in Contents, Delete(p, k)
    PROVE  B!Next
PROOF
<1>1. File' = File
  BY FileKept DEF Delete
<1>2. B!Delete(p, k)
  BY <1>1, StoredSteps DEF Delete, B!Delete, B!Says, B!Said, Says, Said
<1> QED BY <1>2 DEF B!Next

LEMMA ReadImplements ==
    ASSUME IInv, NEW p \in Procs, Reading(p)
    PROVE  B!Next
PROOF
<1> USE BlobConstants DEF B!Says, B!Said, Says, Said, Absent
<1>s. Stored' = Stored
  BY StoredSteps DEF Reading, OpenSeekable, Read, Seek, Close
<1>t. /\ reader \in [Procs -> ReaderType] /\ reader[p] \in ReaderType
      /\ \A k \in Contents : objects[k] \in {Absent, Size[k]} /\ Size[k] \in Nat
  BY DEF IInv, TypeOK, WholeObjects
<1>f. /\ File[p].open = reader[p].open /\ File[p].key = reader[p].key
      /\ File[p].pos = reader[p].pos
  BY DEF File
<1>e. ASSUME NEW r \in ReaderType, reader' = [reader EXCEPT ![p] = r]
      PROVE  File' = [File EXCEPT ![p] = [open |-> r.open, key |-> r.key, pos |-> r.pos]]
  BY <1>e, <1>t DEF File
<1>p. ASSUME NEW pos \in Nat, NEW src \in Source,
             reader' = [reader EXCEPT ![p].pos = pos, ![p].src = src]
      PROVE  File' = [File EXCEPT ![p].pos = pos]
  BY <1>p, <1>t DEF File, ReaderType
<1>1. CASE \E k \in Contents : OpenSeekable(p, k)
  <2> PICK k \in Contents : OpenSeekable(p, k)
    BY <1>1
  <2>1. ASSUME NEW src \in Source, Opens(p, k, src)
        PROVE  B!Open(p, k)
    <3>1. [open |-> TRUE, key |-> k, pos |-> 0, src |-> src] \in ReaderType
      BY DEF ReaderType
    <3>2. File' = [File EXCEPT ![p] = [open |-> TRUE, key |-> k, pos |-> 0]]
      BY <2>1, <3>1, <1>e DEF Opens
    <3> QED BY <2>1, <3>2, <1>s, <1>f DEF Opens, OpenSeekable, B!Open
  <2>2. NoSrc \in Source /\ (objects[k] # Absent => Src(0, objects[k]) \in Source)
    BY <1>t DEF NoSrc, Src, Source
  <2>3. ASSUME UNCHANGED reader, \/ objects[k] = Absent /\ Says("missing", k, 0, 0)
                                 \/ Says("error", k, 0, 0)
        PROVE  B!Open(p, k)
    <3>1. File' = File
      BY <2>3, FileKept
    <3>2. objects[k] = Absent => k \notin Stored
      BY DEF Stored
    <3> QED BY <2>3, <3>1, <3>2, <1>s, <1>f DEF OpenSeekable, B!Open
  <2>4. B!Open(p, k)
    BY <2>1, <2>2, <2>3 DEF OpenSeekable
  <2> QED BY <2>4 DEF B!Next
<1>2. CASE Read(p)
  <2> SUFFICES B!Read(p)
    BY DEF B!Next
  <2>r. reader[p].open /\ reader[p].key \in Contents /\ reader[p].pos \in Nat
    BY <1>2, <1>t DEF Read, ReaderType
  <2>b. ASSUME NEW n \in 0..Size[reader[p].key], NEW what \in {"read", "eof", "error", "missing"},
               n > 0 => reader[p].pos + n <= Size[reader[p].key],
               what = "eof" => reader[p].pos + n >= Size[reader[p].key],
               what = "missing" => n = 0 /\ reader[p].key \notin Stored,
               File' = [File EXCEPT ![p].pos = reader[p].pos + n],
               Says(what, reader[p].key, reader[p].pos, n)
        PROVE  B!Read(p)
    BY <2>b, <2>r, <1>s, <1>f DEF B!Read
  <2>l. Length(reader[p]) = Size[reader[p].key]
    BY <2>r DEF Length, IInv, InPlace, FilesOpen
  <2>1. ASSUME NEW what \in {"eof", "missing", "error"}, ReadFails(p, what),
               what = "eof" => reader[p].pos >= Size[reader[p].key],
               what = "missing" => reader[p].key \notin Stored
        PROVE  B!Read(p)
    <3>1. File' = [File EXCEPT ![p].pos = reader[p].pos + 0]
      BY <2>1, <2>r, FileKept DEF ReadFails, File
    <3>2. 0 \in 0..Size[reader[p].key] /\ reader[p].pos + 0 = reader[p].pos /\ ~(0 > 0)
      BY <2>r, <1>t
    <3>3. Says(what, reader[p].key, reader[p].pos, 0)
      BY <2>1 DEF ReadFails
    <3> QED BY <2>1, <3>1, <3>2, <3>3, <2>b, Zenon
  <2>2. ASSUME NEW src \in Source, src.at = reader[p].pos, src.len = Size[reader[p].key],
               Reads(p, src)
        PROVE  B!Read(p)
    <3>1. PICK n \in 0..(src.len - src.at), what \in {"read", "eof", "error"} :
              /\ what = "eof" => src.at + n = src.len
              /\ reader' = [reader EXCEPT ![p].pos = @ + n, ![p].src = Src(src.at + n, src.len)]
              /\ Says(what, reader[p].key, src.at, n)
      BY <2>2 DEF Reads
    <3>2. n \in 0..Size[reader[p].key] /\ reader[p].pos + n <= Size[reader[p].key] /\ n \in Nat
      BY <2>2, <2>r, <1>t
    <3>3. Src(src.at + n, src.len) \in Source
      BY <2>2, <2>r, <3>2, <1>t DEF Src, Source
    <3>4. reader' = [reader EXCEPT ![p].pos = reader[p].pos + n, ![p].src = Src(src.at + n, src.len)]
      BY <3>1
    <3>5. reader[p].pos + n \in Nat
      BY <2>r, <3>2
    <3>6. File' = [File EXCEPT ![p].pos = reader[p].pos + n]
      BY <3>3, <3>4, <3>5, <1>p, Zenon
    <3> QED BY <2>2, <3>1, <3>2, <3>6, <2>b
  <2>3. CASE reader[p].pos >= Size[reader[p].key] /\ ReadFails(p, "eof")
    BY <2>3, <2>1
  <2>4. CASE reader[p].src # NoSrc /\ Reads(p, reader[p].src)
    BY <2>4, <2>2, <1>t DEF IInv, InPlace, ReaderType
  <2>5. CASE objects[reader[p].key] # Absent /\ Reads(p, Src(reader[p].pos, objects[reader[p].key]))
    <3> DEFINE src == Src(reader[p].pos, Size[reader[p].key])
    <3>1. src \in Source /\ src.at = reader[p].pos /\ src.len = Size[reader[p].key]
      BY <2>r, <1>t DEF Src, Source
    <3>2. Reads(p, src)
      BY <2>5, <2>r, <1>t
    <3> HIDE DEF src
    <3> QED BY <3>1, <3>2, <2>2
  <2>6. CASE objects[reader[p].key] = Absent /\ ReadFails(p, "missing")
    BY <2>6, <2>1 DEF Stored
  <2>7. CASE ReadFails(p, "error")
    BY <2>7, <2>1
  <2> QED BY <1>2, <2>l, <2>3, <2>4, <2>5, <2>6, <2>7 DEF Read
<1>3. CASE Seek(p)
  <2>1. CASE Says("error", reader[p].key, 0, 0) /\ UNCHANGED reader
    <3>1. B!Seek(p)
      BY <1>3, <2>1, <1>s, <1>f, FileKept DEF Seek, B!Seek
    <3> QED BY <3>1 DEF B!Next
  <2>2. ASSUME NEW to \in Offsets,
               reader' = [reader EXCEPT ![p].pos = to,
                            ![p].src = IF backend = "fs" THEN Src(to, reader[p].src.len)
                                       ELSE IF to # reader[p].pos THEN NoSrc ELSE @],
               Says("sought", reader[p].key, to, 0)
        PROVE  B!Seek(p)
    <3> DEFINE src == IF backend = "fs" THEN Src(to, reader[p].src.len)
                      ELSE IF to # reader[p].pos THEN NoSrc ELSE reader[p].src
    <3>1. src \in Source
      BY <1>t DEF Src, Source, NoSrc, ReaderType
    <3>2. reader' = [reader EXCEPT ![p].pos = to, ![p].src = src]
      BY <2>2
    <3> HIDE DEF src
    <3>3. File' = [File EXCEPT ![p].pos = to]
      BY <3>1, <3>2, <1>p
    <3> QED BY <1>3, <2>2, <3>3, <1>s, <1>f DEF Seek, B!Seek
  <2>3. B!Seek(p) \/ B!Next
    BY <1>3, <2>1, <2>2 DEF Seek
  <2> QED BY <2>3 DEF B!Next
<1>4. CASE Close(p)
  <2>1. NoReader \in ReaderType
    BY AnyKeyType DEF NoReader, ReaderType, NoSrc, Source
  <2>2. File' = [File EXCEPT ![p] = B!NoFile]
    BY <1>4, <2>1, <1>e DEF Close, NoReader, B!NoFile, AnyKey
  <2>3. B!Close(p)
    BY <1>4, <2>2, <1>s, <1>f DEF Close, B!Close
  <2> QED BY <2>3 DEF B!Next
<1> QED BY <1>1, <1>2, <1>3, <1>4 DEF Reading

LEMMA StepImplements == IInv /\ [Next]_vars => [B!Next]_(B!vars)
PROOF
<1> SUFFICES ASSUME IInv, [Next]_vars
             PROVE  [B!Next]_(B!vars)
  OBVIOUS
<1>1. CASE Crash
  BY <1>1, StoredSteps DEF Crash, B!Next, B!Restart, File, B!NoFile, B!Quiet, B!Said, Quiet, Said,
     NoReader, AnyKey
<1>2. CASE UNCHANGED vars
  BY <1>2, StoredSteps, FileKept DEF vars, B!vars
<1> QED BY <1>1, <1>2, PutImplements, DeleteImplements, ReadImplements DEF Next

\* Both blob stores implement BlobSpec: atomic contents and readers like open files.
THEOREM StoresImplement == Spec => Implements
<1> QED BY InitIInv, NextKeeps, InitImplements, StepImplements, PTL DEF Spec, Implements, B!Spec
=============================================================================
