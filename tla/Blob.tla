-------------------------------- MODULE Blob ---------------------------------
(***************************************************************************)
(* The two blob stores of internal/storage: files under a root directory   *)
(* (blob.go) and S3 objects read through s3SeekReader (s3.go).  The calls  *)
(* of several goroutines, or of several servers on one bucket, interleave  *)
(* between any two requests; the disk and S3 may fail at each.             *)
(***************************************************************************)
EXTENDS Integers

CONSTANTS
    Backends,   \* {"fs", "s3"}
    Procs, Contents, Size, Offsets,     \* see BlobSpec
    Files, NoTemp                       \* the names CreateTemp picks from, and none of them

ASSUME BlobConstants ==
    /\ Backends \subseteq {"fs", "s3"}
    /\ Contents # {} /\ Size \in [Contents -> Nat] /\ Offsets \subseteq Nat
    /\ NoTemp \notin Files

VARIABLES
    backend,
    objects,    \* how many bytes are stored under each key
    put,        \* each caller's Put under way
    temp,       \* how many bytes are in each temporary file
    reader,     \* each caller's reader
    said,       \* history: the answer of the last call
    left        \* history: the temporary files of killed Puts, or that could not be removed

vars == <<backend, objects, put, temp, reader, said, left>>

Absent == -1

AnyKey == CHOOSE k \in Contents : TRUE

Said(what, key, from, n) == [what |-> what, key |-> key, from |-> from, n |-> n]
Quiet == Said("none", AnyKey, 0, 0)
Says(what, key, from, n) == said' = Said(what, key, from, n)

NoPut == [at |-> "idle", key |-> AnyKey, file |-> NoTemp]

\* src is where the file, or the body of the open GetObject, is: at which byte of how many.
NoSrc == [at |-> Absent, len |-> 0]
Src(at, len) == [at |-> at, len |-> len]
NoReader == [open |-> FALSE, key |-> AnyKey, pos |-> 0, src |-> NoSrc]

-----------------------------------------------------------------------------
(* Put: stagedBlob, then the rename or the upload *)

\* What p has staged.
Bytes(p) == temp[put[p].file]

\* CreateTemp picks a name no file has.
Stage(p, k) ==
    /\ put[p].at = "idle"
    /\ \E f \in Files :
         /\ temp[f] = Absent /\ temp' = [temp EXCEPT ![f] = 0]
         /\ put' = [put EXCEPT ![p] = [at |-> "copy", key |-> k, file |-> f]]
    /\ UNCHANGED <<backend, objects, reader, said, left>>

\* Mutant of Copy: written in place, without a temporary file.
CopyInPlace(p) ==
    /\ put[p].at = "copy" /\ Bytes(p) < Size[put[p].key]
    /\ temp' = [temp EXCEPT ![put[p].file] = @ + 1]
    /\ objects' = [objects EXCEPT ![put[p].key] = Bytes(p) + 1]
    /\ UNCHANGED <<backend, put, reader, said, left>>

\* The body is copied and hashed on the way.
Copy(p) ==
    /\ put[p].at = "copy" /\ Bytes(p) < Size[put[p].key]
    /\ temp' = [temp EXCEPT ![put[p].file] = @ + 1]
    /\ UNCHANGED <<backend, objects, put, reader, said, left>>

\* The body is at its end and the hash is known.
Staged(p) ==
    /\ put[p].at = "copy" /\ Bytes(p) = Size[put[p].key]
    /\ put' = [put EXCEPT ![p].at = IF backend = "fs" THEN "rename" ELSE "head"]
    /\ UNCHANGED <<backend, objects, temp, reader, said, left>>

PutAnswers(p, what) ==
    /\ put' = [put EXCEPT ![p] = NoPut]
    /\ Says(what, put[p].key, 0, IF what = "put" THEN Size[put[p].key] ELSE 0)

Removed(f) == temp' = [temp EXCEPT ![f] = Absent] /\ UNCHANGED left

\* Put returns; the deferred cleanup removes the temporary file, and nobody looks whether it
\* could.
PutReturns(p, what) ==
    /\ PutAnswers(p, what)
    /\ \/ Removed(put[p].file)
       \/ left' = left \cup {put[p].file} /\ UNCHANGED temp

\* Mutant of PutFails: returns without the cleanup.
PutFailsLitters(p) ==
    /\ put[p].at # "idle" /\ PutAnswers(p, "error")
    /\ UNCHANGED <<backend, objects, temp, reader, left>>

\* Any step of it fails: the body breaks off, the disk is full, S3 does not answer.
PutFails(p) ==
    /\ put[p].at # "idle" /\ PutReturns(p, "error")
    /\ UNCHANGED <<backend, objects, reader>>

\* The temporary file takes the place of what was there; the cleanup finds nothing.
Rename(p) ==
    /\ put[p].at = "rename"
    /\ objects' = [objects EXCEPT ![put[p].key] = Bytes(p)]
    /\ PutAnswers(p, "put") /\ Removed(put[p].file)
    /\ UNCHANGED <<backend, reader>>

\* An object that is there has the same bytes and is not uploaded again.
HeadObject(p) ==
    /\ put[p].at = "head"
    /\ IF objects[put[p].key] # Absent THEN PutReturns(p, "put")
       ELSE put' = [put EXCEPT ![p].at = "upload"] /\ UNCHANGED <<temp, said, left>>
    /\ UNCHANGED <<backend, objects, reader>>

\* Mutant of PutObject: an upload that failed counts as done.
PutObjectUnchecked(p) ==
    /\ put[p].at = "upload"
    /\ objects' \in {objects, [objects EXCEPT ![put[p].key] = Bytes(p)]}
    /\ PutReturns(p, "put")
    /\ UNCHANGED <<backend, reader>>

\* S3 shows the object when it has all of it; its answer may be lost.
PutObject(p) ==
    /\ put[p].at = "upload"
    /\ objects' = [objects EXCEPT ![put[p].key] = Bytes(p)]
    /\ PutReturns(p, "put") \/ PutReturns(p, "error")
    /\ UNCHANGED <<backend, reader>>

\* Removing what is not there is no error.
Delete(p, k) ==
    /\ put[p].at = "idle"
    /\ \/ objects' = [objects EXCEPT ![k] = Absent] /\ Says("deleted", k, 0, 0)
       \/ objects' = objects /\ Says("error", k, 0, 0)
       \/ /\ backend = "s3" /\ objects' = [objects EXCEPT ![k] = Absent]
          /\ Says("error", k, 0, 0)
    /\ UNCHANGED <<backend, put, temp, reader, left>>

-----------------------------------------------------------------------------
(* Readers *)

Opens(p, k, src) ==
    /\ reader' = [reader EXCEPT ![p] = [open |-> TRUE, key |-> k, pos |-> 0, src |-> src]]
    /\ Says("opened", k, 0, 0)

\* A file is opened at once; on S3 nothing is asked before the first read.
OpenSeekable(p, k) ==
    /\ put[p].at = "idle" /\ ~reader[p].open
    /\ IF backend = "s3" THEN Opens(p, k, NoSrc)
       ELSE \/ objects[k] # Absent /\ Opens(p, k, Src(0, objects[k]))
            \/ objects[k] = Absent /\ Says("missing", k, 0, 0) /\ UNCHANGED reader
            \/ Says("error", k, 0, 0) /\ UNCHANGED reader
    /\ UNCHANGED <<backend, objects, put, temp, left>>

\* Some bytes of src, its end, or an error after some of them.
Reads(p, src) ==
    \E n \in 0..(src.len - src.at), what \in {"read", "eof", "error"} :
        /\ what = "eof" => src.at + n = src.len
        /\ reader' = [reader EXCEPT ![p].pos = @ + n, ![p].src = Src(src.at + n, src.len)]
        /\ Says(what, reader[p].key, src.at, n)

ReadFails(p, what) == Says(what, reader[p].key, reader[p].pos, 0) /\ UNCHANGED reader

\* A file knows its length; s3SeekReader was told it.
Length(r) == IF backend = "fs" THEN r.src.len ELSE Size[r.key]

Read(p) ==
    LET r == reader[p] IN
    /\ put[p].at = "idle" /\ r.open
    /\ IF r.pos >= Length(r) THEN ReadFails(p, "eof")
       ELSE IF r.src # NoSrc THEN Reads(p, r.src)
       ELSE \/ objects[r.key] # Absent /\ Reads(p, Src(r.pos, objects[r.key]))
            \/ objects[r.key] = Absent /\ ReadFails(p, "missing")
            \/ ReadFails(p, "error")
    /\ UNCHANGED <<backend, objects, put, temp, left>>

\* Mutant of Seek: the body stays open.
SeekKeepsBody(p) ==
    /\ put[p].at = "idle" /\ reader[p].open
    /\ \E to \in Offsets :
         /\ reader' = [reader EXCEPT ![p].pos = to]
         /\ Says("sought", reader[p].key, to, 0)
    /\ UNCHANGED <<backend, objects, put, temp, left>>

\* Mutant of Seek: a position before the start is taken.
SeekBeforeStart(p) ==
    /\ put[p].at = "idle" /\ reader[p].open
    /\ \E to \in Offsets \cup {-1} :
         /\ reader' = [reader EXCEPT ![p].pos = to, ![p].src = NoSrc]
         /\ Says("sought", reader[p].key, to, 0)
    /\ UNCHANGED <<backend, objects, put, temp, left>>

\* A file goes there; a body is closed unless it is there already.
Seek(p) ==
    LET r == reader[p] IN
    /\ put[p].at = "idle" /\ r.open
    /\ \/ \E to \in Offsets :
            /\ reader' = [reader EXCEPT ![p].pos = to,
                            ![p].src = IF backend = "fs" THEN Src(to, r.src.len)
                                       ELSE IF to # r.pos THEN NoSrc ELSE @]
            /\ Says("sought", r.key, to, 0)
       \/ Says("error", r.key, 0, 0) /\ UNCHANGED reader
    /\ UNCHANGED <<backend, objects, put, temp, left>>

Close(p) ==
    /\ put[p].at = "idle" /\ reader[p].open
    /\ reader' = [reader EXCEPT ![p] = NoReader]
    /\ Says("closed", reader[p].key, 0, 0)
    /\ UNCHANGED <<backend, objects, put, temp, left>>

-----------------------------------------------------------------------------
\* The process is killed, its clean-ups do not run, and nobody looks for its temporary files
\* again.
Crash ==
    /\ left' = left \cup {put[p].file : p \in {q \in Procs : put[q].at # "idle"}}
    /\ put' = [p \in Procs |-> NoPut]
    /\ reader' = [p \in Procs |-> NoReader] /\ said' = Quiet
    /\ UNCHANGED <<backend, objects, temp>>

Init ==
    /\ backend \in Backends
    /\ objects = [k \in Contents |-> Absent]
    /\ put = [p \in Procs |-> NoPut] /\ temp = [f \in Files |-> Absent] /\ left = {}
    /\ reader = [p \in Procs |-> NoReader] /\ said = Quiet

Putting(p) ==
    \/ \E k \in Contents : Stage(p, k)
    \/ Copy(p) \/ Staged(p) \/ PutFails(p) \/ Rename(p) \/ HeadObject(p) \/ PutObject(p)

Reading(p) ==
    \/ \E k \in Contents : OpenSeekable(p, k)
    \/ Read(p) \/ Seek(p) \/ Close(p)

Next ==
    \/ \E p \in Procs : Putting(p) \/ Reading(p) \/ \E k \in Contents : Delete(p, k)
    \/ Crash

Spec == Init /\ [][Next]_vars

-----------------------------------------------------------------------------
(* Properties *)

PutType == [at : {"idle", "copy", "rename", "head", "upload"}, key : Contents,
            file : Files \cup {NoTemp}]
Source == [at : Nat \cup {Absent}, len : Nat]
ReaderType == [open : BOOLEAN, key : Contents, pos : Nat, src : Source]
Answer == [what : {"none", "put", "error", "deleted", "opened", "missing", "read", "eof",
                   "sought", "closed"}, key : Contents, from : Nat, n : Nat]

\* The type of the state.
TypeOK ==
    /\ backend \in Backends
    /\ objects \in [Contents -> Nat \cup {Absent}]
    /\ put \in [Procs -> PutType] /\ temp \in [Files -> Nat \cup {Absent}] /\ left \subseteq Files
    /\ reader \in [Procs -> ReaderType] /\ said \in Answer

\* A key holds all of the content it names or nothing, whoever crashed or failed halfway.
WholeObjects == \A k \in Contents : objects[k] \in {Absent, Size[k]}

\* The open body delivers the bytes of the position the reader is at, after any seeks,
\* short reads and errors.
InPlace ==
    \A p \in Procs : reader[p].src # NoSrc =>
        reader[p].src.at = reader[p].pos /\ reader[p].src.len = Size[reader[p].key]

Owns(p, f) == put[p].at # "idle" /\ put[p].file = f

\* A temporary file is the one of a Put under way, and of no other, or it was left by a Put
\* that was killed or could not remove it.
NoLitter ==
    /\ \A f \in Files : temp[f] # Absent => f \in left \/ \E p \in Procs : Owns(p, f)
    /\ \A p \in Procs, f \in Files :
         Owns(p, f) => temp[f] # Absent /\ f \notin left /\ \A q \in Procs \ {p} : ~Owns(q, f)

Stored == {k \in Contents : objects[k] # Absent}
File == [p \in Procs |-> [open |-> reader[p].open, key |-> reader[p].key, pos |-> reader[p].pos]]

B == INSTANCE BlobSpec WITH stored <- Stored, file <- File

\* Both stores keep what their callers count on.
Implements == B!Spec
=============================================================================
