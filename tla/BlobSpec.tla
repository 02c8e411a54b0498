------------------------------ MODULE BlobSpec -------------------------------
(***************************************************************************)
(* What the callers of a blob store count on: contents kept under their    *)
(* hashes, each there as a whole or not at all, and readers that behave    *)
(* like open files.  Any call may fail, and a call that failed may have    *)
(* taken effect.                                                           *)
(***************************************************************************)
EXTENDS Integers

CONSTANTS
    Procs,      \* concurrent callers
    Contents,   \* what is stored, named by its hash
    Size,       \* how many bytes each has
    Offsets     \* where callers seek to

VARIABLES
    stored,     \* the contents that are there
    file,       \* the file each process has open: which content, at what position
    said        \* the answer of the last call

vars == <<stored, file, said>>

Said(what, key, from, n) == [what |-> what, key |-> key, from |-> from, n |-> n]

Says(what, key, from, n) == said' = Said(what, key, from, n)

NoFile == [open |-> FALSE, key |-> CHOOSE k \in Contents : TRUE, pos |-> 0]
Quiet == Said("none", CHOOSE k \in Contents : TRUE, 0, 0)

Put(p, k) ==
    /\ \/ stored' = stored \cup {k} /\ Says("put", k, 0, Size[k])
       \/ stored' \in {stored, stored \cup {k}} /\ Says("error", k, 0, 0)
    /\ UNCHANGED file

Delete(p, k) ==
    /\ \/ stored' = stored \ {k} /\ Says("deleted", k, 0, 0)
       \/ stored' \in {stored, stored \ {k}} /\ Says("error", k, 0, 0)
    /\ UNCHANGED file

\* A content that is not there is missing now or at the first read.
Open(p, k) ==
    /\ ~file[p].open
    /\ \/ /\ file' = [file EXCEPT ![p] = [open |-> TRUE, key |-> k, pos |-> 0]]
          /\ Says("opened", k, 0, 0)
       \/ k \notin stored /\ Says("missing", k, 0, 0) /\ UNCHANGED file
       \/ Says("error", k, 0, 0) /\ UNCHANGED file
    /\ UNCHANGED stored

\* Bytes come from where the file is, and the end is announced at the end only.
Read(p) ==
    LET f == file[p] IN
    /\ f.open
    /\ \E n \in 0..Size[f.key], what \in {"read", "eof", "error", "missing"} :
        /\ n > 0 => f.pos + n <= Size[f.key]
        /\ what = "eof" => f.pos + n >= Size[f.key]
        /\ what = "missing" => n = 0 /\ f.key \notin stored
        /\ file' = [file EXCEPT ![p].pos = f.pos + n]
        /\ Says(what, f.key, f.pos, n)
    /\ UNCHANGED stored

Seek(p) ==
    /\ file[p].open
    /\ \/ \E to \in Offsets : /\ file' = [file EXCEPT ![p].pos = to]
                             /\ Says("sought", file[p].key, to, 0)
       \/ Says("error", file[p].key, 0, 0) /\ UNCHANGED file
    /\ UNCHANGED stored

Close(p) ==
    /\ file[p].open
    /\ file' = [file EXCEPT ![p] = NoFile] /\ Says("closed", file[p].key, 0, 0)
    /\ UNCHANGED stored

\* A restart keeps what is stored and nothing else.
Restart ==
    /\ file' = [p \in Procs |-> NoFile] /\ said' = Quiet
    /\ UNCHANGED stored

Init ==
    /\ stored = {}
    /\ file = [p \in Procs |-> NoFile] /\ said = Quiet

Next ==
    \/ \E p \in Procs : \/ \E k \in Contents : Put(p, k) \/ Delete(p, k) \/ Open(p, k)
                        \/ Read(p) \/ Seek(p) \/ Close(p)
    \/ Restart

Spec == Init /\ [][Next]_vars
=============================================================================
