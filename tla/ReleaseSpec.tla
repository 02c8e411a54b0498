----------------------------- MODULE ReleaseSpec -----------------------------
(***************************************************************************)
(* What the release catalogue promises its clients, with no blob store, no *)
(* deduplication and no intermediate state: each release owns its bytes,   *)
(* every operation of internal/storage/store.go that changes a release is  *)
(* one atomic step, and a collection removes one release at a time, looking*)
(* at the catalogue as it is then.                                         *)
(***************************************************************************)
EXTENDS Integers, FiniteSets

CONSTANTS Key, Platform, Content, KeepLast, OlderThan, MaxTime, None
CONSTANT SameLine(_, _)     \* two names of one app and one channel

Release == [platform : Platform, body : Content, created : 0..MaxTime, place : Nat \ {0},
            yanked : BOOLEAN, yankedAt : 0..MaxTime]

VARIABLES releases, now

Present == {k \in Key : releases[k] # None}

\* The releases of k's app, channel and platform that came after k.
Newer(k) ==
    {j \in Present :
       /\ SameLine(j, k)
       /\ releases[j].platform = releases[k].platform
       /\ \/ releases[j].created > releases[k].created
          \/ /\ releases[j].created = releases[k].created
             /\ releases[j].place > releases[k].place}

Init == releases = [k \in Key |-> None] /\ now = 0

\* By upload or by promotion: last in the order of insertion, not yanked.
Add(k) ==
    LET new == releases'[k] IN
    /\ k \notin Present
    /\ new \in Release
    /\ new.created <= now
    /\ ~new.yanked /\ new.yankedAt = 0
    /\ \A j \in Present : releases[j].place < new.place
    /\ releases' = [releases EXCEPT ![k] = new]
    /\ UNCHANGED now

Yank(k) ==
    /\ k \in Present
    /\ releases' = [releases EXCEPT ![k].yanked = TRUE, ![k].yankedAt = now]
    /\ UNCHANGED now

Unyank(k) ==
    /\ k \in Present
    /\ releases' = [releases EXCEPT ![k].yanked = FALSE, ![k].yankedAt = 0]
    /\ UNCHANGED now

Collect(k) ==
    /\ k \in Present
    /\ releases[k].yanked
    /\ releases[k].yankedAt <= now - OlderThan
    /\ Cardinality(Newer(k)) >= KeepLast
    /\ releases' = [releases EXCEPT ![k] = None]
    /\ UNCHANGED now

Tick == now' \in {t \in 0..MaxTime : t > now} /\ UNCHANGED releases

Next ==
    \/ \E k \in Key :
         \/ Add(k)
         \/ Yank(k)
         \/ Unyank(k)
         \/ Collect(k)
    \/ Tick

Spec == Init /\ [][Next]_<<releases, now>>
=============================================================================
