----------------------------- MODULE WeixinProofs -----------------------------
(***************************************************************************)
(* Proofs about Weixin, for any number of users, messages, stops and       *)
(* logins.                                                                 *)
(***************************************************************************)
EXTENDS Weixin, TLAPS

USE BoundsAreNatural, SwitchIsBoolean, MessageShape, TornIsNew

\* How far the loop is within what the cursor covers.
Progress ==
    /\ Len(inbox) <= MaxMsg
    /\ base <= at /\ at <= syncBuf
    /\ pc \in {"dispatch", "reply"} => at < syncBuf /\ Command(at + 1)

TypeInv == TypeOK /\ Progress

LEMMA CursorInRange ==
    ASSUME NEW f, NEW n \in Nat, f \in 0..n \cup {Torn}
    PROVE  Cursor(f) \in 0..n
BY DEF Cursor

\* The latest token is that of a message that has arrived.
LEMMA NotedType ==
    ASSUME TypeOK, NEW i \in 1..Len(inbox)
    PROVE  Noted(i) \in [Peer -> 0..Len(inbox)]
<1>1. inbox[i] \in Inbound
  BY DEF TypeOK
<1>2. inbox[i].peer \in Peer \cup {Self}
  BY <1>1
<1>. QED
  BY <1>1, <1>2 DEF TypeOK, Noted

LEMMA FailedType ==
    ASSUME failStreak \in 0..wxMaxFailStreak
    PROVE  Failed \in 0..wxMaxFailStreak /\ Failed % wxMaxFailStreak \in 0..wxMaxFailStreak
BY DEF Failed, wxMaxFailStreak

LEMMA TypeInit == Init => TypeInv
<1>. SUFFICES ASSUME Init PROVE TypeInv
  OBVIOUS
<1>1. inbox \in Seq(Inbound) /\ Len(inbox) = 0
  BY DEF Init
<1>2. tokens \in [Peer -> 0..Len(inbox)] /\ ran \in [1..MaxMsg -> Nat]
  BY <1>1 DEF Init
<1>3. /\ live = 0 /\ saved = 0 /\ cred = 0 /\ file = 0 /\ pc = "down"
      /\ base = 0 /\ syncBuf = 0 /\ at = 0 /\ failStreak = 0
      /\ stops = 0
  BY DEF Init
<1>4. stopping \in BOOLEAN
  BY DEF Init
<1>. QED
  BY <1>1, <1>2, <1>3, <1>4 DEF TypeInv, TypeOK, Progress, wxMaxFailStreak

LEMMA TypeStep == TypeInv /\ [Next]_vars => TypeInv'
<1>. SUFFICES ASSUME TypeInv, [Next]_vars
              PROVE  TypeInv'
  OBVIOUS
<1>. USE DEF TypeInv, TypeOK, Progress, Command, wxMaxFailStreak, server, disk, memory
<1>1. ASSUME NEW m \in Inbound, Arrive(m)
      PROVE  TypeInv'
  BY <1>1 DEF Arrive
<1>2. CASE Expire
  BY <1>2 DEF Expire
<1>2a. CASE Relogin
  BY <1>2a DEF Relogin
<1>3. CASE Start
  BY <1>3, CursorInRange DEF Start, LoadedLogin
<1>4. CASE Crash \/ Return
  <2>1. tokens' \in [Peer -> 0..Len(inbox)']
    BY <1>4 DEF Crash, Return, Down
  <2>2. stops' \in 0..MaxStops
    BY <1>4 DEF Crash, Return
  <2>3. /\ UNCHANGED <<inbox, live, saved, file, cred, ran>>
        /\ pc' = "down"
        /\ base' = 0 /\ syncBuf' = 0 /\ at' = 0 /\ failStreak' = 0
    BY <1>4 DEF Crash, Return, Down
  <2>4. stopping' \in BOOLEAN
    BY <1>4 DEF Crash, Return, Down
  <2>. QED
    BY <2>1, <2>2, <2>3, <2>4
<1>5. CASE Cancel
  BY <1>5 DEF Cancel
<1>6. ASSUME NEW n \in 0..Len(inbox), PollAnswer(n)
      PROVE  TypeInv'
  BY <1>6 DEF PollAnswer
<1>7. CASE PollError \/ PollRefused
  BY <1>7, FailedType DEF PollError, PollRefused
<1>8. CASE PollExpired \/ Wake
  BY <1>8 DEF PollExpired, Wake
<1>9. CASE Save
  BY <1>9 DEF Save, SaveTruncate, SaveWrite, SaveFails
<1>10. CASE HandleSkip
  BY <1>10, NotedType DEF HandleSkip
<1>11. CASE HandleText
  BY <1>11, NotedType DEF HandleText
<1>12. CASE Dispatch
  BY <1>12 DEF Dispatch
<1>13. CASE Reply
  BY <1>13 DEF Reply
<1>13a. CASE BatchDone
  BY <1>13a DEF BatchDone
<1>14. CASE UNCHANGED vars
  BY <1>14 DEF vars
<1>. QED
  BY <1>1, <1>2, <1>2a, <1>3, <1>4, <1>5, <1>6, <1>7, <1>8, <1>9, <1>10, <1>11, <1>12,
     <1>13, <1>13a, <1>14 DEF Next, Handle

\* The type invariant, and with it that the loop never handles a message the
\* poll has not returned (weixin.go:131-140).
THEOREM WeixinTypeCorrect == Spec => [](TypeOK /\ Progress)
<1>1. TypeInv => TypeOK /\ Progress
  BY DEF TypeInv
<1>. QED
  BY <1>1, TypeInit, TypeStep, PTL DEF Spec

-----------------------------------------------------------------------------
(* A command runs at most once *)

\* The cursor file is never behind the loop, and equals the cursor in memory
\* before the first message is handled.
SavedAhead ==
    /\ pc # "write" => file \in Nat
    /\ pc \in {"poll", "retry", "backoff", "pause"} => file = at /\ at = syncBuf
    /\ pc = "save" => file = at
    /\ pc \in {"handle", "dispatch", "reply"} => file = syncBuf

\* The commands up to here may have run.
Reached == IF pc = "down" THEN file ELSE IF pc = "reply" THEN at + 1 ELSE at

RanOnce ==
    \A i \in 1..MaxMsg : ran[i] <= 1 /\ (i > Reached => ran[i] = 0)

OnceInv == SavedAhead /\ RanOnce

\* Saving the cursor fails, or is cut short between truncating and writing.
DiskFault == SaveFails \/ (Crash /\ pc = "write")

LEMMA NoFaultNoStep == [~DiskFault]_vars => ~DiskFault
<1>1. SaveFails \/ Crash => pc' # pc
  BY DEF SaveFails, Crash, Down
<1>2. UNCHANGED vars => pc' = pc
  BY DEF vars
<1>. QED
  BY <1>1, <1>2 DEF DiskFault

LEMMA NoFaultsNoFault == ~DiskFaults => ~DiskFault
BY DEF DiskFault, SaveFails, Crash

LEMMA OnceInit == Init => OnceInv
BY DEF Init, OnceInv, SavedAhead, RanOnce, Reached

\* A step that runs nothing and reaches no less keeps RanOnce.
LEMMA QuietStep ==
    ASSUME TypeInv, TypeInv', RanOnce, UNCHANGED ran,
           Reached \in Int, Reached' \in Int, Reached <= Reached'
    PROVE  RanOnce'
BY DEF RanOnce

\* What Dispatch does to the counts.
LEMMA DispatchRuns ==
    ASSUME TypeInv, Dispatch
    PROVE  /\ pc = "dispatch" /\ pc' = "reply"
           /\ UNCHANGED <<inbox, base, at, stopping>>
           /\ at \in Nat /\ at + 1 \in 1..MaxMsg
           /\ ran \in [1..MaxMsg -> Nat]
           /\ \/ ran' = [ran EXCEPT ![at + 1] = @ + 1]
              \/ stopping /\ ran' = ran
<1>1. /\ pc = "dispatch" /\ pc' = "reply"
      /\ UNCHANGED <<inbox, base, at, stopping>>
  BY DEF Dispatch, server, memory
<1>2. \/ ran' = [ran EXCEPT ![at + 1] = @ + 1]
      \/ stopping /\ ran' = ran
  BY DEF Dispatch
<1>. QED
  BY <1>1, <1>2 DEF TypeInv, TypeOK, Progress

LEMMA SavedAheadStep ==
    ASSUME TypeInv, SavedAhead, ~DiskFault, [Next]_vars
    PROVE  SavedAhead'
<1>. USE DEF TypeInv, TypeOK, Progress, SavedAhead, server, disk, memory
<1>1. ASSUME NEW m \in Inbound, Arrive(m)
      PROVE  SavedAhead'
  BY <1>1 DEF Arrive
<1>2. CASE Expire \/ Relogin \/ Cancel
  BY <1>2 DEF Expire, Relogin, Cancel
<1>3. CASE Start
  BY <1>3, TornIsNew DEF Start, Cursor, LoadedLogin
<1>4. CASE Crash \/ Return
  BY <1>4 DEF Crash, Return, Down, DiskFault
<1>5. ASSUME NEW n \in 0..Len(inbox), PollAnswer(n)
      PROVE  SavedAhead'
  BY <1>5 DEF PollAnswer
<1>6. CASE PollError \/ PollRefused \/ PollExpired \/ Wake
  BY <1>6 DEF PollError, PollRefused, PollExpired, Wake
<1>7. CASE Save
  BY <1>7 DEF Save, SaveTruncate, SaveWrite, DiskFault
<1>8. CASE Handle
  BY <1>8 DEF Handle, HandleSkip, HandleText, Dispatch, Reply, BatchDone
<1>9. CASE UNCHANGED vars
  BY <1>9 DEF vars
<1>. QED
  BY <1>1, <1>2, <1>3, <1>4, <1>5, <1>6, <1>7, <1>8, <1>9 DEF Next

LEMMA ReachedType ==
    ASSUME TypeInv, SavedAhead
    PROVE  Reached \in 0..Len(inbox)
BY DEF TypeInv, TypeOK, Progress, SavedAhead, Reached

LEMMA RanOnceStep ==
    ASSUME TypeInv, TypeInv', OnceInv, SavedAhead', ~DiskFault, [Next]_vars
    PROVE  RanOnce'
<1>. USE DEF server, disk, memory
<1>1. Reached \in Int /\ Reached' \in Int
  <2>1. Reached \in Int
    BY ReachedType DEF OnceInv, TypeInv, TypeOK
  <2>2. (at \in Int /\ (pc # "write" => file \in Int))'
    BY DEF TypeInv, TypeOK, SavedAhead
  <2>. QED
    BY <2>1, <2>2 DEF Reached
<1>2. CASE Dispatch
  <2>1. Reached = at /\ Reached' = at + 1
    BY <1>2, DispatchRuns DEF Reached
  <2>2. ran[at + 1] = 0
    BY <1>2, <2>1, DispatchRuns DEF OnceInv, RanOnce
  <2>3. ASSUME NEW i \in 1..MaxMsg
        PROVE  ran'[i] <= 1 /\ (i > at + 1 => ran'[i] = 0)
    BY <1>2, <2>1, <2>2, DispatchRuns DEF OnceInv, RanOnce
  <2>. QED
    BY <2>1, <2>3 DEF RanOnce
<1>3. ASSUME ~Dispatch
      PROVE  UNCHANGED ran /\ Reached <= Reached'
  <2>. USE DEF OnceInv, SavedAhead, TypeInv, TypeOK, Progress, Reached
  <2>1. ASSUME NEW m \in Inbound, Arrive(m)
        PROVE  UNCHANGED ran /\ Reached <= Reached'
    BY <1>1, <2>1 DEF Arrive
  <2>2. CASE Expire \/ Relogin \/ Cancel
    <3>. UNCHANGED <<file, pc, at, ran>>
      BY <2>2 DEF Expire, Relogin, Cancel
    <3>. QED
      BY <1>1
  <2>3. CASE Start
    BY <1>1, <2>3, TornIsNew DEF Start, Cursor, LoadedLogin
  <2>4. CASE Crash \/ Return
    BY <1>1, <2>4 DEF Crash, Return, Down, DiskFault
  <2>5. ASSUME NEW n \in 0..Len(inbox), PollAnswer(n)
        PROVE  UNCHANGED ran /\ Reached <= Reached'
    BY <1>1, <2>5 DEF PollAnswer
  <2>6. CASE PollError \/ PollRefused \/ PollExpired \/ Wake
    BY <1>1, <2>6 DEF PollError, PollRefused, PollExpired, Wake
  <2>7. CASE Save
    BY <1>1, <2>7 DEF Save, SaveTruncate, SaveWrite, SaveFails
  <2>8. CASE HandleSkip \/ HandleText \/ Reply \/ BatchDone
    BY <1>1, <2>8 DEF HandleSkip, HandleText, Reply, BatchDone
  <2>9. CASE UNCHANGED vars
    BY <1>1, <2>9 DEF vars
  <2>. QED
    BY <1>3, <2>1, <2>2, <2>3, <2>4, <2>5, <2>6, <2>7, <2>8, <2>9 DEF Next, Handle
<1>. QED
  BY <1>1, <1>2, <1>3, QuietStep DEF OnceInv

\* A command runs twice, through any crashes and restarts, only if saving the
\* cursor failed or was cut short: the ways weixin_login.go:218-233 leaves a file
\* that is old or does not parse (weixin.go:131-140).
THEOREM OnlyDiskFaultsReplay == Spec /\ [][~DiskFault]_vars => []NoReplay
<1>1. TypeInv /\ TypeInv' /\ OnceInv /\ [Next]_vars /\ [~DiskFault]_vars => OnceInv'
  BY SavedAheadStep, RanOnceStep, NoFaultNoStep DEF OnceInv
<1>2. OnceInv => NoReplay
  BY DEF OnceInv, RanOnce, NoReplay
<1>. QED
  BY <1>1, <1>2, OnceInit, TypeInit, TypeStep, PTL DEF Spec

\* While the disk does what it is told, no command runs twice, for any number of
\* messages, crashes and restarts: NoReplay of the run WeixinRestart
\* (weixin.go:131-140).
THEOREM NeverTwice ==
    ASSUME ~DiskFaults
    PROVE  Spec => []NoReplay
BY OnlyDiskFaultsReplay, NoFaultsNoFault, PTL

-----------------------------------------------------------------------------
(* A command runs at most once more than the gateway is stopped *)

\* Lives that have ended: a shutdown counts when it is asked for.
Ended == IF stopping THEN stops - 1 ELSE stops

\* This life may have run the commands up to here.
Upto == IF pc = "down" THEN 0 ELSE IF pc = "reply" THEN at + 1 ELSE at

LifeInv ==
    /\ stopping => pc # "down" /\ stops > 0
    /\ \A i \in 1..MaxMsg :
        /\ ran[i] <= Ended + 1
        /\ i > Upto \/ pc = "down" => ran[i] <= Ended

OncePerLife == \A i \in 1..MaxMsg : ran[i] <= stops + 1

LEMMA LifeCounters ==
    TypeInv => /\ at \in Nat /\ stops \in Nat /\ Ended \in Int /\ Upto \in Nat
               /\ ran \in [1..MaxMsg -> Nat]
BY DEF TypeInv, TypeOK, Ended, Upto

LEMMA LifeCountersNext ==
    TypeInv' => (/\ at \in Nat /\ stops \in Nat /\ Ended \in Int /\ Upto \in Nat
                 /\ ran \in [1..MaxMsg -> Nat])'
BY LifeCounters, PTL

\* A step that runs nothing, and looks no further back than it has reached or
\* begins a new life, keeps the counts in bounds.
LEMMA QuietLife ==
    ASSUME TypeInv, TypeInv', LifeInv, UNCHANGED ran,
           \/ pc = "down" /\ Ended' >= Ended
           \/ pc # "down" /\ pc' # "down" /\ Ended' = Ended /\ Upto' >= Upto
           \/ Ended' >= Ended + 1
    PROVE  \A i \in 1..MaxMsg :
             ran'[i] <= (Ended + 1)' /\ (i > Upto' \/ pc' = "down" => ran'[i] <= Ended')
<1>. SUFFICES ASSUME NEW i \in 1..MaxMsg
              PROVE  ran'[i] <= (Ended + 1)' /\ (i > Upto' \/ pc' = "down" => ran'[i] <= Ended')
  OBVIOUS
<1>1. /\ ran'[i] = ran[i] /\ ran[i] \in Nat /\ ran[i] <= Ended + 1
      /\ i > Upto \/ pc = "down" => ran[i] <= Ended
  BY LifeCounters DEF LifeInv
<1>. QED
  BY <1>1, LifeCounters, LifeCountersNext

\* What a step that runs nothing does to the life of the process.
Goes ==
    \/ pc = "down" /\ Ended' >= Ended
    \/ pc # "down" /\ pc' # "down" /\ Ended' = Ended /\ Upto' >= Upto
    \/ Ended' >= Ended + 1

LEMMA LifeGoes ==
    ASSUME TypeInv, TypeInv', LifeInv, [Next]_vars, ~Dispatch
    PROVE  /\ UNCHANGED ran
           /\ stopping' => pc' # "down" /\ stops' > 0
           /\ Goes
<1>. USE DEF server, disk, memory, Goes
<1>0. /\ stopping => pc # "down" /\ stops > 0
      /\ at \in Int /\ at' \in Int /\ stops \in Int
  BY LifeCounters, LifeCountersNext DEF LifeInv
<1>1. ASSUME UNCHANGED <<stopping, stops, ran>>,
             \/ UNCHANGED <<pc, at>>
             \/ pc = "down"
             \/ pc # "reply" /\ pc' \notin {"down", "reply"} /\ at' >= at
             \/ pc = "reply" /\ pc' \notin {"down", "reply"} /\ at' >= at + 1,
             pc' = "down" => pc = "down"
      PROVE  UNCHANGED ran /\ (stopping' => pc' # "down" /\ stops' > 0) /\ Goes
  <2>1. Ended' = Ended /\ Ended \in Int
    BY <1>1, LifeCounters DEF Ended
  <2>2. pc # "down" => Upto' >= Upto
    <3>1. CASE UNCHANGED <<pc, at>>
      BY <1>0, <3>1 DEF Upto
    <3>2. ASSUME pc # "down", pc # "reply", pc' \notin {"down", "reply"}, at' >= at
          PROVE  Upto' >= Upto
      <4>. Upto = at /\ Upto' = at'
        BY <3>2 DEF Upto
      <4>. QED
        BY <3>2
    <3>3. ASSUME pc = "reply", pc' \notin {"down", "reply"}, at' >= at + 1
          PROVE  Upto' >= Upto
      <4>. Upto = at + 1 /\ Upto' = at'
        BY <3>3 DEF Upto
      <4>. QED
        BY <3>3
    <3>. QED
      BY <1>1, <3>1, <3>2, <3>3
  <2>. QED
    BY <1>0, <1>1, <2>1, <2>2
<1>2. ASSUME NEW m \in Inbound, Arrive(m)
      PROVE  UNCHANGED <<pc, at, stopping, stops, ran>>
  BY <1>2 DEF Arrive
<1>3. CASE Expire \/ Relogin \/ UNCHANGED vars
  <2>. UNCHANGED <<pc, at, stopping, stops, ran>>
    BY <1>3 DEF Expire, Relogin, vars
  <2>. QED
    BY <1>1
<1>4. CASE Start
  BY <1>1, <1>4 DEF Start
<1>5. CASE Crash \/ Return
  <2>1. /\ pc' = "down" /\ ~stopping' /\ ran' = ran
        /\ stops' = IF Crash THEN stops + 1 ELSE stops
        /\ Return => stopping
    BY <1>5 DEF Crash, Return, Down
  <2>2. Ended' = stops'
    BY <2>1 DEF Ended
  <2>3. Ended' >= Ended + 1
    BY <1>0, <1>5, <2>1, <2>2 DEF Ended
  <2>. QED
    BY <2>1, <2>3
<1>6. CASE Cancel
  <2>1. /\ ~stopping /\ stopping' /\ stops' = stops + 1 /\ pc # "down"
        /\ UNCHANGED <<pc, at, ran>>
    BY <1>6 DEF Cancel
  <2>. QED
    BY <1>0, <2>1, LifeCounters DEF Ended, Upto
<1>7. ASSUME NEW n \in 0..Len(inbox), PollAnswer(n)
      PROVE  /\ UNCHANGED <<at, stopping, stops, ran>>
             /\ pc = "poll" /\ pc' \in {"poll", "save"}
  BY <1>7 DEF PollAnswer
<1>8. CASE PollError \/ PollRefused \/ PollExpired \/ Wake
  BY <1>0, <1>1, <1>8 DEF PollError, PollRefused, PollExpired, Wake
<1>9. CASE Save
  BY <1>0, <1>1, <1>9 DEF Save, SaveTruncate, SaveWrite, SaveFails
<1>10. CASE HandleSkip \/ HandleText \/ Reply \/ BatchDone
  BY <1>0, <1>1, <1>10 DEF HandleSkip, HandleText, Reply, BatchDone
<1>11. ASSUME NEW n \in 0..Len(inbox), PollAnswer(n)
       PROVE  UNCHANGED ran /\ (stopping' => pc' # "down" /\ stops' > 0) /\ Goes
  BY <1>0, <1>1, <1>7, <1>11
<1>12. ASSUME NEW m \in Inbound, Arrive(m)
       PROVE  UNCHANGED ran /\ (stopping' => pc' # "down" /\ stops' > 0) /\ Goes
  BY <1>1, <1>2, <1>12
<1>. QED
  BY <1>3, <1>4, <1>5, <1>6, <1>8, <1>9, <1>10, <1>11, <1>12 DEF Next, Handle

LEMMA LifeStep ==
    ASSUME TypeInv, TypeInv', LifeInv, [Next]_vars
    PROVE  LifeInv'
<1>1. CASE Dispatch
  <2>1. UNCHANGED <<stops, stopping>> /\ pc' # "down"
    BY <1>1, DispatchRuns DEF Dispatch
  <2>2. Upto = at /\ Upto' = at + 1 /\ Ended' = Ended
    BY <1>1, <2>1, DispatchRuns DEF Upto, Ended
  <2>3. ran[at + 1] <= Ended /\ at \in Nat /\ at + 1 \in 1..MaxMsg
    BY <1>1, <2>2, DispatchRuns DEF LifeInv
  <2>4. ASSUME NEW i \in 1..MaxMsg
        PROVE  ran'[i] <= Ended + 1 /\ (i > at + 1 => ran'[i] <= Ended)
    <3>1. /\ ran[i] \in Nat /\ ran[i] <= Ended + 1 /\ (i > at => ran[i] <= Ended)
          /\ Ended \in Int
      BY <2>2, LifeCounters DEF LifeInv
    <3>2. ran'[i] = ran[i] \/ (i = at + 1 /\ ran'[i] = ran[i] + 1)
      BY <1>1, DispatchRuns
    <3>. QED
      BY <2>3, <3>1, <3>2
  <2>. QED
    BY <2>1, <2>2, <2>4 DEF LifeInv
<1>2. CASE ~Dispatch
  <2>1. UNCHANGED ran /\ (stopping' => pc' # "down" /\ stops' > 0) /\ Goes
    BY <1>2, LifeGoes
  <2>2. \A i \in 1..MaxMsg :
          ran'[i] <= (Ended + 1)' /\ (i > Upto' \/ pc' = "down" => ran'[i] <= Ended')
    BY <2>1, QuietLife DEF Goes
  <2>. QED
    BY <2>1, <2>2 DEF LifeInv
<1>. QED
  BY <1>1, <1>2

\* Whatever the disk does, a command runs at most once more than the gateway was
\* stopped: what a lost or torn cursor file can repeat only a new process does
\* (weixin.go:131-140, weixin_login.go:218-244).
THEOREM OnlyRestartsReplay == Spec => []OncePerLife
<1>1. Init => LifeInv
  BY DEF Init, LifeInv, Ended, Upto
<1>2. TypeInv /\ LifeInv => OncePerLife
  BY DEF TypeInv, TypeOK, LifeInv, OncePerLife, Ended
<1>. QED
  BY <1>1, <1>2, LifeStep, TypeInit, TypeStep, PTL DEF Spec

-----------------------------------------------------------------------------
(* A running gateway skips nothing *)

LossInv ==
    /\ LossOnlyAtStop
    /\ pc = "reply" /\ ~stopping => ran[at + 1] > 0

LEMMA DispatchLosesNothing ==
    ASSUME TypeInv, LossInv, Dispatch
    PROVE  LossInv'
<1>1. ASSUME ~stopping, NEW i \in (base + 1)..at, Command(i)
      PROVE  ran'[i] > 0
  <2>1. ran[i] > 0 /\ i # at + 1 /\ i \in 1..MaxMsg
    BY <1>1, DispatchRuns DEF LossInv, LossOnlyAtStop, TypeInv, TypeOK, Progress
  <2>. QED
    BY <1>1, <2>1, DispatchRuns
<1>2. ~stopping => ran'[at + 1] > 0
  BY DispatchRuns
<1>. QED
  BY <1>1, <1>2, DispatchRuns DEF LossInv, LossOnlyAtStop, Command

LEMMA LossStep ==
    ASSUME TypeInv, TypeInv', LossInv, [Next]_vars
    PROVE  LossInv'
<1>. USE DEF TypeInv, TypeOK, Progress, LossInv, LossOnlyAtStop, Command, server, disk, memory
<1>1. ASSUME NEW m \in Inbound, Arrive(m)
      PROVE  LossInv'
  BY <1>1 DEF Arrive
<1>2. CASE Expire \/ Relogin \/ Cancel
  BY <1>2 DEF Expire, Relogin, Cancel
<1>3. CASE Start
  BY <1>3 DEF Start, LoadedLogin
<1>4. CASE Crash \/ Return
  BY <1>4 DEF Crash, Return, Down
<1>5. ASSUME NEW n \in 0..Len(inbox), PollAnswer(n)
      PROVE  LossInv'
  BY <1>5 DEF PollAnswer
<1>6. CASE PollError \/ PollRefused \/ PollExpired \/ Wake
  BY <1>6 DEF PollError, PollRefused, PollExpired, Wake
<1>7. CASE Save
  BY <1>7 DEF Save, SaveTruncate, SaveWrite, SaveFails
<1>8. CASE HandleSkip
  BY <1>8 DEF HandleSkip
<1>9. CASE HandleText \/ BatchDone
  BY <1>9 DEF HandleText, BatchDone
<1>10. CASE Dispatch
  BY <1>10, DispatchLosesNothing
<1>11. CASE Reply
  BY <1>11 DEF Reply
<1>12. CASE UNCHANGED vars
  BY <1>12 DEF vars
<1>. QED
  BY <1>1, <1>2, <1>3, <1>4, <1>5, <1>6, <1>7, <1>8, <1>9, <1>10, <1>11, <1>12
     DEF Next, Handle

\* As long as nobody stops it, the gateway runs every command it moves past,
\* also when its cursor cannot be saved: LossOnlyAtStop of the run WeixinProgress
\* (weixin.go:133-140).
THEOREM NoneSkipped == Spec => []LossOnlyAtStop
<1>1. Init => LossInv
  BY DEF Init, LossInv, LossOnlyAtStop
<1>2. LossInv => LossOnlyAtStop
  BY DEF LossInv
<1>. QED
  BY <1>1, <1>2, LossStep, TypeInit, TypeStep, PTL DEF Spec

-----------------------------------------------------------------------------
(* Replies carry the latest context_token *)

\* The messages up to here have been noted.
Seen == IF pc \in {"dispatch", "reply"} THEN at + 1 ELSE at

FreshOf(p, n) == {i \in (base + 1)..n : inbox[i].peer = p /\ inbox[i].fresh}

\* Each peer's token is that of the last of its noted messages that brought one.
TokensLatest ==
    /\ pc = "down" => base = at /\ tokens = [p \in Peer |-> 0]
    /\ \A p \in Peer \ {Self} :
        /\ tokens[p] \in FreshOf(p, Seen) \cup {0}
        /\ \A i \in FreshOf(p, Seen) : i <= tokens[p]

\* Where the loop is in the inbox.
LEMMA WithinInbox ==
    ASSUME TypeInv
    PROVE  /\ base \in Nat /\ at \in Nat /\ syncBuf \in Nat /\ Len(inbox) \in Nat
           /\ base <= at /\ at <= syncBuf /\ syncBuf <= Len(inbox)
           /\ Seen \in Nat /\ Seen <= Len(inbox)
<1>1. inbox \in Seq(Inbound) /\ {base, syncBuf, at} \subseteq 0..Len(inbox)
  BY DEF TypeInv, TypeOK
<1>2. Len(inbox) \in Nat
  BY <1>1
<1>3. base \in 0..Len(inbox) /\ at \in 0..Len(inbox) /\ syncBuf \in 0..Len(inbox)
  BY <1>1
<1>4. base <= at /\ at <= syncBuf /\ (pc \in {"dispatch", "reply"} => at < syncBuf)
  BY DEF TypeInv, Progress
<1>. QED
  BY <1>2, <1>3, <1>4 DEF Seen

LEMMA LatestInit == Init => TokensLatest
BY DEF Init, TokensLatest, FreshOf, Seen

\* A process that starts, or is down, has noted nothing.
LEMMA NothingNoted ==
    ASSUME TypeInv', tokens' = [p \in Peer |-> 0], base' = at', pc' \in {"down", "poll"}
    PROVE  TokensLatest'
<1>1. \A p : FreshOf(p, Seen)' = {}
  BY DEF FreshOf, Seen, TypeInv, TypeOK
<1>. QED
  BY <1>1 DEF TokensLatest

\* Messages that arrive do not change what the old ones were.
LEMMA NotingNothing ==
    ASSUME TypeInv, TypeInv', TokensLatest, UNCHANGED <<tokens, base, Seen>>, pc' # "down",
           \A i \in 1..Len(inbox) : inbox'[i] = inbox[i]
    PROVE  TokensLatest'
<1>1. base \in Nat /\ Seen <= Len(inbox) /\ Seen \in Nat /\ Len(inbox) \in Nat
  BY WithinInbox
<1>2. \A i \in (base + 1)..Seen : i \in 1..Len(inbox)
  BY <1>1
<1>3. \A p : FreshOf(p, Seen)' = FreshOf(p, Seen)
  BY <1>1, <1>2 DEF FreshOf
<1>. QED
  BY <1>3 DEF TokensLatest

\* Noting a message makes its token the latest of its peer's.
LEMMA NotingOne ==
    ASSUME TypeInv, TypeInv', TokensLatest, pc = "handle", at < syncBuf, pc' # "down",
           Seen' = at + 1, tokens' = Noted(at + 1), UNCHANGED <<inbox, base>>
    PROVE  TokensLatest'
<1>1. /\ at \in Nat /\ base \in Nat /\ base <= at /\ at + 1 \in 1..Len(inbox)
      /\ Seen = at /\ tokens \in [Peer -> 0..Len(inbox)]
  <2>1. tokens \in [Peer -> 0..Len(inbox)]
    BY DEF TypeInv, TypeOK
  <2>2. Seen = at
    BY DEF Seen
  <2>. QED
    BY <2>1, <2>2, WithinInbox
<1>2. inbox[at + 1] \in Inbound
  BY <1>1 DEF TypeInv, TypeOK
<1>3. inbox[at + 1].peer \in Peer \cup {Self}
  BY <1>2
<1>. SUFFICES ASSUME NEW p \in Peer \ {Self}
              PROVE  /\ tokens'[p] \in FreshOf(p, Seen)' \cup {0}
                     /\ \A i \in FreshOf(p, Seen)' : i <= tokens'[p]
  BY DEF TokensLatest
<1>4. FreshOf(p, Seen)' = {i \in (base + 1)..(at + 1) : inbox[i].peer = p /\ inbox[i].fresh}
  BY DEF FreshOf
<1>5. FreshOf(p, Seen) = {i \in (base + 1)..at : inbox[i].peer = p /\ inbox[i].fresh}
  BY <1>1 DEF FreshOf
<1>6. tokens[p] \in FreshOf(p, Seen) \cup {0} /\ \A i \in FreshOf(p, Seen) : i <= tokens[p]
  BY DEF TokensLatest
<1>7. CASE inbox[at + 1].peer = p /\ inbox[at + 1].fresh
  <2>1. tokens'[p] = at + 1
    BY <1>1, <1>7 DEF Noted
  <2>2. at + 1 \in FreshOf(p, Seen)'
    BY <1>1, <1>4, <1>7
  <2>. QED
    BY <1>1, <1>4, <2>1, <2>2
<1>8. CASE ~(inbox[at + 1].peer = p /\ inbox[at + 1].fresh)
  <2>1. tokens'[p] = tokens[p]
    BY <1>1, <1>3, <1>8 DEF Noted
  <2>2. FreshOf(p, Seen)' = FreshOf(p, Seen)
    BY <1>1, <1>4, <1>5, <1>8
  <2>. QED
    BY <1>6, <2>1, <2>2
<1>. QED
  BY <1>7, <1>8

LEMMA LatestStep == TypeInv /\ TokensLatest /\ [Next]_vars => TokensLatest'
<1>. SUFFICES ASSUME TypeInv, TokensLatest, [Next]_vars
              PROVE  TokensLatest'
  OBVIOUS
<1>0. TypeInv'
  BY TypeStep
<1>. USE DEF server, disk, memory
<1>1. CASE Start
  BY <1>0, <1>1, NothingNoted DEF Start, TokensLatest
<1>2. CASE Crash \/ Return
  BY <1>0, <1>2, NothingNoted DEF Crash, Return, Down
<1>3. CASE HandleSkip
  BY <1>0, <1>3, NotingOne DEF HandleSkip, Seen
<1>4. CASE HandleText
  BY <1>0, <1>4, NotingOne DEF HandleText, Seen
<1>5. CASE pc = "down" /\ UNCHANGED <<pc, memory>>
  BY <1>0, <1>5, NothingNoted DEF TokensLatest
<1>6. CASE pc # "down" /\ pc' # "down" /\ UNCHANGED <<inbox, tokens, base, Seen>>
  BY <1>0, <1>6, NotingNothing
<1>7. ASSUME NEW m \in Inbound, Arrive(m)
      PROVE  TokensLatest'
  <2>1. \A i \in 1..Len(inbox) : inbox'[i] = inbox[i]
    BY <1>7 DEF Arrive, TypeInv, TypeOK
  <2>2. CASE pc = "down"
    BY <1>5, <1>7, <2>2 DEF Arrive
  <2>3. CASE pc # "down"
    BY <1>0, <1>7, <2>1, <2>3, NotingNothing DEF Arrive, Seen
  <2>. QED
    BY <2>2, <2>3
<1>8. CASE Expire \/ Relogin \/ UNCHANGED vars
  BY <1>5, <1>6, <1>8 DEF Expire, Relogin, Seen, vars
<1>9. CASE Cancel
  BY <1>6, <1>9 DEF Cancel, Seen
<1>10. ASSUME NEW n \in 0..Len(inbox), PollAnswer(n)
       PROVE  TokensLatest'
  BY <1>6, <1>10 DEF PollAnswer, Seen
<1>11. CASE PollError \/ PollRefused \/ PollExpired \/ Wake
  BY <1>6, <1>11 DEF PollError, PollRefused, PollExpired, Wake, Seen
<1>12. CASE Save
  BY <1>6, <1>12 DEF Save, SaveTruncate, SaveWrite, SaveFails, Seen
<1>13. CASE Dispatch \/ Reply \/ BatchDone
  BY <1>6, <1>13 DEF Dispatch, Reply, BatchDone, Seen
<1>. QED
  BY <1>1, <1>2, <1>3, <1>4, <1>7, <1>8, <1>9, <1>10, <1>11, <1>12, <1>13 DEF Next, Handle

\* A reply always carries the latest context_token its peer has sent to this process:
\* RepliesUseLatestToken of the run WeixinRestart (weixin.go:195-201, 257-259).
THEOREM RepliesAreCurrent == Spec => []RepliesUseLatestToken
<1>1. TypeInv /\ TokensLatest => RepliesUseLatestToken
  <2>. SUFFICES ASSUME TypeInv, TokensLatest, pc \in {"dispatch", "reply"}
                PROVE  RepliesUseLatestToken
    BY DEF RepliesUseLatestToken
  <2>1. at + 1 \in 1..Len(inbox) /\ inbox[at + 1].peer # Self /\ Seen = at + 1
    BY DEF TypeInv, TypeOK, Progress, Command, Seen
  <2>2. inbox[at + 1] \in Inbound
    BY <2>1 DEF TypeInv, TypeOK
  <2>3. inbox[at + 1].peer \in Peer \ {Self}
    BY <2>1, <2>2
  <2>. QED
    BY <2>1, <2>3 DEF RepliesUseLatestToken, TokensLatest, FreshOf
<1>. QED
  BY <1>1, LatestInit, LatestStep, TypeInit, TypeStep, PTL DEF Spec

-----------------------------------------------------------------------------
(* The adapter keeps the promise of AtMostOnce *)

Statuses == [i \in 1..MaxMsg |-> StatusOf(i)]

ImplInv == TypeInv /\ OnceInv

LEMMA PastType ==
    ImplInv => Past \in 0..Len(inbox) /\ Reached \in Nat /\ Past <= Reached
<1>. SUFFICES ASSUME ImplInv
              PROVE  Past \in 0..Len(inbox) /\ Reached \in Nat /\ Past <= Reached
  OBVIOUS
<1>1. Past \in 0..Len(inbox)
  BY CursorInRange DEF ImplInv, TypeInv, TypeOK, Past
<1>. QED
  BY <1>1, TornIsNew
     DEF ImplInv, TypeInv, TypeOK, OnceInv, SavedAhead, Past, Reached, Cursor

\* A step that runs nothing and moves past more messages passes over them.
LEMMA PassOverStep ==
    ASSUME ImplInv, ImplInv', UNCHANGED <<inbox, ran>>, Past <= Past'
    PROVE  Promise!Next \/ UNCHANGED Statuses
<1>. DEFINE n == Past'
<1>1. Past \in Nat /\ n \in 0..Len(inbox) /\ Len(inbox) \in 0..MaxMsg
  <2>1. (ImplInv => Past \in 0..Len(inbox))'
    BY PastType, PTL
  <2>. QED
    BY <2>1, PastType DEF ImplInv, TypeInv, TypeOK, Progress
<1>. HIDE DEF n
<1>2. ASSUME NEW i \in 1..MaxMsg
      PROVE  IF i <= n /\ StatusOf(i) = "waiting"
             THEN StatusOf(i)' \in {"done", "lost"}
             ELSE StatusOf(i)' = StatusOf(i)
  <2>1. ran[i] \in Nat
    BY DEF ImplInv, TypeInv, TypeOK
  <2>. QED
    BY <1>1, <2>1 DEF StatusOf, Command, n
<1>3. Statuses' \in [Promise!Message -> Promise!Status]
  BY DEF Statuses, StatusOf, Promise!Message, Promise!Status
<1>4. CASE n = 0
  BY <1>1, <1>2, <1>4 DEF Statuses, StatusOf
<1>5. CASE n > 0
  <2>1. n \in Promise!Message
    BY <1>1, <1>5 DEF Promise!Message
  <2>2. \A i \in 1..n : Statuses[i] # "unsent"
    BY <1>1 DEF Statuses, StatusOf
  <2>3. Promise!PassOver(n)
    BY <1>2, <1>3, <2>2 DEF Promise!PassOver, Promise!Message, Statuses
  <2>. QED
    BY <2>1, <2>3 DEF Promise!Next
<1>. QED
  BY <1>1, <1>4, <1>5

LEMMA SendStep ==
    ASSUME ImplInv, NEW m \in Inbound, Arrive(m)
    PROVE  Promise!Next
<1>. PICK k \in Int : k = Len(inbox) + 1
  BY DEF ImplInv, TypeInv, TypeOK
<1>1. k \in 1..MaxMsg /\ UNCHANGED <<pc, file, at, ran>>
  BY DEF Arrive, disk, memory, ImplInv, TypeInv, TypeOK
<1>2. Past' = Past /\ Past < k /\ ran[k] = 0
  <2>1. Past' = Past
    BY <1>1 DEF Past
  <2>2. Reached < k
    BY DEF Arrive, ImplInv, TypeInv, TypeOK, Progress, OnceInv, SavedAhead, Reached
  <2>. QED
    BY <1>1, <2>1, <2>2, PastType DEF ImplInv, OnceInv, RanOnce
<1>3. Len(inbox') = k /\ \A i \in 1..(k - 1) : inbox'[i] = inbox[i]
  BY DEF Arrive, ImplInv, TypeInv, TypeOK
<1>4. Statuses[k] = "unsent"
  BY <1>1 DEF Statuses, StatusOf
<1>5. \A j \in 1..(k - 1) : Statuses[j] # "unsent"
  BY <1>1 DEF Statuses, StatusOf
<1>6. Statuses' = [Statuses EXCEPT ![k] = "waiting"]
  <2>1. StatusOf(k)' = "waiting"
    BY <1>1, <1>2, <1>3, PastType DEF StatusOf
  <2>2. ASSUME NEW i \in 1..MaxMsg, i # k
        PROVE  StatusOf(i)' = StatusOf(i)
    BY <1>1, <1>2, <1>3, <2>2, PastType DEF StatusOf, Command
  <2>. QED
    BY <1>1, <2>1, <2>2 DEF Statuses
<1>. QED
  BY <1>1, <1>4, <1>5, <1>6 DEF Promise!Next, Promise!Send, Promise!Message, Statuses

LEMMA RunStep ==
    ASSUME ImplInv, Dispatch
    PROVE  Promise!Next \/ UNCHANGED Statuses
<1>1. /\ Past = at /\ Past' = at /\ at \in Nat
      /\ at + 1 \in 1..Len(inbox) /\ at + 1 \in 1..MaxMsg /\ Command(at + 1)
      /\ UNCHANGED inbox
  BY DispatchRuns DEF ImplInv, TypeInv, TypeOK, Progress, Past
<1>2. ran[at + 1] = 0
  BY DispatchRuns DEF ImplInv, OnceInv, RanOnce, Reached
<1>3. CASE ran' = ran
  BY <1>1, <1>3 DEF Statuses, StatusOf, Command
<1>4. CASE ran' = [ran EXCEPT ![at + 1] = @ + 1]
  <2>1. Statuses[at + 1] = "waiting"
    BY <1>1, <1>2 DEF Statuses, StatusOf
  <2>2. \A j \in 1..at : Statuses[j] \in {"done", "lost"}
    BY <1>1 DEF Statuses, StatusOf
  <2>3. Statuses' = [Statuses EXCEPT ![at + 1] = "done"]
    <3>1. StatusOf(at + 1)' = "done"
      BY <1>1, <1>2, <1>4, DispatchRuns DEF StatusOf, ImplInv
    <3>2. ASSUME NEW i \in 1..MaxMsg, i # at + 1
          PROVE  StatusOf(i)' = StatusOf(i)
      BY <1>1, <1>4, <3>2, DispatchRuns DEF StatusOf, Command, ImplInv
    <3>. QED
      BY <1>1, <3>1, <3>2, DispatchRuns DEF Statuses, ImplInv
  <2>4. (at + 1) - 1 = at
    BY <1>1
  <2>5. Promise!Run(at + 1)
    BY <2>1, <2>2, <2>3, <2>4 DEF Promise!Run, Promise!Settled, Statuses
  <2>. QED
    BY <1>1, <2>5 DEF Promise!Next, Promise!Message
<1>. QED
  BY <1>3, <1>4, DispatchRuns DEF ImplInv

LEMMA OtherSteps ==
    ASSUME ImplInv, ~DiskFault, [Next]_vars, ~Dispatch,
           \A m \in Inbound : ~Arrive(m)
    PROVE  UNCHANGED <<inbox, ran>> /\ Past <= Past'
<1>. USE DEF ImplInv, TypeInv, TypeOK, Progress, OnceInv, SavedAhead, Past, server, disk, memory
<1>1. CASE Expire \/ Relogin \/ Cancel
  <2>. UNCHANGED <<inbox, ran, pc, file, at>>
    BY <1>1 DEF Expire, Relogin, Cancel
  <2>. QED
    BY PastType
<1>2. CASE Start
  BY <1>2, TornIsNew DEF Start, Cursor, LoadedLogin
<1>3. CASE Crash \/ Return
  <2>1. /\ UNCHANGED <<inbox, ran, file>> /\ pc' = "down"
        /\ pc \notin {"down", "write"}
    BY <1>3 DEF Crash, Return, Down, DiskFault
  <2>2. file \in Nat /\ at <= file
    BY <2>1
  <2>3. Cursor(file)' = file
    BY <2>1, <2>2, TornIsNew DEF Cursor
  <2>. QED
    BY <2>1, <2>2, <2>3
<1>4. ASSUME NEW n \in 0..Len(inbox), PollAnswer(n)
      PROVE  UNCHANGED <<inbox, ran>> /\ Past <= Past'
  BY <1>4 DEF PollAnswer
<1>5. CASE PollError \/ PollRefused \/ PollExpired \/ Wake
  BY <1>5 DEF PollError, PollRefused, PollExpired, Wake
<1>6. CASE Save
  BY <1>6 DEF Save, SaveTruncate, SaveWrite, SaveFails
<1>7. CASE HandleSkip \/ HandleText \/ Reply \/ BatchDone
  BY <1>7 DEF HandleSkip, HandleText, Reply, BatchDone
<1>8. CASE UNCHANGED vars
  <2>. UNCHANGED <<inbox, ran, pc, file, at>>
    BY <1>8 DEF vars
  <2>. QED
    BY PastType
<1>. QED
  BY <1>1, <1>2, <1>3, <1>4, <1>5, <1>6, <1>7, <1>8 DEF Next, Handle

\* Every behaviour of the adapter in which saving the cursor neither fails nor is
\* cut short is one of AtMostOnce: commands run in the order they were sent and
\* never after they were passed over (weixin.go:84-142, weixin_login.go:218-244).
THEOREM OnlyDiskFaultsBreakPromise ==
    Spec /\ [][~DiskFault]_vars => ImplementsAtMostOnce
<1>1. Init => Promise!Init
  BY DEF Init, Promise!Init, Promise!Message, StatusOf
<1>2. ImplInv /\ ImplInv' /\ [Next]_vars /\ [~DiskFault]_vars
        => Promise!Next \/ UNCHANGED Statuses
  BY PassOverStep, SendStep, RunStep, OtherSteps, NoFaultNoStep
<1>3. ImplInv /\ [Next]_vars /\ [~DiskFault]_vars => ImplInv'
  BY TypeStep, SavedAheadStep, RanOnceStep, NoFaultNoStep DEF ImplInv, OnceInv
<1>4. Init => ImplInv
  BY TypeInit, OnceInit DEF ImplInv
<1>. QED
  BY <1>1, <1>2, <1>3, <1>4, PTL DEF Spec, ImplementsAtMostOnce, Promise!Spec, Statuses

\* The same where the disk has no faults: ImplementsAtMostOnce of the run
\* WeixinRestart.
THEOREM KeepsPromise ==
    ASSUME ~DiskFaults
    PROVE  Spec => ImplementsAtMostOnce
BY OnlyDiskFaultsBreakPromise, NoFaultsNoFault, PTL
==============================================================================
