-------------------------- MODULE TokenCacheProofs --------------------------
(***************************************************************************)
(* Proofs about TokenCache, for any goroutines, grants and bounds.         *)
(***************************************************************************)
EXTENDS TokenCache, TLAPS

USE CacheBounds

\* What is cached lags behind the platform by the time an answer takes at most.
CacheLag ==
    /\ tokenVal # None => tokenExp <= tokenVal + Latency
    /\ qr # None => qrFetched <= qr + Latency
    /\ qrFetched <= now

\* A goroutine between the check and the end of the refresh has the mutex.
Holds(h) == (At(h, "check") \/ At(h, "fetch") \/ At(h, "answer")) => owner = h

\* What a goroutine carries is as old as the bounds allow.
InHand(h) ==
    /\ At(h, "answer") =>
         /\ go[h].tok = go[h].since + go[h].grant /\ go[h].grant \in Grant
         /\ go[h].since <= now /\ now <= go[h].since + Latency
    /\ At(h, "send") =>
         /\ go[h].since <= now /\ now <= go[h].since + Transit
         /\ go[h].since + Transit <= go[h].tok
    /\ At(h, "drawn") => go[h].since <= now /\ now <= go[h].since + Latency
    /\ At(h, "serve") => qr # None /\ go[h].since <= qrFetched + QRTtl

IInv == TypeOK /\ CacheLag /\ \A h \in Handler : Holds(h) /\ InHand(h)

-----------------------------------------------------------------------------
LEMMA CacheTypeInit == Init => TypeOK
BY DEF Init, TypeOK, Goroutine, Place, Idle

\* Where a goroutine can get to keeps the type of go.
LEMMA BecomeType ==
    ASSUME TypeOK, NEW h \in Handler, NEW l \in Place, NEW t \in Nat, NEW g \in Nat,
           NEW s \in 0..MaxTime, Become(h, l, t, g, s)
    PROVE  go' \in [Handler -> Goroutine]
<1>1. go[h].job \in Job \cup {None}
  BY DEF TypeOK, Goroutine
<1>. QED
  BY <1>1 DEF Become, TypeOK, Goroutine

LEMMA EndType ==
    ASSUME TypeOK, NEW h \in Handler, End(h)
    PROVE  go' \in [Handler -> Goroutine]
BY DEF End, TypeOK, Goroutine, Idle, Place

LEMMA GoOnType ==
    ASSUME TypeOK, NEW h \in Handler, GoOn(h)
    PROVE  go' \in [Handler -> Goroutine]
<1>. 0 \in 0..MaxTime
  OBVIOUS
<1>. QED
  BY BecomeType, EndType DEF GoOn, Place

LEMMA CacheTypeWork ==
    ASSUME TypeOK, NEW h \in Handler, Work(h)
    PROVE  TypeOK'
<1>. now \in 0..MaxTime /\ 0 \in 0..MaxTime
  BY DEF TypeOK
<1>1. CASE Hit(h)
  BY <1>1, BecomeType DEF Hit, Usable, TypeOK, picture, Place
<1>2. CASE Miss(h)
  BY <1>2, BecomeType DEF Miss, TypeOK, token, picture, Place
<1>3. ASSUME NEW g \in Grant, Issue(h, g) PROVE TypeOK'
  <2>1. g \in Nat /\ now + g \in Nat /\ "answer" \in Place
    BY DEF Place
  <2>2. go' \in [Handler -> Goroutine]
    BY <1>3, <2>1, BecomeType DEF Issue
  <2>. QED
    BY <1>3, <2>2 DEF Issue, TypeOK, token, picture
<1>4. CASE Store(h)
  <2>1. go[h].tok \in Nat /\ go[h].grant \in Nat
    BY DEF TypeOK, Goroutine
  <2>2. go' \in [Handler -> Goroutine]
    BY <1>4, <2>1, BecomeType DEF Store, Place
  <2>. QED
    BY <1>4, <2>1, <2>2 DEF Store, TypeOK, picture
<1>5. CASE FetchFails(h)
  BY <1>5, GoOnType DEF FetchFails, TypeOK, picture
<1>6. CASE Sent(h)
  BY <1>6, GoOnType DEF Sent, TypeOK, token, picture
<1>7. CASE Look(h)
  <2>1. go' \in [Handler -> Goroutine]
    BY <1>7, BecomeType DEF Look, Place
  <2>. QED
    BY <1>7, <2>1 DEF Look, TypeOK, token, picture
<1>8. CASE Draw(h)
  BY <1>8, BecomeType DEF Draw, TypeOK, token, picture, Place
<1>9. CASE Keep(h)
  <2>1. go[h].since \in 0..MaxTime
    BY DEF TypeOK, Goroutine
  <2>2. go' \in [Handler -> Goroutine]
    BY <1>9, BecomeType DEF Keep, Place
  <2>. QED
    BY <1>9, <2>1, <2>2 DEF Keep, TypeOK, token
<1>10. CASE DrawFails(h)
  BY <1>10, EndType DEF DrawFails, TypeOK, token, picture
<1>11. CASE Serve(h)
  BY <1>11, EndType DEF Serve, TypeOK, token, picture
<1>. QED
  BY <1>1, <1>2, <1>3, <1>4, <1>5, <1>6, <1>7, <1>8, <1>9, <1>10, <1>11 DEF Work

LEMMA CacheTypeStep == TypeOK /\ [Next]_vars => TypeOK'
<1>. SUFFICES ASSUME TypeOK, [Next]_vars PROVE TypeOK'
  OBVIOUS
<1>1. ASSUME NEW h \in Handler, NEW j \in Job, Call(h, j) PROVE TypeOK'
  <2>1. PICK l \in Place : l = IF j = "qr" THEN "look" ELSE "wait"
    BY DEF Place
  <2>2. go' = [go EXCEPT ![h] = [go[h] EXCEPT !.at = l, !.job = j]]
    BY <1>1, <2>1 DEF Call, TypeOK, Goroutine
  <2>3. [go[h] EXCEPT !.at = l, !.job = j] \in Goroutine
    BY DEF TypeOK, Goroutine
  <2>. QED
    BY <1>1, <2>2, <2>3 DEF Call, TypeOK, token, picture
<1>2. ASSUME NEW h \in Handler, Lock(h) PROVE TypeOK'
  <2>1. 0 \in 0..MaxTime /\ "check" \in Place
    BY DEF Place
  <2>2. go' \in [Handler -> Goroutine]
    BY <1>2, <2>1, BecomeType DEF Lock
  <2>. QED
    BY <1>2, <2>2 DEF Lock, TypeOK, picture
<1>3. CASE Tick
  BY <1>3 DEF Tick, TypeOK, token, picture
<1>4. CASE UNCHANGED vars
  BY <1>4 DEF vars, TypeOK, token, picture
<1>. QED
  BY <1>1, <1>2, <1>3, <1>4, CacheTypeWork DEF Next

\* The type invariant of the caches.
THEOREM CacheTypeCorrect == Spec => []TypeOK
BY CacheTypeInit, CacheTypeStep, PTL DEF Spec

-----------------------------------------------------------------------------
LEMMA CacheInit == Init => IInv
BY CacheTypeInit DEF Init, IInv, CacheLag, Holds, InHand, At, Idle

\* A step of one goroutine leaves the others as they are, and the mutex with them.
LEMMA OthersKeep ==
    ASSUME IInv, NEW h \in Handler, NEW i \in Handler, i # h,
           go'[i] = go[i], now' = now,
           owner' = owner \/ (owner = None /\ owner' = h) \/ (owner = h /\ owner' = None),
           qr # None => qr' # None, qrFetched <= qrFetched',
           qrFetched' \in 0..MaxTime
    PROVE  Holds(i)' /\ InHand(i)'
<1>1. Holds(i)'
  BY DEF IInv, Holds, At
<1>2. InHand(i)'
  <2>1. go[i] \in Goroutine
    BY DEF IInv, TypeOK
  <2>. QED
    BY <2>1 DEF IInv, TypeOK, InHand, At, Goroutine
<1>. QED
  BY <1>1, <1>2

\* So the invariant is kept if the goroutine that moves and the caches keep it.
LEMMA StepKeeps ==
    ASSUME IInv, TypeOK', NEW h \in Handler, now' = now,
           \A i \in Handler \ {h} : go'[i] = go[i],
           owner' = owner \/ (owner = None /\ owner' = h) \/ (owner = h /\ owner' = None),
           qr # None => qr' # None, qrFetched <= qrFetched',
           CacheLag', Holds(h)', InHand(h)'
    PROVE  IInv'
<1>1. ASSUME NEW i \in Handler, i # h PROVE Holds(i)' /\ InHand(i)'
  BY <1>1, OthersKeep DEF TypeOK
<1>. QED
  BY <1>1 DEF IInv

LEMMA WorkKeeps ==
    ASSUME IInv, NEW h \in Handler, Work(h)
    PROVE  IInv'
<1>. TypeOK /\ TypeOK' /\ go[h] \in Goroutine /\ go \in [Handler -> Goroutine]
  BY CacheTypeWork DEF IInv, TypeOK
<1>. CacheLag /\ Holds(h) /\ InHand(h) /\ now \in Nat
  BY DEF IInv, TypeOK
<1>. Latency \in Nat /\ Transit \in Nat /\ Margin \in Nat /\ QRTtl \in Nat
  OBVIOUS
<1>1. CASE Hit(h)
  <2>1. now + Transit <= tokenVal
    BY <1>1, Punctual DEF Hit, Usable, CacheLag, TypeOK
  <2>2. CacheLag' /\ Holds(h)' /\ InHand(h)'
    BY <1>1, <2>1 DEF Hit, Become, At, CacheLag, Holds, InHand, picture
  <2>. QED
    BY <1>1, <2>2, StepKeeps DEF Hit, Become, Holds, picture, TypeOK
<1>2. CASE Miss(h)
  <2>1. CacheLag' /\ Holds(h)' /\ InHand(h)'
    BY <1>2 DEF Miss, Become, At, CacheLag, Holds, InHand, picture, token
  <2>. QED
    BY <1>2, <2>1, StepKeeps DEF Miss, Become, picture, token, TypeOK
<1>3. ASSUME NEW g \in Grant, Issue(h, g) PROVE IInv'
  <2>1. CacheLag' /\ Holds(h)' /\ InHand(h)'
    BY <1>3 DEF Issue, Become, At, CacheLag, Holds, InHand, picture, token
  <2>. QED
    BY <1>3, <2>1, StepKeeps DEF Issue, Become, picture, token, TypeOK
<1>4. CASE Store(h)
  <2>1. /\ go[h].tok = go[h].since + go[h].grant
        /\ Latency + Transit <= go[h].grant
        /\ now <= go[h].since + Latency
    BY <1>4, Punctual DEF Store, InHand
  <2>2. go[h].since \in Nat /\ go[h].grant \in Nat /\ go[h].tok \in Nat
    BY DEF Goroutine
  <2>3. CacheLag'
    BY <1>4, <2>1, <2>2 DEF Store, CacheLag, picture
  <2>4. now + Transit <= go[h].tok
    BY <2>1, <2>2
  <2>5. Holds(h)' /\ InHand(h)'
    BY <1>4, <2>4 DEF Store, Become, At, Holds, InHand
  <2>. QED
    BY <1>4, <2>3, <2>5, StepKeeps DEF Store, Become, Holds, picture, TypeOK
<1>5. CASE FetchFails(h)
  <2>1. CacheLag' /\ Holds(h)' /\ InHand(h)'
    BY <1>5 DEF FetchFails, GoOn, End, Idle, Become, At, CacheLag, Holds, InHand, picture
  <2>. QED
    BY <1>5, <2>1, StepKeeps DEF FetchFails, GoOn, End, Become, Holds, picture, TypeOK
<1>6. CASE Sent(h)
  <2>1. CacheLag' /\ Holds(h)' /\ InHand(h)'
    BY <1>6 DEF Sent, GoOn, End, Idle, Become, At, CacheLag, Holds, InHand, picture, token
  <2>. QED
    BY <1>6, <2>1, StepKeeps DEF Sent, GoOn, End, Become, picture, token, TypeOK
<1>7. CASE Look(h)
  <2>1. Fresh => now <= qrFetched + QRTtl
    BY DEF Fresh, TypeOK
  <2>2. CacheLag' /\ Holds(h)' /\ InHand(h)'
    BY <1>7, <2>1 DEF Look, Fresh, Become, At, CacheLag, Holds, InHand, picture, token
  <2>. QED
    BY <1>7, <2>2, StepKeeps DEF Look, Become, picture, token, TypeOK
<1>8. CASE Draw(h)
  <2>1. CacheLag' /\ Holds(h)' /\ InHand(h)'
    BY <1>8 DEF Draw, Become, At, CacheLag, Holds, InHand, picture, token
  <2>. QED
    BY <1>8, <2>1, StepKeeps DEF Draw, Become, picture, token, TypeOK
<1>9. CASE Keep(h)
  <2>1. go[h].since \in 0..MaxTime /\ now <= go[h].since + Latency
    BY <1>9 DEF Keep, InHand, Goroutine
  <2>2. CacheLag' /\ Holds(h)' /\ InHand(h)'
    BY <1>9, <2>1 DEF Keep, Become, At, CacheLag, Holds, InHand, token
  <2>. QED
    BY <1>9, <2>1, <2>2, StepKeeps DEF Keep, Become, CacheLag, token, TypeOK
<1>10. CASE DrawFails(h)
  <2>1. CacheLag' /\ Holds(h)' /\ InHand(h)'
    BY <1>10 DEF DrawFails, End, Idle, At, CacheLag, Holds, InHand, picture, token
  <2>. QED
    BY <1>10, <2>1, StepKeeps DEF DrawFails, End, picture, token, TypeOK
<1>11. CASE Serve(h)
  <2>1. CacheLag' /\ Holds(h)' /\ InHand(h)'
    BY <1>11 DEF Serve, End, Idle, At, CacheLag, Holds, InHand, picture, token
  <2>. QED
    BY <1>11, <2>1, StepKeeps DEF Serve, End, picture, token, TypeOK
<1>. QED
  BY <1>1, <1>2, <1>3, <1>4, <1>5, <1>6, <1>7, <1>8, <1>9, <1>10, <1>11 DEF Work

LEMMA TickKeeps ==
    ASSUME IInv, Tick
    PROVE  IInv'
<1>. TypeOK'
  BY CacheTypeStep DEF IInv, Next
<1>1. CacheLag'
  BY DEF IInv, Tick, CacheLag, TypeOK, token, picture
<1>2. ASSUME NEW h \in Handler PROVE Holds(h)' /\ InHand(h)'
  <2>1. go[h] \in Goroutine /\ now \in Nat
    BY DEF IInv, TypeOK
  <2>2. Holds(h)'
    BY DEF IInv, Tick, Holds, At, token
  <2>3. InHand(h)'
    BY <2>1 DEF IInv, Tick, InHand, InTime, At, Goroutine, token, picture
  <2>. QED
    BY <2>2, <2>3
<1>. QED
  BY <1>1, <1>2 DEF IInv

LEMMA CacheStep == IInv /\ [Next]_vars => IInv'
<1>. SUFFICES ASSUME IInv, [Next]_vars PROVE IInv'
  OBVIOUS
<1>. TypeOK /\ TypeOK' /\ CacheLag
  BY CacheTypeStep DEF IInv
<1>1. ASSUME NEW h \in Handler, NEW j \in Job, Call(h, j) PROVE IInv'
  <2>1. CacheLag' /\ Holds(h)' /\ InHand(h)'
    BY <1>1 DEF Call, Idle, At, CacheLag, Holds, InHand, TypeOK, picture, token
  <2>. QED
    BY <1>1, <2>1, StepKeeps DEF Call, picture, token, TypeOK
<1>2. ASSUME NEW h \in Handler, Lock(h) PROVE IInv'
  <2>1. CacheLag' /\ Holds(h)' /\ InHand(h)'
    BY <1>2 DEF Lock, Become, At, CacheLag, Holds, InHand, TypeOK, picture
  <2>. QED
    BY <1>2, <2>1, StepKeeps DEF Lock, Become, picture, TypeOK
<1>3. CASE UNCHANGED vars
  BY <1>3 DEF vars, IInv, TypeOK, CacheLag, Holds, InHand, At, token, picture
<1>. QED
  BY <1>1, <1>2, <1>3, WorkKeeps, TickKeeps DEF Next

LEMMA CacheInv == Spec => []IInv
BY CacheInit, CacheStep, PTL DEF Spec

\* No request travels with a token that expires on the way: the margin covers the
\* lag of the cache and the way of the request.
THEOREM TokenLastsTheRequest == Spec => []NeverExpiresMidRequest
<1>1. IInv => NeverExpiresMidRequest
  BY DEF IInv, InHand, NeverExpiresMidRequest, TypeOK, At, Goroutine
<1>. QED
  BY <1>1, CacheInv, PTL

\* The picture shown is recent, although no lock is held while it is fetched.
THEOREM PictureIsRecent == Spec => []PictureRecent
<1>1. IInv => PictureRecent
  BY DEF IInv, InHand, CacheLag, PictureRecent, TypeOK, At, Goroutine
<1>. QED
  BY <1>1, CacheInv, PTL

-----------------------------------------------------------------------------
(* The mutex is given back *)

Refreshing(h) == go[h].at \in {"check", "fetch", "answer"}

\* tokenMu is held by the goroutine that is between its check and the end of its
\* refresh, and by nobody else.
MutexExact == \A h \in Handler : owner = h <=> Refreshing(h)

\* A step of one goroutine that takes, keeps or gives back the mutex.
LEMMA OneGoroutine ==
    ASSUME TypeOK, MutexExact, NEW h \in Handler,
           \A i \in Handler \ {h} : go'[i] = go[i],
           \/ owner = h /\ owner' = h /\ Refreshing(h)'
           \/ owner = h /\ owner' = None /\ ~Refreshing(h)'
           \/ owner = None /\ owner' = h /\ Refreshing(h)'
           \/ owner # h /\ owner' = owner /\ ~Refreshing(h)'
    PROVE  MutexExact'
BY DEF MutexExact, Refreshing

LEMMA MutexStep ==
    ASSUME TypeOK, MutexExact, [Next]_vars
    PROVE  MutexExact'
<1>. USE DEF At, Become, End, GoOn, token, picture
<1>0. go \in [Handler -> Goroutine]
  BY DEF TypeOK
<1>1. ASSUME UNCHANGED <<go, owner>> PROVE MutexExact'
  BY <1>1 DEF MutexExact, Refreshing
<1>2. ASSUME NEW h \in Handler, (\E j \in Job : Call(h, j)) \/ Lock(h) \/ Work(h)
      PROVE  MutexExact'
  <2>0. owner = h <=> Refreshing(h)
    BY DEF MutexExact
  <2>1. \A i \in Handler \ {h} : go'[i] = go[i]
    BY <1>0, <1>2 DEF Call, Lock, Work, Hit, Miss, Issue, Store, FetchFails, Sent, Look,
       Draw, Keep, DrawFails, Serve
  <2>2. ASSUME NEW j \in Job, Call(h, j)
        PROVE  owner # h /\ owner' = owner /\ ~Refreshing(h)'
    BY <1>0, <2>0, <2>2 DEF Call, Refreshing, Goroutine
  <2>3. CASE Lock(h)
    BY <1>0, <2>1, <2>3, OneGoroutine DEF Lock, Refreshing
  <2>4. CASE Hit(h) \/ Store(h) \/ FetchFails(h)
    <3>1. Refreshing(h) /\ owner' = None /\ ~Refreshing(h)'
      BY <1>0, <2>4 DEF Hit, Store, FetchFails, Refreshing, Idle
    <3>. QED
      BY <2>0, <2>1, <3>1, OneGoroutine
  <2>5. CASE Miss(h) \/ \E g \in Grant : Issue(h, g)
    <3>1. Refreshing(h) /\ owner' = owner /\ Refreshing(h)'
      BY <1>0, <2>5 DEF Miss, Issue, Refreshing
    <3>. QED
      BY <2>0, <2>1, <3>1, OneGoroutine
  <2>6. CASE Sent(h) \/ Look(h) \/ Draw(h) \/ Keep(h) \/ DrawFails(h) \/ Serve(h)
    <3>1. ~Refreshing(h) /\ owner' = owner /\ ~Refreshing(h)'
      BY <1>0, <2>6 DEF Sent, Look, Draw, Keep, DrawFails, Serve, Refreshing, Idle
    <3>. QED
      BY <2>0, <2>1, <3>1, OneGoroutine
  <2>. QED
    BY <1>2, <2>1, <2>2, <2>3, <2>4, <2>5, <2>6, OneGoroutine DEF Work
<1>3. CASE Tick \/ UNCHANGED vars
  BY <1>1, <1>3 DEF Tick, vars
<1>. QED
  BY <1>2, <1>3 DEF Next

\* No way out of a refresh, by an answer or by an error, leaves tokenMu locked, and
\* none goes on without it: the safety half of EveryCallReturns
\* (feishu.go:280-313, wechat_work.go:244-272).
THEOREM MutexIsGivenBack == Spec => []MutexExact
<1>1. Init => MutexExact
  BY CacheBounds DEF Init, MutexExact, Refreshing, Idle
<1>. QED
  BY <1>1, CacheTypeInit, CacheInv, MutexStep, PTL DEF Spec, IInv

-----------------------------------------------------------------------------
(* The platform is asked once *)

LEMMA AskedOnceStep ==
    ASSUME TypeOK, MutexExact, AskedOnce, [Next]_vars
    PROVE  AskedOnce'
<1>. USE DEF At, Become, End, GoOn, token, picture
<1>0. go \in [Handler -> Goroutine]
  BY DEF TypeOK
<1>1. \A h \in Handler : Asking(h) => owner = h
  BY DEF MutexExact, Refreshing, Asking
<1>2. ASSUME NEW h \in Handler, \A i \in Handler \ {h} : go'[i] = go[i],
             Asking(h)' => Asking(h) \/ (owner = h /\ ~Usable),
             UNCHANGED <<tokenVal, tokenExp, now>>
      PROVE  AskedOnce'
  <2>1. Usable' <=> Usable
    BY <1>2 DEF Usable
  <2>2. \A i \in Handler \ {h} : Asking(i)' <=> Asking(i)
    BY <1>2 DEF Asking
  <2>. QED
    BY <1>1, <1>2, <2>1, <2>2 DEF AskedOnce
<1>3. ASSUME NEW h \in Handler, Store(h) PROVE AskedOnce'
  <2>1. \A i \in Handler : ~Asking(i)'
    BY <1>0, <1>1, <1>3 DEF Store, Asking
  <2>. QED
    BY <2>1 DEF AskedOnce
<1>4. ASSUME NEW h \in Handler, (\E j \in Job : Call(h, j)) \/ Lock(h) \/ Work(h), ~Store(h)
      PROVE  AskedOnce'
  <2>0. owner = h <=> Refreshing(h)
    BY DEF MutexExact
  <2>1. \A i \in Handler \ {h} : go'[i] = go[i]
    BY <1>0, <1>4 DEF Call, Lock, Work, Hit, Miss, Issue, FetchFails, Sent, Look, Draw, Keep,
       DrawFails, Serve
  <2>2. UNCHANGED <<tokenVal, tokenExp, now>>
    BY <1>4 DEF Call, Lock, Work, Hit, Miss, Issue, FetchFails, Sent, Look, Draw, Keep,
       DrawFails, Serve
  <2>3. CASE Miss(h)
    BY <1>2, <2>0, <2>1, <2>2, <2>3 DEF Miss, Refreshing
  <2>4. CASE \E g \in Grant : Issue(h, g)
    <3>1. Asking(h)
      BY <2>4 DEF Issue, Asking
    <3>2. Asking(h)' => Asking(h) \/ (owner = h /\ ~Usable)
      BY <3>1
    <3>. HIDE DEF token, picture, At, Become, End, GoOn
    <3>. QED
      BY <1>2, <2>1, <2>2, <3>2
  <2>5. ASSUME ~Miss(h), ~\E g \in Grant : Issue(h, g)
        PROVE  ~Asking(h)'
    <3>1. ASSUME NEW j \in Job, Call(h, j) PROVE ~Asking(h)'
      BY <1>0, <3>1 DEF Call, Asking
    <3>2. CASE Lock(h) \/ Hit(h) \/ Look(h) \/ Draw(h) \/ Keep(h)
      BY <1>0, <3>2 DEF Lock, Hit, Look, Draw, Keep, Asking
    <3>3. CASE FetchFails(h) \/ Sent(h) \/ DrawFails(h) \/ Serve(h)
      BY <1>0, <3>3 DEF FetchFails, Sent, DrawFails, Serve, Asking, Idle
    <3>. QED
      BY <1>4, <2>5, <3>1, <3>2, <3>3 DEF Work
  <2>. QED
    BY <1>2, <2>1, <2>2, <2>3, <2>4, <2>5
<1>5. CASE Tick
  <2>1. Usable' => Usable
    BY <1>5 DEF Tick, Usable, TypeOK
  <2>. QED
    BY <1>5, <2>1 DEF Tick, AskedOnce, Asking
<1>6. CASE UNCHANGED vars
  BY <1>6 DEF vars, AskedOnce, Asking, Usable
<1>. QED
  BY <1>3, <1>4, <1>5, <1>6 DEF Next

\* However many goroutines find no usable token, one of them asks for a new one and the
\* others find it (feishu.go:281-285, wechat_work.go:244-248).
THEOREM GoroutinesAskOnce == Spec => []AskedOnce
<1>1. Init => AskedOnce
  BY DEF Init, AskedOnce, Asking, At, Idle
<1>. QED
  BY <1>1, CacheInv, MutexIsGivenBack, AskedOnceStep, PTL DEF Spec, IInv
=============================================================================
