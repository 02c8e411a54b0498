----------------------------- MODULE TokenCache -----------------------------
(***************************************************************************)
(* The caches of the webhook chat adapters (internal/gateway/feishu.go and *)
(* wechat_work.go): the platform's access token, refreshed under a mutex   *)
(* that is held across the request, and, for WeChat Work, the picture of   *)
(* the app's QR code, refreshed with no lock held.  Every message and every*)
(* request for the picture is a goroutine of its own.                      *)
(***************************************************************************)
EXTENDS Integers, FiniteSets

CONSTANTS
    Handler,    \* goroutines
    Job,        \* what they are for: to "send" a text, to show the "qr" code
    Grant,      \* how long a token may have to live when the platform gives it
    Margin,     \* a token is renewed this long before it expires
    QRTtl,      \* qrCacheTTL
    Latency,    \* bound: how long an answer of the platform travels
    Transit,    \* bound: how long a request to the platform travels
    MaxTime,    \* bound: the clock
    None

ASSUME CacheBounds ==
    /\ {Margin, QRTtl, Latency, Transit, MaxTime} \subseteq Nat
    /\ Grant \subseteq Nat /\ None \notin Nat /\ None \notin Handler
    /\ Job \subseteq {"send", "qr"}

\* A minute is enough for an answer and a request, and no token is given out
\* that is too short-lived for them.
ASSUME Punctual == Latency + Transit <= Margin /\ \A g \in Grant : Latency + Transit <= g

VARIABLES
    go,         \* each goroutine: where it is, its job, the token it carries and
                \* how long that was granted for, and when it last sent something,
                \* got something or looked at the clock
    owner,      \* who holds tokenMu
    tokenVal, tokenExp,     \* the cached token and when it is taken to expire
    qr, qrFetched,          \* the cached picture: when the platform drew it; when it came
    now

token == <<owner, tokenVal, tokenExp>>
picture == <<qr, qrFetched>>
vars == <<go, token, picture, now>>

\* A token is the time at which the platform lets it expire.
Idle == [at |-> "idle", job |-> None, tok |-> 0, grant |-> 0, since |-> 0]

At(h, l) == go[h].at = l
Become(h, l, t, g, s) ==
    go' = [go EXCEPT ![h] = [at |-> l, job |-> @.job, tok |-> t, grant |-> g, since |-> s]]
End(h) == go' = [go EXCEPT ![h] = Idle]

Fresh == qr # None /\ now - qrFetched < QRTtl
\* Mutant of Usable: a token is good until it expires.
UsableToTheEnd == tokenVal # None /\ tokenExp > now

Usable == tokenVal # None /\ tokenExp - now > Margin

-----------------------------------------------------------------------------
(* accessToken, tenantToken *)

\* A message to answer, or a request for the picture.
Call(h, j) ==
    /\ At(h, "idle")
    /\ go' = [go EXCEPT ![h].at = IF j = "qr" THEN "look" ELSE "wait", ![h].job = j]
    /\ UNCHANGED <<token, picture, now>>

Lock(h) ==
    /\ At(h, "wait") /\ owner = None
    /\ owner' = h
    /\ Become(h, "check", 0, 0, 0)
    /\ UNCHANGED <<tokenVal, tokenExp, picture, now>>

Hit(h) ==
    /\ At(h, "check") /\ Usable
    /\ owner' = None
    /\ Become(h, "send", tokenVal, 0, now)
    /\ UNCHANGED <<tokenVal, tokenExp, picture, now>>

\* Mutant of Miss: what was true before the wait for the mutex is not looked at again.
MissUnchecked(h) ==
    /\ At(h, "check")
    /\ Become(h, "fetch", 0, 0, 0)
    /\ UNCHANGED <<token, picture, now>>

\* The request for a new token leaves.
Miss(h) ==
    /\ At(h, "check") /\ ~Usable
    /\ Become(h, "fetch", 0, 0, 0)
    /\ UNCHANGED <<token, picture, now>>

\* The platform gives a token; its answer is under way.
Issue(h, g) ==
    /\ At(h, "fetch")
    /\ Become(h, "answer", now + g, g, now)
    /\ UNCHANGED <<token, picture, now>>

Store(h) ==
    /\ At(h, "answer")
    /\ tokenVal' = go[h].tok
    /\ tokenExp' = now + go[h].grant
    /\ owner' = None
    /\ Become(h, "send", go[h].tok, 0, now)
    /\ UNCHANGED <<picture, now>>

\* What a goroutine does after a text, or an error, which is logged or answered with
\* a 502: it ends, or goes on to its next line of progress or the reply.
GoOn(h) == End(h) \/ (go[h].job = "send" /\ Become(h, "wait", 0, 0, 0))

\* Mutant of FetchFails: retry at once, until it works.
FetchRetried(h) ==
    /\ At(h, "fetch") \/ At(h, "answer")
    /\ Become(h, "check", 0, 0, 0)
    /\ UNCHANGED <<token, picture, now>>

\* Mutant of FetchFails: the error is not looked at.
FetchFailsUnchecked(h) ==
    /\ At(h, "fetch") \/ At(h, "answer")
    /\ owner' = None
    /\ Become(h, "send", None, 0, now)
    /\ UNCHANGED <<tokenVal, tokenExp, picture, now>>

\* No connection, an error code, a body that does not parse.
FetchFails(h) ==
    /\ At(h, "fetch") \/ At(h, "answer")
    /\ owner' = None
    /\ GoOn(h)
    /\ UNCHANGED <<tokenVal, tokenExp, picture, now>>

-----------------------------------------------------------------------------
(* sendText, and its caller *)

\* The text is with the platform, or the request failed.
Sent(h) ==
    /\ At(h, "send") /\ go[h].job = "send"
    /\ GoOn(h)
    /\ UNCHANGED <<token, picture, now>>

-----------------------------------------------------------------------------
(* handleQRCode, refreshQRIfNeeded *)

Look(h) ==
    /\ At(h, "look")
    /\ IF Fresh THEN Become(h, "serve", 0, 0, now) ELSE Become(h, "wait", 0, 0, 0)
    /\ UNCHANGED <<token, picture, now>>

\* The platform draws the picture; the answer is under way.
Draw(h) ==
    /\ At(h, "send") /\ go[h].job = "qr"
    /\ Become(h, "drawn", 0, 0, now)
    /\ UNCHANGED <<token, picture, now>>

\* Mutant of Keep: the picture of before stays.
KeepFirst(h) ==
    /\ At(h, "drawn")
    /\ qr' = IF qr = None THEN go[h].since ELSE qr
    /\ qrFetched' = now
    /\ Become(h, "serve", 0, 0, now)
    /\ UNCHANGED <<token, now>>

Keep(h) ==
    /\ At(h, "drawn")
    /\ qr' = go[h].since
    /\ qrFetched' = now
    /\ Become(h, "serve", 0, 0, now)
    /\ UNCHANGED <<token, now>>

\* An error of the platform: 502.
DrawFails(h) ==
    /\ go[h].job = "qr" /\ (At(h, "send") \/ At(h, "drawn"))
    /\ End(h)
    /\ UNCHANGED <<token, picture, now>>

\* What is in the cache by now is shown.
Serve(h) ==
    /\ At(h, "serve")
    /\ End(h)
    /\ UNCHANGED <<token, picture, now>>

-----------------------------------------------------------------------------
\* Time passes, but not past what is under way.
InTime(h) ==
    /\ At(h, "answer") \/ At(h, "drawn") => now - go[h].since < Latency
    /\ At(h, "send") => now - go[h].since < Transit

Tick ==
    /\ now < MaxTime
    /\ \A h \in Handler : InTime(h)
    /\ now' = now + 1
    /\ UNCHANGED <<go, token, picture>>

-----------------------------------------------------------------------------
Init ==
    /\ go = [h \in Handler |-> Idle]
    /\ owner = None /\ tokenVal = None /\ tokenExp = 0
    /\ qr = None /\ qrFetched = 0
    /\ now = 0

Work(h) ==
    \/ Hit(h) \/ Miss(h) \/ \E g \in Grant : Issue(h, g)
    \/ Store(h) \/ FetchFails(h) \/ Sent(h)
    \/ Look(h) \/ Draw(h) \/ Keep(h) \/ DrawFails(h) \/ Serve(h)

Next ==
    \/ \E h \in Handler : (\E j \in Job : Call(h, j)) \/ Lock(h) \/ Work(h)
    \/ Tick

Spec == Init /\ [][Next]_vars

\* Requests to the platform end, with an answer or a lost connection, and a mutex of
\* Go lets nobody wait for ever.
FairSpec ==
    /\ Spec
    /\ \A h \in Handler : WF_vars(Work(h)) /\ SF_vars(Lock(h))

-----------------------------------------------------------------------------
(* Properties *)

Place == {"idle", "look", "wait", "check", "fetch", "answer", "send", "drawn", "serve"}
Goroutine == [at : Place, job : Job \cup {None}, tok : Nat, grant : Nat, since : 0..MaxTime]

TypeOK ==
    /\ go \in [Handler -> Goroutine]
    /\ owner \in Handler \cup {None}
    /\ tokenVal \in Nat \cup {None} /\ tokenExp \in Nat
    /\ qr \in 0..MaxTime \cup {None} /\ qrFetched \in 0..MaxTime
    /\ now \in 0..MaxTime

\* A request never travels with a token that expires on the way
\* (feishu.go:278-279), although the cache counts a token's life from when the
\* answer came.
NeverExpiresMidRequest == \A h \in Handler : At(h, "send") => now <= go[h].tok

Asking(h) == At(h, "fetch") \/ At(h, "answer")

\* Goroutines that find no usable token together ask the platform once: nobody asks while
\* another does, or while the token that another got in the meantime is there
\* (feishu.go:281-285).
AskedOnce == \A h \in Handler : Asking(h) => ~Usable /\ \A i \in Handler : Asking(i) => i = h

\* A picture shown is one the platform drew within qrCacheTTL, and the time its
\* answer took, before the goroutine last looked, even if answers overtook one
\* another (wechat_work.go:280-282).
PictureRecent ==
    \A h \in Handler :
        At(h, "serve") => qr # None /\ go[h].since - qr <= QRTtl + Latency

\* Whoever wants the token has its turn, and ends it, even if every refresh fails.
EveryCallReturns ==
    \A h \in Handler : (At(h, "wait") ~> owner = h) /\ (owner = h ~> owner # h)
=============================================================================
