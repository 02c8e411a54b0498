---------------------------- MODULE InstallProofs ----------------------------
(***************************************************************************)
(* Proofs about Install, for any servers, devices, releases and bounds.    *)
(***************************************************************************)
EXTENDS Install, TLAPS

USE InstallBounds, InstallSwitches, InstallSets, InstallMarks

LEMMA MintType ==
    ASSUME TypeOK, NEW s \in Server, st[s] = "up", NEW r \in Release, NEW u \in Use,
           NEW t \in 0..MaxTime
    PROVE  /\ Mint(s, r, u, t) \in Link
           /\ Mint(s, r, u, t).rel = r /\ Mint(s, r, u, t).use = u
           /\ Mint(s, r, u, t).shown = t
           /\ Mint(s, r, u, t).query.exp = now + Ttl
           /\ Mint(s, r, u, t).query.sig =
                compute(key[s], PathEscape(Path(r, u)), now + Ttl)
<1>1. key[s] \in Secret
  BY DEF TypeOK
<1>2. Path(r, u) \in PathSet
  BY DEF Path, PathSet, Use
<1>3. PathEscape(Path(r, u)) \in PathSet
  <2>1. (Path(r, u).name \in Reserved) \in BOOLEAN
    OBVIOUS
  <2>. QED
    BY <1>2, <2>1, Zenon DEF PathEscape, PathSet
<1>4. now + Ttl \in Nat
  BY DEF TypeOK
<1>5. SignedQuery(key[s], PathEscape(Path(r, u))) \in Query
  BY <1>1, <1>3, <1>4 DEF SignedQuery, Query, compute
<1>. QED
  BY <1>5 DEF Mint, Link, SignedQuery

\* None is no link.
LEMMA NoneIsNoLink == TypeOK => \A d \in Device : held[d] # None => held[d] \in Link
BY DEF TypeOK

LEMMA InstallLinkType ==
    ASSUME TypeOK, NEW s \in Server, st[s] = "up", NEW r \in Release
    PROVE  InstallLink(s, r) \in Link \cup {None}
<1>1. now \in 0..MaxTime
  BY DEF TypeOK
<1>2. Mint(s, r, "direct", now) \in Link /\ Mint(s, r, "manifest", now) \in Link
  BY <1>1, MintType DEF Use
<1>. QED
  BY <1>2 DEF InstallLink

-----------------------------------------------------------------------------
LEMMA TypeInit == Init => TypeOK
BY DEF Init, TypeOK

LEMMA TypeProcess ==
    ASSUME TypeOK, NEW s \in Server, Process(s)
    PROVE  TypeOK'
<1>1. CASE Start(s)
  BY <1>1 DEF Start, TypeOK, Found, Secret, devices
<1>2. CASE Truncate(s)
  BY <1>2 DEF Truncate, TypeOK, Secret, devices
<1>3. CASE Persist(s)
  BY <1>3 DEF Persist, TypeOK, Secret, devices
<1>4. CASE PersistFails(s)
  BY <1>4 DEF PersistFails, TypeOK, devices
<1>5. CASE Stop(s)
  BY <1>5 DEF Stop, TypeOK, devices
<1>. QED
  BY <1>1, <1>2, <1>3, <1>4, <1>5 DEF Process

LEMMA TypeCatalogue ==
    ASSUME TypeOK, NEW r \in Release, Catalogue(r)
    PROVE  TypeOK'
BY DEF Catalogue, Publish, Enrich, Collect, TypeOK, servers, devices

LEMMA TypeRequest ==
    ASSUME TypeOK, NEW d \in Device, NEW s \in Server, Request(d, s)
    PROVE  TypeOK'
<1>1. ASSUME NEW r \in Release, Page(d, r, s) PROVE TypeOK'
  <2>1. InstallLink(s, r) \in Link \cup {None}
    BY <1>1, InstallLinkType DEF Page
  <2>. QED
    BY <1>1, <2>1 DEF Page, TypeOK, servers
<1>2. CASE PageNotFound(d, s)
  BY <1>2 DEF PageNotFound, TypeOK, servers
<1>3. CASE Manifest(d, s)
  <2>1. held[d] \in Link
    BY <1>3, NoneIsNoLink DEF Manifest
  <2>2. Mint(s, held[d].rel, "ota", held[d].shown) \in Link
    BY <1>3, <2>1, MintType DEF Manifest, Link, Use
  <2>. QED
    BY <1>3, <2>2 DEF Manifest, TypeOK, servers
<1>4. CASE Download(d, s)
  <2>1. held[d] \in Link
    BY <1>4, NoneIsNoLink DEF Download
  <2>2. held[d].use \in {"direct", "ota"}
    BY <1>4, <2>1 DEF Download, Link, Use
  <2>3. now - held[d].shown \in Int
    BY <2>1 DEF TypeOK, Link
  <2>. QED
    BY <1>4, <2>2, <2>3 DEF Download, TypeOK, servers
<1>5. CASE Refused(d, s)
  <2>1. held[d] \in Link
    BY <1>5, NoneIsNoLink DEF Refused
  <2>. QED
    BY <1>5, <2>1 DEF Refused, TypeOK, servers, Link
<1>. QED
  BY <1>1, <1>2, <1>3, <1>4, <1>5 DEF Request

LEMMA TypeStep == TypeOK /\ [Next]_vars => TypeOK'
<1>. SUFFICES ASSUME TypeOK, [Next]_vars PROVE TypeOK'
  OBVIOUS
<1>1. ASSUME NEW d \in Device, NEW e \in Device, Forward(d, e) PROVE TypeOK'
  BY <1>1 DEF Forward, TypeOK, servers
<1>2. CASE Tick
  BY <1>2 DEF Tick, TypeOK, servers, devices
<1>3. CASE UNCHANGED vars
  BY <1>3 DEF vars, TypeOK, servers, devices
<1>. QED
  BY <1>1, <1>2, <1>3, TypeProcess, TypeCatalogue, TypeRequest DEF Next

\* The type invariant of the install links.
THEOREM InstallTypeCorrect == Spec => []TypeOK
BY TypeInit, TypeStep, PTL DEF Spec

-----------------------------------------------------------------------------
(* How old a link is *)

\* A page's link lives one TTL from the page, a manifest's at most two.
Dated(link) ==
    /\ link.shown <= now
    /\ IF link.use = "ota" THEN link.query.exp <= link.shown + 2 * Ttl
       ELSE link.query.exp = link.shown + Ttl

Aging == \A d \in Device : held[d] # None => Dated(held[d])

AgeInv == TypeOK /\ Aging /\ GoesCold

LEMMA AgeRequest ==
    ASSUME AgeInv, NEW d \in Device, NEW s \in Server, Request(d, s)
    PROVE  Aging' /\ GoesCold'
<1>. USE DEF AgeInv
<1>0. now \in 0..MaxTime /\ now' = now /\ held \in [Device -> Link \cup {None}]
  BY DEF Request, Page, PageNotFound, Manifest, Download, Refused, TypeOK
<1>1. ASSUME NEW r \in Release, Page(d, r, s) PROVE Aging' /\ GoesCold'
  <2>1. InstallLink(s, r) # None => Dated(InstallLink(s, r))
    BY <1>0, <1>1, MintType DEF InstallLink, Dated, Page, Use
  <2>2. \A e \in Device : held'[e] = held[e] \/ held'[e] = InstallLink(s, r)
    BY <1>0, <1>1 DEF Page
  <2>. QED
    BY <1>0, <1>1, <2>1, <2>2 DEF Aging, Dated, GoesCold, Page
<1>2. CASE PageNotFound(d, s)
  BY <1>0, <1>2 DEF PageNotFound, Aging, Dated, GoesCold
<1>3. CASE Manifest(d, s)
  <2>. DEFINE old == held[d]
              new == Mint(s, old.rel, "ota", old.shown)
  <2>1. old \in Link /\ old # None
    BY <1>3, NoneIsNoLink DEF Manifest
  <2>2. new.shown = old.shown /\ new.use = "ota" /\ new.query.exp = now + Ttl
    BY <1>3, <2>1, MintType DEF Manifest, Link, Use
  <2>3. now <= old.query.exp /\ old.query.exp = old.shown + Ttl /\ old.shown <= now
    BY <1>3, <2>1 DEF Manifest, Admits, Verify, Aging, Dated
  <2>4. Dated(new)
    BY <1>0, <2>1, <2>2, <2>3 DEF Dated, Link
  <2>5. \A e \in Device : held'[e] = held[e] \/ held'[e] = new
    BY <1>0, <1>3 DEF Manifest
  <2>. QED
    BY <1>0, <1>3, <2>4, <2>5 DEF Aging, Dated, GoesCold, Manifest
<1>4. CASE Download(d, s)
  <2>1. held[d] \in Link /\ held[d] # None
    BY <1>4, NoneIsNoLink DEF Download
  <2>2. now <= held[d].query.exp /\ Dated(held[d])
    BY <1>4, <2>1 DEF Download, Admits, Verify, Aging
  <2>3. GoesCold'
    BY <1>0, <1>4, <2>1, <2>2 DEF Download, Dated, Link, GoesCold, Query
  <2>. QED
    BY <1>0, <1>4, <2>3 DEF Download, Aging, Dated
<1>5. CASE Refused(d, s)
  BY <1>0, <1>5 DEF Refused, Aging, Dated, GoesCold
<1>. QED
  BY <1>1, <1>2, <1>3, <1>4, <1>5 DEF Request

LEMMA AgeStep == AgeInv /\ [Next]_vars => Aging' /\ GoesCold'
<1>. SUFFICES ASSUME AgeInv, [Next]_vars PROVE Aging' /\ GoesCold'
  OBVIOUS
<1>. USE DEF AgeInv
<1>1. ASSUME UNCHANGED <<devices, now>> PROVE Aging' /\ GoesCold'
  BY <1>1 DEF devices, Aging, Dated, GoesCold
<1>2. ASSUME NEW s \in Server, Process(s) PROVE UNCHANGED <<devices, now>>
  BY <1>2 DEF Process, Start, Truncate, Persist, PersistFails, Stop
<1>3. ASSUME NEW r \in Release, Catalogue(r) PROVE UNCHANGED <<devices, now>>
  BY <1>3 DEF Catalogue, Publish, Enrich, Collect
<1>4. ASSUME NEW d \in Device, NEW e \in Device, Forward(d, e)
      PROVE  Aging' /\ GoesCold'
  <2>1. \A f \in Device : held'[f] = held[f] \/ held'[f] = held[d]
    BY <1>4 DEF Forward, TypeOK
  <2>. QED
    BY <1>4, <2>1 DEF Forward, Aging, Dated, GoesCold
<1>5. CASE Tick
  <2>1. \A d \in Device : held[d] # None => held[d].shown \in Nat
    BY NoneIsNoLink DEF Link
  <2>. QED
    BY <1>5, <2>1 DEF Tick, devices, TypeOK, Aging, Dated, GoesCold
<1>6. CASE UNCHANGED vars
  BY <1>1, <1>6 DEF vars
<1>. QED
  BY <1>1, <1>2, <1>3, <1>4, <1>5, <1>6, AgeRequest DEF Next

\* No bytes are served for a link, or a copy of it, later than one TTL after its
\* page was rendered, or two on the way through an iOS manifest.
THEOREM CopiesGoCold == Spec => []GoesCold
<1>1. Init => AgeInv
  BY TypeInit DEF Init, AgeInv, Aging, GoesCold
<1>2. AgeInv /\ [Next]_vars => AgeInv'
  BY AgeStep, TypeStep DEF AgeInv
<1>3. AgeInv => GoesCold
  BY DEF AgeInv
<1>. QED
  BY <1>1, <1>2, <1>3, PTL DEF Spec

-----------------------------------------------------------------------------
(* One secret *)

\* The secret of the deployment, once there is one.
TheSecret == IF Explicit THEN 0 ELSE file

Making(s) == st[s] \in {"generate", "persist"}

\* No two servers make a secret at once.
Alone == \A s, t \in Server : Making(s) /\ Making(t) => s = t

\* Nor does one while there is a secret.
OneMaker ==
    /\ Explicit \/ Found => \A s \in Server : ~Making(s)
    /\ Alone

\* Who runs has the secret, and it is on disk.
Shared ==
    \A s \in Server :
        st[s] = "up" => (Explicit \/ Found) /\ key[s] = TheSecret

\* What was signed was signed with it.
Signed(link) ==
    /\ Explicit \/ Found
    /\ link.query.sig =
         compute(TheSecret, PathEscape(Path(link.rel, link.use)), link.query.exp)

AllSigned == \A d \in Device : held[d] # None => Signed(held[d])

SecretInv == TypeOK /\ OneMaker /\ Shared /\ AllSigned

LEMMA SecretProcess ==
    ASSUME SecretInv, Alone', NEW s \in Server, Process(s)
    PROVE  OneMaker' /\ Shared' /\ AllSigned'
<1>. USE DEF SecretInv, Making
<1>0. /\ st \in [Server -> {"down", "generate", "persist", "up"}]
      /\ key \in [Server -> Secret \cup {None}]
  BY DEF TypeOK
<1>1. CASE Start(s)
  <2>1. held' = held /\ file' = file
    BY <1>1 DEF Start, devices
  <2>2. OneMaker'
    BY <1>0, <1>1 DEF Start, OneMaker, Found
  <2>3. Shared'
    BY <1>0, <1>1 DEF Start, Shared, Found, TheSecret
  <2>. QED
    BY <2>1, <2>2, <2>3 DEF AllSigned, Signed, TheSecret, Found
<1>2. CASE Truncate(s)
  <2>1. ~Explicit /\ ~Found
    BY <1>2 DEF Truncate, OneMaker
  <2>2. /\ \A t \in Server : st[t] # "up"
        /\ \A d \in Device : held[d] = None
    BY <2>1 DEF Shared, AllSigned, Signed
  <2>3. OneMaker'
    BY <1>0, <1>2, <2>1 DEF Truncate, OneMaker, Found, Secret
  <2>4. Shared'
    BY <1>0, <1>2, <2>2 DEF Truncate, Shared
  <2>. QED
    BY <1>2, <2>2, <2>3, <2>4 DEF Truncate, AllSigned, devices
<1>3. CASE Persist(s)
  <2>1. ~Explicit /\ ~Found /\ key[s] \in Secret
    BY <1>0, <1>3 DEF Persist, OneMaker, TypeOK
  <2>2. /\ \A t \in Server : st[t] # "up"
        /\ \A d \in Device : held[d] = None
    BY <2>1 DEF Shared, AllSigned, Signed
  <2>3. \A t \in Server : Making(t) => t = s
    BY <1>3 DEF Persist, OneMaker, Alone
  <2>4. OneMaker'
    BY <1>0, <1>3, <2>3 DEF Persist, OneMaker
  <2>5. Shared'
    BY <1>0, <1>3, <2>1, <2>2 DEF Persist, Shared, Found, TheSecret
  <2>. QED
    BY <1>3, <2>2, <2>4, <2>5 DEF Persist, AllSigned, devices
<1>4. CASE PersistFails(s) \/ Stop(s)
  <2>1. /\ held' = held /\ file' = file
        /\ st' = [st EXCEPT ![s] = "down"]
        /\ key' = [key EXCEPT ![s] = None]
    BY <1>4 DEF PersistFails, Stop, devices
  <2>. QED
    BY <1>0, <2>1 DEF OneMaker, Shared, AllSigned, Signed, TheSecret, Found
<1>. QED
  BY <1>1, <1>2, <1>3, <1>4 DEF Process

LEMMA MintSigned ==
    ASSUME SecretInv, NEW s \in Server, st[s] = "up", NEW r \in Release, NEW u \in Use,
           NEW t \in 0..MaxTime
    PROVE  Signed(Mint(s, r, u, t))
BY MintType DEF SecretInv, Shared, Signed

LEMMA SecretRequest ==
    ASSUME SecretInv, NEW d \in Device, NEW s \in Server, Request(d, s)
    PROVE  AllSigned'
<1>. USE DEF SecretInv
<1>0. /\ st[s] = "up" /\ file' = file
      /\ held \in [Device -> Link \cup {None}]
  BY DEF Request, Page, PageNotFound, Manifest, Download, Refused, TypeOK, servers
<1>1. SUFFICES ASSUME NEW e \in Device, held'[e] # None, held'[e] # held[e]
               PROVE  Signed(held'[e])
  BY <1>0 DEF AllSigned, Signed, TheSecret, Found
<1>2. now \in 0..MaxTime
  BY DEF TypeOK
<1>3. ASSUME NEW r \in Release, Page(d, r, s) PROVE Signed(held'[e])
  <2>1. held'[e] = InstallLink(s, r)
    BY <1>0, <1>1, <1>3 DEF Page
  <2>. QED
    BY <1>0, <1>1, <1>2, <2>1, MintSigned DEF InstallLink, Use
<1>4. CASE Manifest(d, s)
  <2>1. held[d] \in Link
    BY <1>4, NoneIsNoLink DEF Manifest
  <2>2. held'[e] = Mint(s, held[d].rel, "ota", held[d].shown)
    BY <1>0, <1>1, <1>4 DEF Manifest
  <2>. QED
    BY <1>0, <2>1, <2>2, MintSigned DEF Link, Use
<1>5. CASE Refused(d, s)
  BY <1>0, <1>1, <1>5 DEF Refused
<1>. QED
  BY <1>1, <1>3, <1>4, <1>5 DEF Request, PageNotFound, Download

LEMMA SecretStep ==
    ASSUME SecretInv, Alone', [Next]_vars
    PROVE  OneMaker' /\ Shared' /\ AllSigned'
<1>. USE DEF SecretInv
<1>1. ASSUME UNCHANGED servers PROVE OneMaker' /\ Shared'
  BY <1>1 DEF servers, OneMaker, Alone, Shared, Making, TheSecret, Found
<1>2. ASSUME UNCHANGED <<servers, held>> PROVE OneMaker' /\ Shared' /\ AllSigned'
  BY <1>1, <1>2 DEF servers, AllSigned, Signed, TheSecret, Found
<1>3. ASSUME NEW r \in Release, Catalogue(r) PROVE UNCHANGED <<servers, held>>
  BY <1>3 DEF Catalogue, Publish, Enrich, Collect, devices
<1>4. ASSUME NEW d \in Device, NEW s \in Server, Request(d, s)
      PROVE  UNCHANGED servers
  BY <1>4 DEF Request, Page, PageNotFound, Manifest, Download, Refused
<1>5. ASSUME NEW d \in Device, NEW e \in Device, Forward(d, e)
      PROVE  OneMaker' /\ Shared' /\ AllSigned'
  <2>1. \A f \in Device : held'[f] = held[f] \/ held'[f] = held[d]
    BY <1>5 DEF Forward, TypeOK
  <2>2. held[d] # None /\ UNCHANGED servers
    BY <1>5 DEF Forward
  <2>. QED
    BY <1>1, <2>1, <2>2 DEF servers, AllSigned, Signed, TheSecret, Found
<1>6. CASE Tick
  BY <1>2, <1>6 DEF Tick, devices
<1>7. CASE UNCHANGED vars
  BY <1>2, <1>7 DEF vars, devices
<1>. QED
  BY <1>1, <1>2, <1>3, <1>4, <1>5, <1>6, <1>7, SecretProcess, SecretRequest DEF Next

LEMMA SecretGivesHonoured == SecretInv => LinksHonoured
<1>. SUFFICES ASSUME SecretInv, NEW d \in Device, held[d] # None,
                     held[d].rel \notin Reserved, now <= held[d].query.exp,
                     NEW s \in Server, st[s] = "up"
              PROVE  Admits(s, held[d])
  BY DEF LinksHonoured, Honoured
<1>1. held[d] \in Link
  BY NoneIsNoLink DEF SecretInv
<1>2. PathEscape(Path(held[d].rel, held[d].use)) = Path(held[d].rel, held[d].use)
  <2>1. (held[d].rel \in Reserved) = FALSE
    OBVIOUS
  <2>2. Path(held[d].rel, held[d].use).name = held[d].rel
    BY DEF Path
  <2>. QED
    BY <2>1, <2>2 DEF PathEscape, Path
<1>. QED
  BY <1>2 DEF SecretInv, AllSigned, Signed, Shared, Admits, Verify

\* Servers that start one after the other, or are given the secret, are alone
\* when they make one.
LEMMA SerialAlone ==
    ASSUME Serial \/ Explicit, SecretInv, [Next]_vars
    PROVE  Alone'
<1>. USE DEF SecretInv, OneMaker, Alone, Making
<1>0. st \in [Server -> {"down", "generate", "persist", "up"}]
  BY DEF TypeOK
<1>1. ASSUME NEW s \in Server, Process(s) PROVE Alone'
  <2>1. CASE Start(s)
    BY <1>0, <2>1 DEF Start
  <2>2. CASE Truncate(s)
    BY <1>0, <2>2 DEF Truncate
  <2>3. CASE Persist(s)
    BY <1>0, <2>3 DEF Persist
  <2>4. CASE PersistFails(s) \/ Stop(s)
    BY <1>0, <2>4 DEF PersistFails, Stop
  <2>. QED
    BY <1>1, <2>1, <2>2, <2>3, <2>4 DEF Process
<1>2. ASSUME UNCHANGED servers PROVE Alone'
  BY <1>2 DEF servers
<1>3. ASSUME \A s \in Server : ~Process(s) PROVE UNCHANGED servers
  BY <1>3 DEF Next, vars, Catalogue, Publish, Enrich, Collect, Request, Page, PageNotFound,
     Manifest, Download, Refused, Forward, Tick
<1>. QED
  BY <1>1, <1>2, <1>3

LEMMA SecretInit == Init => SecretInv
BY TypeInit
   DEF Init, SecretInv, OneMaker, Alone, Making, Shared, AllSigned, Found, Secret

\* If servers are not started at the same time on a directory without a secret, or
\* the operator gives the secret, every server takes every link of a plain name
\* within its TTL, through crashes in the middle of writing the secret, full
\* disks, restarts and any number of processes.
THEOREM LinksAreHonoured ==
    ASSUME Serial \/ Explicit
    PROVE  Spec => []LinksHonoured
<1>1. SecretInv /\ [Next]_vars => SecretInv'
  BY SecretStep, SerialAlone, TypeStep DEF SecretInv
<1>. QED
  BY <1>1, SecretInit, SecretGivesHonoured, PTL DEF Spec

\* However the servers are started, links are refused before their time only if
\* two servers were once between finding no secret and having written one at the
\* same time (sign.go:94-110).
THEOREM OnlyTwoMakersSplit == Spec /\ []Alone => []LinksHonoured
<1>1. SecretInv /\ Alone' /\ [Next]_vars => SecretInv'
  BY SecretStep, TypeStep DEF SecretInv
<1>. QED
  BY <1>1, SecretInit, SecretGivesHonoured, PTL DEF Spec

-----------------------------------------------------------------------------
(* Names that are escaped *)

\* Every link is signed over the escaped path.
SignedEscaped ==
    \A d \in Device : held[d] # None =>
        held[d].query.sig.path = PathEscape(Path(held[d].rel, held[d].use))

\* No server takes the link of a release whose name is escaped.
EscapedAreRefused ==
    \A d \in Device : held[d] # None /\ held[d].rel \in Reserved =>
        \A s \in Server : ~Admits(s, held[d])

LEMMA MintEscaped ==
    ASSUME TypeOK, NEW s \in Server, st[s] = "up", NEW r \in Release, NEW u \in Use,
           NEW t \in 0..MaxTime
    PROVE  Mint(s, r, u, t).query.sig.path = PathEscape(Path(r, u))
<1>1. Mint(s, r, u, t).query.sig = compute(key[s], PathEscape(Path(r, u)), now + Ttl)
  BY MintType
<1>2. \A k, p, e : compute(k, p, e).path = p
  BY DEF compute
<1>. QED
  BY <1>1, <1>2

LEMMA EscapedStep ==
    ASSUME TypeOK, TypeOK', SignedEscaped, [Next]_vars
    PROVE  SignedEscaped'
<1>0. held \in [Device -> Link \cup {None}] /\ now \in 0..MaxTime
  BY DEF TypeOK
<1>1. SUFFICES ASSUME NEW e \in Device, held'[e] # None, held'[e] # held[e]
               PROVE  held'[e].query.sig.path
                        = PathEscape(Path(held'[e].rel, held'[e].use))
  BY DEF SignedEscaped
<1>2. ASSUME NEW d \in Device, NEW s \in Server, Request(d, s)
      PROVE  held'[e].query.sig.path = PathEscape(Path(held'[e].rel, held'[e].use))
  <2>1. st[s] = "up"
    BY <1>2 DEF Request, Page, PageNotFound, Manifest, Download, Refused
  <2>2. ASSUME NEW r \in Release, Page(d, r, s)
        PROVE  \E u \in Use : held'[e] = Mint(s, r, u, now)
    <3>1. held'[e] = InstallLink(s, r)
      BY <1>0, <1>1, <2>2 DEF Page
    <3>. QED
      BY <1>1, <3>1 DEF InstallLink, Use
  <2>3. CASE Manifest(d, s)
    <3>1. held[d] \in Link
      BY <2>3, NoneIsNoLink DEF Manifest
    <3>2. held'[e] = Mint(s, held[d].rel, "ota", held[d].shown)
      BY <1>0, <1>1, <2>3 DEF Manifest
    <3>3. held[d].rel \in Release /\ held[d].shown \in 0..MaxTime /\ "ota" \in Use
      BY <3>1 DEF Link, Use
    <3>. QED
      BY <2>1, <3>2, <3>3, MintType, MintEscaped
  <2>4. CASE PageNotFound(d, s) \/ Download(d, s) \/ Refused(d, s)
    BY <1>0, <1>1, <2>4 DEF PageNotFound, Download, Refused
  <2>. QED
    BY <1>0, <1>2, <2>1, <2>2, <2>3, <2>4, MintType, MintEscaped DEF Request
<1>3. ASSUME NEW d \in Device, NEW f \in Device, Forward(d, f)
      PROVE  held'[e].query.sig.path = PathEscape(Path(held'[e].rel, held'[e].use))
  BY <1>0, <1>1, <1>3 DEF Forward, SignedEscaped
<1>4. UNCHANGED held \/ (\E d \in Device, s \in Server : Request(d, s))
        \/ (\E d, f \in Device : Forward(d, f))
  BY DEF Next, vars, devices, Process, Start, Truncate, Persist, PersistFails, Stop,
     Catalogue, Publish, Enrich, Collect, Tick
<1>. QED
  BY <1>1, <1>2, <1>3, <1>4

LEMMA EscapedGivesRefused == SignedEscaped => EscapedAreRefused
<1>. SUFFICES ASSUME SignedEscaped, NEW d \in Device, held[d] # None,
                     held[d].rel \in Reserved, NEW s \in Server, Admits(s, held[d])
              PROVE  FALSE
  BY DEF EscapedAreRefused
<1>. DEFINE p == Path(held[d].rel, held[d].use)
<1>1. compute(key[s], p, held[d].query.exp) = held[d].query.sig
  BY DEF Admits, Verify
<1>2. compute(key[s], p, held[d].query.exp).path = p
  BY DEF compute
<1>3. p = PathEscape(p)
  BY <1>1, <1>2 DEF SignedEscaped
<1>4. p.escaped = FALSE /\ p.name = held[d].rel
  BY DEF Path
<1>5. PathEscape(p).escaped = (p.name \in Reserved)
  BY DEF PathEscape
<1>. QED
  BY <1>3, <1>4, <1>5

\* A link to a release whose name or version the escaping changes is minted, and
\* then refused by every server, within its TTL or not: it is signed over the
\* escaped path and checked against the decoded one. The names LinksHonoured
\* leaves out are exactly those for which it fails (install.go:325, server.go:160).
THEOREM EscapedNeverInstall == Spec => []EscapedAreRefused
<1>1. Init => SignedEscaped
  BY DEF Init, SignedEscaped
<1>. QED
  BY <1>1, TypeInit, TypeStep, EscapedStep, EscapedGivesRefused, PTL DEF Spec
=============================================================================
