------------------------------- MODULE Install -------------------------------
(***************************************************************************)
(* Signed install links of shipd (internal/server/sign.go and install.go): *)
(* server processes on one data directory that find or make the secret     *)
(* when they start, the public install page that mints links, the iOS      *)
(* manifest that mints another, the download behind them, and the devices  *)
(* that follow the links, late or from a copy, at any of the servers.      *)
(* Signing is on: --install-url-ttl is not 0.                              *)
(***************************************************************************)
EXTENDS Integers, FiniteSets

CONSTANTS
    Server,     \* server processes
    Device,     \* browsers and phones
    Release,    \* names (app, version), on channel stable
    IOS,        \* the releases whose platform is ios
    Reserved,   \* the releases whose names url.PathEscape changes
    Explicit,   \* is --install-url-secret given?
    Serial,     \* does the operator start servers one after the other?
    Ttl,        \* --install-url-ttl
    MaxTime,    \* bound: the clock
    MaxSecret,  \* bound: secrets generated
    Torn,       \* a secret file that is cut short
    None

ASSUME InstallBounds == Ttl \in Nat \ {0} /\ {MaxTime, MaxSecret} \subseteq Nat
ASSUME InstallSwitches == {Explicit, Serial} \subseteq BOOLEAN
ASSUME InstallSets == IOS \subseteq Release /\ Reserved \subseteq Release
ASSUME InstallMarks == Torn \notin Nat /\ None \notin Nat \cup Release /\ Torn # None

VARIABLES
    st,         \* where each server is: down, generate, persist, up
    key,        \* the secret each server holds in memory
    file,       \* <data dir>/install_url_secret
    made,       \* secrets generated so far; the operator's own is 0
    row,        \* the release's row: none, bare (no bundle id) or ready
    held,       \* the link a device has, or None
    redirect,   \* the release whose page a browser was sent to, or None
    served,     \* history: the link of the last bytes served, and the age of its page
    now

servers == <<st, key, file, made>>
devices == <<held, redirect, served>>
vars == <<servers, row, devices, now>>

Secret == 0..MaxSecret

-----------------------------------------------------------------------------
(* sign.go: links and their signatures *)

\* A route, with names as they are or escaped.
Path(r, use) ==
    [name |-> r, route |-> IF use = "manifest" THEN "manifest.plist" ELSE "download",
     escaped |-> FALSE]

PathEscape(p) == [name |-> p.name, route |-> p.route, escaped |-> p.name \in Reserved]

\* HMAC: equal for equal arguments only.
compute(k, path, exp) == [secret |-> k, path |-> path, exp |-> exp]

SignedQuery(k, path) == [exp |-> now + Ttl, sig |-> compute(k, path, now + Ttl)]

\* Mutant of Verify: a link is good as long as it has been.
VerifyAnyTime(k, path, q) == compute(k, path, q.exp) = q.sig

Verify(k, path, q) == now <= q.exp /\ compute(k, path, q.exp) = q.sig

\* A link as minted by server s. A download link is "direct" on a page and
\* "ota" in a manifest. shown: when the page it goes back to was rendered.
Mint(s, r, use, t) ==
    [rel |-> r, use |-> use, query |-> SignedQuery(key[s], PathEscape(Path(r, use))),
     shown |-> t]

\* verifyInstallSig looks at the path the request arrived with, decoded.
Admits(s, link) == Verify(key[s], Path(link.rel, link.use), link.query)

-----------------------------------------------------------------------------
(* A server process *)

\* Mutant of Found: whatever a file holds is a secret.
FoundAnyFile == file # None

\* A file cut short does not hold 32 bytes.
Found == file \in Secret

Start(s) ==
    /\ st[s] = "down"
    /\ Serial => \A t \in Server : st[t] \notin {"generate", "persist"}
    /\ IF Explicit \/ Found
       THEN /\ st' = [st EXCEPT ![s] = "up"]
            /\ key' = [key EXCEPT ![s] = IF Explicit THEN 0 ELSE file]
       ELSE st' = [st EXCEPT ![s] = "generate"] /\ UNCHANGED key
    /\ UNCHANGED <<file, made, row, devices, now>>

\* A fresh secret; os.WriteFile truncates the file and then writes it.
Truncate(s) ==
    /\ st[s] = "generate" /\ made < MaxSecret
    /\ made' = made + 1
    /\ key' = [key EXCEPT ![s] = made']
    /\ file' = Torn
    /\ st' = [st EXCEPT ![s] = "persist"]
    /\ UNCHANGED <<row, devices, now>>

Persist(s) ==
    /\ st[s] = "persist"
    /\ file' = key[s]
    /\ st' = [st EXCEPT ![s] = "up"]
    /\ UNCHANGED <<key, made, row, devices, now>>

\* Mutant of PersistFails: the server runs with a secret that is not on disk.
PersistFailsUnnoticed(s) ==
    /\ st[s] = "persist"
    /\ st' = [st EXCEPT ![s] = "up"]
    /\ UNCHANGED <<key, file, made, row, devices, now>>

\* No space, say: New returns an error.
PersistFails(s) ==
    /\ st[s] \in {"generate", "persist"}
    /\ st' = [st EXCEPT ![s] = "down"]
    /\ key' = [key EXCEPT ![s] = None]
    /\ UNCHANGED <<file, made, row, devices, now>>

\* Shutdown or crash, anywhere.
Stop(s) ==
    /\ st[s] # "down"
    /\ st' = [st EXCEPT ![s] = "down"]
    /\ key' = [key EXCEPT ![s] = None]
    /\ UNCHANGED <<file, made, row, devices, now>>

-----------------------------------------------------------------------------
(* The catalogue, as far as the install routes read it *)

\* An iOS release comes with a bundle id only if the publisher gives it.
Publish(r) ==
    /\ row[r] = "none"
    /\ \E v \in {"ready"} \cup (IF r \in IOS THEN {"bare"} ELSE {}) :
         row' = [row EXCEPT ![r] = v]
    /\ UNCHANGED <<servers, devices, now>>

\* UpdateBundleInfo, when the publish handler gets that far.
Enrich(r) ==
    /\ row[r] = "bare"
    /\ row' = [row EXCEPT ![r] = "ready"]
    /\ UNCHANGED <<servers, devices, now>>

Collect(r) ==
    /\ row[r] # "none"
    /\ row' = [row EXCEPT ![r] = "none"]
    /\ UNCHANGED <<servers, devices, now>>

-----------------------------------------------------------------------------
(* Requests *)

\* installLink: what the page offers for release r.
InstallLink(s, r) ==
    IF r \notin IOS THEN Mint(s, r, "direct", now)
    ELSE IF row[r] = "ready" THEN Mint(s, r, "manifest", now) ELSE None

\* The install page, opened by the user or after a redirect; the one without a
\* version shows one of the releases or another.
Page(d, r, s) ==
    /\ st[s] = "up" /\ row[r] # "none"
    /\ redirect[d] \in {None, r}
    /\ held' = [held EXCEPT ![d] = InstallLink(s, r)]
    /\ redirect' = [redirect EXCEPT ![d] = None]
    /\ UNCHANGED <<servers, row, served, now>>

\* The page of a release that is gone: 404.
PageNotFound(d, s) ==
    /\ st[s] = "up"
    /\ redirect[d] # None /\ row[redirect[d]] = "none"
    /\ redirect' = [redirect EXCEPT ![d] = None]
    /\ UNCHANGED <<servers, row, held, served, now>>

\* handleManifestPlist: the phone has a download link now. A link that is
\* refused (410), a row that is gone (404) or bare (422) leave it what it has.
Manifest(d, s) ==
    /\ st[s] = "up" /\ held[d] # None
    /\ held[d].use = "manifest" /\ Admits(s, held[d])
    /\ row[held[d].rel] = "ready"
    /\ held' = [held EXCEPT ![d] = Mint(s, @.rel, "ota", @.shown)]
    /\ UNCHANGED <<servers, row, redirect, served, now>>

\* handleInstallDownload: one request, for all of the bytes or a range of them.
Download(d, s) ==
    /\ st[s] = "up" /\ held[d] # None
    /\ held[d].use # "manifest" /\ Admits(s, held[d])
    /\ row[held[d].rel] # "none"
    /\ served' = [use |-> held[d].use, age |-> now - held[d].shown]
    /\ UNCHANGED <<servers, row, held, redirect, now>>

\* 303 to the page: a browser goes there, the iOS installer gives up.
Refused(d, s) ==
    /\ st[s] = "up" /\ held[d] # None
    /\ held[d].use # "manifest" /\ ~Admits(s, held[d])
    /\ held' = [held EXCEPT ![d] = None]
    /\ redirect' = [redirect EXCEPT ![d] =
                      IF held[d].use = "direct" THEN held[d].rel ELSE @]
    /\ UNCHANGED <<servers, row, served, now>>

\* A copy of the link is sent to another device.
Forward(d, e) ==
    /\ held[d] # None /\ d # e
    /\ held' = [held EXCEPT ![e] = held[d]]
    /\ UNCHANGED <<servers, row, redirect, served, now>>

Tick ==
    /\ now < MaxTime
    /\ now' = now + 1
    /\ UNCHANGED <<servers, row, devices>>

-----------------------------------------------------------------------------
Init ==
    /\ st = [s \in Server |-> "down"] /\ key = [s \in Server |-> None]
    /\ file = None /\ made = 0
    /\ row = [r \in Release |-> "none"]
    /\ held = [d \in Device |-> None]
    /\ redirect = [d \in Device |-> None]
    /\ served = None
    /\ now = 0

Process(s) == Start(s) \/ Truncate(s) \/ Persist(s) \/ PersistFails(s) \/ Stop(s)
Catalogue(r) == Publish(r) \/ Enrich(r) \/ Collect(r)
Request(d, s) ==
    \/ \E r \in Release : Page(d, r, s)
    \/ PageNotFound(d, s) \/ Manifest(d, s) \/ Download(d, s) \/ Refused(d, s)

Next ==
    \/ \E s \in Server : Process(s)
    \/ \E r \in Release : Catalogue(r)
    \/ \E d \in Device, s \in Server : Request(d, s)
    \/ \E d, e \in Device : Forward(d, e)
    \/ Tick

Spec == Init /\ [][Next]_vars

-----------------------------------------------------------------------------
(* Properties *)

Use == {"manifest", "direct", "ota"}
PathSet == [name : Release, route : {"manifest.plist", "download"}, escaped : BOOLEAN]
Query == [exp : Nat, sig : [secret : Secret, path : PathSet, exp : Nat]]
Link == [rel : Release, use : Use, query : Query, shown : 0..MaxTime]

TypeOK ==
    /\ st \in [Server -> {"down", "generate", "persist", "up"}]
    /\ key \in [Server -> Secret \cup {None}]
    /\ \A s \in Server : key[s] # None <=> st[s] \in {"persist", "up"}
    /\ file \in Secret \cup {Torn, None}
    /\ made \in 0..MaxSecret
    /\ row \in [Release -> {"none", "bare", "ready"}]
    /\ held \in [Device -> Link \cup {None}]
    /\ redirect \in [Device -> Release \cup {None}]
    /\ served \in [use : {"direct", "ota"}, age : Int] \cup {None}
    /\ now \in 0..MaxTime

Honoured(d) ==
    held[d] # None /\ now <= held[d].query.exp =>
        \A s \in Server : st[s] = "up" => Admits(s, held[d])

\* Every server takes a link within its TTL, whichever server minted it and
\* whatever stops, restarts and full disks came between, for names that need no
\* escaping (sign.go:76-79).
LinksHonoured == \A d \in Device : held[d] # None => held[d].rel \in Reserved \/ Honoured(d)

\* A copy of a link goes cold: the bytes are served no later than one TTL after
\* the page was rendered, and on iOS, where the manifest's link starts anew, no
\* later than two (sign.go:18-25, install.go:203-242).
GoesCold ==
    served # None =>
        served.age <= (IF served.use = "ota" THEN 2 * Ttl ELSE Ttl)
=============================================================================
