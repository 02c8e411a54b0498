# shipd: TLA+ specifications and proofs

shipd is a self-hosted release server: it stores build artifacts, serves them
to people and devices, and lets chat users and AI agents drive the same
operations. This directory holds TLA+ models of it, TLC runs that check them on
small instances, and TLAPS proofs for every instance. All paths below are under
`src/internal/` unless they say otherwise.

## The system

| Part | Source | State | Operations | What makes it hard |
|---|---|---|---|---|
| Release catalogue | `storage/store.go` | SQLite tables `apps`, `releases` | put, yank, unyank, promote, gc candidates, delete, bundle update, latest, list, stats | no transactions: every statement interleaves with those of other handlers and of a `shipd gc` process |
| Blob store | `storage/blob.go`, `storage/s3.go` | files or S3 objects named by the SHA-256 of their bytes | put, open, delete | blobs are shared between rows; put and delete are not ordered with the rows |
| Release API | `server/server.go` | requests in flight | publish (with iOS bundle extraction), promote, yank, unyank, gc, downloads | clients go away, the process dies between two statements |
| Garbage collection | `storage/store.go`, `server/server.go`, `cli/gc.go` | the candidate list of a run | list, then delete one by one | works from one snapshot, may run several times at once |
| API tokens | `storage/store.go`, `server/server.go`, `cli/token.go` | table `tokens` | create, revoke, look up, bootstrap | expiry, revocation and restart |
| Install links | `server/sign.go`, `server/install.go` | the HMAC secret, in memory and in a file | mint, verify, redirect | expiry, restart, a lost secret, two legs of one install |
| Metrics | `server/metrics.go` | process counters | count, render | counters and tables are read apart |
| Personal WeChat | `gateway/weixin*.go` | long-poll cursor (memory and file), context tokens | poll, dispatch, reply, QR login | crash between cursor and handling, lost answers, torn file |
| Slack, Feishu, WeChat Work | `gateway/slack.go`, `feishu*.go`, `wechat_work.go` | token caches, QR cache | acknowledge, dispatch, reply | redelivery, parallel handlers, token expiry |
| Router and parser | `gateway/gateway.go`, `parser.go`, `stdio.go` | none | one line to one tool call | refused and malformed arguments |
| AI agent | `ai/agent.go`, `anthropic.go`, `notes.go` | one conversation | model call, tool calls | bounded loop, pairing of calls and results |
| MCP server and tools | `mcp/*.go` | tool registry | one JSON-RPC request at a time | notifications, errors, end of input |
| HTTP client | `client/client.go` | none | one request per call | answers that are lost after the request was applied |
| Server start and stop | `cli/serve.go`, `server/server.go` | the process | open, bootstrap, listen, shut down | stops and crashes with requests in flight |
| Other CLI, package inspection | `cli/`, `pkginfo/` | none of their own | request and print; read a zip | none |

How they meet: the handlers of the release API, `shipd gc` and the CLI's token
commands work on one SQLite file and one blob store, from several goroutines
and several processes. Chat adapters and the MCP server reach the catalogue
only through the HTTP client, with an API token. Install pages read the
catalogue and add signed links; devices come back with them without a token.

What each part must promise:

* catalogue: a release name stands for one artifact for ever (no overwrite);
  every listed release can be downloaded; bundle information extracted from
  bytes stays with those bytes; the newest releases of a group survive gc; gc takes only what was
  yanked long enough ago; a yanked release is not promoted;
* blob store: a key holds the content it names or nothing; a reader returns the
  bytes at its position whatever seeks came before; nothing is left behind;
* tokens: an expired token opens nothing, nobody widens their own scope, a token
  that was handed out is kept, and a replaced bootstrap token stays replaced;
* install links: a link opens one release's route until it expires, over
  restarts; nothing else opens it;
* adapters: a command runs at most once, or at least once, as the adapter
  documents; replies go to the conversation they belong to;
* agent and MCP: every tool call has one result and it is true, effects are
  announced, every request gets one answer, and the loops end.

## The modules

### Catalog, the core

`Catalog.tla` models the catalogue, the blob store and everything that changes
them. State and code correspond as follows.

| Variable | Code |
|---|---|
| `apps` | table `apps` |
| `rows` | table `releases`, keyed by its primary key (app, version, channel) |
| `blobs` | the keys present in the blob store |
| `now` | `time.Now().Unix()`, in the unit of `created_at` and `yanked_at` |
| `wpc`, `req` | for each publish or promote in flight, the statement it is about to run and its locals |
| `gpc`, `todo`, `cur` | for each collection, the statement, the candidates not yet dealt with, and the locals of `DeleteReleaseAndBlob` |

An action is one SQL statement or one call on the blob store, since nothing in
the code makes two of them atomic. A publish is `PublishBegin` (upsert of the
app), `PublishPrecheck`, `PublishPut` (blob store, then the clock),
`PublishInsert` or `InsertConflict`, and for iOS `PublishExtract` and
`PublishUpdateInfo`. A promotion is `PromoteRead` and `PromoteInsert` (or
`InsertConflict`). `Yank` and `Unyank` are one statement each. A collection is
`GcStart` (the candidate query) and then, per candidate, `GcSelect` or
`GcSkip`, `GcDeleteRow`, `GcCount`, `GcDeleteBlob`. `WriterFails`, `GcFails`
and `GcEnd` cover errors of a statement, cancelled requests and a process that
dies: what was done stays done.

Abstractions: a body is a model value that is also its blob's key, size and
digest (SHA-256 taken as injective); `info` says where the bundle columns are
from: `id` from the publisher (`Given`) or a body's Info.plist, `build` (version
and build number) from a body's. A row is inserted with what the publisher declared,
and `UpdateBundleInfo` overwrites the identifier only if the body has one (`Named`).
Display names, notes, file names and the yank reason are left out: they are kept as
given. The rowid, which breaks ties of `created_at`, follows SQLite's max + 1 rule.

Two switches are constants. `Faults` allows failures. `Window` restricts
collections to times when no publish or promote is in flight (and conversely);
two collections may still overlap. Nothing in the code enforces a window: it is
an operating rule (stop CI and run gc at night), and the models show what it
buys. Runs with `Window = FALSE` are the code as it stands.

### ReleaseSpec, the promise

`ReleaseSpec.tla` is what clients are promised: releases own their bytes, and
add, yank, unyank and collect are atomic and look at the catalogue as it is.
`Catalog` maps a row and its blob to a release (`ReleaseOf`) and hides requests,
candidate lists and the bundle columns; `ImplementsReleaseSpec` says every
behaviour of `Catalog` is, seen so, one of `ReleaseSpec`. A row that loses its
blob is a step `ReleaseSpec` has no action for.

### Weixin and AtMostOnce

`Weixin.tla` models the personal-WeChat adapter: `WeixinAdapter.Run` with its
calls, the process around it and the iLink server as the code uses it.

| Variable | Code |
|---|---|
| `inbox`, `live` | outside: the messages for the bot in order, and the login whose token the server takes |
| `saved`, `file` | `<account>.json` and `<account>.sync.json`: the login, and the cursor as the number of messages it is past, or `Torn` |
| `pc` | where `Run` is: polling, in one of its three sleeps, saving, handling; `down` with no process |
| `cred`, `syncBuf`, `tokens`, `failStreak` | the adapter's token, cursor, context tokens and counter |
| `at`, `base` | how far `range resp.Msgs` has come, and the cursor the process started from |
| `ran` | history: how often the command of each message was run |

Actions: `PollAnswer`, `PollError`, `PollRefused`, `PollExpired` are the four
ways a poll ends; `SaveTruncate`, `SaveWrite`, `SaveFails` are `saveSyncBuf`,
whose `os.WriteFile` is two steps on disk; `HandleSkip`, `HandleText`,
`Dispatch`, `Reply` are `handleInbound`; `Crash`, `Cancel` and `Return`, `Start`
are the life of the process; `Expire` and `Relogin` the session. A poll whose
answer is lost is `PollError` with messages waiting. A dispatch whose context is
cancelled may or may not have run. Left out: retries of the operator's QR scan,
`RoomID` (it only labels the message), streaming lines of `ask` (they use the
same token as the reply), and an empty state directory (no cursor is kept then).

That the server answers a cursor with the messages after it, in order, and the
same again if asked again, is an assumption on iLink, which is not in `src/`.

`AtMostOnce.tla` is what users are promised: commands run in order, at most once,
and none runs after it was passed over. `StatusOf` maps the adapter to it: a
message is passed once it has been handled, or, while no process runs, once the
cursor on disk is past it.

### Install

`Install.tla` models signed install links: server processes, the secret they
sign with, and the devices that follow links.

| Variable | Code |
|---|---|
| `st`, `key` | each server process: where `loadOrGenInstallSecret` is, and `installSigner.secret` |
| `file`, `made` | `<data dir>/install_url_secret` (`Torn` when cut short), and how many secrets `rand.Read` has given |
| `row` | what the install routes read of a release: none, no bundle id yet, complete |
| `held`, `redirect` | outside: the link a device has, the page a browser was sent back to |
| `served` | history: how old the page behind the last served bytes was |

`Start`, `Truncate`, `Persist`, `PersistFails`, `Stop` are the start and end of a
server (`os.WriteFile` is two steps on disk); `Page`, `Manifest`, `Download`,
`Refused` and `PageNotFound` are the install routes with the wrapper
`verifyInstallSig`; `Publish`, `Enrich`, `Collect` change the release under
them; `Forward` hands a copy of a link on. An HMAC is the record of its
arguments, so equal for equal arguments only. The unversioned page's choice of a
platform is left to the device. With `--install-url-ttl=0` there is no signer
and nothing to model.

Two constants are operating rules. `Explicit`: the operator gives the secret.
`Serial`: servers that share a data directory are started one after the other,
at least until the secret is on disk. Without either, two first starts generate
two secrets and each server refuses the links of the other, which `sign.go:80-81`
warns of.

### TokenCache

`TokenCache.tla` models what the goroutines of the Feishu and WeChat Work
adapters share: the platform's access token behind a mutex, and WeChat Work's QR
picture behind one that is not held while it is fetched.

| Variable | Code |
|---|---|
| `go` | each goroutine: `handleMessage` with its `sendText` calls, or `handleQRCode`; the token it carries |
| `owner` | `tokenMu` |
| `tokenVal`, `tokenExp` | the cache; a token is the time at which the platform lets it expire |
| `qr`, `qrFetched` | the cached picture, as the time it was drawn, and when its answer came |

`Lock`, `Hit`, `Miss`, `Issue`, `Store`, `FetchFails` are `tenantToken` and
`accessToken`; `Sent` is `sendText`; `Look`, `Draw`, `Keep`, `DrawFails`, `Serve`
are the QR handler. The critical sections of `qrMu` are single steps. `GoOn` is
what `handleMessage` does after a text that was sent or failed: go on with a
line of progress or the reply, or end. Feishu is the instance with
`Job = {"send"}`.

The assumption `Punctual` says what the margin of a minute is for: an answer and
a request together take no longer than it, and no token is granted for less. The
code sets no timeout on `http.DefaultClient`, so this is a claim on the network
and the platform, not on the code.

### Access

`Access.tla` models the token table, the middleware in front of every route and
the life of the server processes that share the table with `shipd token`.

| Variable | Code |
|---|---|
| `tokens` | table `tokens`: a row or `None` for each name (a `UNIQUE` column, like the hash) |
| `srv`, `starts` | where each server process is between `newServeCmd` and the return of `main` |
| `req`, `made` | each request's goroutine: before its look-up, before its handler's statement, before its answer; the row it has minted |
| `now` | `time.Now()`, in ticks |
| `born`, `deadline`, `told`, `revoked`, `rotated`, `trusted` | history: plaintexts given out, the life their creator asked for, what their holder was told, what was revoked or replaced, where admin rights came from |

`CliCreate`, `CliRevoke` are the operator's commands; `Start`, `Bootstrap`,
`Stop`, `CloseStore`, `Exit`, `Crash` a server's life, where the look at the table
and the bootstrap are two steps; `Arrive`, `Lookup`, `Serve`, `Mint`, `Reply` a
request: look-up and handler are two statements, and a token may be revoked, expire
or be minted in between. `ParseTTL` multiplies in a `Duration` of limited width
(`Wrap`), and an `expires_at` of 0 means never. A hash is the plaintext itself.

A lifetime that overflows the width may become "for ever": `LivesEnd` is proved, and
`Access` run, for lifetimes that fit (`Fits`), which are those up to 106751 days.

### Tools and Gateway

`Tools.tla` has no state: it translates the parser, `handleLine`, the eleven tools
and the HTTP client to one operator each, over the set of arguments that are there
and not empty. `Dispatch` takes a chat text and `HandleLine` a JSON-RPC line to a
`Plan` (ignore, answer, call, ask); `Call` takes a tool and its arguments to the
request it sends, if any, and says whether that can change anything.

`Gateway.tla` puts a front end around it: the message, its delivery, its dispatch,
the agent's loop and the requests to the shipd server.

| Variable | Code |
|---|---|
| `kind` | Slack's Socket Mode, a webhook (Feishu, WeChat Work), Feishu's long connection, the REPL, or `shipd mcp serve` |
| `posted`, `tries`, `acked` | outside: the messages, how often each was delivered, which are acknowledged |
| `queue` | deliveries not yet taken: `sm.Events`, the listener, the connection, the pipe |
| `up`, `cancelled`, `reading`, `eof` | the process, its context, whether a line loop is inside its read, and stdin |
| `job` | per delivery, the goroutine or loop iteration: its tool calls, their results, the iteration of `Agent.Ask`, the last one announced (`told`), and those of which a line did not get to the chat (`missed`) |
| `net` | requests under way to the shipd server, or their answers |
| `faults`, `log`, `out` | history: interference so far, writes applied, deliveries answered |

`TakeSlack` acknowledges and runs the dispatch in the loop; `TakeHook`
acknowledges and starts a goroutine; `TakeWs` acknowledges when the handler is
done; `CheckContext` and `TakeLine` are the loops over stdin, whose read blocks
between two looks at the context. `Messages`, `StreamProgress`, `RunTool`,
`TurnEnds` are `Agent.Ask`, where a line of progress that is not sent is logged and the
tools run all the same, so that no more is promised of announcements than the attempt
unless nothing fails; `Answered` and `Fails` the two ways `Client.do` ends;
`Serve` is the server, which may apply a request nobody waits for any more.
`Redeliver`, lost acknowledgements and answers, `Signal` and `Kill` are the outside.

Left out: the texts of answers and schemas, what the model is told besides results,
`initialize` and `tools/list` (answers without a call), and two-request tools'
second request: no tool sends two that change something.

### Blob and BlobSpec

`Blob.tla` models both blob stores, request by request.

| Variable | Code |
|---|---|
| `backend` | `FSBlobStore` or `S3BlobStore` |
| `objects` | how many bytes are stored under each key, or `Absent` |
| `put`, `temp` | each caller's `Put`, with the name of its temporary file, and the bytes in each temporary file |
| `reader` | each caller's `*os.File` or `s3SeekReader`: `pos`, and where the file or the open body (`src`) is |
| `said` | history: the answer of the last call |
| `left` | history: the temporary files of killed `Put`s, or that could not be removed |

`Stage`, `Copy`, `Staged` are `stagedBlob`; `Rename` the file system's end of it,
`HeadObject` and `PutObject` S3's, with `PutFails` at any point and an upload whose
answer is lost. `OpenSeekable`, `Read`, `Seek`, `Close` are the readers: reads may be
short, break off, or end. A content is a model value with a size; the bytes of a prefix
are its length. `os.CreateTemp` draws a name no file has (and not the one of a `Put`
between its rename and its clean-up), a rename is atomic and durable, and S3 shows an
object when it is complete.

A process that is killed leaves its temporary files (`Crash` keeps them and puts them
down as `left`), as does a clean-up that fails, and nothing ever looks for them: on the
file system they lie under `blobs/`, beside the two-letter directories. `NoLitter` says
that there are no others, and that no two `Put`s write to one.

`BlobSpec.tla` is what callers count on: contents that appear and vanish at once,
and readers that behave like open files. A failed call may have taken effect.
`Blob` maps to it by forgetting sizes, `Put`s under way and bodies (`Stored`,
`File`), and is shown to implement it. `Catalog` uses the same promise: put and
delete as atomic changes of a set of keys.

### Proof modules

`CatalogProofs.tla`, `KeepLastProofs.tla`, `WeixinProofs.tla`, `InstallProofs.tla`,
`TokenCacheProofs.tla`, `AccessProofs.tla`, `BlobProofs.tla` and `GatewayProofs.tla`,
described below.

## The runs

`MCCatalog.tla` adds the symmetry sets. Versions, channels, writers and collectors are
interchangeable, in `CatalogOpen` bodies and platforms too, and no property names one of them.
Deadlock checking is on, except in `Access` and `Gateway`, whose clock, starts and
messages are bounded: everything done, nothing need be left to do.

| Run | Instance | Question | Answer |
|---|---|---|---|
| `CatalogWindow` | 2 versions, 2 channels, 2 bodies, one of them without an identifier, a declared `bundle_id`, 1 writer, 2 collections, keep-last 1, older-than 1, clock 0..1, 3 rowids, faults, window | do rows keep their bytes and the bundle information extracted from them, are keep-last and older-than respected, is the catalogue an implementation of `ReleaseSpec`? | yes |
| `CatalogOpen` | 3 versions on 1 channel, 2 platforms, 2 bodies without bundle information, 2 writers, 1 collection, keep-last 1, 3 rowids, faults, no window | do concurrent publishes of one name leave a release alone; does keep-last count per platform, shield exactly the newest rows when several are of one second, and hold when rows are inserted while a collection has its list? | yes, with one collection |
| `CatalogDangling` | 2 names, 1 body, 1 writer, 1 collection, no window | can a row lose its bytes? | yes |
| `WeixinRestart` | 2 users, 5 kinds of message, 3 messages, 2 stops, 1 new login, a disk that works | can a command run twice or after it was passed over; does a reply carry an old token? | no |
| `WeixinProgress` | 1 user, 2 kinds, 3 messages, 2 stops, 1 new login, failing and torn saves, fairness | does a running gateway skip no command; is every message settled in the end? | yes, the second while the session lives |
| `InstallLinks` | 2 servers, 2 devices, an iOS release, two others, one with a name that is escaped, 2 secrets, TTL 1, clock 0..3 | does every link to a plain name work until it expires, at every server, through stops and failed writes; does a copy go cold? | yes |
| `TokenCache` | 2 goroutines, tokens granted for 3, margin 2, answers and requests of at most 1, QR kept for 2, clock 0..5, fairness | can a token expire on the way; do goroutines that miss together ask twice; can a picture be older than it should be; does everyone get a turn? | no, no, no, yes |
| `Access` | 2 servers, 1 request, 2 names, 2 plaintexts, lifetimes refused, of one unit and for ever, clock 1..3, 2 starts | does anyone get in after the life that was asked for, or get more rights than they were given; does a start, crash or creation replace or revive a token? | no |
| `AccessStop` | 1 server, 1 request | does a stop let the uploads in flight end? | no |
| `Gateway` | all 5 kinds, 2 messages, 1 `ask` of 2 iterations with an unknown tool and a write, 2 deliveries, 2 faults, fairness | are results true, effects announced (in the chat unless something failed), order kept, answers single; does every message and every input come to an end? | yes |
| `GatewayReplay` | Slack, 2 messages, 3 deliveries, no faults | can a command run twice? | yes |
| `Blob` | both stores, 2 callers, 2 temporary files, contents of 2 and 1 bytes, seeks to 0, 1 and 3 | are objects whole, readers in place, temporary files a Put's own and left behind by kills and failed removals only; is it an implementation of `BlobSpec`? | yes |

`MCWeixin.tla` lists the kinds of message; in `InstallLinks` servers and devices
are interchangeable; `TokenCache` checks liveness, so it has no symmetry.

The three runs whose answer is a counterexample each state a sentence of the
code's own documentation, quoted in `PROJECT.json` under `findings`:
`CatalogDangling`, `AccessStop` and `GatewayReplay`. None needs a fault.

`CatalogWindow` also checks `InfoMatchesBlob` (what was extracted into a row is from its
own bytes; nothing says so of a declared `bundle_id`, which stands where the body has
none or nothing was extracted), `KeepLastRespected` and `OnlyOldYanksDeleted`; outside a
window each of the three fails as well (two collections and keep-last 1 for the second),
by the stale list or name of the hazards `storage/store.go:665`, `storage/store.go:426`
and `server/server.go:497`. The proofs below say exactly what has to happen first.

Other behaviours one meets in the models, without a run of their own:

* the loser of two concurrent publishes leaves a blob on disk that `Stats` does not
  count, though `storage/store.go:675-678` says BlobBytesUnique tracks actual disk
  usage;
* `PromoteRelease` reads its source and inserts the copy later: a release yanked in
  between goes live on the other channel (`storage/store.go:588`), and one whose
  bundle update is still to come is copied without it for ever (`:592`);
* the answer to a publish keeps the declared `bundle_id` (`server/server.go:382`), while
  the row has the extracted one: what a publisher reads back may not be what is served;
* install links are signed over the escaped path and verified over the decoded one,
  so for a name with a space, a comma or a non-ASCII letter no link is accepted:
  `LinksHonoured` is about names that need no escaping (`server/install.go:325`), and
  `EscapedNeverInstall` proves that no link of any other name is ever taken;
* a crash between the truncation and the write of WeChat's cursor file restarts the
  adapter from the beginning: `WeixinRestart` with `DiskFaults = TRUE` violates
  `NoReplay`;
* after its session has expired the WeChat adapter keeps the token it was started
  with, so a new login needs a restart (`gateway/weixin.go:114`).

Why the bounds are enough to be interesting: two bodies and four names give rows that
share a blob and rows that do not; three rowids let a group grow past keep-last, a name
be reused after gc, and, in `CatalogOpen`, a row be inserted while a collection that
needed two rows to find a candidate is at work (promotions, which need two channels, are
in `CatalogWindow`; outside a window the theorems below have them); a clock of two ticks
separates a yank that is old enough from one that is not; two collections make a
candidate list stale in each other's hands. `MaxTime` and `MaxRowid` are the only bounds
on behaviours, in the guards of `Tick` and of the INSERT.

For `Weixin`, two stops allow a restart in the middle of a batch a restart has
already shortened, and three messages allow a batch with a command done, one in
hand and one not begun. `MaxMsg`, `MaxStops` and `MaxLogin` bound arrivals, stops
and logins in the guards of `Arrive`, `Crash`, `Cancel` and `Expire`;
`failStreak` saturates at `wxMaxFailStreak`, above which the code does not tell
values apart.

For `Install`, two secrets and two servers allow a failed write, a torn file and
a second secret while links of the first are about, and a clock of 0..3 with a TTL
of 1 lets a manifest link be used at its very end and the link it gives run out.
`MaxTime` and `MaxSecret` bound `Tick` and `Truncate`. For `TokenCache` the
numbers are the smallest that keep the proportions: an answer and a request just
fit the margin, and a token and the picture are renewed once within the clock.

For `Access`, one request with two servers and the operator's commands around it
is enough for a token to be minted, revoked, replaced or expire between look-up and
handler, and two starts for a race of bootstraps or for a restart after a rotation.
`MaxTime` and `MaxStarts` bound `Tick` and `Start`. For `Gateway`, two messages are an
`ask` and a command behind or beside it, and two faults a lost answer and a signal, or
two lost acknowledgements; `MaxMsg`, `MaxAsk`, `MaxTries`, `MaxSent` and `MaxFaults`
are in the guards of `Write`, `Redeliver` and `Fault`, and `MaxTurns` is the code's
`maxIterations`. For `Blob`, a content of two bytes can be read or written halfway, and
an offset of 3 is past every end; nothing else is bounded.

`Weixin`, `TokenCache` and `Gateway` have a `FairSpec`. In `Weixin`: weak fairness of
the loop's own steps and of `Start`: the loop has no exit but cancellation, its sleeps
end, and a gateway that stopped is assumed to be started again. Strong fairness of the
polls: `getUpdates` may fail any number of times, but not for ever, when there is
something to fetch or the session has expired. That a dispatched command comes back is
an assumption too: it is an HTTP call to shipd, or an `ask`, whose tool loop is bounded.
No fairness is assumed of users, crashes or the operator.

In `TokenCache`: weak fairness of a goroutine's own steps says that a request to
the platform ends, with an answer or a lost connection. The code has no timeout
of its own, so a platform that accepts a request and stays silent for ever would
hold `tokenMu`, and every reply with it (hazard `gateway/feishu.go:281`);
`EveryCallReturns` says that nothing else can. Strong fairness of `Lock` is Go's
mutex, which hands itself to a waiter that has starved for a millisecond.

In `Gateway`: weak fairness of taking what was delivered, of the loops over stdin and
of each dispatch together with the answer it waits for. The model's API has a timeout
(`ai/anthropic.go:178`); the client of the shipd server has none, so that an answer or
a broken connection comes is an assumption on the server. Nothing is assumed of what
the model says, of the platform's redeliveries or of the operator.

## What is proved

For every value of the constants that satisfies the module's assumptions
(finitely many names, natural bounds), tlapm checks:

| Theorem | Statement |
|---|---|
| `TypeCorrect` | `TypeOK` is an invariant |
| `ReleasesNeverChange` | `ReleaseImmutable`, with no window |
| `OnlyTheRaceDangles` | with no window, `NoDangling` in every behaviour without a `Race` |
| `OnlyATakenRowIsMixed` | with no window, `InfoMatchesBlob` in every behaviour without a `RowTaken` |
| `OnlyMeddlingSpoilsGc` | with no window, `OnlyOldYanksDeleted` in every behaviour in which nobody `Meddles` |
| `WindowNoDangling` | with `Window`, `NoDangling` is an invariant |
| `WindowInfoMatchesBlob` | with `Window`, `InfoMatchesBlob` is an invariant |
| `WindowOnlyOldYanksDeleted` | with `Window`, `OnlyOldYanksDeleted` |
| `KeepLastHolds` | with `Window`, or with at most one collector, `KeepLastRespected` |
| `OnlyRevivalsSpoilKeepLast` | with no window, `KeepLastRespected` in every behaviour in which nothing `Revives` |
| `ShieldExact` | `ShieldIsExact` |
| `WindowImplements` | with `Window`, `Catalog` implements `ReleaseSpec` |
| `ImplementsUnlessTheyMeet` | with no window, so does every behaviour without `Race` and `Meddles` |
| `WeixinTypeCorrect` | `TypeOK` of Weixin, and that the loop handles only what a poll returned |
| `OnlyDiskFaultsReplay` | `NoReplay` in every behaviour without a `DiskFault` step |
| `NeverTwice` | so, without `DiskFaults`, `NoReplay` is an invariant |
| `OnlyRestartsReplay` | with any faults, a command runs at most once more than the gateway was stopped |
| `NoneSkipped` | `LossOnlyAtStop` is an invariant, with or without `DiskFaults` |
| `OnlyDiskFaultsBreakPromise` | every behaviour without a `DiskFault` step is one of `AtMostOnce` |
| `KeepsPromise` | so, without `DiskFaults`, `Weixin` implements `AtMostOnce` |
| `RepliesAreCurrent` | `RepliesUseLatestToken` |
| `InstallTypeCorrect` | `TypeOK` of Install |
| `LinksAreHonoured` | with `Serial` or `Explicit`, `LinksHonoured` |
| `OnlyTwoMakersSplit` | with neither, `LinksHonoured` in every behaviour in which servers make a secret `Alone` |
| `EscapedNeverInstall` | no server ever takes a link of a name that is escaped |
| `CopiesGoCold` | `GoesCold`, with neither |
| `CacheTypeCorrect` | `TypeOK` of TokenCache |
| `TokenLastsTheRequest` | `NeverExpiresMidRequest`, from `Punctual` |
| `GoroutinesAskOnce` | `AskedOnce`: nobody asks the platform for a token while another does, or while the one another got is usable |
| `MutexIsGivenBack` | `tokenMu` is held exactly between a goroutine's check and the end of its refresh |
| `PictureIsRecent` | `PictureRecent` |
| `AccessTypeCorrect` | `TypeOK` of Access |
| `LivesEnd` | `NotPastDeadline`, if every lifetime fits a `Duration` |
| `LongLivesWrap` | a lifetime that does not fit means never, or ends two `Half`s too early |
| `NoWayUp` | `NoEscalation` |
| `HandedOutIsKept` | `TokensKept` |
| `RotationHolds` | `RotatedOutStaysOut` |
| `RevocationIsFinal` | no server admits a token after its revocation (the environment's counts as new when an empty table is bootstrapped) |
| `RightsAreAsTold` | no handler works for more rights than its caller was told of |
| `BlobTypeCorrect` | `TypeOK` of Blob |
| `ObjectsAreWhole` | `WholeObjects` |
| `ReadersAreInPlace` | `InPlace` |
| `PutsCleanUp` | `NoLitter`, with kills and removals that fail |
| `StoresImplement` | `Blob` implements `BlobSpec` |
| `GatewayTypeCorrect` | `TypeOK` of Gateway |
| `GatewayReportsTrue` | `ResultsTrue` |
| `GatewayAnnounces` | `EffectsAnnounced`: announced before it happens, and in the chat unless something failed |
| `GatewayKeepsOrder` | `OrderKept` |
| `GatewayAnswersOnce` | `AnswersOnce` |
| `GatewayAppliesOnce` | no call of a dispatch takes effect twice |
| `GatewayDoesAsAsked` | nothing takes effect that was not asked for |
| `PromptFrontEndsNeverReplay` | `NoReplay` for lines from stdin, and for webhooks without faults |
| `OnlyHasteReplays` | without faults, `NoReplay` in every behaviour in which no delivery is `Hasty` |
| `OnlyReplaysRepeat` | where `NoReplay` holds, no command takes effect twice |

`CatalogProofs` uses two inductive invariants. `Typed` is `TypeOK` with what each
program counter says of the locals (a request exists, a candidate is in hand, its entry
is gone from the list after the row's deletion). `WindowInv` adds: writers and
collectors are never busy together (`Exclusive`); a writer past its put has its bytes in
the store, and its bundle target has the bytes it extracted from (`BytesAndInfo`), and
what it carries fits its body (`InfoHeld`); a blob that gc is about to delete has no row
left (`DoomedUnreferenced`), which is stable because the window keeps inserts away; and
the entries of a candidate list are rows yanked when the list says they were
(`PendingOld`), which is why deleting by name is harmless. `NoDangling` alone is not
inductive: it holds after a put by luck unless one knows that no delete of the same key
is pending.

A window is more than the code needs. Each of its parts is proved again without it,
for the behaviours that avoid one precisely named situation, so that the situation is
the only way the code can go wrong:

| Situation | What is lost |
|---|---|
| `Race`: a collection stands before `BlobStore.Delete`, a writer with the same blob before its INSERT | `NoDangling` |
| `RowTaken`: a collection stands before the DELETE of a row whose publish has its bundle UPDATE to come | `InfoMatchesBlob` |
| `Meddles`: a release is yanked, un-yanked or published anew between its listing and its deletion | `OnlyOldYanksDeleted` |
| `Revives`: a listed name that another collection has deleted is published anew | `KeepLastRespected` |

The first two are about states (`[]~Race`), the others about steps (`[][~Meddles]_vars`).
The invariants are the parts of `WindowInv` without `Exclusive`: `BytesInv` still has
`DoomedUnreferenced`, which only an INSERT in a `Race` can break; `InfoInv` has the
writer's claim on its row (`EnrichTarget`); `PendingInv` has `PendingOld`.

`KeepLastProofs` proves keep-last by a different argument, since the count
`Cardinality(Newer(k)) >= KeepLast` that put k on the list is not preserved: other
rows of the list are deleted. For every candidate still pending, the rows newer
than it that are not going to be deleted are at least `KeepLast`
(`Survivors`, `Protected`): among the rows newer than k, a candidate is
itself followed by `KeepLast` rows, so the last candidate of the group (a minimal
element, from the library's well-foundedness theorem on finite sets) shows that
enough non-candidates follow. A publish or promote only adds rows at the end, and
a row added under a pending name takes the end of the order. Yanks and un-yanks of a
listed release do the argument no harm, nor do two collections, unless a pending name
goes and comes back (`Revives`).

`ShieldExact` is about the order itself: no two rows share a rowid (`RowidsDiffer`, from
max + 1), so `After` is a total order on a group even among rows of one second, and the
rows with fewer than `KeepLast` before them are exactly the first `KeepLast`; it rests on
the well-foundedness of finite sets too.

The same module proves the refinement of `ReleaseSpec`. Every list of candidates is
old when it is used, so that the deletion is the promise's `Collect` needs all of the
above at once: `PendingOld` for the yank's age, `Protected` for the number of newer
releases, `NoDangling` for the body. A deleted row that was deleted by another
collection before is a stutter, and so are the steps on blobs, which under
`WindowInv` never take the bytes of a row. `Stamped` (no request is dated ahead of
the clock) completes the invariant (`ImplInv`), which says nothing of a window:
`ImplementsUnlessTheyMeet` gets it from `~Race` and `~Meddles` instead.

`WeixinProofs` strengthens `NoReplay` with where the cursor on disk stands at
each program counter (`SavedAhead`: equal to the one in memory from the first
message handled to the last, never `Torn` outside the write) and with how far
commands can have run (`RanOnce`, `Reached`): a crash then moves `Reached` from
the message in hand to the end of the batch, never back. `NoReplay` by itself says
nothing of a command that ran in a process that is gone. `KeepsPromise` uses the
same invariant: every step but `Arrive` and `Dispatch` leaves `ran` alone and
moves `Past` forward, which is one step of `PassOver` or none (`PassOverStep`).
Neither needs a disk without faults, only a behaviour without a `DiskFault` step: a save
that fails, or a crash between truncating and writing. With such steps both are false:
see above. What is left then is `LifeInv`: a command ran at most once in each life of the
process that has ended, and once more if this life has come to it, so that a repetition
takes a new process.

`InstallProofs` has two independent invariants. `AgeInv` dates each link a device
has by the page it goes back to (`Dated`): a page's link expires one TTL after the
page; a manifest is fetched before that, so the link it gives expires at most one
TTL later still. `SecretInv` says that there is one secret: nobody makes one while
there is one and two never do at once (`OneMaker`, which needs `Serial` or
`Explicit`), whoever runs has it and it is on disk (`Shared`), and what devices
hold was signed with it (`AllSigned`). So a link exists only once the secret is on
disk, and a torn or missing file is met by servers that have no link out. `Serial` and
`Explicit` serve only to keep makers of a secret `Alone` (`SerialAlone`); assuming that
of the behaviour gives `OnlyTwoMakersSplit`. `EscapedNeverInstall` needs no more than
that a signature is over the escaped path (`SignedEscaped`) and that equal signatures
are over equal paths.

`TokenCacheProofs` bounds how far the cache runs ahead of the platform: the token
is taken to expire at most one `Latency` after it does, and the picture was drawn
at most one `Latency` before it came (`CacheLag`). A goroutine that got a token
has `Transit` left on it at that moment (`InHand`), which is where `Punctual`
enters, once for a cached token (the margin) and once for a new one (the grant).
`Holds` ties the program counters to the mutex, and `MutexExact` does in both directions:
every way out of a refresh gives it back, which is the safety half of `EveryCallReturns`.
`AskedOnce` rests on it and on the second look at the cache under the mutex.

For `RepliesAreCurrent`, `WeixinProofs` says of every peer that the token noted is the
latest of the messages this process has read (`TokensLatest`): those without text
included, which is where a loop that skips first and notes later would break it.

`AccessProofs` has one invariant for its four properties, since each leans on the
others. Rows hold plaintexts that were given out, and end no later than was asked
(`TableOK`, where `Fits` enters: a lifetime that wraps is 0, for ever, or too short);
a row made by a request not yet answered is kept as if it had been told (`MadeOK`);
what the middleware let through was valid when it was looked up (`ReqOK`), whatever
happened to the token since; and once the environment's token is replaced no server
is between its look at an empty table and its bootstrap (`RotatedOK`). Two more
invariants go beyond the runs. `RevokedOut`: no row holds a revoked plaintext, so a
look-up that lets someone in (`Admitted`) never finds one. `Rightful`: the scope a request
works with is one its operation needs and the one its token's holder was told, which is
inductive only with `Untold` (a plaintext minted and not yet answered is nobody's, and two
requests never mint the same).

`BlobProofs` adds to the properties what a `Put` has staged (`StagedWell`: all of it
before the rename or the upload), that what was left behind is there (`LeftThere`, so that
no new `Put` is given it), and that a reader of a file keeps it open though the
name be gone (`FilesOpen`). Each step is then a step of `BlobSpec` or none.

`GatewayProofs` rests on `IInv`: a delivery is queued once and begun once, and an
agent's rounds are bounded (`Rounds`). `EffectsAnnounced` is about effects, and is not
inductive until it is said of requests under way too (`Announced`): a request outlives
its caller. That its announcement is in the chat unless something failed is
`NothingMissed`: without faults no context is cancelled and no line is lost.
`ResultsTrue` needs `Pairs`: no request and no effect is ahead of its dispatch
(`Bounded`), requests are unique by dispatch, turn and place (`Unique`), an effect goes
with the outcome of its request (`Outcome`), and a call reported as refused has neither,
so it cannot be applied later (`Truthful`). `OrderKept` follows from the serial kinds'
queue (`Ordered`: first deliveries are begun in the order they came, at most one is
active), `AnswersOnce` from `Ended`: an answered dispatch never runs again.

What is applied: an effect comes from a request, a request is sent once (`Unique`), and
with `Outcome` no request is under way for what was applied, so nothing is applied twice
(`AppliedOnce`). `AskedFor` says of requests and effects alike that the message's plan has
them, or the agent's turn; `Dispatched` carries it through the dispatch. `NoReplay` is
false for Slack (`GatewayReplay`), and the last three theorems say how far it holds. Without
faults a message that was delivered is acknowledged or still on its way (`Watched`), so a
second delivery can only be `Hasty`: it comes while the first waits in the queue or is being
handled. Lines are delivered once, and a webhook is answered as it is taken.

Only model-checked: liveness (`EveryMessageSettled`, `EveryCallReturns`, `EverySettled`
and `EofEnds`), which is beyond the prover, and all counterexamples. Every safety and
action property and every refinement of a passing run has its theorem. That the named
situations (`Race`, `Hasty` and the others) do lead to a violation is for TLC to show:
`CatalogDangling` and `GatewayReplay` are such behaviours.

## Not modelled

* Schema migration, list and latest queries, counters and statistics: they read the
  table in one statement and write nothing; no property relates them to the rest.
* SQLite itself: a statement is atomic and durable, as WAL mode with a busy
  timeout gives it; an error is `Faults`.
* Of the client, `Download` and `GetApp`, which only CLI commands use; those commands
  (one request and its printing), `notes.go` (one call of the model, no state),
  deployment files, package inspection (a pure reading of zip and plist files).
* Formats and cryptography: JSON, plist, HTML, XML, the platforms' signatures,
  decryption and verification handshakes, the tokenizer of chat commands.
* Liveness of `Catalog` and `Access`: handlers answer or their process dies, and the
  code promises nothing more.

## Plan

Done, in this order: Catalog and ReleaseSpec; Weixin and AtMostOnce; Install;
TokenCache; Access; Tools and Gateway; Blob and BlobSpec; the proofs of each; last, for
the properties that hold only under a condition, the weakest condition found: what the
code loses outside a window, with a bad disk, with servers started at once. The core
came first because all the rest is about its releases.

Left, in order of importance:

1. A collection's report (`rows_deleted`, `blobs_deleted`, errors) and the statistics,
   composed with Catalog: what a failed blob delete makes of them.
2. Lifetimes that overflow a Duration as a run of their own: `ParseTTL` has the width
   in Access, `LivesEnd` names the lifetimes it holds for (`Fits`), and `LongLivesWrap`
   proves what becomes of the others.
3. Catalog over `Blob` in place of a set of keys, to let an upload fail between
   HeadObject and PutObject while a collection deletes.
4. Servers that share the install secret by volume and start at the same time, as a run:
   `OnlyTwoMakersSplit` says that nothing else splits them.
