-------------------------------- MODULE Weixin --------------------------------
(***************************************************************************)
(* The personal-WeChat adapter of shipd (internal/gateway/weixin.go and    *)
(* weixin_login.go): a loop that polls the iLink server for messages after *)
(* a cursor, saves the new cursor in a file, and runs each message's       *)
(* command; with the process that runs it, which may crash, be told to     *)
(* stop and be started again, and the operator's QR login.                 *)
(***************************************************************************)
EXTENDS Integers, Sequences, FiniteSets

CONSTANTS
    Peer, Self,     \* senders: users, and the bot's own account
    Inbound,        \* the messages that may arrive
    DiskFaults,     \* may saving the cursor fail or be cut short?
    MaxMsg,         \* bound: messages that arrive
    MaxStops,       \* bound: crashes and shutdowns
    MaxLogin,       \* bound: logins after the first one
    Torn            \* a cursor file that does not parse

wxMaxFailStreak == 3

ASSUME BoundsAreNatural == {MaxMsg, MaxStops, MaxLogin} \subseteq Nat
ASSUME SwitchIsBoolean == DiskFaults \in BOOLEAN
ASSUME MessageShape ==
    Inbound \subseteq [peer : Peer \cup {Self}, text : BOOLEAN, fresh : BOOLEAN]
ASSUME TornIsNew == Torn \notin Nat

VARIABLES
    inbox,      \* what the server has for the bot, in order
    live,       \* the login whose token the server accepts, -1 if none
    saved,      \* the login in the account file
    file,       \* the cursor file: how many messages it is past, or Torn
    pc,         \* where Run is
    cred,       \* the login the adapter works with
    base,       \* the cursor this process started from
    syncBuf,    \* the cursor in memory
    at,         \* the messages up to here have been handled
    tokens,     \* per peer: the message whose context_token is the latest, or 0
    failStreak,
    stopping,   \* is the context cancelled?
    stops,      \* crashes and shutdowns so far
    ran         \* how often the command of each message was run

server == <<inbox, live>>
disk == <<saved, file>>
memory == <<cred, base, syncBuf, at, tokens, failStreak>>
vars == <<server, disk, pc, memory, stopping, stops, ran>>

Command(i) == inbox[i].text /\ inbox[i].peer # Self
\* Mutant of Cursor: the error of json.Unmarshal is not met.
CursorUnchecked(f) == f

Cursor(f) == IF f = Torn THEN 0 ELSE f

-----------------------------------------------------------------------------
(* The server and the operator *)

Arrive(m) ==
    /\ Len(inbox) < MaxMsg
    /\ inbox' = Append(inbox, m)
    /\ UNCHANGED <<live, disk, pc, memory, stopping, stops, ran>>

Expire ==
    /\ live >= 0 /\ saved < MaxLogin
    /\ live' = -1
    /\ UNCHANGED <<inbox, disk, pc, memory, stopping, stops, ran>>

\* QRLoginWeixin, confirmed: the new token replaces the account file.
Relogin ==
    /\ live = -1
    /\ live' = saved + 1
    /\ saved' = saved + 1
    /\ UNCHANGED <<inbox, file, pc, memory, stopping, stops, ran>>

-----------------------------------------------------------------------------
(* The process *)

\* The token Start works with, unless the operator gives one on the command line.
LoadedLogin == saved

\* Mutant of Start: the cursor file is not read.
StartAfresh ==
    /\ pc = "down"
    /\ cred' = LoadedLogin
    /\ base' = 0 /\ syncBuf' = 0 /\ at' = 0
    /\ pc' = "poll"
    /\ UNCHANGED <<server, disk, tokens, failStreak, stopping, stops, ran>>

Start ==
    /\ pc = "down"
    /\ cred' = LoadedLogin
    /\ base' = Cursor(file) /\ syncBuf' = base' /\ at' = base'
    /\ pc' = "poll"
    /\ UNCHANGED <<server, disk, tokens, failStreak, stopping, stops, ran>>

\* All that is in memory goes.
Down ==
    /\ pc' = "down"
    /\ base' = 0 /\ syncBuf' = 0 /\ at' = 0 /\ failStreak' = 0
    /\ tokens' = [p \in Peer |-> 0]
    /\ stopping' = FALSE
    /\ UNCHANGED <<server, disk, cred, ran>>

\* os.WriteFile truncates the file and then writes it: a crash in between is a
\* disk fault here.
Crash ==
    /\ pc # "down" /\ stops < MaxStops
    /\ pc = "write" => DiskFaults
    /\ stops' = stops + 1
    /\ Down

Cancel ==
    /\ pc # "down" /\ ~stopping /\ stops < MaxStops
    /\ stopping' = TRUE
    /\ stops' = stops + 1
    /\ UNCHANGED <<server, disk, pc, memory, ran>>

\* Run looks at the context before a poll and in every sleep.
Return ==
    /\ stopping
    /\ pc \in {"poll", "retry", "backoff", "pause"}
    /\ Down
    /\ UNCHANGED stops

-----------------------------------------------------------------------------
(* Run: one poll *)

Init ==
    /\ inbox = <<>>
    /\ live = 0 /\ saved = 0 /\ file = 0
    /\ pc = "down"
    /\ cred = 0
    /\ base = 0 /\ syncBuf = 0 /\ at = 0 /\ failStreak = 0
    /\ tokens = [p \in Peer |-> 0]
    /\ stopping = FALSE
    /\ stops = 0
    /\ ran = [i \in 1..MaxMsg |-> 0]

\* A batch up to message n, or, when the long poll runs out, nothing.
PollAnswer(n) ==
    /\ pc = "poll" /\ ~stopping
    /\ cred = live
    /\ syncBuf <= n
    /\ syncBuf' = n
    /\ pc' = IF n = syncBuf THEN "poll" ELSE "save"
    /\ failStreak' = 0
    /\ UNCHANGED <<server, disk, cred, base, at, tokens, stopping, stops, ran>>

\* Failing no more often than wxMaxFailStreak matters: the count saturates.
Failed == IF failStreak < wxMaxFailStreak THEN failStreak + 1 ELSE failStreak

PollError ==
    /\ pc = "poll"
    /\ pc' = IF Failed = wxMaxFailStreak THEN "backoff" ELSE "retry"
    /\ failStreak' = Failed % wxMaxFailStreak
    /\ UNCHANGED <<server, disk, cred, base, syncBuf, at, tokens, stopping, stops, ran>>

\* The server answers with an error code of its own.
PollRefused ==
    /\ pc = "poll" /\ ~stopping
    /\ pc' = "retry"
    /\ failStreak' = Failed
    /\ UNCHANGED <<server, disk, cred, base, syncBuf, at, tokens, stopping, stops, ran>>

\* wxSessionExpired
PollExpired ==
    /\ pc = "poll" /\ ~stopping
    /\ cred # live
    /\ pc' = "pause"
    /\ UNCHANGED <<server, disk, memory, stopping, stops, ran>>

Wake ==
    /\ pc \in {"retry", "backoff", "pause"}
    /\ ~stopping
    /\ pc' = "poll"
    /\ UNCHANGED <<server, disk, memory, stopping, stops, ran>>

-----------------------------------------------------------------------------
(* saveSyncBuf *)

\* Mutant of SaveTruncate: the batch is handled first, the cursor saved some day.
SavePostponed ==
    /\ pc = "save"
    /\ pc' = "handle"
    /\ UNCHANGED <<server, disk, memory, stopping, stops, ran>>

SaveTruncate ==
    /\ pc = "save"
    /\ file' = Torn
    /\ pc' = "write"
    /\ UNCHANGED <<server, saved, memory, stopping, stops, ran>>

SaveWrite ==
    /\ pc = "write"
    /\ file' = syncBuf
    /\ pc' = "handle"
    /\ UNCHANGED <<server, saved, memory, stopping, stops, ran>>

\* Mutant of SaveFails: no cursor on disk, no batch.
SaveFailsSkips ==
    /\ DiskFaults
    /\ pc \in {"save", "write"}
    /\ at' = syncBuf
    /\ pc' = "poll"
    /\ UNCHANGED <<server, disk, cred, base, syncBuf, tokens, failStreak, stopping, stops, ran>>

\* Mutant of SaveFails: tried again until it works.
SaveFailsRetries ==
    /\ DiskFaults
    /\ pc \in {"save", "write"}
    /\ pc' = "save"
    /\ UNCHANGED <<server, disk, memory, stopping, stops, ran>>

\* The error is logged and the batch handled all the same.
SaveFails ==
    /\ DiskFaults
    /\ pc \in {"save", "write"}
    /\ pc' = "handle"
    /\ UNCHANGED <<server, disk, memory, stopping, stops, ran>>

-----------------------------------------------------------------------------
(* handleInbound, for each message of the batch *)

\* Mutant of Noted: only a message that has text brings a token.
NotedOfText(i) ==
    LET m == inbox[i] IN
    IF m.text /\ m.fresh /\ m.peer # Self THEN [tokens EXCEPT ![m.peer] = i] ELSE tokens

Noted(i) ==
    LET m == inbox[i] IN
    IF m.fresh /\ m.peer # Self THEN [tokens EXCEPT ![m.peer] = i] ELSE tokens

\* The bot's own message, or one without text.
HandleSkip ==
    /\ pc = "handle" /\ at < syncBuf
    /\ ~Command(at + 1)
    /\ tokens' = Noted(at + 1)
    /\ at' = at + 1
    /\ UNCHANGED <<server, disk, pc, cred, base, syncBuf, failStreak, stopping, stops, ran>>

HandleText ==
    /\ pc = "handle" /\ at < syncBuf
    /\ Command(at + 1)
    /\ tokens' = Noted(at + 1)
    /\ pc' = "dispatch"
    /\ UNCHANGED <<server, disk, cred, base, syncBuf, at, failStreak, stopping, stops, ran>>

\* A command whose context is cancelled may fail before it does anything.
Dispatch ==
    /\ pc = "dispatch"
    /\ \E did \in {TRUE} \cup {~stopping} :
         ran' = IF did THEN [ran EXCEPT ![at + 1] = @ + 1] ELSE ran
    /\ pc' = "reply"
    /\ UNCHANGED <<server, disk, memory, stopping, stops>>

\* Sent or not: a failed send is logged.
Reply ==
    /\ pc = "reply"
    /\ at' = at + 1
    /\ pc' = "handle"
    /\ UNCHANGED <<server, disk, cred, base, syncBuf, tokens, failStreak, stopping, stops, ran>>

BatchDone ==
    /\ pc = "handle" /\ at = syncBuf
    /\ pc' = "poll"
    /\ UNCHANGED <<server, disk, memory, stopping, stops, ran>>

-----------------------------------------------------------------------------
Save == SaveTruncate \/ SaveWrite \/ SaveFails
Handle == HandleSkip \/ HandleText \/ Dispatch \/ Reply \/ BatchDone

Next ==
    \/ \E m \in Inbound : Arrive(m)
    \/ Expire \/ Relogin
    \/ Start \/ Crash \/ Cancel \/ Return
    \/ \E n \in 0..Len(inbox) : PollAnswer(n)
    \/ PollError \/ PollRefused \/ PollExpired \/ Wake
    \/ Save \/ Handle

Spec == Init /\ [][Next]_vars

\* The supervisor starts the gateway again and the loop never stops by itself;
\* of the polls of an expired session, and of those that find new messages, one
\* comes to an answer.
FairSpec ==
    /\ Spec
    /\ WF_vars(Start) /\ WF_vars(Return) /\ WF_vars(Wake)
    /\ WF_vars(Save) /\ WF_vars(Handle)
    /\ SF_vars(PollExpired)
    /\ SF_vars(\E n \in (syncBuf + 1)..Len(inbox) : PollAnswer(n))

-----------------------------------------------------------------------------
(* Properties *)

TypeOK ==
    /\ inbox \in Seq(Inbound)
    /\ live \in Int /\ saved \in Nat /\ cred \in Nat
    /\ file \in 0..Len(inbox) \cup {Torn}
    /\ pc \in {"down", "poll", "retry", "backoff", "pause", "save", "write",
               "handle", "dispatch", "reply"}
    /\ {base, syncBuf, at} \subseteq 0..Len(inbox)
    /\ tokens \in [Peer -> 0..Len(inbox)]
    /\ failStreak \in 0..wxMaxFailStreak
    /\ stopping \in BOOLEAN
    /\ stops \in 0..MaxStops
    /\ ran \in [1..MaxMsg -> Nat]

\* No command runs twice, whatever crashes and restarts come between: the
\* cursor is on disk before the first message it passes is handled
\* (weixin.go:131-140).
NoReplay == \A i \in 1..MaxMsg : ran[i] <= 1

\* A reply goes out with the latest context_token the peer has sent to this
\* process, that of the message it answers included (weixin.go:195-201, 257-259).
RepliesUseLatestToken ==
    pc \in {"dispatch", "reply"} =>
        LET p == inbox[at + 1].peer
            Sent == {i \in (base + 1)..(at + 1) : inbox[i].peer = p /\ inbox[i].fresh}
        IN  /\ tokens[p] \in Sent \cup {0}
            /\ \A i \in Sent : i <= tokens[p]

\* As long as nobody stops the gateway, no command it has moved past was
\* skipped, whether or not its cursor could be saved (weixin.go:133-140).
LossOnlyAtStop ==
    pc # "down" /\ ~stopping =>
        \A i \in (base + 1)..at : Command(i) => ran[i] > 0

\* The adapter keeps the promise of AtMostOnce. A message is past once the
\* process has handled it, or, with no process, once the saved cursor is.
Past == IF pc = "down" THEN Cursor(file) ELSE at
StatusOf(i) ==
    IF i > Len(inbox) THEN "unsent"
    ELSE IF ran[i] > 0 \/ (i <= Past /\ ~Command(i)) THEN "done"
    ELSE IF i <= Past THEN "lost" ELSE "waiting"

Promise == INSTANCE AtMostOnce WITH status <- [i \in 1..MaxMsg |-> StatusOf(i)]
ImplementsAtMostOnce == Promise!Spec

\* Every message is handled or lost in a stop in the end, unless the session
\* the adapter works with has expired (weixin.go:89-141).
EveryMessageSettled ==
    \A i \in 1..MaxMsg :
        i <= Len(inbox) ~> StatusOf(i) \in {"done", "lost"} \/ cred # live
=============================================================================
