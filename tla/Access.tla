------------------------------- MODULE Access -------------------------------
(***************************************************************************)
(* API tokens, the middleware that checks them and the life of the server  *)
(* processes (internal/storage/store.go, internal/server/server.go,        *)
(* internal/cli/serve.go and token.go).  Servers and the operator's `shipd *)
(* token` commands share one table.  A request is a goroutine: its token is*)
(* looked up, then its handler runs one statement, then it is answered.    *)
(***************************************************************************)
EXTENDS Integers, FiniteSets

CONSTANTS
    Server, Request, Name, Secret,
    Boot,       \* the name "bootstrap"
    Env,        \* the plaintext in SHIPD_BOOTSTRAP_TOKEN
    Count,      \* the N of the lifetimes "Nd" and "Nw"
    Unit,       \* what the suffixes stand for, in ticks
    Half,       \* a time.Duration holds -Half .. Half - 1 ticks
    PublicReads,
    MaxTime, MaxStarts,     \* bounds: the clock, the starts of servers
    None

Scope == {"r", "rw", "admin"}
Row == [secret : Secret, scope : Scope, expires_at : Nat]

ASSUME AccessConstants ==
    /\ Boot \in Name /\ Env \in Secret
    /\ None \notin Name \cup Secret \cup Server \cup Row
    /\ Count \subseteq Int /\ Unit \subseteq Nat \ {0} /\ Half \in Nat \ {0}
    /\ PublicReads \in BOOLEAN /\ {MaxTime, MaxStarts} \subseteq Nat

VARIABLES
    tokens,     \* the table: a row or None for each name
    now,
    srv, starts,    \* where each server process is; how many were started
    req,        \* each request: where it is, its server, its token, what it is for, and
                \* the scope that its token was found with, and when
    made,       \* per request, the row it has inserted and not yet told of, or None
    \* history
    born,       \* the plaintexts that were ever given out
    deadline,   \* when the life that was asked for each of them ends (0: never)
    told,       \* the row that the holder of a plaintext was told of, or None
    revoked, rotated,   \* plaintexts revoked; whether Env was replaced
    trusted     \* an admin token came from the host or from the environment

table == <<tokens, born, deadline, told, revoked, rotated, trusted>>
life == <<srv, starts>>
reqs == <<req, made>>
vars == <<table, now, life, reqs>>

Op == {"read", "write", "mint"}

-----------------------------------------------------------------------------
(* Lifetimes *)

Wrap(d) == ((d + Half) % (2 * Half)) - Half

\* time.Duration(n) * mul, for an n that was not refused.
ParseTTL(n, u) == Wrap(n * u)

\* The expires_at of a token that is to live for n units; 0 stands for never.
ExpiresAt(n, u) == IF ParseTTL(n, u) > 0 THEN now + ParseTTL(n, u) ELSE 0

\* The same, as the person who types "Nd" understands it.
Asked(n, u) == IF n > 0 THEN now + n * u ELSE 0

-----------------------------------------------------------------------------
(* The table *)

Rows == {n \in Name : tokens[n] # None}
WithSecret(p) == {n \in Rows : tokens[n].secret = p}

\* Mutants of Taken: an insert that replaces the row of that name; no constraint on
\* the hash.
TakenNever(n, p) == FALSE
TakenName(n, p) == n \in Rows

\* UNIQUE constraints on the name and on the hash.
Taken(n, p) == n \in Rows \/ WithSecret(p) # {}

Insert(n, p, s, e, due) ==
    /\ tokens' = [tokens EXCEPT ![n] = [secret |-> p, scope |-> s, expires_at |-> e]]
    /\ born' = born \cup {p}
    /\ deadline' = [deadline EXCEPT ![p] = due]

\* `shipd token create`: any scope, with the plaintext printed once.  The operator
\* may put it in SHIPD_BOOTSTRAP_TOKEN, so it may be Env.
CliCreate ==
    \E n \in Name, p \in Secret \ born, s \in Scope, k \in Count, u \in Unit :
        /\ k >= 0 /\ ~Taken(n, p)
        /\ Insert(n, p, s, ExpiresAt(k, u), Asked(k, u))
        /\ told' = [told EXCEPT ![p] = tokens'[n]]
        /\ trusted' = (trusted \/ s = "admin")
        /\ UNCHANGED <<revoked, rotated, now, life, reqs>>

\* `shipd token revoke`.  Replacing the environment's token by another one, with no
\* server in the middle of its start, is what an operator does to rotate it.
CliRevoke ==
    \E n \in Rows :
        LET p == tokens[n].secret
            left == Rows \ {n}
        IN  /\ tokens' = [tokens EXCEPT ![n] = None]
            /\ revoked' = revoked \cup {p}
            /\ rotated' = (left # {}
                           /\ (rotated \/ (p = Env /\ \A s \in Server : srv[s] # "empty")))
            /\ UNCHANGED <<born, deadline, told, trusted, now, life, reqs>>

-----------------------------------------------------------------------------
(* Server processes *)

Goes(s, p) == srv' = [srv EXCEPT ![s] = p]

\* Mutant of Start: looks for a row called "bootstrap" only.
StartByName(s) ==
    /\ srv[s] = "down" /\ starts < MaxStarts
    /\ starts' = starts + 1
    /\ Goes(s, IF Boot \in Rows THEN "up" ELSE "empty")
    /\ UNCHANGED <<table, now, reqs>>

\* `shipd serve`, up to the answer of ListTokens.
Start(s) ==
    /\ srv[s] = "down" /\ starts < MaxStarts
    /\ starts' = starts + 1
    /\ Goes(s, IF Rows = {} THEN "empty" ELSE "up")
    /\ UNCHANGED <<table, now, reqs>>

\* The table was empty: the environment's token is created; if someone was faster
\* the start is given up.
Bootstrap(s) ==
    /\ srv[s] = "empty"
    /\ \/ /\ ~Taken(Boot, Env)
          /\ Insert(Boot, Env, "admin", 0, 0)
          /\ told' = [told EXCEPT ![Env] = tokens'[Boot]]
          /\ revoked' = revoked \ {Env}
          /\ trusted' = TRUE
          /\ Goes(s, "up")
          /\ UNCHANGED rotated
       \/ /\ Taken(Boot, Env)
          /\ Goes(s, "down")
          /\ UNCHANGED table
    /\ UNCHANGED <<starts, now, reqs>>

\* The signal: Shutdown closes the listener and waits for the requests in flight, in
\* a goroutine; ListenAndServe returns at once.
Stop(s) ==
    /\ srv[s] = "up" /\ Goes(s, "closing")
    /\ UNCHANGED <<table, now, starts, reqs>>

\* The deferred Store.Close.
CloseStore(s) ==
    /\ srv[s] = "closing" /\ Goes(s, "closed")
    /\ UNCHANGED <<table, now, starts, reqs>>

Idle == [at |-> "idle", server |-> None, secret |-> None, op |-> "read",
         scope |-> "none", since |-> 0]

InFlight(r) == req[r].at \in {"lookup", "handle", "reply"}

\* What is left of a request that goes to p: what it was for.
Left(r, p) == [Idle EXCEPT !.at = p, !.server = req[r].server, !.op = req[r].op]

\* The process is gone and so are its requests; at a stop, those whose handler was at work
\* are remembered.
Gone(s, how) ==
    LET lost == {r \in Request : InFlight(r) /\ req[r].server = s}
    IN  /\ Goes(s, "down")
        /\ req' = [r \in Request |-> IF r \notin lost THEN req[r]
                                 ELSE IF req[r].at = "handle" /\ how = "cut" THEN Left(r, "cut")
                                 ELSE Idle]
        /\ made' = [r \in Request |-> IF r \in lost THEN None ELSE made[r]]
        /\ UNCHANGED <<table, now, starts>>

\* main returns.
Exit(s) == srv[s] = "closed" /\ Gone(s, "cut")

Crash(s) == srv[s] # "down" /\ Gone(s, "idle")

-----------------------------------------------------------------------------
(* Requests *)

\* Mutant of Need: minting needs no more than publishing does.
NeedWrite(op) == IF op = "read" THEN {"r", "rw", "admin"} ELSE {"rw", "admin"}

\* The scopes that may do an operation: requireRead, requireWrite, requireAdmin.
Need(op) == CASE op = "read"  -> {"r", "rw", "admin"}
              [] op = "write" -> {"rw", "admin"}
              [] op = "mint"  -> {"admin"}

\* The handler, or the middleware in its place, has written the response.
Ends(r) == req' = [req EXCEPT ![r] = Left(r, "reply")]

\* A request comes in, with a token that someone was told of or a meaningless one;
\* public reads are not asked for any.
Arrive(r, s) ==
    /\ req[r].at \in {"idle", "cut"} /\ srv[s] = "up"
    /\ \E op \in Op, p \in {q \in Secret : told[q] # None} \cup {None} :
        req' = [req EXCEPT ![r] =
                  [Idle EXCEPT !.server = s, !.op = op, !.secret = p,
                            !.at = IF op = "read" /\ PublicReads THEN "handle" ELSE "lookup"]]
    /\ UNCHANGED <<table, now, life, made>>

\* Mutant of Expired: a tick too late.
ExpiredLate(row) == row.expires_at # 0 /\ now > row.expires_at + 1

Expired(row) == row.expires_at # 0 /\ now > row.expires_at

\* requireToken and LookupToken.
Lookup(r) ==
    LET held == WithSecret(req[r].secret)
    IN  /\ req[r].at = "lookup"
        /\ \/ /\ srv[req[r].server] = "closed" \/ held = {}
              /\ Ends(r)
           \/ /\ srv[req[r].server] # "closed"
              /\ \E n \in held :
                    \/ Expired(tokens[n]) /\ Ends(r)
                    \/ /\ ~Expired(tokens[n]) /\ tokens[n].scope \notin Need(req[r].op)
                       /\ Ends(r)
                    \/ /\ ~Expired(tokens[n]) /\ tokens[n].scope \in Need(req[r].op)
                       /\ req' = [req EXCEPT ![r].at = "handle", ![r].scope = tokens[n].scope,
                                             ![r].since = now]
        /\ UNCHANGED <<table, now, life, made>>

\* The handler of a read or a write does its work, or finds the store closed.
Serve(r) ==
    /\ req[r].at = "handle" /\ req[r].op # "mint"
    /\ Ends(r)
    /\ UNCHANGED <<table, now, life, made>>

\* handleCreateToken: the lifetime is parsed, a plaintext drawn, the row inserted.
Mint(r) ==
    /\ req[r].at = "handle" /\ req[r].op = "mint"
    /\ \/ /\ \E k \in Count : k < 0
          /\ Ends(r)
          /\ UNCHANGED <<table, made>>
       \/ /\ srv[req[r].server] = "closed"
          /\ Ends(r)
          /\ UNCHANGED <<table, made>>
       \/ /\ srv[req[r].server] # "closed"
          /\ \E n \in Name, p \in Secret \ (born \cup {Env}), s \in Scope,
                k \in Count, u \in Unit :
                /\ k >= 0
                /\ \/ /\ Taken(n, p)
                      /\ Ends(r)
                      /\ UNCHANGED <<table, made>>
                   \/ /\ ~Taken(n, p)
                      /\ Insert(n, p, s, ExpiresAt(k, u), Asked(k, u))
                      /\ made' = [made EXCEPT ![r] = tokens'[n]]
                      /\ Ends(r)
                      /\ UNCHANGED <<told, revoked, rotated, trusted>>
    /\ UNCHANGED <<now, life>>

\* The answer arrives; the plaintext of a new token is in it and nowhere else.
Reply(r) ==
    /\ req[r].at = "reply"
    /\ req' = [req EXCEPT ![r] = Idle]
    /\ made' = [made EXCEPT ![r] = None]
    /\ told' = IF made[r] = None THEN told ELSE [told EXCEPT ![made[r].secret] = made[r]]
    /\ UNCHANGED <<tokens, born, deadline, revoked, rotated, trusted, now, life>>

Tick == now < MaxTime /\ now' = now + 1 /\ UNCHANGED <<table, life, reqs>>

-----------------------------------------------------------------------------
Init ==
    /\ tokens = [n \in Name |-> None] /\ now = 1
    /\ srv = [s \in Server |-> "down"] /\ starts = 0
    /\ req = [r \in Request |-> Idle] /\ made = [r \in Request |-> None]
    /\ born = {} /\ deadline = [p \in Secret |-> 0] /\ told = [p \in Secret |-> None]
    /\ revoked = {} /\ rotated = FALSE /\ trusted = FALSE

Process(s) == Start(s) \/ Bootstrap(s) \/ Stop(s) \/ CloseStore(s) \/ Exit(s) \/ Crash(s)

Handle(r) == Lookup(r) \/ Serve(r) \/ Mint(r) \/ Reply(r)

Next ==
    \/ Tick \/ CliCreate \/ CliRevoke
    \/ \E s \in Server : Process(s)
    \/ \E r \in Request : Handle(r) \/ \E s \in Server : Arrive(r, s)

Spec == Init /\ [][Next]_vars

-----------------------------------------------------------------------------
(* Properties *)

Place == {"idle", "lookup", "handle", "reply", "cut"}

\* The type of the state: rows have a known scope, no plaintext stands in two rows.
TypeOK ==
    /\ tokens \in [Name -> Row \cup {None}]
    /\ \A m, n \in Rows : tokens[m].secret = tokens[n].secret => m = n
    /\ now \in Nat /\ starts \in Nat
    /\ srv \in [Server -> {"down", "empty", "up", "closing", "closed"}]
    /\ req \in [Request -> [at : Place, server : Server \cup {None}, secret : Secret \cup {None},
                            op : Op, scope : Scope \cup {"none"}, since : Nat]]
    /\ made \in [Request -> Row \cup {None}]
    /\ born \in SUBSET Secret /\ revoked \in SUBSET Secret
    /\ deadline \in [Secret -> Nat] /\ told \in [Secret -> Row \cup {None}]
    /\ rotated \in BOOLEAN /\ trusted \in BOOLEAN

\* A request gets past the middleware only within the life that was asked for its
\* token, whatever its creator typed: ParseTTL, CreateToken and LookupToken agree.
NotPastDeadline ==
    \A r \in Request :
        req[r].scope # "none" /\ deadline[req[r].secret] # 0
            => req[r].since <= deadline[req[r].secret]

\* Holders of r and rw tokens cannot work their way up: as long as no admin token came
\* from the host or the environment there is none, and no request has the rights of one.
NoEscalation ==
    ~trusted => /\ \A n \in Rows : tokens[n].scope # "admin"
                /\ \A r \in Request : req[r].scope # "admin"

\* Whoever was given a plaintext can use it with the scope and until the time they were
\* told, until it is revoked: no start, crash or other creation replaces its row.
TokensKept ==
    \A p \in Secret \ revoked :
        told[p] # None => \E n \in Rows : tokens[n] = told[p] /\ told[p].secret = p

\* An operator who has replaced the token of SHIPD_BOOTSTRAP_TOKEN by another does not
\* get it back at a restart, while the table is never empty.
RotatedOutStaysOut == rotated => WithSecret(Env) = {}

\* The brief downtime of a restart is bounded by how long shipd takes to flush uploads in
\* flight (UPGRADE.md:209-210): a stop, unlike a crash, cuts off no write whose token was
\* found with the scope for it and whose handler was at work.
UploadsFlushed == \A r \in Request : req[r].at = "cut" => req[r].op # "write"
=============================================================================
