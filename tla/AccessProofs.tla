---------------------------- MODULE AccessProofs ----------------------------
(***************************************************************************)
(* Proofs about Access, for any servers, requests, names and lifetimes.    *)
(***************************************************************************)
EXTENDS Access, TLAPS

USE AccessConstants

\* No lifetime that can be asked for overflows a time.Duration.
Fits == \A k \in Count, u \in Unit : k >= 0 => k * u < Half

\* Rows hold plaintexts that were given out and not revoked, and end no later than asked.
TableOK ==
    \A n \in Rows :
        /\ tokens[n].secret \in born
        /\ Fits /\ deadline[tokens[n].secret] # 0
             => /\ tokens[n].expires_at # 0
                /\ tokens[n].expires_at <= deadline[tokens[n].secret]

\* A token that is in an answer on its way is kept as if its holder had it.
MadeOK ==
    \A r \in Request :
        made[r] # None =>
            /\ made[r].secret # Env /\ made[r].secret \in born
            /\ made[r].secret \notin revoked => \E n \in Rows : tokens[n] = made[r]

ToldOK == \A p \in Secret : told[p] # None => p \in born

\* What the middleware has let through.
ReqOK ==
    \A r \in Request :
        /\ req[r].secret # None => req[r].secret \in born
        /\ req[r].scope # "none" =>
             /\ req[r].secret # None
             /\ Fits /\ deadline[req[r].secret] # 0 => req[r].since <= deadline[req[r].secret]
        /\ req[r].at = "handle" /\ req[r].op = "mint" => req[r].scope = "admin"

RotatedOK ==
    rotated => /\ Rows # {} /\ Env \in born /\ WithSecret(Env) = {}
               /\ \A s \in Server : srv[s] # "empty"

IInv == TypeOK /\ TableOK /\ MadeOK /\ ToldOK /\ TokensKept /\ ReqOK /\ NoEscalation /\ RotatedOK

-----------------------------------------------------------------------------
(* Lifetimes *)

\* A duration in range is what was written.
LEMMA WrapFits ==
    ASSUME NEW d \in Nat, d < Half
    PROVE  Wrap(d) = d
<1>1. Half \in Nat /\ 2 * Half \in Nat \ {0} /\ d + Half \in 0..(2 * Half - 1)
  OBVIOUS
<1>2. (d + Half) % (2 * Half) = d + Half
  BY <1>1
<1>. QED
  BY <1>1, <1>2 DEF Wrap

\* The time a new row expires is that which was asked for.
LEMMA ExpiresAsAsked ==
    ASSUME NEW k \in Count, NEW u \in Unit, k >= 0, now \in Nat
    PROVE  /\ ExpiresAt(k, u) \in Nat /\ Asked(k, u) \in Nat
           /\ Fits => ExpiresAt(k, u) = Asked(k, u)
<1>1. k \in Nat /\ u \in Nat \ {0} /\ k * u \in Nat /\ (k > 0 => k * u > 0) /\ (k = 0 => k * u = 0)
  OBVIOUS
<1>2. ParseTTL(k, u) \in Int
  BY <1>1 DEF ParseTTL, Wrap
<1>3. Fits => ParseTTL(k, u) = k * u
  BY <1>1, WrapFits DEF Fits, ParseTTL
<1>. QED
  BY <1>1, <1>2, <1>3 DEF ExpiresAt, Asked

\* A lifetime that does not fit a time.Duration means never when it wraps to a negative one,
\* and comes out two Halves too short when it wraps to a positive one.  So Fits is what the
\* deadlines of the tokens rest on, and nothing in ParseTTL or its callers ensures it: a token
\* for 110000d, three hundred years, never ends (store.go:838-856).
THEOREM LongLivesWrap ==
    ASSUME NEW k \in Count, NEW u \in Unit, k >= 0, now \in Nat
    PROVE  /\ Half <= k * u /\ k * u < 2 * Half => ExpiresAt(k, u) = 0 /\ Asked(k, u) > now
           /\ 2 * Half < k * u /\ k * u < 3 * Half =>
                  ExpiresAt(k, u) = Asked(k, u) - 2 * Half /\ ExpiresAt(k, u) < Asked(k, u)
<1>. DEFINE d == k * u
<1>1. k \in Nat /\ u \in Nat \ {0} /\ d \in Nat /\ (d > 0 => k > 0)
  BY DEF d
<1>. HIDE DEF d
<1>2. Half \in Nat \ {0}
  OBVIOUS
<1>3. ASSUME Half <= d, d < 3 * Half
      PROVE  (d + Half) % (2 * Half) = d - Half
  <2>1. d + Half = 2 * Half * 1 + (d - Half) /\ d - Half \in 0..(2 * Half - 1)
    BY <1>1, <1>2, <1>3
  <2>. QED
    BY <1>1, <1>2, <1>3, <2>1
<1>4. ASSUME Half <= d, d < 3 * Half
      PROVE  Wrap(d) = d - 2 * Half
  BY <1>1, <1>2, <1>3, <1>4 DEF Wrap
<1>5. ParseTTL(k, u) = Wrap(d)
  BY DEF ParseTTL, d
<1>6. d > 0 => Asked(k, u) = now + d
  BY <1>1 DEF Asked, d
<1>7. ASSUME Half <= d, d < 2 * Half
      PROVE  ExpiresAt(k, u) = 0 /\ Asked(k, u) > now
  BY <1>1, <1>2, <1>4, <1>5, <1>6, <1>7 DEF ExpiresAt
<1>8. ASSUME 2 * Half < d, d < 3 * Half
      PROVE  ExpiresAt(k, u) = Asked(k, u) - 2 * Half /\ ExpiresAt(k, u) < Asked(k, u)
  BY <1>1, <1>2, <1>4, <1>5, <1>6, <1>8 DEF ExpiresAt
<1>. QED
  BY <1>7, <1>8 DEF d

-----------------------------------------------------------------------------
(* The table *)

\* What an insert that meets no UNIQUE constraint does.
LEMMA InsertRows ==
    ASSUME TypeOK, NEW n \in Name, NEW p \in Secret, NEW s \in Scope, NEW e \in Nat,
           NEW due \in Nat, ~Taken(n, p), Insert(n, p, s, e, due)
    PROVE  /\ tokens' \in [Name -> Row \cup {None}]
           /\ tokens'[n] = [secret |-> p, scope |-> s, expires_at |-> e] /\ tokens'[n] \in Row
           /\ Rows' = Rows \cup {n}
           /\ \A m \in Rows : m # n /\ tokens'[m] = tokens[m] /\ tokens[m].secret # p
           /\ \A l, m \in Rows' : tokens'[l].secret = tokens'[m].secret => l = m
           /\ deadline' \in [Secret -> Nat] /\ deadline'[p] = due
           /\ \A q \in Secret : q # p => deadline'[q] = deadline[q]
           /\ born' = born \cup {p} /\ born' \in SUBSET Secret
<1>1. [secret |-> p, scope |-> s, expires_at |-> e] \in Row
  BY DEF Row
<1>2. /\ tokens' \in [Name -> Row \cup {None}]
      /\ tokens'[n] = [secret |-> p, scope |-> s, expires_at |-> e]
      /\ \A m \in Name : m # n => tokens'[m] = tokens[m]
  BY <1>1 DEF Insert, TypeOK
<1>3. Rows' = Rows \cup {n}
  BY <1>1, <1>2 DEF Rows
<1>4. \A m \in Rows : m # n /\ tokens[m].secret # p
  BY DEF Taken, WithSecret
<1>5. \A l, m \in Rows' : tokens'[l].secret = tokens'[m].secret => l = m
  BY <1>2, <1>3, <1>4 DEF TypeOK, Rows
<1>6. deadline' \in [Secret -> Nat] /\ born' \in SUBSET Secret
  BY DEF Insert, TypeOK
<1>. QED
  BY <1>1, <1>2, <1>3, <1>4, <1>5, <1>6 DEF Insert, TypeOK, Rows

\* Removing a row leaves the others.
LEMMA RevokeRows ==
    ASSUME TypeOK, NEW n \in Rows, tokens' = [tokens EXCEPT ![n] = None]
    PROVE  /\ tokens' \in [Name -> Row \cup {None}]
           /\ Rows' = Rows \ {n}
           /\ \A m \in Rows : m # n => tokens'[m] = tokens[m] /\ tokens[m].secret # tokens[n].secret
BY DEF TypeOK, Rows

LEMMA RowType ==
    ASSUME TypeOK, NEW n \in Rows
    PROVE  n \in Name /\ tokens[n] \in Row /\ tokens[n].secret \in Secret
           /\ tokens[n].scope \in Scope /\ tokens[n].expires_at \in Nat
<1>1. n \in Name /\ tokens[n] \in Row
  BY DEF TypeOK, Rows
<1>. QED
  BY <1>1 DEF Row

-----------------------------------------------------------------------------
(* Types *)

ReqType == [at : Place, server : Server \cup {None}, secret : Secret \cup {None},
            op : Op, scope : Scope \cup {"none"}, since : Nat]

LEMMA IdleType == Idle \in ReqType
BY DEF Idle, ReqType, Place, Op

LEMMA LeftType ==
    ASSUME TypeOK, NEW r \in Request, NEW p \in Place
    PROVE  Left(r, p) \in ReqType
<1>1. req[r] \in ReqType
  BY DEF TypeOK, ReqType
<1>2. req[r].server \in Server \cup {None} /\ req[r].op \in Op
  BY <1>1 DEF ReqType
<1>. QED
  BY <1>2 DEF Left, Idle, ReqType, Place, Op

\* The requests keep their type whatever step they take.
LEMMA EndsType ==
    ASSUME TypeOK, NEW r \in Request, Ends(r)
    PROVE  req' \in [Request -> ReqType]
<1>1. Left(r, "reply") \in ReqType /\ req \in [Request -> ReqType]
  BY LeftType DEF Place, TypeOK, ReqType
<1>. QED
  BY <1>1 DEF Ends

LEMMA GoneType ==
    ASSUME TypeOK, NEW s \in Server, NEW how \in {"idle", "cut"}, Gone(s, how)
    PROVE  TypeOK'
<1>1. \A r \in Request : Left(r, how) \in ReqType /\ Idle \in ReqType /\ req[r] \in ReqType
  BY LeftType, IdleType DEF Place, TypeOK, ReqType
<1>2. req' \in [Request -> ReqType]
  BY <1>1 DEF Gone
<1>3. made' \in [Request -> Row \cup {None}]
  BY DEF Gone, TypeOK
<1>4. srv' \in [Server -> {"down", "empty", "up", "closing", "closed"}]
  BY DEF Gone, Goes, TypeOK
<1>. QED
  BY <1>2, <1>3, <1>4 DEF Gone, TypeOK, ReqType, table, Rows

LEMMA AccessTypeInit == Init => TypeOK
<1>. SUFFICES ASSUME Init PROVE TypeOK
  OBVIOUS
<1>1. req \in [Request -> ReqType]
  BY IdleType DEF Init
<1>2. Rows = {}
  BY DEF Init, Rows
<1>. QED
  BY <1>1, <1>2 DEF Init, TypeOK, ReqType

\* Steps on the table keep the types, given those of what they leave to their caller.
LEMMA CliCreateType == ASSUME TypeOK, CliCreate PROVE TypeOK'
<1>1. PICK n \in Name, p \in Secret \ born, s \in Scope, k \in Count, u \in Unit :
        /\ k >= 0 /\ ~Taken(n, p)
        /\ Insert(n, p, s, ExpiresAt(k, u), Asked(k, u))
        /\ told' = [told EXCEPT ![p] = tokens'[n]]
        /\ trusted' = (trusted \/ s = "admin")
        /\ UNCHANGED <<revoked, rotated, now, life, reqs>>
  BY DEF CliCreate
<1>2. ExpiresAt(k, u) \in Nat /\ Asked(k, u) \in Nat
  BY <1>1, ExpiresAsAsked DEF TypeOK
<1>3. /\ tokens' \in [Name -> Row \cup {None}] /\ tokens'[n] \in Row
      /\ \A l, m \in Rows' : tokens'[l].secret = tokens'[m].secret => l = m
      /\ deadline' \in [Secret -> Nat] /\ born' \in SUBSET Secret
  BY <1>1, <1>2, InsertRows
<1>4. told' \in [Secret -> Row \cup {None}] /\ trusted' \in BOOLEAN
  BY <1>1, <1>3 DEF TypeOK
<1>. QED
  BY <1>1, <1>3, <1>4 DEF TypeOK, life, reqs

LEMMA CliRevokeType == ASSUME TypeOK, CliRevoke PROVE TypeOK'
<1>1. PICK n \in Rows :
        /\ tokens' = [tokens EXCEPT ![n] = None]
        /\ revoked' = revoked \cup {tokens[n].secret}
        /\ rotated' = (Rows \ {n} # {}
                       /\ (rotated \/ (tokens[n].secret = Env /\ \A s \in Server : srv[s] # "empty")))
        /\ UNCHANGED <<born, deadline, told, trusted, now, life, reqs>>
  BY DEF CliRevoke
<1>2. /\ tokens' \in [Name -> Row \cup {None}] /\ Rows' = Rows \ {n}
      /\ \A m \in Rows : m # n => tokens'[m] = tokens[m]
  BY <1>1, RevokeRows
<1>3. \A l, m \in Rows' : tokens'[l].secret = tokens'[m].secret => l = m
  BY <1>2 DEF TypeOK
<1>4. tokens[n].secret \in Secret /\ rotated' \in BOOLEAN
  BY <1>1, RowType
<1>5. revoked' \in SUBSET Secret
  BY <1>1, <1>4 DEF TypeOK
<1>. QED
  BY <1>1, <1>2, <1>3, <1>4, <1>5 DEF TypeOK, life, reqs

LEMMA BootstrapType == ASSUME TypeOK, NEW s \in Server, Bootstrap(s) PROVE TypeOK'
<1>1. CASE Taken(Boot, Env)
  BY <1>1 DEF Bootstrap, Goes, TypeOK, table, reqs, Rows
<1>2. CASE ~Taken(Boot, Env)
  <2>1. /\ Insert(Boot, Env, "admin", 0, 0) /\ told' = [told EXCEPT ![Env] = tokens'[Boot]]
        /\ revoked' = revoked \ {Env} /\ trusted' = TRUE /\ Goes(s, "up")
        /\ UNCHANGED <<rotated, starts, now, reqs>>
    BY <1>2 DEF Bootstrap
  <2>2. "admin" \in Scope /\ 0 \in Nat
    BY DEF Scope
  <2>3. /\ tokens' \in [Name -> Row \cup {None}] /\ tokens'[Boot] \in Row
        /\ \A l, m \in Rows' : tokens'[l].secret = tokens'[m].secret => l = m
        /\ deadline' \in [Secret -> Nat] /\ born' \in SUBSET Secret
    BY <1>2, <2>1, <2>2, InsertRows
  <2>4. /\ told' \in [Secret -> Row \cup {None}]
        /\ srv' \in [Server -> {"down", "empty", "up", "closing", "closed"}]
    BY <2>1, <2>3 DEF TypeOK, Goes
  <2>. QED
    BY <2>1, <2>3, <2>4 DEF TypeOK, reqs
<1>. QED
  BY <1>1, <1>2

LEMMA MintType == ASSUME TypeOK, NEW r \in Request, Mint(r) PROVE TypeOK'
<1>1. req' \in [Request -> ReqType]
  BY EndsType DEF Mint
<1>2. CASE UNCHANGED <<table, made>>
  BY <1>1, <1>2 DEF Mint, TypeOK, table, life, Rows, ReqType
<1>3. ASSUME NEW n \in Name, NEW p \in Secret \ (born \cup {Env}), NEW s \in Scope,
             NEW k \in Count, NEW u \in Unit, k >= 0, ~Taken(n, p),
             Insert(n, p, s, ExpiresAt(k, u), Asked(k, u)),
             made' = [made EXCEPT ![r] = tokens'[n]],
             UNCHANGED <<told, revoked, rotated, trusted, now, life>>
      PROVE  TypeOK'
  <2>1. ExpiresAt(k, u) \in Nat /\ Asked(k, u) \in Nat
    BY <1>3, ExpiresAsAsked DEF TypeOK
  <2>2. /\ tokens' \in [Name -> Row \cup {None}] /\ tokens'[n] \in Row
        /\ \A l, m \in Rows' : tokens'[l].secret = tokens'[m].secret => l = m
        /\ deadline' \in [Secret -> Nat] /\ born' \in SUBSET Secret
    BY <1>3, <2>1, InsertRows
  <2>3. made' \in [Request -> Row \cup {None}]
    BY <1>3, <2>2 DEF TypeOK
  <2>. QED
    BY <1>1, <1>3, <2>2, <2>3 DEF TypeOK, life, ReqType
<1>. QED
  BY <1>2, <1>3 DEF Mint

LEMMA RequestType == ASSUME TypeOK, NEW r \in Request, Lookup(r) \/ Serve(r) \/ Reply(r) PROVE TypeOK'
<1>. req \in [Request -> ReqType] /\ req[r] \in ReqType
  BY DEF TypeOK, ReqType
<1>1. CASE Serve(r)
  BY <1>1, EndsType DEF Serve, TypeOK, ReqType, table, life, Rows
<1>2. CASE Lookup(r)
  <2>1. ASSUME NEW n \in Rows, req' = [req EXCEPT ![r].at = "handle", ![r].scope = tokens[n].scope,
                                                  ![r].since = now]
        PROVE  req' \in [Request -> ReqType]
    <3>1. tokens[n].scope \in Scope /\ now \in Nat
      BY RowType DEF TypeOK
    <3>2. [[[req[r] EXCEPT !.at = "handle"] EXCEPT !.scope = tokens[n].scope] EXCEPT !.since = now] \in ReqType
      BY <3>1 DEF ReqType, Place
    <3>. QED
      BY <2>1, <3>2
  <2>2. req' \in [Request -> ReqType]
    BY <1>2, <2>1, EndsType DEF Lookup, WithSecret
  <2>. QED
    BY <1>2, <2>2 DEF Lookup, TypeOK, ReqType, table, life, Rows
<1>3. CASE Reply(r)
  <2>1. req' \in [Request -> ReqType] /\ made' \in [Request -> Row \cup {None}]
    BY <1>3, IdleType DEF Reply, TypeOK
  <2>2. told' \in [Secret -> Row \cup {None}]
    <3>1. CASE made[r] = None
      BY <1>3, <3>1 DEF Reply, TypeOK
    <3>2. CASE made[r] # None
      <4>1. made[r] \in Row /\ made[r].secret \in Secret
        BY <3>2 DEF TypeOK, Row
      <4>. QED
        BY <1>3, <3>2, <4>1 DEF Reply, TypeOK
    <3>. QED
      BY <3>1, <3>2
  <2>. QED
    BY <1>3, <2>1, <2>2 DEF Reply, TypeOK, ReqType, life, Rows
<1>. QED
  BY <1>1, <1>2, <1>3

LEMMA ArriveType == ASSUME TypeOK, NEW r \in Request, NEW s \in Server, Arrive(r, s) PROVE TypeOK'
<1>. req \in [Request -> ReqType]
  BY DEF TypeOK, ReqType
<1>1. PICK op \in Op, p \in {q \in Secret : told[q] # None} \cup {None} :
        req' = [req EXCEPT ![r] =
                  [Idle EXCEPT !.server = s, !.op = op, !.secret = p,
                            !.at = IF op = "read" /\ PublicReads THEN "handle" ELSE "lookup"]]
  BY DEF Arrive
<1>2. [Idle EXCEPT !.server = s, !.op = op, !.secret = p,
                   !.at = IF op = "read" /\ PublicReads THEN "handle" ELSE "lookup"] \in ReqType
  BY DEF Idle, ReqType, Place
<1>3. req' \in [Request -> ReqType]
  BY <1>1, <1>2
<1>. QED
  BY <1>3 DEF Arrive, TypeOK, ReqType, table, life, Rows

LEMMA AccessTypeStep == TypeOK /\ [Next]_vars => TypeOK'
<1>. SUFFICES ASSUME TypeOK, [Next]_vars PROVE TypeOK'
  OBVIOUS
<1>1. ASSUME NEW s \in Server, Process(s) PROVE TypeOK'
  <2>1. CASE Start(s) \/ Stop(s) \/ CloseStore(s)
    BY <2>1 DEF Start, Stop, CloseStore, Goes, TypeOK, table, reqs, Rows
  <2>2. CASE Exit(s) \/ Crash(s)
    BY <2>2, GoneType DEF Exit, Crash
  <2>. QED
    BY <1>1, <2>1, <2>2, BootstrapType DEF Process
<1>2. CASE Tick
  BY <1>2 DEF Tick, TypeOK, table, life, reqs, Rows
<1>3. CASE UNCHANGED vars
  BY <1>3 DEF vars, TypeOK, table, life, reqs, Rows
<1>4. ASSUME NEW r \in Request, Handle(r) PROVE TypeOK'
  BY <1>4, RequestType, MintType DEF Handle
<1>. QED
  BY <1>1, <1>2, <1>3, <1>4, CliCreateType, CliRevokeType, ArriveType DEF Next

\* The type invariant of the token table, the servers and the requests.
THEOREM AccessTypeCorrect == Spec => []TypeOK
BY AccessTypeInit, AccessTypeStep, PTL DEF Spec

-----------------------------------------------------------------------------
(* The inductive invariant *)

LEMMA AccessInit == Init => IInv
<1>. SUFFICES ASSUME Init PROVE IInv
  OBVIOUS
<1>1. Rows = {} /\ \A r \in Request : req[r] = Idle
  BY DEF Init, Rows
<1>. QED
  BY <1>1, AccessTypeInit
  DEF Init, IInv, TableOK, MadeOK, ToldOK, TokensKept, ReqOK, NoEscalation, RotatedOK, Idle

\* A step that leaves the table alone has to keep what is said of servers and requests.
LEMMA TableFrame ==
    ASSUME IInv, TypeOK', UNCHANGED table, MadeOK', ReqOK',
           \A r \in Request : req'[r].scope # "admin" \/ (\E q \in Request : req[q].scope = "admin")
                                \/ \E n \in Rows : tokens[n].scope = "admin",
           \A s \in Server : srv'[s] = "empty" => srv[s] = "empty" \/ Rows = {}
    PROVE  IInv'
<1>1. Rows' = Rows /\ WithSecret(Env)' = WithSecret(Env)
  BY DEF Rows, WithSecret, table
<1>2. TableOK' /\ ToldOK' /\ TokensKept'
  BY <1>1 DEF IInv, TableOK, ToldOK, TokensKept, table, Fits
<1>3. NoEscalation'
  BY <1>1 DEF IInv, NoEscalation, table
<1>4. RotatedOK'
  BY <1>1 DEF IInv, RotatedOK, table
<1>. QED
  BY <1>2, <1>3, <1>4 DEF IInv

\* What is over has no rights.
LEMMA NoRights == /\ Idle.scope = "none" /\ Idle.secret = None /\ Idle.at = "idle"
                  /\ \A r, p : Left(r, p).scope = "none" /\ Left(r, p).secret = None /\ Left(r, p).at = p
BY DEF Idle, Left

LEMMA ReqFrame ==
    ASSUME IInv, UNCHANGED <<born, deadline>>,
           \A r \in Request : req'[r] = req[r]
                \/ (req'[r].scope = "none" /\ req'[r].secret = None /\ req'[r].at # "handle")
    PROVE  ReqOK'
BY DEF IInv, ReqOK, Fits

LEMMA EndsKeeps ==
    ASSUME IInv, NEW r \in Request, Ends(r)
    PROVE  \A q \in Request : req'[q] = req[q]
                \/ (req'[q].scope = "none" /\ req'[q].secret = None /\ req'[q].at # "handle")
<1>1. \A q \in Request : req'[q] = IF q = r THEN Left(r, "reply") ELSE req[q]
  BY DEF Ends, IInv, TypeOK
<1>2. /\ Left(r, "reply").scope = "none" /\ Left(r, "reply").secret = None
      /\ Left(r, "reply").at = "reply"
  BY NoRights
<1>. QED
  BY <1>1, <1>2

LEMMA GoneKeeps ==
    ASSUME IInv, NEW s \in Server, NEW how \in {"idle", "cut"}, Gone(s, how)
    PROVE  IInv'
<1>1. \A r \in Request : req'[r] = req[r] \/ req'[r] = Idle \/ req'[r] = Left(r, how)
  BY DEF Gone
<1>2. \A r \in Request : made'[r] = None \/ made'[r] = made[r]
  BY DEF Gone
<1>3. \A r \in Request : req'[r] = req[r]
                \/ (req'[r].scope = "none" /\ req'[r].secret = None /\ req'[r].at # "handle")
  BY <1>1, NoRights
<1>4. UNCHANGED table
  BY DEF Gone
<1>5. ReqOK'
  BY <1>3, <1>4, ReqFrame DEF table
<1>6. MadeOK'
  BY <1>2, <1>4 DEF IInv, MadeOK, table, Rows
<1>7. \A t \in Server : srv'[t] = srv[t] \/ srv'[t] = "down"
  BY DEF Gone, Goes, IInv, TypeOK
<1>8. TypeOK'
  BY GoneType DEF IInv
<1>. QED
  BY <1>3, <1>4, <1>5, <1>6, <1>7, <1>8, TableFrame

LEMMA RequestKeeps ==
    ASSUME IInv, NEW r \in Request, Lookup(r) \/ Serve(r)
    PROVE  IInv'
<1>1. TypeOK' /\ TypeOK
  BY RequestType DEF IInv
<1>2. UNCHANGED <<table, now, life, made>>
  BY DEF Lookup, Serve
<1>3. MadeOK'
  BY <1>2 DEF IInv, MadeOK, table, Rows
<1>4. CASE Ends(r)
  <2>1. ReqOK'
    BY <1>2, <1>4, EndsKeeps, ReqFrame DEF table
  <2>. QED
    BY <1>1, <1>2, <1>3, <1>4, <2>1, EndsKeeps, TableFrame DEF life
<1>5. ASSUME NEW n \in WithSecret(req[r].secret), req[r].at = "lookup",
             ~Expired(tokens[n]), tokens[n].scope \in Need(req[r].op),
             req' = [req EXCEPT ![r].at = "handle", ![r].scope = tokens[n].scope, ![r].since = now]
      PROVE  IInv'
  <2>1. n \in Rows /\ tokens[n].secret = req[r].secret /\ tokens[n].secret \in Secret
    BY <1>1, <1>5, RowType DEF WithSecret
  <2>2. /\ req'[r].at = "handle" /\ req'[r].scope = tokens[n].scope /\ req'[r].since = now
        /\ req'[r].secret = req[r].secret /\ req'[r].op = req[r].op
        /\ \A q \in Request : q # r => req'[q] = req[q]
    BY <1>1, <1>5 DEF TypeOK
  <2>3. Fits /\ deadline[req[r].secret] # 0 => now <= deadline[req[r].secret]
    <3>1. tokens[n].expires_at \in Nat /\ now \in Nat /\ deadline[tokens[n].secret] \in Nat
      BY <1>1, <2>1, RowType DEF TypeOK
    <3>. QED
      BY <1>5, <2>1, <3>1 DEF IInv, TableOK, Expired
  <2>4. req[r].op = "mint" => tokens[n].scope = "admin"
    BY <1>5 DEF Need
  <2>5. req[r].secret \in born /\ req[r].secret # None
    BY <2>1 DEF IInv, TableOK
  <2>6. ReqOK'
    BY <1>2, <2>2, <2>3, <2>4, <2>5 DEF IInv, ReqOK, table, Fits
  <2>. QED
    BY <1>1, <1>2, <1>3, <2>1, <2>2, <2>6, TableFrame DEF life
<1>. QED
  BY <1>4, <1>5 DEF Lookup, Serve

LEMMA ArriveKeeps ==
    ASSUME IInv, NEW r \in Request, NEW s \in Server, Arrive(r, s)
    PROVE  IInv'
<1>1. TypeOK' /\ TypeOK /\ UNCHANGED <<table, now, life, made>>
  BY ArriveType DEF IInv, Arrive
<1>2. PICK op \in Op, p \in {q \in Secret : told[q] # None} \cup {None} :
        req' = [req EXCEPT ![r] =
                  [Idle EXCEPT !.server = s, !.op = op, !.secret = p,
                            !.at = IF op = "read" /\ PublicReads THEN "handle" ELSE "lookup"]]
  BY DEF Arrive
<1>3. /\ req'[r].secret = p /\ req'[r].scope = "none" /\ req'[r].op = op
      /\ req'[r].at = IF op = "read" /\ PublicReads THEN "handle" ELSE "lookup"
      /\ \A q \in Request : q # r => req'[q] = req[q]
  BY <1>1, <1>2 DEF TypeOK, Idle
<1>4. p # None => p \in born
  BY DEF IInv, ToldOK
<1>5. ReqOK'
  BY <1>1, <1>3, <1>4 DEF IInv, ReqOK, table, Fits
<1>6. MadeOK'
  BY <1>1 DEF IInv, MadeOK, table, Rows
<1>. QED
  BY <1>1, <1>3, <1>5, <1>6, TableFrame DEF life

\* What an insert keeps, when what it says of the new plaintext p is true.
LEMMA InsertKeeps ==
    ASSUME IInv, TypeOK', NEW n \in Name, NEW p \in Secret, NEW s \in Scope, NEW e \in Nat,
           NEW due \in Nat, ~Taken(n, p), Insert(n, p, s, e, due),
           Fits /\ due # 0 => e # 0 /\ e <= due
    PROVE  /\ TableOK'
           /\ \A m \in Rows : m \in Rows' /\ tokens'[m] = tokens[m]
           /\ born \subseteq born' /\ p \in born'
           /\ \A q \in Secret : q # p => deadline'[q] = deadline[q]
<1>1. /\ tokens'[n] = [secret |-> p, scope |-> s, expires_at |-> e]
      /\ Rows' = Rows \cup {n}
      /\ \A m \in Rows : m # n /\ tokens'[m] = tokens[m] /\ tokens[m].secret # p
      /\ deadline'[p] = due /\ born' = born \cup {p}
      /\ \A q \in Secret : q # p => deadline'[q] = deadline[q]
  BY InsertRows DEF IInv
<1>2. ASSUME NEW m \in Rows'
      PROVE  /\ tokens'[m].secret \in born'
             /\ Fits /\ deadline'[tokens'[m].secret] # 0
                  => /\ tokens'[m].expires_at # 0
                     /\ tokens'[m].expires_at <= deadline'[tokens'[m].secret]
  <2>1. CASE m = n
    BY <1>1, <2>1
  <2>2. CASE m # n
    <3>1. m \in Rows /\ tokens'[m] = tokens[m] /\ tokens[m].secret \in Secret /\ tokens[m].secret # p
      BY <1>1, <2>2, RowType DEF IInv
    <3>. QED
      BY <1>1, <3>1 DEF IInv, TableOK
  <2>. QED
    BY <2>1, <2>2
<1>3. TableOK'
  BY <1>2 DEF TableOK, Fits
<1>. QED
  BY <1>1, <1>3

LEMMA CliCreateKeeps == ASSUME IInv, CliCreate PROVE IInv'
<1>. TypeOK /\ TypeOK'
  BY CliCreateType DEF IInv
<1>1. PICK n \in Name, p \in Secret \ born, s \in Scope, k \in Count, u \in Unit :
        /\ k >= 0 /\ ~Taken(n, p)
        /\ Insert(n, p, s, ExpiresAt(k, u), Asked(k, u))
        /\ told' = [told EXCEPT ![p] = tokens'[n]]
        /\ trusted' = (trusted \/ s = "admin")
        /\ UNCHANGED <<revoked, rotated, now, life, reqs>>
  BY DEF CliCreate
<1>2. /\ ExpiresAt(k, u) \in Nat /\ Asked(k, u) \in Nat
      /\ Fits => ExpiresAt(k, u) = Asked(k, u)
  BY <1>1, ExpiresAsAsked DEF TypeOK
<1>3. /\ TableOK' /\ born \subseteq born' /\ p \in born'
      /\ \A m \in Rows : m \in Rows' /\ tokens'[m] = tokens[m]
      /\ \A q \in Secret : q # p => deadline'[q] = deadline[q]
  BY <1>1, <1>2, InsertKeeps
<1>4. /\ Rows' = Rows \cup {n} /\ n \notin Rows
      /\ tokens'[n] = [secret |-> p, scope |-> s, expires_at |-> ExpiresAt(k, u)]
  BY <1>1, <1>2, InsertRows
<1>5. MadeOK' /\ ToldOK' /\ ReqOK'
  <2>1. MadeOK'
    BY <1>1, <1>3 DEF IInv, MadeOK, reqs
  <2>2. ToldOK'
    BY <1>1, <1>3 DEF IInv, ToldOK, TypeOK
  <2>3. ASSUME NEW r \in Request, req[r].secret # None PROVE req[r].secret \in Secret \ {p}
    BY <1>1, <2>3 DEF IInv, ReqOK, TypeOK
  <2>4. ReqOK'
    BY <1>1, <1>3, <2>3 DEF IInv, ReqOK, reqs, Fits
  <2>. QED
    BY <2>1, <2>2, <2>4
<1>6. TokensKept'
  <2>1. told'[p] = tokens'[n] /\ n \in Rows' /\ \A q \in Secret : q # p => told'[q] = told[q]
    BY <1>1, <1>4 DEF TypeOK
  <2>2. told'[p].secret = p /\ revoked' = revoked
    BY <1>1, <1>4, <2>1
  <2>3. ASSUME NEW q \in Secret \ revoked, q # p, told[q] # None
        PROVE  \E m \in Rows' : tokens'[m] = told[q] /\ told[q].secret = q
    <3>1. PICK m \in Rows : tokens[m] = told[q] /\ told[q].secret = q
      BY <2>3 DEF IInv, TokensKept
    <3>. QED
      BY <1>3, <3>1
  <2>4. ASSUME NEW q \in Secret \ revoked', told'[q] # None
        PROVE  \E m \in Rows' : tokens'[m] = told'[q] /\ told'[q].secret = q
    <3>1. CASE q = p
      BY <1>4, <2>1, <2>2, <3>1
    <3>2. CASE q # p
      BY <2>1, <2>2, <2>3, <2>4, <3>2
    <3>. QED
      BY <3>1, <3>2
  <2>. QED
    BY <2>4 DEF TokensKept
<1>7. NoEscalation'
  <2>1. SUFFICES ASSUME ~trusted' PROVE NoEscalation'
    BY DEF NoEscalation
  <2>2. ~trusted /\ s # "admin" /\ req' = req
    BY <1>1, <2>1 DEF reqs
  <2>3. \A m \in Rows : tokens[m].scope # "admin"
    BY <2>2 DEF IInv, NoEscalation
  <2>4. \A m \in Rows' : tokens'[m].scope # "admin"
    BY <1>3, <1>4, <2>2, <2>3
  <2>5. \A r \in Request : req'[r].scope # "admin"
    BY <2>2 DEF IInv, NoEscalation
  <2>. QED
    BY <2>4, <2>5 DEF NoEscalation
<1>8. RotatedOK'
  BY <1>1, <1>3, <1>4 DEF IInv, RotatedOK, WithSecret, life
<1>. QED
  BY <1>3, <1>5, <1>6, <1>7, <1>8 DEF IInv

LEMMA MintKeeps == ASSUME IInv, NEW r \in Request, Mint(r) PROVE IInv'
<1>. TypeOK /\ TypeOK'
  BY MintType DEF IInv
<1>1. Ends(r) /\ UNCHANGED <<now, life>> /\ req[r].at = "handle" /\ req[r].op = "mint"
  BY DEF Mint
<1>2. \A q \in Request : req'[q] = req[q]
        \/ (req'[q].scope = "none" /\ req'[q].secret = None /\ req'[q].at # "handle")
  BY <1>1, EndsKeeps
<1>3. CASE UNCHANGED <<table, made>>
  <2>1. ReqOK'
    BY <1>2, <1>3, ReqFrame DEF table
  <2>2. MadeOK'
    BY <1>3 DEF IInv, MadeOK, table, Rows
  <2>. QED
    BY <1>1, <1>2, <1>3, <2>1, <2>2, TableFrame DEF life
<1>4. ASSUME NEW n \in Name, NEW p \in Secret \ (born \cup {Env}), NEW s \in Scope,
             NEW k \in Count, NEW u \in Unit, k >= 0, ~Taken(n, p),
             Insert(n, p, s, ExpiresAt(k, u), Asked(k, u)),
             made' = [made EXCEPT ![r] = tokens'[n]],
             UNCHANGED <<told, revoked, rotated, trusted>>
      PROVE  IInv'
  <2>2. /\ ExpiresAt(k, u) \in Nat /\ Asked(k, u) \in Nat
        /\ Fits => ExpiresAt(k, u) = Asked(k, u)
    BY <1>4, ExpiresAsAsked DEF TypeOK
  <2>3. /\ TableOK' /\ born \subseteq born' /\ p \in born'
        /\ \A m \in Rows : m \in Rows' /\ tokens'[m] = tokens[m]
        /\ \A q \in Secret : q # p => deadline'[q] = deadline[q]
    BY <1>4, <2>2, InsertKeeps
  <2>4. /\ Rows' = Rows \cup {n} /\ n \notin Rows
        /\ tokens'[n] = [secret |-> p, scope |-> s, expires_at |-> ExpiresAt(k, u)]
    BY <1>4, <2>2, InsertRows
  <2>5. MadeOK'
    <3>1. made'[r] = tokens'[n] /\ \A q \in Request : q # r => made'[q] = made[q]
      BY <1>4 DEF TypeOK
    <3>. QED
      BY <1>4, <2>3, <2>4, <3>1 DEF IInv, MadeOK
  <2>6. ToldOK' /\ TokensKept'
    BY <1>4, <2>3 DEF IInv, ToldOK, TokensKept
  <2>7. ReqOK'
    <3>1. ASSUME NEW q \in Request, req[q].secret # None PROVE req[q].secret \in Secret \ {p}
      BY <1>4, <3>1 DEF IInv, ReqOK, TypeOK
    <3>. QED
      BY <1>2, <2>3, <3>1 DEF IInv, ReqOK, Fits
  <2>8. NoEscalation'
    <3>1. trusted
      BY <1>1 DEF IInv, ReqOK, NoEscalation
    <3>. QED
      BY <1>4, <3>1 DEF NoEscalation
  <2>9. RotatedOK'
    BY <1>1, <1>4, <2>3, <2>4 DEF IInv, RotatedOK, WithSecret, life
  <2>. QED
    BY <2>3, <2>5, <2>6, <2>7, <2>8, <2>9 DEF IInv
<1>. QED
  BY <1>3, <1>4 DEF Mint

LEMMA BootstrapKeeps == ASSUME IInv, NEW s \in Server, Bootstrap(s) PROVE IInv'
<1>. TypeOK /\ TypeOK' /\ UNCHANGED <<starts, now, reqs>> /\ srv[s] = "empty"
  BY BootstrapType DEF IInv, Bootstrap
<1>1. CASE Taken(Boot, Env)
  <2>1. UNCHANGED table /\ \A t \in Server : srv'[t] = srv[t] \/ srv'[t] = "down"
    BY <1>1 DEF Bootstrap, Goes, TypeOK
  <2>2. MadeOK' /\ ReqOK'
    BY <2>1 DEF IInv, MadeOK, ReqOK, table, reqs, Rows, Fits
  <2>. QED
    BY <2>1, <2>2, TableFrame DEF reqs
<1>2. CASE ~Taken(Boot, Env)
  <2>1. /\ Insert(Boot, Env, "admin", 0, 0) /\ told' = [told EXCEPT ![Env] = tokens'[Boot]]
        /\ revoked' = revoked \ {Env} /\ trusted' = TRUE /\ UNCHANGED rotated
    BY <1>2 DEF Bootstrap
  <2>2. "admin" \in Scope /\ 0 \in Nat
    BY DEF Scope
  <2>3. /\ TableOK' /\ born \subseteq born' /\ Env \in born'
        /\ \A m \in Rows : m \in Rows' /\ tokens'[m] = tokens[m]
        /\ \A q \in Secret : q # Env => deadline'[q] = deadline[q]
    BY <1>2, <2>1, <2>2, InsertKeeps
  <2>4. /\ Rows' = Rows \cup {Boot} /\ deadline'[Env] = 0
        /\ tokens'[Boot] = [secret |-> Env, scope |-> "admin", expires_at |-> 0]
    BY <1>2, <2>1, <2>2, InsertRows
  <2>5. MadeOK' /\ ToldOK'
    <3>1. MadeOK'
      BY <2>1, <2>3 DEF IInv, MadeOK, reqs
    <3>2. ToldOK'
      BY <2>1, <2>3 DEF IInv, ToldOK, TypeOK
    <3>. QED
      BY <3>1, <3>2
  <2>6. TokensKept'
    BY <2>1, <2>3, <2>4 DEF IInv, TokensKept, TypeOK
  <2>7. ReqOK'
    <3>1. \A r \in Request : req[r].secret # None => req[r].secret \in Secret
      BY DEF TypeOK
    <3>. QED
      BY <2>3, <2>4, <3>1 DEF IInv, ReqOK, reqs, Fits
  <2>8. NoEscalation' /\ RotatedOK'
    BY <2>1 DEF IInv, NoEscalation, RotatedOK
  <2>. QED
    BY <2>3, <2>5, <2>6, <2>7, <2>8 DEF IInv
<1>. QED
  BY <1>1, <1>2

LEMMA ReplyKeeps == ASSUME IInv, NEW r \in Request, Reply(r) PROVE IInv'
<1>. TypeOK /\ TypeOK'
  BY RequestType DEF IInv
<1>1. /\ req' = [req EXCEPT ![r] = Idle] /\ made' = [made EXCEPT ![r] = None]
      /\ told' = IF made[r] = None THEN told ELSE [told EXCEPT ![made[r].secret] = made[r]]
      /\ UNCHANGED <<tokens, born, deadline, revoked, rotated, trusted, now, life>>
  BY DEF Reply
<1>2. Rows' = Rows /\ WithSecret(Env)' = WithSecret(Env)
  BY <1>1 DEF Rows, WithSecret
<1>3. \A q \in Request : made'[q] = IF q = r THEN None ELSE made[q]
  BY <1>1 DEF TypeOK
<1>4. \A q \in Request : req'[q] = IF q = r THEN Idle ELSE req[q]
  BY <1>1 DEF TypeOK
<1>5. TableOK' /\ MadeOK'
  BY <1>1, <1>2, <1>3 DEF IInv, TableOK, MadeOK, Fits
<1>6. ReqOK'
  BY <1>1, <1>4, ReqFrame, NoRights
<1>7. ToldOK' /\ TokensKept'
  <2>1. CASE made[r] = None
    BY <1>1, <1>2, <2>1 DEF IInv, ToldOK, TokensKept
  <2>2. CASE made[r] # None
    <3>1. made[r].secret \in Secret
      BY <2>2 DEF TypeOK, Row
    <3>2. \A q \in Secret : told'[q] = IF q = made[r].secret THEN made[r] ELSE told[q]
      BY <1>1, <2>2, <3>1 DEF TypeOK
    <3>. QED
      BY <1>1, <1>2, <2>2, <3>1, <3>2 DEF IInv, ToldOK, TokensKept, MadeOK
  <2>. QED
    BY <2>1, <2>2
<1>8. NoEscalation' /\ RotatedOK'
  <2>1. \A q \in Request : req'[q].scope = "admin" => req[q].scope = "admin"
    BY <1>4, NoRights
  <2>. QED
    BY <1>1, <1>2, <2>1 DEF IInv, NoEscalation, RotatedOK, life
<1>. QED
  BY <1>5, <1>6, <1>7, <1>8 DEF IInv

LEMMA CliRevokeKeeps == ASSUME IInv, CliRevoke PROVE IInv'
<1>. TypeOK /\ TypeOK'
  BY CliRevokeType DEF IInv
<1>1. PICK n \in Rows :
        /\ tokens' = [tokens EXCEPT ![n] = None]
        /\ revoked' = revoked \cup {tokens[n].secret}
        /\ rotated' = (Rows \ {n} # {}
                       /\ (rotated \/ (tokens[n].secret = Env /\ \A s \in Server : srv[s] # "empty")))
        /\ UNCHANGED <<born, deadline, told, trusted, now, life, reqs>>
  BY DEF CliRevoke
<1>2. /\ Rows' = Rows \ {n}
      /\ \A m \in Rows : m # n => tokens'[m] = tokens[m] /\ tokens[m].secret # tokens[n].secret
  BY <1>1, RevokeRows
<1>3. TableOK' /\ ToldOK'
  BY <1>1, <1>2 DEF IInv, TableOK, ToldOK, Fits
<1>4. MadeOK' /\ TokensKept'
  BY <1>1, <1>2 DEF IInv, MadeOK, TokensKept, reqs
<1>5. ReqOK' /\ NoEscalation'
  BY <1>1, <1>2 DEF IInv, ReqOK, NoEscalation, reqs, Fits
<1>6. RotatedOK'
  <2>1. CASE ~rotated'
    BY <2>1 DEF RotatedOK
  <2>2. CASE rotated'
    <3>1. Rows' # {} /\ \A s \in Server : srv'[s] # "empty"
      BY <1>1, <1>2, <2>2 DEF IInv, RotatedOK, life
    <3>2. Env \in born
      BY <1>1, <2>2 DEF IInv, RotatedOK, TableOK
    <3>3. WithSecret(Env)' = {}
      BY <1>1, <1>2, <2>2 DEF IInv, RotatedOK, WithSecret
    <3>. QED
      BY <1>1, <3>1, <3>2, <3>3 DEF RotatedOK
  <2>. QED
    BY <2>1, <2>2
<1>. QED
  BY <1>3, <1>4, <1>5, <1>6 DEF IInv

\* Steps that touch neither the table nor a request.
LEMMA ProcessKeeps ==
    ASSUME IInv, NEW s \in Server, Start(s) \/ Stop(s) \/ CloseStore(s)
    PROVE  IInv'
<1>1. TypeOK' /\ UNCHANGED <<table, now, reqs>>
  BY AccessTypeStep DEF IInv, Next, Process, Start, Stop, CloseStore
<1>2. MadeOK' /\ ReqOK'
  BY <1>1 DEF IInv, MadeOK, ReqOK, table, reqs, Rows, Fits
<1>3. \A t \in Server : srv'[t] = "empty" => srv[t] = "empty" \/ Rows = {}
  BY DEF Start, Stop, CloseStore, Goes, IInv, TypeOK
<1>. QED
  BY <1>1, <1>2, <1>3, TableFrame DEF reqs

LEMMA QuietKeeps ==
    ASSUME IInv, Tick \/ UNCHANGED vars
    PROVE  IInv'
<1>1. TypeOK' /\ UNCHANGED <<table, life, reqs>>
  BY AccessTypeStep DEF IInv, Next, Tick, vars
<1>2. MadeOK' /\ ReqOK'
  BY <1>1 DEF IInv, MadeOK, ReqOK, table, reqs, Rows, Fits
<1>. QED
  BY <1>1, <1>2, TableFrame DEF reqs, life

LEMMA AccessStep == IInv /\ [Next]_vars => IInv'
<1>. SUFFICES ASSUME IInv, [Next]_vars PROVE IInv'
  OBVIOUS
<1>1. ASSUME NEW s \in Server, Process(s) PROVE IInv'
  <2>1. CASE Exit(s) \/ Crash(s)
    BY <2>1, GoneKeeps DEF Exit, Crash
  <2>. QED
    BY <1>1, <2>1, ProcessKeeps, BootstrapKeeps DEF Process
<1>2. ASSUME NEW r \in Request, Handle(r) PROVE IInv'
  BY <1>2, RequestKeeps, MintKeeps, ReplyKeeps DEF Handle
<1>. QED
  BY <1>1, <1>2, QuietKeeps, CliCreateKeeps, CliRevokeKeeps, ArriveKeeps DEF Next

LEMMA AccessInv == Spec => []IInv
BY AccessInit, AccessStep, PTL DEF Spec

-----------------------------------------------------------------------------
(* Theorems *)

\* When no lifetime that is asked for overflows a time.Duration, nobody gets past the
\* middleware after the end of the life that was asked for the token.
THEOREM LivesEnd == Spec => [](Fits => NotPastDeadline)
<1>1. IInv => (Fits => NotPastDeadline)
  BY DEF IInv, ReqOK, NotPastDeadline
<1>. QED
  BY <1>1, AccessInv, PTL

\* The middleware and the mint route never make an admin out of the holders of r and rw
\* tokens, on any number of servers.
THEOREM NoWayUp == Spec => []NoEscalation
<1>1. IInv => NoEscalation
  BY DEF IInv
<1>. QED
  BY <1>1, AccessInv, PTL

\* A token whose plaintext was handed out keeps its row, with the scope and the end that
\* were told, until it is revoked.
THEOREM HandedOutIsKept == Spec => []TokensKept
<1>1. IInv => TokensKept
  BY DEF IInv
<1>. QED
  BY <1>1, AccessInv, PTL

\* bootstrapToken does not bring back the environment's token once it was replaced.
THEOREM RotationHolds == Spec => []RotatedOutStaysOut
<1>1. IInv => RotatedOutStaysOut
  BY DEF IInv, RotatedOK, RotatedOutStaysOut
<1>. QED
  BY <1>1, AccessInv, PTL

-----------------------------------------------------------------------------
(* Revocation *)

\* A revoked plaintext was given out before, and stands in no row.
RevokedOut ==
    /\ revoked \subseteq born
    /\ \A n \in Rows : tokens[n].secret \notin revoked

LEMMA InitRevokedOut == Init => RevokedOut
BY DEF Init, RevokedOut, Rows

\* A new row brings back no revoked plaintext but that of the environment, which is then no
\* longer a revoked one.
LEMMA InsertRevokedOut ==
    ASSUME IInv, RevokedOut, NEW n \in Name, NEW p \in Secret, NEW s \in Scope, NEW e \in Nat,
           NEW due \in Nat, ~Taken(n, p), Insert(n, p, s, e, due),
           p \notin revoked', revoked' \subseteq revoked
    PROVE  RevokedOut'
<1>1. /\ tokens'[n] = [secret |-> p, scope |-> s, expires_at |-> e]
      /\ Rows' = Rows \cup {n} /\ born' = born \cup {p}
      /\ \A m \in Rows : tokens'[m] = tokens[m]
  BY InsertRows DEF IInv
<1>2. tokens'[n].secret = p
  BY <1>1
<1>. QED
  BY <1>1, <1>2 DEF RevokedOut

LEMMA StepRevokedOut ==
    ASSUME IInv, RevokedOut, [Next]_vars
    PROVE  RevokedOut'
<1>. TypeOK
  BY DEF IInv
<1>1. CASE UNCHANGED <<tokens, born, revoked>>
  BY <1>1 DEF RevokedOut, Rows
<1>2. CASE CliCreate
  <2>1. PICK n \in Name, p \in Secret \ born, s \in Scope, k \in Count, u \in Unit :
          /\ k >= 0 /\ ~Taken(n, p) /\ Insert(n, p, s, ExpiresAt(k, u), Asked(k, u))
          /\ revoked' = revoked
    BY <1>2 DEF CliCreate
  <2>2. ExpiresAt(k, u) \in Nat /\ Asked(k, u) \in Nat
    BY <2>1, ExpiresAsAsked DEF TypeOK
  <2>3. p \notin revoked'
    BY <2>1 DEF RevokedOut
  <2>. QED
    BY <2>1, <2>2, <2>3, InsertRevokedOut
<1>3. CASE CliRevoke
  <2>1. PICK n \in Rows : /\ tokens' = [tokens EXCEPT ![n] = None]
                          /\ revoked' = revoked \cup {tokens[n].secret} /\ born' = born
    BY <1>3 DEF CliRevoke
  <2>2. /\ Rows' = Rows \ {n}
        /\ \A m \in Rows : m # n => tokens'[m] = tokens[m] /\ tokens[m].secret # tokens[n].secret
    BY <2>1, RevokeRows
  <2>3. tokens[n].secret \in born
    BY DEF IInv, TableOK
  <2>. QED
    BY <2>1, <2>2, <2>3 DEF RevokedOut
<1>4. ASSUME NEW s \in Server, Bootstrap(s)
      PROVE  RevokedOut'
  <2>1. CASE Taken(Boot, Env)
    BY <1>1, <1>4, <2>1 DEF Bootstrap, table
  <2>2. CASE ~Taken(Boot, Env)
    <3>1. Insert(Boot, Env, "admin", 0, 0) /\ revoked' = revoked \ {Env} /\ "admin" \in Scope
      BY <1>4, <2>2 DEF Bootstrap, Scope
    <3>. QED
      BY <2>2, <3>1, InsertRevokedOut
  <2>. QED
    BY <2>1, <2>2
<1>5. ASSUME NEW r \in Request, Mint(r)
      PROVE  RevokedOut'
  <2>1. ASSUME NEW n \in Name, NEW p \in Secret \ (born \cup {Env}), NEW s \in Scope,
               NEW k \in Count, NEW u \in Unit, k >= 0, ~Taken(n, p),
               Insert(n, p, s, ExpiresAt(k, u), Asked(k, u)), revoked' = revoked
        PROVE  RevokedOut'
    <3>1. ExpiresAt(k, u) \in Nat /\ Asked(k, u) \in Nat
      BY <2>1, ExpiresAsAsked DEF TypeOK
    <3>2. p \notin revoked'
      BY <2>1 DEF RevokedOut
    <3>. QED
      BY <2>1, <3>1, <3>2, InsertRevokedOut
  <2>. QED
    BY <1>1, <1>5, <2>1 DEF Mint, table
<1>6. ASSUME NEW s \in Server, Start(s) \/ Stop(s) \/ CloseStore(s) \/ Exit(s) \/ Crash(s)
      PROVE  UNCHANGED <<tokens, born, revoked>>
  BY <1>6 DEF Start, Stop, CloseStore, Exit, Crash, Gone, table
<1>7. ASSUME NEW r \in Request, Lookup(r) \/ Serve(r) \/ Reply(r) \/ \E s \in Server : Arrive(r, s)
      PROVE  UNCHANGED <<tokens, born, revoked>>
  BY <1>7 DEF Lookup, Serve, Reply, Arrive, table
<1>8. Tick \/ UNCHANGED vars => UNCHANGED <<tokens, born, revoked>>
  BY DEF Tick, vars, table
<1>. QED
  BY <1>1, <1>2, <1>3, <1>4, <1>5, <1>6, <1>7, <1>8 DEF Next, Process, Handle

\* The middleware lets a request through.
Admitted(r) == req[r].scope = "none" /\ req'[r].scope # "none"

\* A revoked token opens no door, not even for a request that came in before.
RevokedAdmitNobody == \A r \in Request : Admitted(r) => req[r].secret \notin revoked

LEMMA AdmittedByRow ==
    ASSUME IInv, [Next]_vars, NEW r \in Request, Admitted(r)
    PROVE  \E n \in WithSecret(req[r].secret) :
                /\ req'[r].scope = tokens[n].scope /\ tokens[n].scope \in Need(req[r].op)
                /\ ~Expired(tokens[n])
<1>. TypeOK
  BY DEF IInv
<1>1. ASSUME NEW q \in Request, Ends(q) \/ req' = [req EXCEPT ![q] = Idle]
      PROVE  FALSE
  BY <1>1, NoRights DEF Ends, Admitted, TypeOK
<1>2. ASSUME NEW q \in Request, Lookup(q)
      PROVE  \E n \in WithSecret(req[r].secret) :
                /\ req'[r].scope = tokens[n].scope /\ tokens[n].scope \in Need(req[r].op)
                /\ ~Expired(tokens[n])
  <2>1. PICK n \in WithSecret(req[q].secret) :
          /\ ~Expired(tokens[n]) /\ tokens[n].scope \in Need(req[q].op)
          /\ req' = [req EXCEPT ![q].at = "handle", ![q].scope = tokens[n].scope, ![q].since = now]
    BY <1>1, <1>2 DEF Lookup
  <2>2. /\ req'[q].scope = tokens[n].scope
        /\ \A p \in Request : p # q => req'[p] = req[p]
    BY <2>1 DEF TypeOK
  <2>3. r = q
    BY <2>2 DEF Admitted
  <2>. QED
    BY <2>1, <2>2, <2>3
<1>3. ASSUME NEW q \in Request, NEW s \in Server, Arrive(q, s)
      PROVE  FALSE
  <2>1. PICK op \in Op, p \in Secret \cup {None} :
          req' = [req EXCEPT ![q] =
                    [Idle EXCEPT !.server = s, !.op = op, !.secret = p,
                              !.at = IF op = "read" /\ PublicReads THEN "handle" ELSE "lookup"]]
    BY <1>3 DEF Arrive
  <2>2. req'[q].scope = "none" /\ \A t \in Request : t # q => req'[t] = req[t]
    BY <2>1 DEF TypeOK, Idle
  <2>. QED
    BY <2>2 DEF Admitted
<1>4. ASSUME NEW s \in Server, Exit(s) \/ Crash(s)
      PROVE  FALSE
  BY <1>4, NoRights DEF Exit, Crash, Gone, Admitted
<1>5. req' # req
  BY DEF Admitted
<1>6. ASSUME NEW q \in Request, Handle(q)
      PROVE  Lookup(q)
  BY <1>1, <1>6 DEF Handle, Serve, Mint, Reply
<1>7. ASSUME NEW s \in Server, Process(s)
      PROVE  FALSE
  BY <1>4, <1>5, <1>7 DEF Process, Start, Bootstrap, Stop, CloseStore, reqs
<1>8. ~Tick /\ ~CliCreate /\ ~CliRevoke /\ ~UNCHANGED vars
  BY <1>5 DEF Tick, CliCreate, CliRevoke, vars, reqs
<1>. QED
  BY <1>2, <1>3, <1>6, <1>7, <1>8 DEF Next

\* `shipd token revoke` is final: whoever comes after it, or came before but was not looked up
\* yet, is turned away by every server, and no restart or other token brings the plaintext back
\* but the bootstrap of an empty table (RevokeToken, LookupToken, bootstrapToken).
THEOREM RevocationIsFinal == Spec => [][RevokedAdmitNobody]_vars
<1>1. IInv /\ RevokedOut /\ [Next]_vars => RevokedAdmitNobody
  BY AdmittedByRow DEF RevokedAdmitNobody, RevokedOut, WithSecret
<1>2. IInv /\ RevokedOut /\ [Next]_vars => (IInv /\ RevokedOut)'
  BY AccessStep, StepRevokedOut
<1>3. Init => IInv /\ RevokedOut
  BY AccessInit, InitRevokedOut
<1>. QED
  BY <1>1, <1>2, <1>3, PTL DEF Spec

-----------------------------------------------------------------------------
(* The rights of a request *)

\* The plaintext of a new token is in one answer on its way, and its holder has none yet.
Untold ==
    /\ \A r \in Request : made[r] # None => told[made[r].secret] = None
    /\ \A q, r \in Request :
            made[q] # None /\ made[r] # None /\ made[q].secret = made[r].secret => q = r

LEMMA StepUntold ==
    ASSUME IInv, Untold, [Next]_vars
    PROVE  Untold'
<1>. TypeOK
  BY DEF IInv
<1>1. ASSUME UNCHANGED told, \A r \in Request : made'[r] = made[r] \/ made'[r] = None
      PROVE  Untold'
  BY <1>1 DEF Untold
<1>2. \A r \in Request : made[r] # None => made[r].secret \in born /\ made[r].secret # Env
  BY DEF IInv, MadeOK
<1>3. CASE CliCreate
  <2>1. PICK p \in Secret \ born : (\E n \in Name : told' = [told EXCEPT ![p] = tokens'[n]]) /\ made' = made
    BY <1>3 DEF CliCreate, reqs
  <2>2. \A q \in Secret : q # p => told'[q] = told[q]
    BY <2>1 DEF TypeOK
  <2>3. \A r \in Request : made[r] # None => made[r].secret \in Secret
    BY DEF TypeOK, Row
  <2>. QED
    BY <1>2, <2>1, <2>2, <2>3 DEF Untold
<1>4. ASSUME NEW s \in Server, Bootstrap(s)
      PROVE  Untold'
  <2>1. made' = made /\ (told' = told \/ told' = [told EXCEPT ![Env] = tokens'[Boot]])
    BY <1>4 DEF Bootstrap, reqs, table
  <2>2. \A q \in Secret : q # Env => told'[q] = told[q]
    BY <2>1 DEF TypeOK
  <2>3. \A r \in Request : made[r] # None => made[r].secret \in Secret
    BY DEF TypeOK, Row
  <2>. QED
    BY <1>2, <2>1, <2>2, <2>3 DEF Untold
<1>5. ASSUME NEW r \in Request, Mint(r)
      PROVE  Untold'
  <2>1. ASSUME NEW n \in Name, NEW p \in Secret \ (born \cup {Env}), NEW s \in Scope,
               NEW k \in Count, NEW u \in Unit, k >= 0, ~Taken(n, p),
               Insert(n, p, s, ExpiresAt(k, u), Asked(k, u)),
               made' = [made EXCEPT ![r] = tokens'[n]], told' = told
        PROVE  Untold'
    <3>1. ExpiresAt(k, u) \in Nat /\ Asked(k, u) \in Nat
      BY <2>1, ExpiresAsAsked DEF TypeOK
    <3>2. tokens'[n].secret = p
      <4>1. tokens'[n] = [secret |-> p, scope |-> s, expires_at |-> ExpiresAt(k, u)]
        BY <2>1, <3>1, InsertRows
      <4>. QED
        BY <4>1
    <3>3. made'[r].secret = p /\ \A q \in Request : q # r => made'[q] = made[q]
      BY <2>1, <3>2 DEF TypeOK
    <3>4. told[p] = None
      BY DEF IInv, ToldOK
    <3>. QED
      BY <1>2, <2>1, <3>3, <3>4 DEF Untold
  <2>. QED
    BY <1>1, <1>5, <2>1 DEF Mint, table
<1>6. ASSUME NEW r \in Request, Reply(r)
      PROVE  Untold'
  <2>1. \A q \in Request : made'[q] = IF q = r THEN None ELSE made[q]
    BY <1>6 DEF Reply, TypeOK
  <2>2. CASE made[r] = None
    BY <1>1, <1>6, <2>1, <2>2 DEF Reply
  <2>3. CASE made[r] # None
    <3>1. made[r].secret \in Secret /\ told' = [told EXCEPT ![made[r].secret] = made[r]]
      BY <1>6, <2>3 DEF Reply, TypeOK, Row
    <3>2. \A q \in Secret : q # made[r].secret => told'[q] = told[q]
      BY <3>1 DEF TypeOK
    <3>3. \A q \in Request : made[q] # None => made[q].secret \in Secret
      BY DEF TypeOK, Row
    <3>. QED
      BY <2>1, <2>3, <3>2, <3>3 DEF Untold
  <2>. QED
    BY <2>2, <2>3
<1>7. ASSUME NEW s \in Server, Exit(s) \/ Crash(s)
      PROVE  Untold'
  BY <1>1, <1>7 DEF Exit, Crash, Gone, table
<1>8. ASSUME NEW s \in Server, Start(s) \/ Stop(s) \/ CloseStore(s)
      PROVE  Untold'
  BY <1>1, <1>8 DEF Start, Stop, CloseStore, table, reqs
<1>9. ASSUME NEW r \in Request, Lookup(r) \/ Serve(r) \/ \E s \in Server : Arrive(r, s)
      PROVE  Untold'
  BY <1>1, <1>9 DEF Lookup, Serve, Arrive, table
<1>10. CASE CliRevoke \/ Tick \/ UNCHANGED vars
  BY <1>1, <1>10 DEF CliRevoke, Tick, vars, table, reqs
<1>. QED
  BY <1>3, <1>4, <1>5, <1>6, <1>7, <1>8, <1>9, <1>10 DEF Next, Process, Handle

\* A request that is past the middleware has the scope its operation needs, and that is the
\* scope its holder was told of.  Only the environment's plaintext, which is created anew when
\* the table is empty, may have changed its scope since.
Rightful(r) ==
    /\ req[r].secret # None => told[req[r].secret] # None
    /\ req[r].scope # "none" =>
           /\ req[r].scope \in Need(req[r].op)
           /\ req[r].secret # Env => req[r].scope = told[req[r].secret].scope
    /\ req[r].at = "handle" /\ ~(req[r].op = "read" /\ PublicReads) => req[r].scope # "none"

NobodyActsUntold == \A r \in Request : Rightful(r)

\* A request that ends, or goes on as it is, while no holder but the environment's is told
\* anything new.
LEMMA RightfulFrame ==
    ASSUME NEW r \in Request, Rightful(r), TypeOK, IInv,
           req'[r] = req[r] \/ (req'[r].scope = "none" /\ req'[r].secret = None /\ req'[r].at # "handle"),
           \A p \in Secret : told[p] # None => told'[p] # None /\ (told'[p] = told[p] \/ p = Env)
    PROVE  Rightful(r)'
<1>1. CASE req'[r] = req[r]
  <2>1. req[r].scope # "none" => req[r].secret # None
    BY DEF IInv, ReqOK
  <2>2. req[r].secret \in Secret \cup {None}
    BY DEF TypeOK
  <2>. QED
    BY <1>1, <2>1, <2>2 DEF Rightful
<1>2. CASE req'[r].scope = "none" /\ req'[r].secret = None /\ req'[r].at # "handle"
  BY <1>2 DEF Rightful
<1>. QED
  BY <1>1, <1>2

LEMMA StepRightful ==
    ASSUME IInv, RevokedOut, Untold, NobodyActsUntold, [Next]_vars
    PROVE  NobodyActsUntold'
<1>. TypeOK
  BY DEF IInv
<1>. DEFINE Same(r) == \/ req'[r] = req[r]
                       \/ (req'[r].scope = "none" /\ req'[r].secret = None /\ req'[r].at # "handle")
<1>1. ASSUME \A r \in Request : Same(r),
             \A p \in Secret : told[p] # None => told'[p] # None /\ (told'[p] = told[p] \/ p = Env)
      PROVE  NobodyActsUntold'
  BY <1>1, RightfulFrame DEF NobodyActsUntold
<1>2. ASSUME told' = told, \A r \in Request : Same(r)
      PROVE  NobodyActsUntold'
  BY <1>1, <1>2
<1>3. CASE CliCreate
  <2>1. PICK p \in Secret \ born : (\E n \in Name : told' = [told EXCEPT ![p] = tokens'[n]]) /\ req' = req
    BY <1>3 DEF CliCreate, reqs
  <2>2. (\A q \in Secret : q # p => told'[q] = told[q]) /\ told[p] = None
    BY <2>1 DEF TypeOK, IInv, ToldOK
  <2>. QED
    BY <1>1, <2>1, <2>2
<1>4. ASSUME NEW s \in Server, Bootstrap(s)
      PROVE  NobodyActsUntold'
  <2>1. CASE Taken(Boot, Env)
    BY <1>2, <1>4, <2>1 DEF Bootstrap, table, reqs
  <2>2. CASE ~Taken(Boot, Env)
    <3>1. Insert(Boot, Env, "admin", 0, 0) /\ told' = [told EXCEPT ![Env] = tokens'[Boot]]
          /\ req' = req /\ "admin" \in Scope
      BY <1>4, <2>2 DEF Bootstrap, reqs, Scope
    <3>2. tokens'[Boot] \in Row
      BY <2>2, <3>1, InsertRows
    <3>3. \A p \in Secret : told'[p] = IF p = Env THEN tokens'[Boot] ELSE told[p]
      BY <3>1 DEF TypeOK
    <3>. QED
      BY <1>1, <3>1, <3>2, <3>3
  <2>. QED
    BY <2>1, <2>2
<1>5. ASSUME NEW r \in Request, Mint(r) \/ Serve(r)
      PROVE  NobodyActsUntold'
  <2>1. Ends(r) /\ told' = told
    BY <1>5 DEF Mint, Serve, table
  <2>. QED
    BY <1>2, <2>1, EndsKeeps
<1>6. ASSUME NEW r \in Request, Reply(r)
      PROVE  NobodyActsUntold'
  <2>1. \A q \in Request : req'[q] = IF q = r THEN Idle ELSE req[q]
    BY <1>6 DEF Reply, TypeOK
  <2>2. \A q \in Request : Same(q)
    BY <2>1, NoRights
  <2>3. CASE made[r] = None
    BY <1>2, <1>6, <2>2, <2>3 DEF Reply
  <2>4. CASE made[r] # None
    <3>1. made[r].secret \in Secret /\ told' = [told EXCEPT ![made[r].secret] = made[r]]
      BY <1>6, <2>4 DEF Reply, TypeOK, Row
    <3>2. \A q \in Secret : told'[q] = IF q = made[r].secret THEN made[r] ELSE told[q]
      BY <3>1 DEF TypeOK
    <3>3. told[made[r].secret] = None
      BY <2>4 DEF Untold
    <3>. QED
      BY <1>1, <2>2, <3>2, <3>3
  <2>. QED
    BY <2>3, <2>4
<1>7. ASSUME NEW s \in Server, Exit(s) \/ Crash(s)
      PROVE  NobodyActsUntold'
  <2>1. told' = told /\ \A r \in Request : req'[r] = req[r] \/ req'[r] = Idle \/ \E p : p # "handle" /\ req'[r] = Left(r, p)
    BY <1>7 DEF Exit, Crash, Gone, table
  <2>. QED
    BY <1>2, <2>1, NoRights
<1>8. ASSUME NEW s \in Server, Start(s) \/ Stop(s) \/ CloseStore(s)
      PROVE  NobodyActsUntold'
  BY <1>2, <1>8 DEF Start, Stop, CloseStore, table, reqs
<1>9. CASE CliRevoke \/ Tick \/ UNCHANGED vars
  BY <1>2, <1>9 DEF CliRevoke, Tick, vars, table, reqs
<1>10. ASSUME NEW r \in Request, Lookup(r)
       PROVE  NobodyActsUntold'
  <2>1. told' = told
    BY <1>10 DEF Lookup, table
  <2>2. CASE Ends(r)
    BY <1>2, <2>1, <2>2, EndsKeeps
  <2>3. ASSUME NEW n \in WithSecret(req[r].secret), tokens[n].scope \in Need(req[r].op),
               req' = [req EXCEPT ![r].at = "handle", ![r].scope = tokens[n].scope, ![r].since = now]
        PROVE  NobodyActsUntold'
    <3>1. n \in Rows /\ tokens[n].secret = req[r].secret /\ req[r].secret \in Secret
      BY <2>3, RowType DEF WithSecret
    <3>2. /\ req'[r].at = "handle" /\ req'[r].scope = tokens[n].scope
          /\ req'[r].secret = req[r].secret /\ req'[r].op = req[r].op
          /\ \A q \in Request : q # r => req'[q] = req[q]
      BY <2>3 DEF TypeOK
    <3>3. told[req[r].secret] # None
      <4>1. None \notin Secret
        OBVIOUS
      <4>. QED
        BY <3>1, <4>1 DEF NobodyActsUntold, Rightful
    <3>4. tokens[n].scope = told[req[r].secret].scope
      <4>1. req[r].secret \in Secret \ revoked
        BY <3>1 DEF RevokedOut
      <4>2. PICK m \in Rows : tokens[m] = told[req[r].secret] /\ told[req[r].secret].secret = req[r].secret
        BY <3>3, <4>1 DEF IInv, TokensKept
      <4>. QED
        BY <3>1, <4>2 DEF TypeOK
    <3>5. tokens[n].scope # "none"
      BY <3>1, RowType DEF Scope
    <3>6. Rightful(r)'
      BY <2>1, <2>3, <3>2, <3>3, <3>4, <3>5 DEF Rightful
    <3>7. ASSUME NEW q \in Request, q # r
          PROVE  Rightful(q)'
      BY <2>1, <3>2, <3>7, RightfulFrame DEF NobodyActsUntold
    <3>. QED
      BY <3>6, <3>7 DEF NobodyActsUntold
  <2>. QED
    BY <1>10, <2>2, <2>3 DEF Lookup
<1>11. ASSUME NEW r \in Request, NEW s \in Server, Arrive(r, s)
       PROVE  NobodyActsUntold'
  <2>1. PICK op \in Op, p \in {q \in Secret : told[q] # None} \cup {None} :
          req' = [req EXCEPT ![r] =
                    [Idle EXCEPT !.server = s, !.op = op, !.secret = p,
                              !.at = IF op = "read" /\ PublicReads THEN "handle" ELSE "lookup"]]
    BY <1>11 DEF Arrive
  <2>2. /\ req'[r].secret = p /\ req'[r].scope = "none" /\ req'[r].op = op
        /\ req'[r].at = IF op = "read" /\ PublicReads THEN "handle" ELSE "lookup"
        /\ \A q \in Request : q # r => req'[q] = req[q]
    BY <2>1 DEF TypeOK, Idle
  <2>3. told' = told
    BY <1>11 DEF Arrive, table
  <2>4. Rightful(r)'
    BY <2>2, <2>3 DEF Rightful
  <2>5. ASSUME NEW q \in Request, q # r
        PROVE  Rightful(q)'
    BY <2>2, <2>3, <2>5, RightfulFrame DEF NobodyActsUntold
  <2>. QED
    BY <2>4, <2>5 DEF NobodyActsUntold
<1>. QED
  BY <1>3, <1>4, <1>5, <1>6, <1>7, <1>8, <1>9, <1>10, <1>11 DEF Next, Process, Handle

LEMMA InitRightful == Init => Untold /\ NobodyActsUntold
BY NoRights DEF Init, Untold, NobodyActsUntold, Rightful

\* Between the lookup of a token and the handler's own statement anything may happen to the
\* table; still no handler works for someone without the scope it requires, and for no one with
\* another scope than they were told (requireToken, requireRead, requireWrite, requireAdmin).
THEOREM RightsAreAsTold == Spec => []NobodyActsUntold
<1>1. Init => IInv /\ RevokedOut /\ Untold /\ NobodyActsUntold
  BY AccessInit, InitRevokedOut, InitRightful
<1>2. IInv /\ RevokedOut /\ Untold /\ NobodyActsUntold /\ [Next]_vars
        => (IInv /\ RevokedOut /\ Untold /\ NobodyActsUntold)'
  BY AccessStep, StepRevokedOut, StepUntold, StepRightful
<1>. QED
  BY <1>1, <1>2, PTL DEF Spec
=============================================================================
