------------------------------- MODULE Tools -------------------------------
(***************************************************************************)
(* What a chat line, a JSON-RPC line or a tool_use block comes down to:    *)
(* which request, if any, is sent to the shipd server (internal/gateway/   *)
(* parser.go and gateway.go, internal/mcp, internal/client).  Arguments    *)
(* are abstracted to the set of those that are there and not empty.        *)
(***************************************************************************)
EXTENDS Naturals, Sequences

(* The HTTP client: a GET changes nothing, a POST may. *)

\* What a tool comes down to; with "refuse" and "local" nothing is sent: its arguments
\* are refused, or it answers by itself.
Request == [op : {"stats", "apps", "releases", "release", "latest", "publish", "promote",
                  "yank", "unyank", "gc", "token", "refuse", "local"},
            write : BOOLEAN]

Get(op) == [op |-> op, write |-> FALSE]
Post(op) == [op |-> op, write |-> TRUE]

Refuse == Get("refuse")
Local == Get("local")
Sends(r) == r.op \notin {"refuse", "local"}

Stats == Get("stats")
Apps == Get("apps")
Releases == Get("releases")
Release == Get("release")
Latest == Get("latest")
Publish(app) == IF app THEN Post("publish") ELSE Refuse
Promote == Post("promote")
Yank == Post("yank")
Unyank == Post("unyank")
\* Without delete=true the collection only lists what it would take.
GC(delete) == [op |-> "gc", write |-> delete]
CreateToken == Post("token")

-----------------------------------------------------------------------------
(* The tools *)

listAppsTool(args) == Apps

listReleasesTool(args) == IF "app" \in args THEN Releases ELSE Refuse

getReleaseTool(args) ==
    IF "app" \notin args THEN Refuse ELSE IF "version" \in args THEN Release ELSE Latest

yankReleaseTool(args) == IF {"app", "version"} \subseteq args THEN Yank ELSE Refuse

unyankReleaseTool(args) == IF {"app", "version"} \subseteq args THEN Unyank ELSE Refuse

statsTool(args) == Stats

\* No arguments at all, or ill-typed ones, do not parse.
gcTool(args) == IF args \cap {"keep_last<0", "malformed"} # {} THEN Refuse ELSE GC("delete" \in args)

createTokenTool(args) == IF "name" \in args THEN CreateToken ELSE Refuse

promoteReleaseTool(args) ==
    IF {"app", "version", "to_channel"} \subseteq args THEN Promote ELSE Refuse

\* The file has to be there; its name stands in for a missing app, unless nothing is
\* left of it.
publishTool(args) ==
    IF {"file_path", "version", "readable"} \subseteq args
    THEN Publish("app" \in args \/ "inferable" \in args)
    ELSE Refuse

\* The URL is put together here, after the newest version was asked for if none was given.
downloadURLTool(args) ==
    IF "app" \notin args THEN Refuse ELSE IF "version" \in args THEN Local ELSE Latest

\* Call of the registered tool of that name; there may be none.
Call(tool, args) ==
    CASE tool = "list_apps"       -> listAppsTool(args)
      [] tool = "list_releases"   -> listReleasesTool(args)
      [] tool = "get_release"     -> getReleaseTool(args)
      [] tool = "yank_release"    -> yankReleaseTool(args)
      [] tool = "unyank_release"  -> unyankReleaseTool(args)
      [] tool = "promote_release" -> promoteReleaseTool(args)
      [] tool = "publish"         -> publishTool(args)
      [] tool = "download_url"    -> downloadURLTool(args)
      [] tool = "stats"           -> statsTool(args)
      [] tool = "gc"              -> gcTool(args)
      [] tool = "create_token"    -> createTokenTool(args)
      [] OTHER                    -> Refuse

Use(tool, args) == [tool |-> tool, args |-> args]

-----------------------------------------------------------------------------
(* What is to be done with an incoming message: nothing, an answer without any call, *)
(* a call, or a question for the agent.                                              *)

Plan(do, uses) == [do |-> do, uses |-> uses]

Ignore == Plan("ignore", <<>>)
Answer == Plan("answer", <<>>)
Ask == Plan("ask", <<>>)
Run(tool, args) == Plan("call", <<Use(tool, args)>>)

\* yank <app>@<version> [key=value ...]: the pairs are handed on as they are, over what
\* the reference says.
ParseYank(t) ==
    IF "version" \notin t.ref \/ "no =" \in t.keys THEN Answer
    ELSE Run("yank_release", (t.ref \cup t.keys) \ t.blank)

\* promote <app>@<version> to=<channel> [from=<channel>].
ParsePromote(t) ==
    IF "version" \notin t.ref \/ ~(t.keys \subseteq {"to", "from"}) \/ "to" \notin t.keys THEN Answer
    ELSE Run("promote_release", t.ref \cup (IF "to" \in t.blank THEN {} ELSE {"to_channel"}))

\* parseCommand and what Dispatch makes of it.  A text is its verb, whether a word
\* follows, which of app and version that word names, the keys after it and those of them
\* that are given no value.
Dispatch(t, agent) ==
    CASE t.verb = "help"            -> Answer
      [] t.verb = "ask"             -> IF t.word /\ agent THEN Ask ELSE Answer
      [] t.verb = "stats"           -> Run("stats", {})
      [] t.verb = "list" /\ ~t.word -> Run("list_apps", {})
      [] t.verb = "list" /\ t.word  -> Run("list_releases", {"app"})
      [] t.verb = "info" /\ t.word  -> Run("get_release", t.ref)
      [] t.verb = "url" /\ t.word   -> Run("download_url", t.ref)
      [] t.verb = "yank" /\ t.word  -> ParseYank(t)
      [] t.verb = "promote" /\ t.word -> ParsePromote(t)
      [] OTHER                      -> Answer

\* handleLine.  A line is whether it is JSON and of version 2.0, its method, whether its
\* params parse, and the tool and arguments of a tools/call.
HandleLine(l) ==
    IF ~l.json THEN Ignore
    ELSE IF ~l.v2 THEN Answer
    ELSE CASE l.method \in {"notifications/initialized", "initialized"} -> Ignore
           [] l.method = "tools/call" /\ l.params -> Run(l.tool, l.args)
           [] OTHER -> Answer
=============================================================================
