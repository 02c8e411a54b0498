------------------------------ MODULE MCGateway ------------------------------
EXTENDS Gateway, TLC

Chat(verb, word, ref, keys) ==
    [verb |-> verb, word |-> word, ref |-> ref, keys |-> keys, blank |-> {}]

\* One text per way through the parser that the properties tell apart.
SomeTexts ==
    { Chat("ask", TRUE, {}, {}),
      Chat("yank", TRUE, {"app", "version"}, {"reason"}) }

Rpc(method, params, tool, args) ==
    [json |-> TRUE, v2 |-> TRUE, method |-> method, params |-> params, tool |-> tool, args |-> args]

SomeLines ==
    { [Rpc("ping", FALSE, "", {}) EXCEPT !.json = FALSE], Rpc("ping", FALSE, "", {}),
      Rpc("tools/call", TRUE, "unyank_release", {"app", "version"}),
      Rpc("tools/call", TRUE, "download_url", {"app", "version"}),
      Rpc("tools/call", TRUE, "create_token", {}) }

\* Two calls, one of them to a tool that does not exist.
SomeTurns ==
    LET w == Use("promote_release", {"app", "version", "to_channel"})
        n == Use("no_such_tool", {})
    IN  {<<n, w>>}

AllKinds == {"slack", "hook", "ws", "stdio", "mcp"}
SlackOnly == {"slack"}
=============================================================================
