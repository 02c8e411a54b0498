------------------------------- MODULE MCWeixin -------------------------------
EXTENDS Weixin

CONSTANTS ann, bob, bot

Peers == {ann, bob}
Msg(p, t, f) == [peer |-> p, text |-> t, fresh |-> f]

\* A command with and without a context_token, a picture, the bot's own echo.
Messages == {Msg(ann, TRUE, TRUE), Msg(bob, TRUE, TRUE), Msg(ann, TRUE, FALSE),
             Msg(ann, FALSE, TRUE), Msg(bot, TRUE, FALSE)}

\* A command and a picture of one user.
MessagesFew == {Msg(ann, TRUE, TRUE), Msg(ann, FALSE, TRUE)}
===============================================================================
