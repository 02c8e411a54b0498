------------------------------- MODULE Gateway -------------------------------
(***************************************************************************)
(* A front end of shipd from the message to the answer: a chat adapter of  *)
(* one kind (internal/gateway) or the MCP server on stdio (internal/mcp),  *)
(* the router, the agent's tool loop (internal/ai) and the HTTP client     *)
(* (internal/client).  The platform, the model and the shipd server are    *)
(* external: a request that was sent is applied or refused at any time     *)
(* later, and its answer may be lost.                                      *)
(***************************************************************************)
EXTENDS Tools, FiniteSets, SequencesExt

CONSTANTS
    Kinds,          \* kinds of front end to start with
    Texts, Lines,   \* what people write, what MCP clients write
    Turns,          \* the tool_use blocks a model may answer with
    MaxTurns,       \* maxIterations
    Agent,          \* an API key for the model is configured
    MaxMsg, MaxAsk, MaxTries, MaxSent,  \* bounds: messages, questions to the agent,
                    \* deliveries of a message, deliveries
    MaxFaults       \* bound: lost acknowledgements and answers, signals and kills

ASSUME GatewayConstants ==
    /\ Kinds \subseteq {"slack", "hook", "ws", "stdio", "mcp"}
    /\ Turns \subseteq Seq([tool : STRING, args : SUBSET STRING])
    /\ MaxTurns \in Nat \ {0} /\ Agent \in BOOLEAN
    /\ {MaxMsg, MaxAsk, MaxSent, MaxFaults} \subseteq Nat /\ MaxTries \in Nat \ {0}

VARIABLES
    kind,       \* slack (Socket Mode), hook (a webhook: Feishu, WeChat Work), ws (Feishu's
                \* long connection), stdio (the REPL) or mcp
    posted,     \* the messages written so far: what is to be done, whether quietly
    tries,      \* how often the platform has delivered each
    acked,      \* messages whose acknowledgement the platform has seen
    queue,      \* deliveries the front end has not taken: channel, connection or pipe
    up, cancelled,  \* the process; whether its context is cancelled
    reading,    \* past the check of the context, in the read of the next line
    eof,        \* the other end of stdin is closed
    job,        \* each delivery's dispatch
    net,        \* requests to the shipd server that are under way, or their answers
    faults,     \* history: how often the outside interfered
    log,        \* history: what the shipd server has applied
    out         \* history: the deliveries that were answered

pipe == <<kind, posted, tries, acked, queue, faults>>
process == <<up, cancelled, reading, eof>>
vars == <<pipe, process, job, net, log, out>>

Delivery == (1..MaxMsg) \X (1..MaxTries)

Line == kind \in {"stdio", "mcp"}
Inline == kind \in {"slack", "stdio", "mcp"}

\* told: the last round whose calls were announced; missed: the rounds of which a line did
\* not get to the chat.
NoJob == [at |-> "none", uses |-> <<>>, results |-> <<>>, turn |-> 0, told |-> 0, missed |-> {}]

Active(d) == job[d].at \in {"work", "wait", "model", "stream", "reply"}
Busy == \E d \in Delivery : Active(d)
PlanOf(d) == posted[d[1]].plan
Sent == {d \in Delivery : d[2] <= tries[d[1]]}

-----------------------------------------------------------------------------
(* Messages come in *)

\* Someone writes a message, or an MCP client a request or a notification.  The adapters
\* skip what bots wrote, what is no text and what is not for them.
Write ==
    /\ up /\ ~eof /\ Len(posted) < MaxMsg /\ Cardinality(Sent) < MaxSent
    /\ \E m \in IF kind = "mcp" THEN [plan : {HandleLine(l) : l \in Lines}, quiet : BOOLEAN]
                ELSE [plan : {Dispatch(t, Agent) : t \in Texts}
                               \cup (IF kind = "stdio" THEN {} ELSE {Ignore}),
                      quiet : {FALSE}] :
        /\ posted' = Append(posted, m)
        /\ Cardinality({n \in DOMAIN posted' : posted'[n].plan = Ask}) <= MaxAsk
    /\ tries' = [tries EXCEPT ![Len(posted) + 1] = 1]
    /\ queue' = Append(queue, <<Len(posted) + 1, 1>>)
    /\ UNCHANGED <<kind, acked, faults, process, job, net, log, out>>

\* An event that is not acknowledged within a few seconds is delivered once more.  A free
\* loop takes an event within that time; a busy one, or none, leaves it waiting.
Late(n) == (kind = "slack" /\ Busy) \/ \A d \in ToSet(queue) : d[1] # n

Redeliver ==
    /\ up /\ ~Line
    /\ \E n \in 1..Len(posted) :
        /\ n \notin acked /\ Late(n) /\ tries[n] < MaxTries /\ Cardinality(Sent) < MaxSent
        /\ tries' = [tries EXCEPT ![n] = @ + 1]
        /\ queue' = Append(queue, <<n, tries[n] + 1>>)
    /\ UNCHANGED <<kind, posted, acked, faults, process, job, net, log, out>>

Fault == faults < MaxFaults /\ faults' = faults + 1

\* An acknowledgement, which may not arrive.
Ack(n) ==
    \/ acked' = acked \cup {n} /\ UNCHANGED faults
    \/ Fault /\ UNCHANGED acked

\* A dispatch begins, unless the adapter skips the message.
Begins(d) ==
    job' = [job EXCEPT ![d] =
              [NoJob EXCEPT !.uses = PlanOf(d).uses,
                            !.at = CASE PlanOf(d).do = "ignore" -> "done"
                                     [] PlanOf(d).do = "answer" -> "reply"
                                     [] PlanOf(d).do = "call"   -> "work"
                                     [] PlanOf(d).do = "ask"    -> "model"]]

\* Mutant of TakeSlack: a goroutine for each event.
TakeSlackAsync ==
    /\ kind = "slack" /\ up /\ queue # <<>>
    /\ queue' = Tail(queue)
    /\ Ack(Head(queue)[1]) /\ Begins(Head(queue))
    /\ UNCHANGED <<kind, posted, tries, process, net, log, out>>

\* The loop of Run takes the next event when the dispatch of the last is over.
TakeSlack ==
    /\ kind = "slack" /\ up /\ ~Busy /\ queue # <<>>
    /\ queue' = Tail(queue)
    /\ Ack(Head(queue)[1]) /\ Begins(Head(queue))
    /\ UNCHANGED <<kind, posted, tries, process, net, log, out>>

\* An HTTP callback: 200 first, then a goroutine.
TakeHook ==
    /\ kind = "hook" /\ up /\ queue # <<>>
    /\ queue' = Tail(queue)
    /\ Ack(Head(queue)[1]) /\ Begins(Head(queue))
    /\ UNCHANGED <<kind, posted, tries, process, net, log, out>>

\* The SDK calls the handler, on a goroutine of its own; the frame is answered when the
\* handler returns.
TakeWs ==
    /\ kind = "ws" /\ up /\ queue # <<>>
    /\ queue' = Tail(queue) /\ Begins(Head(queue))
    /\ IF PlanOf(Head(queue)).do = "ignore" THEN Ack(Head(queue)[1]) ELSE UNCHANGED <<acked, faults>>
    /\ UNCHANGED <<kind, posted, tries, process, net, log, out>>

\* The loops over the lines of stdin: the context is looked at before each read.
CheckContext ==
    /\ Line /\ up /\ ~Busy /\ ~reading /\ ~cancelled
    /\ reading' = TRUE
    /\ UNCHANGED <<pipe, up, cancelled, eof, job, net, log, out>>

TakeLine ==
    /\ Line /\ up /\ reading /\ queue # <<>>
    /\ queue' = Tail(queue) /\ Begins(Head(queue)) /\ reading' = FALSE
    /\ UNCHANGED <<kind, posted, tries, acked, faults, up, cancelled, eof, net, log, out>>

Take == TakeSlack \/ TakeHook \/ TakeWs \/ TakeLine

-----------------------------------------------------------------------------
(* The dispatch of a delivery: the agent, the tools and the client *)

At(d, p) == job' = [job EXCEPT ![d].at = p]
Over(d, p) == [NoJob EXCEPT !.at = p, !.told = job[d].told, !.missed = job[d].missed]
Result(d, r) == job' = [job EXCEPT ![d].at = "work", ![d].results = Append(@, r)]
Next1(d) == Len(job[d].results) + 1
Reads(d) == Call(job[d].uses[Next1(d)].tool, job[d].uses[Next1(d)].args)
Mine(q, d) == q.job = d /\ q.turn = job[d].turn /\ q.i = Next1(d)
Waits(q) == job[q.job].at = "wait" /\ Mine(q, q.job)

\* The model's answer: the end of the turn, an error (always with the context cancelled),
\* or tools to be used.
Messages(d) ==
    /\ job[d].at = "model"
    /\ \/ At(d, "reply")
       \/ /\ ~cancelled
          /\ \E uses \in Turns :
               job' = [job EXCEPT ![d].at = "stream", ![d].uses = uses, ![d].results = <<>>,
                                  ![d].turn = @ + 1]
    /\ UNCHANGED <<pipe, process, net, log, out>>

\* Mutant of StreamProgress: the model's comments only.
StreamText(d) ==
    /\ job[d].at = "stream" /\ At(d, "work")
    /\ UNCHANGED <<pipe, process, net, log, out>>

\* A line to the chat for each tool that is about to be called.  If one does not get there
\* that is logged, and the tools are run all the same.
StreamProgress(d) ==
    /\ job[d].at = "stream"
    /\ \/ /\ job' = [job EXCEPT ![d].at = "work", ![d].told = job[d].turn]
          /\ UNCHANGED faults
       \/ /\ job' = [job EXCEPT ![d].at = "work", ![d].told = job[d].turn,
                                ![d].missed = @ \cup {job[d].turn}]
          /\ IF cancelled THEN UNCHANGED faults ELSE Fault
    /\ UNCHANGED <<kind, posted, tries, acked, queue, process, net, log, out>>

\* Mutant of TurnEnds: one round too many.
TurnEndsLate(d) ==
    /\ job[d].at = "work" /\ Next1(d) > Len(job[d].uses)
    /\ At(d, IF PlanOf(d).do = "ask" /\ job[d].turn <= MaxTurns THEN "model" ELSE "reply")
    /\ UNCHANGED <<pipe, process, net, log, out>>

\* Every call has its result: back to the model, unless that was the last iteration.
TurnEnds(d) ==
    /\ job[d].at = "work" /\ Next1(d) > Len(job[d].uses)
    /\ At(d, IF PlanOf(d).do = "ask" /\ job[d].turn < MaxTurns THEN "model" ELSE "reply")
    /\ UNCHANGED <<pipe, process, net, log, out>>

\* Mutant of RunTool: no result for a tool that is not there or refuses.
RunToolSkips(d) ==
    /\ job[d].at = "work" /\ Next1(d) <= Len(job[d].uses)
    /\ IF ~Sends(Reads(d)) THEN UNCHANGED <<job, net>>
       ELSE /\ At(d, "wait")
            /\ net' = net \cup {[job |-> d, turn |-> job[d].turn, i |-> Next1(d),
                                 write |-> Reads(d).write, st |-> "sent"]}
    /\ UNCHANGED <<pipe, process, log, out>>

\* The next call: refused or answered on the spot, or sent.  With the context cancelled
\* no request leaves the client.
RunTool(d) ==
    /\ job[d].at = "work" /\ Next1(d) <= Len(job[d].uses)
    /\ IF ~Sends(Reads(d))
       THEN Result(d, IF Reads(d) = Local THEN "ok" ELSE "refused") /\ UNCHANGED net
       ELSE IF cancelled THEN Result(d, "failed") /\ UNCHANGED net
       ELSE /\ At(d, "wait")
            /\ net' = net \cup {[job |-> d, turn |-> job[d].turn, i |-> Next1(d),
                                 write |-> Reads(d).write, st |-> "sent"]}
    /\ UNCHANGED <<pipe, process, log, out>>

\* Mutant of Answered: do takes every status for a success.
AnsweredAnyStatus(d) ==
    /\ job[d].at = "wait"
    /\ \E q \in net :
        /\ Mine(q, d) /\ q.st # "sent"
        /\ net' = net \ {q} /\ Result(d, "ok")
    /\ UNCHANGED <<pipe, process, log, out>>

\* The server's answer: below 400 a success, anything else an error.
Answered(d) ==
    /\ job[d].at = "wait"
    /\ \E q \in net :
        /\ Mine(q, d) /\ q.st # "sent"
        /\ net' = net \ {q} /\ Result(d, q.st)
    /\ UNCHANGED <<pipe, process, log, out>>

\* A transport error, the cancelled context or an answer that does not decode.  The
\* request may still be on its way.
Fails(d) ==
    /\ job[d].at = "wait" /\ Result(d, "failed")
    /\ IF cancelled THEN UNCHANGED faults ELSE Fault
    /\ net' = {q \in net : ~(Mine(q, d) /\ q.st # "sent")}
    /\ UNCHANGED <<kind, posted, tries, acked, queue, process, log, out>>

\* Mutant of Reply: notifications are answered too.
ReplyAll(d) ==
    /\ job[d].at = "reply" /\ job' = [job EXCEPT ![d] = Over(d, "done")]
    /\ out' = Append(out, d)
    /\ IF kind = "ws" THEN Ack(d[1]) ELSE UNCHANGED <<acked, faults>>
    /\ UNCHANGED <<kind, posted, tries, queue, process, net, log>>

\* The answer, or an error in its place, is written or posted to the chat; notifications
\* get none.
Reply(d) ==
    /\ job[d].at = "reply" /\ job' = [job EXCEPT ![d] = Over(d, "done")]
    /\ \/ ~posted[d[1]].quiet /\ out' = Append(out, d)
       \/ (posted[d[1]].quiet \/ ~Line) /\ UNCHANGED out
    /\ IF kind = "ws" THEN Ack(d[1]) ELSE UNCHANGED <<acked, faults>>
    /\ UNCHANGED <<kind, posted, tries, queue, process, net, log>>

Handle(d) ==
    \/ Messages(d) \/ StreamProgress(d) \/ TurnEnds(d)
    \/ RunTool(d) \/ Answered(d) \/ Fails(d) \/ Reply(d)

\* The shipd server applies a request or refuses it, whether someone waits or not.
Serve(q) ==
    /\ q.st = "sent"
    /\ \E st \in {"ok", "refused"} :
        /\ net' = (net \ {q}) \cup (IF Waits(q) THEN {[q EXCEPT !.st = st]} ELSE {})
        /\ log' = IF st = "ok" /\ q.write
                  THEN Append(log, [job |-> q.job, turn |-> q.turn, i |-> q.i, late |-> ~Waits(q)])
                  ELSE log
    /\ UNCHANGED <<pipe, process, job, out>>

-----------------------------------------------------------------------------
(* The process *)

Start ==
    /\ ~up /\ ~Line
    /\ up' = TRUE /\ cancelled' = FALSE
    /\ UNCHANGED <<pipe, reading, eof, job, net, log, out>>

\* SIGINT or SIGTERM.
Signal ==
    /\ up /\ ~cancelled /\ Fault
    /\ cancelled' = TRUE
    /\ UNCHANGED <<kind, posted, tries, acked, queue, up, reading, eof, job, net, log, out>>

CloseStdin ==
    /\ Line /\ up /\ ~eof
    /\ eof' = TRUE
    /\ UNCHANGED <<pipe, up, cancelled, reading, job, net, log, out>>

\* The process is over, with the dispatches it had begun and what it had not taken.
Down ==
    /\ up' = FALSE /\ queue' = <<>> /\ reading' = FALSE
    /\ job' = [d \in Delivery |-> IF Active(d) THEN Over(d, "cut") ELSE job[d]]
    /\ net' = {q \in net : q.st = "sent"}
    /\ UNCHANGED <<kind, posted, tries, acked, cancelled, eof, log, out>>

\* Run returns: the webhook's at once, the others' when they look at the context.
Return ==
    /\ up /\ cancelled
    /\ kind = "slack" => ~Busy
    /\ Line => ~Busy /\ ~reading
    /\ Down /\ UNCHANGED faults

\* Mutant of EndOfInput: an end of input does not end the loop.
EndOfInputIgnored ==
    /\ up /\ reading /\ queue = <<>> /\ eof /\ reading' = FALSE
    /\ UNCHANGED <<pipe, up, cancelled, eof, job, net, log, out>>

EndOfInput == up /\ reading /\ queue = <<>> /\ eof /\ Down /\ UNCHANGED faults

Kill == up /\ Down /\ Fault

-----------------------------------------------------------------------------
Init ==
    /\ kind \in Kinds
    /\ posted = <<>> /\ tries = [n \in 1..MaxMsg |-> 0] /\ acked = {} /\ queue = <<>>
    /\ up = TRUE /\ cancelled = FALSE /\ reading = FALSE /\ eof = FALSE
    /\ job = [d \in Delivery |-> NoJob]
    /\ net = {} /\ faults = 0 /\ log = <<>> /\ out = <<>>

Dispatching == \E d \in Delivery : Handle(d)
Serving == \E q \in net : Serve(q)

Next ==
    \/ Write \/ Redeliver \/ Take \/ CheckContext
    \/ Dispatching \/ Serving
    \/ Start \/ Signal \/ CloseStdin \/ Return \/ EndOfInput \/ Kill

Spec == Init /\ [][Next]_vars

\* The front end takes its steps; the model has a timeout; the shipd server answers, or
\* the connection fails: the client has no timeout of its own.
FairSpec ==
    /\ Spec
    /\ WF_vars(Take) /\ WF_vars(CheckContext \/ EndOfInput \/ Return)
    /\ \A d \in Delivery : WF_vars(Handle(d) \/ \E q \in net : Waits(q) /\ q.job = d /\ Serve(q))

-----------------------------------------------------------------------------
(* Properties *)

Applied(d, i) == \E k \in 1..Len(log) : log[k].job = d /\ log[k].turn = job[d].turn /\ log[k].i = i

UseType == [tool : STRING, args : SUBSET STRING]
Place == {"none", "work", "wait", "model", "stream", "reply", "done", "cut"}

\* The type of the state; no dispatch outlives its iterations or its process.
TypeOK ==
    /\ kind \in Kinds
    /\ Len(posted) <= MaxMsg /\ acked \subseteq 1..Len(posted)
    /\ tries \in [1..MaxMsg -> 0..MaxTries]
    /\ ToSet(queue) \subseteq Delivery
    /\ {up, cancelled, reading, eof} \subseteq BOOLEAN /\ faults \in 0..MaxFaults
    /\ \A d \in Delivery :
        /\ job[d].at \in Place /\ job[d].turn \in 0..MaxTurns /\ job[d].told \in 0..MaxTurns
        /\ job[d].missed \subseteq 1..MaxTurns
        /\ ToSet(job[d].results) \subseteq {"ok", "refused", "failed"}
        /\ Active(d) => up
    /\ \A q \in net : q.job \in Delivery /\ q.turn \in 0..MaxTurns /\ q.st \in {"sent", "ok", "refused"}

\* What the model and the chat are told of the calls is paired with them one by one and
\* true: a success was applied, a refusal was not.
ResultsTrue ==
    \A d \in Delivery :
        /\ Len(job[d].results) <= Len(job[d].uses)
        /\ job[d].at = "model" => Len(job[d].results) = Len(job[d].uses)
        /\ \A i \in 1..Len(job[d].results) :
            LET r == Call(job[d].uses[i].tool, job[d].uses[i].args)
            IN  /\ job[d].results[i] = "ok" /\ r.write => Applied(d, i)
                /\ job[d].results[i] = "refused" => ~Applied(d, i)

\* Whatever an agent does was announced before it was done; the announcement is in the chat
\* unless something failed.
EffectsAnnounced ==
    \A k \in 1..Len(log) :
        LET j == job[log[k].job]
        IN  PlanOf(log[k].job).do = "ask" =>
                log[k].turn <= j.told /\ (faults = 0 => log[k].turn \notin j.missed)

\* Where messages are taken one at a time, commands take effect in the order they were
\* written, except for a request that was given up and a message delivered again.
OrderKept ==
    Inline => \A k, l \in 1..Len(log) :
        k < l /\ ~log[l].late /\ log[k].job[2] = 1 /\ log[l].job[2] = 1
            => log[k].job[1] <= log[l].job[1]

\* A delivery is answered at most once, in order where messages are taken one at a time,
\* and never when it asked for no answer.
AnswersOnce ==
    /\ \A k \in 1..Len(out) : ~posted[out[k][1]].quiet /\ PlanOf(out[k]).do # "ignore"
    /\ \A k, l \in 1..Len(out) : k < l => out[k] # out[l]
    /\ Inline => \A k, l \in 1..Len(out) :
        k < l /\ out[k][2] = 1 /\ out[l][2] = 1 => out[k][1] < out[l][1]

Pending(n) == \E d \in Delivery : d[1] = n /\ (d \in ToSet(queue) \/ Active(d))

\* Every message taken is handled to its end, whatever the model asks for and the server
\* answers, unless the process goes down first.
EverySettled == \A n \in 1..MaxMsg : Pending(n) ~> ~Pending(n)

\* `shipd mcp serve` and the REPL end when their input does.
EofEnds == eof ~> ~up

\* Ack first: Slack retries any event that is not acked within a few seconds, which would
\* replay shipd commands (slack.go:122-123).
NoReplay ==
    \A d, e \in Delivery :
        d[1] = e[1] /\ job[d].at # "none" /\ job[e].at # "none" => d = e
=============================================================================
